----------------------------- MODULE Hierarchy -----------------------------
(* Parents of tasks (resource/task.service.ts).  updateTask looks for a cycle   *)
(* by reading one ancestor after the other, on connections of its own, and then *)
(* writes under the version of the moved task alone.                            *)
EXTENDS Naturals, FiniteSets

CONSTANTS
    Relatives,     \* tasks
    Movers,        \* bound: requests that give a task a parent at once
    MaxAncestors,  \* ancestors ensureValidParent reads (100 in the code)
    NoParent

ASSUME NoParentAssumption == NoParent \notin Relatives

VARIABLES
    row,     \* rows of tasks: absent, live or trashed
    parent,  \* their parent
    move,    \* progress of each request
    raced    \* tasks whose parent was written after another had been written
             \* since the walk for it began

hierarchyVars == <<row, parent, move, raced>>

NoMove == [pc |-> "idle"]
Move == [pc : {"walking", "writing"}, task : Relatives, to : Relatives \cup {NoParent},
         cursor : Relatives \cup {NoParent}, depth : Nat,
         stale : BOOLEAN,      \* the version it was sent for is gone
         overtaken : BOOLEAN]  \* a parent was written since it began

HierarchyTypeOK ==
    /\ row \in [Relatives -> {"absent", "live", "trashed"}]
    /\ parent \in [Relatives -> Relatives \cup {NoParent}]
    /\ move \in [Movers -> Move \cup {NoMove}]
    /\ raced \subseteq Relatives

HierarchyInit ==
    /\ row = [t \in Relatives |-> "absent"]
    /\ parent = [t \in Relatives |-> NoParent]
    /\ move = [r \in Movers |-> NoMove]
    /\ raced = {}

------------------------------------------------------------------------------
(* Every write of a task's row makes the versions others hold of it stale.      *)
Stale(m, t) == [r \in Movers |->
    IF m[r] # NoMove /\ m[r].task = t THEN [m[r] EXCEPT !.stale = TRUE] ELSE m[r]]
Overtaken(m) == [r \in Movers |->
    IF m[r] # NoMove THEN [m[r] EXCEPT !.overtaken = TRUE] ELSE m[r]]

(* createTask                                                                   *)
CreateTask(t, p) ==
    /\ row[t] = "absent"
    /\ p # NoParent => row[p] = "live"
    /\ row' = [row EXCEPT ![t] = "live"]
    /\ parent' = [parent EXCEPT ![t] = p]
    /\ UNCHANGED <<move, raced>>

(* updateTask up to its walk; without a parent there is none.                   *)
BeginMove(r, t, p) ==
    /\ move[r] = NoMove
    /\ row[t] = "live" /\ p # t
    /\ move' = [move EXCEPT ![r] = [pc |-> IF p = NoParent THEN "writing" ELSE "walking",
                   task |-> t, to |-> p, cursor |-> p, depth |-> 0,
                   stale |-> FALSE, overtaken |-> FALSE]]
    /\ UNCHANGED <<row, parent, raced>>

(* ensureValidParent: one turn of its loop.                                     *)
RefusesParent(r) == \* mutant: the parent itself is all it looks at
    move[r].cursor = move[r].task /\ move[r].depth = 0
Refuses(r) == move[r].cursor = move[r].task

Climb(r) ==
    LET a == move[r].cursor IN
    /\ move[r].pc = "walking"
    /\ a # NoParent
    /\ move[r].depth < MaxAncestors
    /\ row[a] = "live" /\ ~Refuses(r)
    /\ move' = [move EXCEPT ![r].cursor = parent[a], ![r].depth = @ + 1]
    /\ UNCHANGED <<row, parent, raced>>

(* The ancestor is the task, is in the trash, or is one too many.               *)
RefuseMove(r) ==
    /\ move[r].pc = "walking"
    /\ move[r].cursor # NoParent
    /\ \/ move[r].depth >= MaxAncestors
       \/ row[move[r].cursor] # "live"
       \/ Refuses(r)
    /\ move' = [move EXCEPT ![r] = NoMove]
    /\ UNCHANGED <<row, parent, raced>>

Arrive(r) ==
    /\ move[r].pc = "walking"
    /\ move[r].cursor = NoParent
    /\ move' = [move EXCEPT ![r].pc = "writing"]
    /\ UNCHANGED <<row, parent, raced>>

(* The guarded UPDATE and the commit.                                           *)
WriteParent(r) ==
    LET t == move[r].task IN
    /\ move[r].pc = "writing"
    /\ ~move[r].stale /\ row[t] = "live"
    /\ parent' = [parent EXCEPT ![t] = move[r].to]
    /\ move' = Overtaken(Stale([move EXCEPT ![r] = NoMove], t))
    /\ raced' = IF move[r].overtaken THEN raced \cup {t} ELSE raced \ {t}
    /\ UNCHANGED row

(* The version is stale, or the request fails otherwise.                        *)
FailMove(r) ==
    /\ move[r].pc = "writing"
    /\ move' = [move EXCEPT ![r] = NoMove]
    /\ UNCHANGED <<row, parent, raced>>

(* softDelete and restore                                                       *)
Trash(t) ==
    /\ row[t] = "live"
    /\ row' = [row EXCEPT ![t] = "trashed"]
    /\ move' = Stale(move, t)
    /\ UNCHANGED <<parent, raced>>

Restore(t) ==
    /\ row[t] = "trashed"
    /\ row' = [row EXCEPT ![t] = "live"]
    /\ move' = Stale(move, t)
    /\ UNCHANGED <<parent, raced>>

HierarchyNext ==
    \/ \E t \in Relatives, p \in Relatives \cup {NoParent} :
          CreateTask(t, p) \/ \E r \in Movers : BeginMove(r, t, p)
    \/ \E r \in Movers :
          Climb(r) \/ RefuseMove(r) \/ Arrive(r) \/ WriteParent(r) \/ FailMove(r)
    \/ \E t \in Relatives : Trash(t) \/ Restore(t)

HierarchySpec == HierarchyInit /\ [][HierarchyNext]_hierarchyVars

------------------------------------------------------------------------------
(* A task is its own ancestor only where two requests gave parents at once: on  *)
(* every cycle lies a task whose parent was written after another parent had    *)
(* been written since the walk for it began.  A cycle is a set of tasks that    *)
(* the parent of each of them stays in.                                         *)
CyclesRaced ==
    \A S \in SUBSET (Relatives \ raced) : S # {} => \E t \in S : parent[t] \notin S
=============================================================================
