--------------------------- MODULE WorkflowStates ---------------------------
(* The workflow states of a workspace and the records in them: its tasks, or    *)
(* its flows (workspace/service.ts, resource/base.service.ts).  The two kinds   *)
(* have states of their own.                                                    *)
EXTENDS Naturals

CONSTANTS
    Items,     \* tasks, or flows
    States,
    Changers,  \* bound: requests at once
    Nobody     \* no state: the item does not exist

VARIABLES
    kind,      \* "task" or "flow": what the items and states are
    archived,  \* archived states
    place,     \* workflowStateId of each item
    change,    \* progress of each request
    late       \* items put into a state that was archived, or that a request to
               \* archive it had already emptied

workflowVars == <<kind, archived, place, change, late>>

NoChange == [pc |-> "idle"]
Placing == [pc : {"placing"}, item : Items, to : States, stale : BOOLEAN]
Archiving == [pc : {"read", "moved"}, from : States, to : States, rows : SUBSET Items]

WorkflowTypeOK ==
    /\ kind \in {"task", "flow"}
    /\ archived \subseteq States
    /\ place \in [Items -> States \cup {Nobody}]
    /\ change \in [Changers -> Placing \cup Archiving \cup {NoChange}]
    /\ late \subseteq Items

WorkflowInit ==
    /\ kind \in {"task", "flow"}
    /\ archived = {}
    /\ place = [i \in Items |-> Nobody]
    /\ change = [r \in Changers |-> NoChange]
    /\ late = {}

------------------------------------------------------------------------------
Locked(i) == \E r \in Changers : change[r].pc = "moved" /\ i \in change[r].rows
Emptied(s) == \E r \in Changers : change[r].pc = "moved" /\ change[r].from = s
Outdated(q, S) == [r \in Changers |->
    IF q[r].pc = "placing" /\ q[r].item \in S THEN [q[r] EXCEPT !.stale = TRUE] ELSE q[r]]

(* state(): creating or updating a record reads the state it is to have.        *)
PlaceRead(r, i, s) ==
    /\ change[r] = NoChange
    /\ s \notin archived
    /\ change' = [change EXCEPT ![r] = [pc |-> "placing", item |-> i, to |-> s, stale |-> FALSE]]
    /\ UNCHANGED <<kind, archived, place, late>>

(* The insert, or the update under the version of the item, and the commit.     *)
PlaceWrite(r) ==
    LET i == change[r].item  s == change[r].to IN
    /\ change[r].pc = "placing"
    /\ ~change[r].stale /\ ~Locked(i)
    /\ place' = [place EXCEPT ![i] = s]
    /\ late' = IF s \in archived \/ Emptied(s) THEN late \cup {i} ELSE late \ {i}
    /\ change' = Outdated([change EXCEPT ![r] = NoChange], {i})
    /\ UNCHANGED <<kind, archived>>

(* archiveWorkflowState reads the state and its replacement,                    *)
ArchiveRead(r, s, t) ==
    /\ change[r] = NoChange
    /\ s # t /\ s \notin archived /\ t \notin archived
    /\ change' = [change EXCEPT ![r] = [pc |-> "read", from |-> s, to |-> t, rows |-> {}]]
    /\ UNCHANGED <<kind, archived, place, late>>

(* updates the records it finds in the state,                                   *)
ReassignedNone(s) == {}  \* mutant: records stay in the archived state
Reassigned(s) == {i \in Items : place[i] = s}

ArchiveMove(r) ==
    LET rows == Reassigned(change[r].from) IN
    /\ change[r].pc = "read"
    /\ \A i \in rows : ~Locked(i)
    /\ change' = [change EXCEPT ![r].pc = "moved", ![r].rows = rows]
    /\ UNCHANGED <<kind, archived, place, late>>

(* and commits with the state archived.  The trigger on tasks demands a domain  *)
(* event of every task that changes its state, and none is written here.        *)
ArchiveCommit(r) ==
    LET s == change[r].from  t == change[r].to  rows == change[r].rows IN
    /\ change[r].pc = "moved"
    /\ kind = "task" => rows = {}
    /\ archived' = archived \cup {s}
    /\ place' = [i \in Items |-> IF i \in rows THEN t ELSE place[i]]
    /\ late' = IF t \in archived \/ Emptied(t) THEN late \cup rows ELSE late \ rows
    /\ change' = Outdated([change EXCEPT ![r] = NoChange], rows)
    /\ UNCHANGED kind

(* A stale version, the trigger, or another failure: nothing is written.        *)
FailRequest(r) ==
    /\ change[r] # NoChange
    /\ change' = [change EXCEPT ![r] = NoChange]
    /\ UNCHANGED <<kind, archived, place, late>>

WorkflowNext == \E r \in Changers :
    \/ \E i \in Items, s \in States : PlaceRead(r, i, s)
    \/ \E s, t \in States : ArchiveRead(r, s, t)
    \/ PlaceWrite(r) \/ ArchiveMove(r) \/ ArchiveCommit(r) \/ FailRequest(r)

WorkflowSpec == WorkflowInit /\ [][WorkflowNext]_workflowVars

------------------------------------------------------------------------------
(* No record is in an archived state, unless it was put there by a request that *)
(* had read the state before, and wrote when it was archived or when the        *)
(* request that archived it had already moved the records it found.             *)
NoRecordInArchived == \A i \in Items : place[i] \in archived => i \in late
=============================================================================
