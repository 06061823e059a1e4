------------------------------ MODULE Blocking ------------------------------
(* Blocking relations between the tasks, or between the flows, of a workspace   *)
(* (resource/relation.service.ts).  The walk reads through connections of its   *)
(* own, one query a level, while the request that adds the relation holds the   *)
(* advisory lock; relations are deleted without it.                             *)
EXTENDS Naturals

CONSTANTS
    Blockable, \* tasks, or flows
    Adders,    \* bound: requests that add a blocking relation at once
    MaxDepth   \* levels hasPath looks at (100 in the code)

VARIABLES
    blocks,  \* committed rows of type 'blocks': pairs <<source, target>>
    adding   \* progress of each request

blockVars == <<blocks, adding>>

Pairs == Blockable \X Blockable
NotAdding == [pc |-> "idle"]
Adding == [pc : {"locking", "walking", "clear"}, source : Blockable, target : Blockable,
           frontier : SUBSET Blockable, visited : SUBSET Blockable, depth : Nat]

BlockingTypeOK ==
    /\ blocks \subseteq Pairs
    /\ adding \in [Adders -> Adding \cup {NotAdding}]

BlockingInit ==
    /\ blocks = {}
    /\ adding = [r \in Adders |-> NotAdding]

------------------------------------------------------------------------------
Holds(r) == adding[r].pc \in {"walking", "clear"}
Free == \A r \in Adders : ~Holds(r)
Finish(r) == adding' = [adding EXCEPT ![r] = NotAdding]

(* createRelation up to its transaction.                                        *)
Submit(r, s, t) ==
    /\ adding[r] = NotAdding
    /\ s # t
    /\ adding' = [adding EXCEPT ![r] = [pc |-> "locking", source |-> s, target |-> t,
                     frontier |-> {t}, visited |-> {}, depth |-> 0]]
    /\ UNCHANGED blocks

LockAny(r) ==  \* mutant: no advisory lock
    /\ adding[r].pc = "locking"
    /\ adding' = [adding EXCEPT ![r].pc = "walking"]
    /\ UNCHANGED blocks
Lock(r) ==
    /\ adding[r].pc = "locking"
    /\ Free
    /\ adding' = [adding EXCEPT ![r].pc = "walking"]
    /\ UNCHANGED blocks

(* hasPath: one turn of its loop.                                               *)
New(r) == adding[r].frontier \ adding[r].visited
Successors(S) == {i \in Blockable : \E s \in S : <<s, i>> \in blocks}
Exhausted(r) == New(r) = {} \/ adding[r].depth >= MaxDepth
Reached(r) == adding[r].depth < MaxDepth /\ adding[r].source \in adding[r].frontier

Level(r) ==
    /\ adding[r].pc = "walking"
    /\ ~Reached(r)
    /\ \/ /\ Exhausted(r)
          /\ adding' = [adding EXCEPT ![r].pc = "clear"]
       \/ /\ ~Exhausted(r)
          /\ adding' = [adding EXCEPT ![r].visited = @ \cup New(r),
                                      ![r].frontier = Successors(New(r)),
                                      ![r].depth = @ + 1]
    /\ UNCHANGED blocks

(* The relation would close a cycle.                                            *)
RefuseRelation(r) ==
    /\ adding[r].pc = "walking"
    /\ Reached(r)
    /\ Finish(r)
    /\ UNCHANGED blocks

(* The insert and the commit; a relation that exists already is a conflict.     *)
InsertRelation(r) ==
    /\ adding[r].pc = "clear"
    /\ blocks' = blocks \cup {<<adding[r].source, adding[r].target>>}
    /\ Finish(r)

(* Its connection fails, or the process ends: the transaction is rolled back.   *)
Abort(r) ==
    /\ Holds(r)
    /\ Finish(r)
    /\ UNCHANGED blocks

(* deleteRelation                                                               *)
DeleteRelation(e) ==
    /\ e \in blocks
    /\ blocks' = blocks \ {e}
    /\ UNCHANGED adding

BlockingNext ==
    \/ \E r \in Adders :
          \/ \E s, t \in Blockable : Submit(r, s, t)
          \/ Lock(r) \/ Level(r) \/ RefuseRelation(r) \/ InsertRelation(r) \/ Abort(r)
    \/ \E e \in blocks : DeleteRelation(e)

BlockingSpec == BlockingInit /\ [][BlockingNext]_blockVars

------------------------------------------------------------------------------
(* g is a path of n of the relations E.                                         *)
Path(E, n, g) == /\ g \in [0 .. n -> Blockable]
                 /\ \A i \in 0 .. n - 1 : <<g[i], g[i + 1]>> \in E

(* No item blocks itself through a chain of at most MaxDepth relations, however *)
(* many requests add and delete relations at once.  Longer cycles are possible: *)
(* hasPath does not look further.                                               *)
NoShortCycle ==
    \A n \in 1 .. MaxDepth : \A g \in [0 .. n -> Blockable] : g[0] = g[n] => ~Path(blocks, n, g)
=============================================================================
