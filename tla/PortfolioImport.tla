-------------------------- MODULE PortfolioImport --------------------------
(* Import of a portfolio bundle into a workspace, and its rollback              *)
(* (portfolio-import/).  Every request carries the same bundle and overrides:   *)
(* others are refused while a batch of the bundle is not rolled back.  Each     *)
(* source key of the bundle stands for one object: a task, project, label or    *)
(* milestone.                                                                   *)
EXTENDS Naturals, FiniteSetsExt

CONSTANTS
    Sources,     \* source keys, each with its object
    Requests,    \* bound: requests to apply or roll back at once
    MaxBatch,    \* bound: batches
    MaxChanges   \* bound: changes of objects in all

VARIABLES
    row,      \* state and version of each object
    mapping,  \* batch of the active mapping of each source key, 0 without one
    created,  \* importCreatedObjects: records [batch, source, version]
    status,   \* of each batch
    request,  \* progress of each request
    maker,    \* batch that created or restored a live object, 0 for a person
    edited,   \* live objects a person changed since
    lost,     \* objects a rollback without override deleted although it could
              \* have known them to be another's or edited when it began
    crowded   \* batches rolled back while an apply of them was under way

importVars == <<row, mapping, created, status, request, maker, edited, lost, crowded>>

Batches == 1 .. MaxBatch
ObjectRow == [state : {"absent", "live", "trashed"}, version : 0 .. MaxChanges]
Created == [batch : Batches, source : Sources, version : 0 .. MaxChanges]
NoImport == [pc |-> "idle"]
Apply == [pc : {"initialized", "importing"}, batch : Batches, left : SUBSET Sources]
Rollback == [pc : {"read"}, batch : Batches, rows : SUBSET Created, unchecked : SUBSET Created,
             foreign : SUBSET Sources]  \* objects it may not delete

ImportTypeOK ==
    /\ row \in [Sources -> ObjectRow]
    /\ mapping \in [Sources -> 0 .. MaxBatch]
    /\ created \subseteq Created
    /\ status \in [Batches -> {"none", "applying", "interrupted", "completed", "rolled_back"}]
    /\ \A r \in Requests : request[r] \in Apply \cup Rollback \cup {NoImport}
    /\ maker \in [Sources -> 0 .. MaxBatch]
    /\ edited \subseteq Sources /\ lost \subseteq Sources /\ crowded \subseteq Batches

ImportInit ==
    /\ row = [s \in Sources |-> [state |-> "absent", version |-> 0]]
    /\ mapping = [s \in Sources |-> 0]
    /\ created = {}
    /\ status = [b \in Batches |-> "none"]
    /\ request = [r \in Requests |-> NoImport]
    /\ maker = [s \in Sources |-> 0]
    /\ edited = {} /\ lost = {} /\ crowded = {}

------------------------------------------------------------------------------
objects == <<row, maker, edited>>
history == <<lost, crowded>>
CanChange(n) == MapThenSumSet(LAMBDA s : row[s].version, Sources) + n <= MaxChanges
Done(r) == [request EXCEPT ![r] = NoImport]
Changed(w, s, state) == [w EXCEPT ![s] = [state |-> state, version |-> @.version + 1]]

(* What people do to the objects; every change takes a new version.             *)
Create(s) ==
    /\ row[s].state = "absent"
    /\ row' = [row EXCEPT ![s].state = "live"]
    /\ UNCHANGED <<mapping, created, status, request, maker, edited, history>>

Edit(s) ==
    /\ row[s].state = "live" /\ CanChange(1)
    /\ row' = Changed(row, s, "live")
    /\ edited' = edited \cup {s}
    /\ UNCHANGED <<mapping, created, status, request, maker, history>>

Trash(s) ==
    /\ row[s].state = "live" /\ CanChange(1)
    /\ row' = Changed(row, s, "trashed")
    /\ maker' = [maker EXCEPT ![s] = 0]
    /\ edited' = edited \ {s}
    /\ UNCHANGED <<mapping, created, status, request, history>>

Restore(s) ==
    /\ row[s].state = "trashed" /\ CanChange(1)
    /\ row' = Changed(row, s, "live")
    /\ UNCHANGED <<mapping, created, status, request, maker, edited, history>>

------------------------------------------------------------------------------
(* apply, and resume, which is the same: the batch in force, or a new one.      *)
InForce == {b \in Batches : status[b] \notin {"none", "rolled_back"}}
Fresh(b) == InForce = {} /\ status[b] = "none" /\ \A c \in Batches : c < b => status[c] # "none"

Initialize(r, b) ==
    /\ request[r] = NoImport
    /\ \/ b \in InForce /\ status[b] # "completed" /\ UNCHANGED status
       \/ Fresh(b) /\ status' = [status EXCEPT ![b] = "applying"]
    /\ request' = [request EXCEPT ![r] = [batch |-> b, left |-> Sources,
                      pc |-> IF status'[b] = "applying" THEN "importing" ELSE "initialized"]]
    /\ UNCHANGED <<mapping, created, objects, history>>

(* The batch was interrupted; it may have another status by now.                *)
MarkApplying(r) ==
    /\ request[r].pc = "initialized"
    /\ status' = [status EXCEPT ![request[r].batch] = "applying"]
    /\ request' = [request EXCEPT ![r].pc = "importing"]
    /\ UNCHANGED <<mapping, created, objects, history>>

(* importMapping: one transaction for each source key.  A key with a mapping is *)
(* left alone, a live object matched, one in the trash restored.                *)
Import(r, s) ==
    LET b == request[r].batch IN
    /\ request[r].pc = "importing" /\ s \in request[r].left
    /\ request' = [request EXCEPT ![r].left = @ \ {s}]
    /\ \/ mapping[s] # 0 /\ UNCHANGED <<mapping, created, objects>>
       \/ /\ mapping[s] = 0 /\ row[s].state = "live"
          /\ mapping' = [mapping EXCEPT ![s] = b]
          /\ UNCHANGED <<created, objects>>
       \/ /\ mapping[s] = 0 /\ row[s].state # "live" /\ CanChange(1)
          /\ mapping' = [mapping EXCEPT ![s] = b]
          /\ row' = Changed(row, s, "live")
          /\ created' = created \cup {[batch |-> b, source |-> s, version |-> row'[s].version]}
          /\ maker' = [maker EXCEPT ![s] = b]
          /\ edited' = edited \ {s}
    /\ UNCHANGED <<status, history>>

Complete(r) ==
    /\ request[r].pc = "importing" /\ request[r].left = {}
    /\ status' = [status EXCEPT ![request[r].batch] = "completed"]
    /\ request' = Done(r)
    /\ UNCHANGED <<mapping, created, objects, history>>

Interrupt(r) ==
    /\ request[r].pc = "importing"
    /\ status' = [status EXCEPT ![request[r].batch] = "interrupted"]
    /\ request' = Done(r)
    /\ UNCHANGED <<mapping, created, objects, history>>

------------------------------------------------------------------------------
(* rollback reads the batch, the last of the bundle, and what it created; a     *)
(* batch already rolled back ends the request.  What the check finds does not   *)
(* matter under the override.                                                   *)
Last(b) == status[b] # "none" /\ \A c \in Batches : c > b => status[c] = "none"
RowsOf(b) == {c \in created : c.batch = b}

RollbackRead(r, b, forced) ==
    /\ request[r] = NoImport
    /\ Last(b) /\ status[b] # "rolled_back"
    /\ request' = [request EXCEPT ![r] = [pc |-> "read", batch |-> b, rows |-> RowsOf(b),
                      unchecked |-> IF forced THEN {} ELSE RowsOf(b),
                      foreign |-> IF forced THEN {} ELSE {c.source : c \in {d \in RowsOf(b) :
                                    maker[d.source] # b \/ d.source \in edited}}]]
    /\ UNCHANGED <<mapping, created, status, objects, history>>

(* editedCreatedObjects: one object after the other.                            *)
UneditedRow(c) ==  \* mutant: only rows that have gone count as edited
    row[c.source].state # "absent"
Unedited(c) == row[c.source].version = c.version

Check(r, c) ==
    /\ request[r].pc = "read" /\ c \in request[r].unchecked
    /\ Unedited(c)
    /\ request' = [request EXCEPT ![r].unchecked = @ \ {c}]
    /\ UNCHANGED <<mapping, created, status, objects, history>>

(* Its transaction deletes whatever has become of the objects.                  *)
RemovedUnedited(r) ==  \* mutant: an edited object is spared, as with a version guard
    {c.source : c \in {d \in request[r].rows : row[d.source].version = d.version}}
Removed(r) == {c.source : c \in request[r].rows}

RollbackCommit(r) ==
    LET b == request[r].batch IN
    /\ request[r].pc = "read" /\ request[r].unchecked = {}
    /\ CanChange(Cardinality(Removed(r)))
    /\ row' = [s \in Sources |-> IF s \in Removed(r)
                                 THEN [state |-> "trashed", version |-> row[s].version + 1] ELSE row[s]]
    /\ mapping' = [s \in Sources |-> IF mapping[s] = b THEN 0 ELSE mapping[s]]
    /\ status' = [status EXCEPT ![b] = "rolled_back"]
    /\ request' = Done(r)
    /\ maker' = [s \in Sources |-> IF s \in Removed(r) THEN 0 ELSE maker[s]]
    /\ edited' = edited \ Removed(r)
    /\ lost' = lost \cup {s \in Removed(r) \cap request[r].foreign : row[s].state = "live"}
    /\ crowded' = IF \/ RowsOf(b) # request[r].rows
                     \/ \E q \in Requests : request[q].pc \in {"initialized", "importing"}
                                            /\ request[q].batch = b
                  THEN crowded \cup {b} ELSE crowded
    /\ UNCHANGED created

(* The process ends, or a rollback is refused or fails: what it committed so    *)
(* far stays.                                                                   *)
Leave(r) ==
    /\ request[r] # NoImport
    /\ request' = Done(r)
    /\ UNCHANGED <<mapping, created, status, objects, history>>

ImportNext ==
    \/ \E s \in Sources : Create(s) \/ Edit(s) \/ Trash(s) \/ Restore(s)
    \/ \E r \in Requests :
          \/ \E b \in Batches : Initialize(r, b) \/ \E f \in BOOLEAN : RollbackRead(r, b, f)
          \/ MarkApplying(r) \/ Complete(r) \/ Interrupt(r)
          \/ \E s \in Sources : Import(r, s)
          \/ \E c \in created : Check(r, c)
          \/ RollbackCommit(r) \/ Leave(r)

ImportSpec == ImportInit /\ [][ImportNext]_importVars

------------------------------------------------------------------------------
(* A rollback without the override deletes nothing that, when it began, a       *)
(* person had edited since the import or that the batch had not made.           *)
EditsKept == lost = {}

(* Once a batch is rolled back no object it made is live, crashes and resumed   *)
(* imports included, unless an apply of the batch ran beside the rollback.      *)
RolledBackGone ==
    \A b \in Batches \ crowded : status[b] = "rolled_back" =>
        \A s \in Sources : row[s].state = "live" => maker[s] # b
=============================================================================
