-------------------------- MODULE TaskEventsProofs --------------------------
(* Proofs about the task command stream: its type, the projection, the         *)
(* idempotency keys, and that it implements TaskHistory.                       *)
EXTENDS TaskEvents, TLAPS

USE CommandAssumption

Holds(h) == request[h].phase \in {"looked", "read", "applied"}

(* Who holds which lock: at most one command per key and one per row.          *)
LockInv ==
    /\ \A g, h \in Requests :
          Holds(g) /\ Holds(h) /\ request[g].key = request[h].key => g = h
    /\ \A g, h \in Requests :
          /\ request[g].phase = "applied"
          /\ request[h].phase = "applied"
          /\ request[g].task = request[h].task
          => g = h

(* A key that was looked up and not found stays unused while it is locked.     *)
KeyInv == \A h \in Requests : Holds(h) => ~KeyTaken(request[h].key)

TaskInv ==
    /\ \A h \in Requests : request[h].phase \in {"begun", "looked", "read"} =>
          request[h].task = request[h].command.task
    /\ \A h \in Requests :
          request[h].phase = "read" /\ request[h].command.kind # "create" =>
          row[request[h].command.task] # NoRow

(* What a locked row will become is computed from what it still is.            *)
AppliedInv ==
    \A h \in Requests : request[h].phase = "applied" =>
        LET c == request[h].command  t == request[h].task IN
        /\ t \in Tasks
        /\ c.kind = "create" => row[t] = NoRow /\ request[h].state = Created(c)
        /\ c.kind # "create" => /\ t = c.task
                                /\ row[t] # NoRow
                                /\ Matches(c, row[t])
                                /\ request[h].state = Changed(c, row[t])

(* The versions a task's events record are an interval without repetition.     *)
StreamInv ==
    /\ \A d, e \in events : d.task = e.task /\ d.state.version = e.state.version => d = e
    /\ \A d, e \in events : \A n \in Nat :
          d.task = e.task /\ d.state.version < n /\ n < e.state.version =>
          VersionTaken(d.task, n)
    /\ \A e \in events : row[e.task] # NoRow

RebuildInv ==
    rebuild.phase = "rebuilding" =>
        \E e \in events : e.task = rebuild.task /\ e.state = rebuild.state

IInv ==
    /\ TypeOK
    /\ LockInv
    /\ KeyInv
    /\ TaskInv
    /\ AppliedInv
    /\ StreamInv
    /\ RebuildInv
    /\ RowIsRecorded
    /\ AnswersAgree

-----------------------------------------------------------------------------
LEMMA RequestShape ==
    ASSUME TypeOK, NEW h \in Requests, request[h].phase # "idle"
    PROVE  /\ request[h] \in Request
           /\ request[h].key \in Keys
           /\ request[h].command \in Commands
           /\ request[h].command \in Command
           /\ request[h].task \in Tasks \cup {NoTask}
           /\ request[h].state \in Row \cup {NoRow}
<1>1. request[h] \in Request \cup {Idle}
  BY DEF TypeOK
<1>2. request[h] # Idle
  BY DEF Idle
<1>3. request[h] \in Request
  BY <1>1, <1>2
<1>4. QED
  BY <1>3 DEF Request

LEMMA RowShape ==
    ASSUME TypeOK, NEW t \in Tasks, row[t] # NoRow
    PROVE  /\ row[t] \in Row
           /\ row[t].version \in Nat \ {0}
           /\ row[t].content \in Contents
           /\ row[t].deleted \in BOOLEAN
<1>1. row[t] \in Row
  BY DEF TypeOK
<1>2. QED
  BY <1>1 DEF Row

LEMMA CommandShape ==
    ASSUME NEW c \in Commands
    PROVE  /\ c.kind \in {"create", "update", "review", "delete", "restore", "sync"}
           /\ c.task \in Tasks \cup {NoTask}
           /\ c.kind # "create" => c.task \in Tasks
           /\ c.version \in Nat
           /\ c.content \in Contents
  BY DEF Command

LEMMA ChangedRow ==
    ASSUME NEW c \in Commands, NEW r \in Row
    PROVE  Changed(c, r) \in Row
<1>1. /\ r.version \in Nat \ {0}
      /\ r.content \in Contents
      /\ r.deleted \in BOOLEAN
  BY DEF Row
<1>2. r.version + 1 \in Nat \ {0}
  BY <1>1
<1>3. (IF c.kind \in {"update", "review", "sync"} THEN c.content ELSE r.content) \in Contents
  BY <1>1, CommandShape
<1>4. (c.kind = "delete" \/ (c.kind # "restore" /\ r.deleted)) \in BOOLEAN
  OBVIOUS
<1>5. QED
  BY <1>2, <1>3, <1>4 DEF Changed, Row

LEMMA CreatedRow ==
    ASSUME NEW c \in Commands
    PROVE  Created(c) \in Row
  BY CommandShape DEF Created, Row

LEMMA MigrationShape ==
    /\ MigrationEvents \subseteq Event
    /\ \A t \in Legacy : Backfilled(t) \in Row
<1>1. \A t \in Legacy : Backfilled(t) \in Row
  BY DEF Backfilled, Row
<1>2. QED
  BY <1>1 DEF MigrationEvents, Event

-----------------------------------------------------------------------------
(* The steps of Next, one by one, for the lemmas below.                        *)
LEMMA Steps ==
    ASSUME [Next]_vars
    PROVE  \/ \E h \in Requests, k \in Keys, c \in Commands : Begin(h, k, c)
           \/ \E h \in Requests : Lookup(h)
           \/ \E h \in Requests : ReadBefore(h)
           \/ \E h \in Requests, t \in Tasks : Insert(h, t)
           \/ \E h \in Requests : Update(h)
           \/ \E h \in Requests : Commit(h)
           \/ \E h \in Requests : Abort(h)
           \/ \E h \in Requests : Finish(h)
           \/ \E t \in Tasks : RebuildRead(t)
           \/ RebuildWrite
           \/ UNCHANGED vars
  BY DEF Next, Serve

LEMMA TypeStep ==
    ASSUME TypeOK, TaskInv, AppliedInv, [Next]_vars
    PROVE  TypeOK'
<1>1. ASSUME NEW h \in Requests, NEW k \in Keys, NEW c \in Commands, Begin(h, k, c)
      PROVE  TypeOK'
  <2>1. c.task \in Tasks \cup {NoTask}
    BY CommandShape
  <2>2. [phase |-> "begun", key |-> k, command |-> c, task |-> c.task,
         state |-> NoRow, answer |-> "none"] \in Request
    BY <2>1 DEF Request
  <2>3. QED
    BY <1>1, <2>2 DEF Begin, TypeOK
<1>2. ASSUME NEW h \in Requests, Lookup(h) PROVE TypeOK'
  <2>1. request[h] \in Request
    BY <1>2, RequestShape DEF Lookup
  <2>2. /\ row' = row
        /\ events' = events
        /\ rebuild' = rebuild
    BY <1>2 DEF Lookup
  <2>3. CASE request' = [request EXCEPT ![h].phase = "looked"]
    BY <2>1, <2>2, <2>3 DEF TypeOK, Request
  <2>4. ASSUME NEW e \in events, Answer(h, "replayed", ReplayResult(e)) PROVE TypeOK'
    <3>1. e.state \in Row
      BY DEF TypeOK, Event
    <3>2. QED
      BY <2>1, <2>2, <2>4, <3>1 DEF Answer, ReplayResult, TypeOK, Request
  <2>5. CASE Answer(h, "conflict", NoRow)
    BY <2>1, <2>2, <2>5 DEF Answer, TypeOK, Request
  <2>6. QED
    BY <1>2, <2>3, <2>4, <2>5 DEF Lookup
<1>3. ASSUME NEW h \in Requests, ReadBefore(h) PROVE TypeOK'
  <2>1. request[h] \in Request
    BY <1>3, RequestShape DEF ReadBefore
  <2>2. QED
    BY <1>3, <2>1 DEF ReadBefore, Answer, TypeOK, Request
<1>4. ASSUME NEW h \in Requests, NEW t \in Tasks, Insert(h, t) PROVE TypeOK'
  <2>1. /\ request[h] \in Request
        /\ request[h].command \in Commands
    BY <1>4, RequestShape DEF Insert
  <2>2. Created(request[h].command) \in Row
    BY <2>1, CreatedRow
  <2>3. QED
    BY <1>4, <2>1, <2>2 DEF Insert, TypeOK, Request
<1>5. ASSUME NEW h \in Requests, Update(h) PROVE TypeOK'
  <2>1. /\ request[h] \in Request
        /\ request[h].command \in Commands
    BY <1>5, RequestShape DEF Update
  <2>2. request[h].command.task \in Tasks
    BY <1>5, <2>1, CommandShape DEF Update
  <2>3. Changed(request[h].command, row[request[h].command.task]) \in Row
    BY <1>5, <2>1, <2>2, RowShape, ChangedRow DEF Update, TaskInv
  <2>4. QED
    BY <1>5, <2>1, <2>3 DEF Update, Answer, TypeOK, Request
<1>6. ASSUME NEW h \in Requests, Commit(h) PROVE TypeOK'
  <2>1. /\ request[h] \in Request
        /\ request[h].key \in Keys
        /\ request[h].command \in Commands
    BY <1>6, RequestShape DEF Commit
  <2>2. request[h].task \in Tasks
    BY <1>6 DEF Commit, AppliedInv
  <2>3. request[h].state \in Row
    BY <1>6, <2>1, <2>2, CreatedRow, RowShape, ChangedRow DEF Commit, AppliedInv
  <2>4. row' \in [Tasks -> Row \cup {NoRow}] /\ rebuild' \in Rebuild \cup {Idle}
    BY <1>6, <2>2, <2>3 DEF Commit, TypeOK
  <2>5. [key |-> request[h].key, command |-> request[h].command,
         task |-> request[h].task, state |-> request[h].state] \in Event
    BY <2>1, <2>2, <2>3 DEF Event
  <2>6. events' \subseteq Event
    BY <1>6, <2>5 DEF Commit, TypeOK
  <2>7. request' \in [Requests -> Request \cup {Idle}]
    BY <1>6, <2>1, <2>3 DEF Commit, Answer, TypeOK, Request
  <2>8. QED
    BY <2>4, <2>6, <2>7 DEF TypeOK
<1>7. ASSUME NEW h \in Requests, Abort(h) \/ Finish(h) PROVE TypeOK'
  BY <1>7 DEF Abort, Finish, TypeOK
<1>8. ASSUME NEW t \in Tasks, RebuildRead(t) PROVE TypeOK'
  <2>1. PICK e \in StreamOf(t) :
            rebuild' = [phase |-> "rebuilding", task |-> t, state |-> e.state]
    BY <1>8 DEF RebuildRead
  <2>2. e.state \in Row
    BY DEF StreamOf, TypeOK, Event
  <2>3. QED
    BY <1>8, <2>1, <2>2 DEF RebuildRead, TypeOK, Rebuild
<1>9. CASE RebuildWrite
  <2>1. rebuild \in Rebuild
    BY <1>9 DEF RebuildWrite, TypeOK
  <2>2. rebuild.task \in Tasks /\ rebuild.state \in Row
    BY <2>1 DEF Rebuild
  <2>3. QED
    BY <1>9, <2>2 DEF RebuildWrite, Rebuilt, TypeOK
<1>10. CASE UNCHANGED vars
  BY <1>10 DEF vars, TypeOK
<1>11. QED
  BY <1>1, <1>2, <1>3, <1>4, <1>5, <1>6, <1>7, <1>8, <1>9, <1>10, Steps

-----------------------------------------------------------------------------
(* Locks: only Lookup takes a key, only Insert and Update take a row.          *)
LEMMA LockStep ==
    ASSUME TypeOK, LockInv, TaskInv, [Next]_vars
    PROVE  LockInv'
<1>1. ASSUME NEW h \in Requests, NEW k \in Keys, NEW c \in Commands, Begin(h, k, c)
      PROVE  LockInv'
  BY <1>1 DEF Begin, LockInv, Holds, TypeOK
<1>2. ASSUME NEW h \in Requests, Lookup(h) PROVE LockInv'
  <2>1. request[h] \in Request
    BY <1>2, RequestShape DEF Lookup
  <2>2. /\ \A g \in Requests \ {h} : request'[g] = request[g]
        /\ request'[h].key = request[h].key
        /\ request'[h].phase # "applied"
    BY <1>2, <2>1 DEF Lookup, Answer, TypeOK, Request
  <2>3. \A g \in Requests : Holds(g) => request[g].key # request[h].key
    BY <1>2 DEF Lookup, KeyLocked, Holds
  <2>4. QED
    BY <2>2, <2>3 DEF LockInv, Holds
<1>3. ASSUME NEW h \in Requests, ReadBefore(h) PROVE LockInv'
  <2>1. request[h] \in Request
    BY <1>3, RequestShape DEF ReadBefore
  <2>2. /\ \A g \in Requests \ {h} : request'[g] = request[g]
        /\ request'[h].key = request[h].key
        /\ request'[h].phase # "applied"
        /\ Holds(h)
    BY <1>3, <2>1 DEF ReadBefore, Answer, TypeOK, Request, Holds
  <2>3. QED
    BY <2>2 DEF LockInv, Holds
<1>4. ASSUME NEW h \in Requests, NEW t \in Tasks, Insert(h, t) PROVE LockInv'
  <2>1. request[h] \in Request
    BY <1>4, RequestShape DEF Insert
  <2>2. /\ \A g \in Requests \ {h} : request'[g] = request[g]
        /\ request'[h].key = request[h].key
        /\ request'[h].task = t
        /\ Holds(h)
    BY <1>4, <2>1 DEF Insert, TypeOK, Request, Holds
  <2>3. \A g \in Requests : request[g].phase = "applied" => request[g].task # t
    BY <1>4 DEF Insert, RowLocked
  <2>4. QED
    BY <2>2, <2>3 DEF LockInv, Holds
<1>5. ASSUME NEW h \in Requests, Update(h) PROVE LockInv'
  <2>1. request[h] \in Request
    BY <1>5, RequestShape DEF Update
  <2>2. /\ \A g \in Requests \ {h} : request'[g] = request[g]
        /\ request'[h].key = request[h].key
        /\ request'[h].task = request[h].command.task
        /\ Holds(h)
    BY <1>5, <2>1 DEF Update, Answer, TypeOK, Request, Holds, TaskInv
  <2>3. request'[h].phase = "applied" =>
        \A g \in Requests : request[g].phase = "applied" => request[g].task # request'[h].task
    BY <1>5, <2>1, <2>2 DEF Update, Answer, RowLocked, TypeOK, Request
  <2>4. QED
    BY <2>2, <2>3 DEF LockInv, Holds
<1>6. ASSUME NEW h \in Requests, Commit(h) \/ Abort(h) \/ Finish(h) PROVE LockInv'
  <2>1. request[h].phase # "idle"
    BY <1>6 DEF Commit, Abort, Finish, InTransaction
  <2>2. request[h] \in Request
    BY <2>1, RequestShape
  <2>3. /\ \A g \in Requests \ {h} : request'[g] = request[g]
        /\ request'[h].phase \in {"idle", "answered"}
    BY <1>6, <2>2 DEF Commit, Abort, Finish, Answer, TypeOK, Request, Idle
  <2>4. QED
    BY <2>3 DEF LockInv, Holds
<1>7. ASSUME UNCHANGED request PROVE LockInv'
  BY <1>7 DEF LockInv, Holds
<1>8. QED
  BY <1>1, <1>2, <1>3, <1>4, <1>5, <1>6, <1>7, Steps DEF RebuildRead, RebuildWrite, vars

(* A key is recorded only by the command that holds it.                        *)
LEMMA KeyStep ==
    ASSUME TypeOK, LockInv, KeyInv, [Next]_vars
    PROVE  KeyInv'
<1>1. ASSUME NEW h \in Requests, NEW k \in Keys, NEW c \in Commands, Begin(h, k, c)
      PROVE  KeyInv'
  BY <1>1 DEF Begin, KeyInv, KeyTaken, Holds, TypeOK
<1>2. ASSUME NEW h \in Requests, Lookup(h) PROVE KeyInv'
  <2>1. request[h] \in Request
    BY <1>2, RequestShape DEF Lookup
  <2>2. /\ \A g \in Requests \ {h} : request'[g] = request[g]
        /\ request'[h].key = request[h].key
        /\ request'[h].phase = "looked" => ~KeyTaken(request[h].key)
        /\ request'[h].phase \in {"looked", "answered"}
        /\ events' = events
    BY <1>2, <2>1 DEF Lookup, Answer, TypeOK, Request
  <2>3. QED
    BY <2>2 DEF KeyInv, KeyTaken, Holds
<1>3. ASSUME NEW h \in Requests,
             ReadBefore(h) \/ (\E t \in Tasks : Insert(h, t)) \/ Update(h)
                \/ Abort(h) \/ Finish(h)
      PROVE  KeyInv'
  <2>1. request[h].phase # "idle"
    BY <1>3 DEF ReadBefore, Insert, Update, Abort, Finish, InTransaction
  <2>2. request[h] \in Request
    BY <2>1, RequestShape
  <2>3. /\ \A g \in Requests \ {h} : request'[g] = request[g]
        /\ request'[h].phase \notin {"idle", "answered"} =>
              Holds(h) /\ request'[h].key = request[h].key
        /\ events' = events
    <3>1. CASE ReadBefore(h)
      BY <2>2, <3>1 DEF ReadBefore, Answer, TypeOK, Request, Holds
    <3>2. ASSUME NEW t \in Tasks, Insert(h, t) PROVE <2>3!:
      BY <2>2, <3>2 DEF Insert, TypeOK, Request, Holds
    <3>3. CASE Update(h)
      BY <2>2, <3>3 DEF Update, Answer, TypeOK, Request, Holds
    <3>4. CASE Abort(h) \/ Finish(h)
      BY <3>4 DEF Abort, Finish, TypeOK, Idle
    <3>5. QED
      BY <1>3, <3>1, <3>2, <3>3, <3>4
  <2>4. \A g \in Requests : Holds(g)' => Holds(g) /\ request'[g].key = request[g].key
    BY <2>3 DEF Holds
  <2>5. ASSUME NEW g \in Requests, Holds(g)' PROVE ~KeyTaken(request[g].key)'
    <3>1. ~KeyTaken(request[g].key)
      BY <2>4, <2>5 DEF KeyInv
    <3>2. QED
      BY <2>3, <2>4, <2>5, <3>1 DEF KeyTaken
  <2>6. QED
    BY <2>5 DEF KeyInv
<1>4. ASSUME NEW h \in Requests, Commit(h) PROVE KeyInv'
  <2>1. request[h] \in Request
    BY <1>4, RequestShape DEF Commit
  <2>2. /\ \A g \in Requests \ {h} : request'[g] = request[g]
        /\ request'[h].phase = "answered"
    BY <1>4, <2>1 DEF Commit, Answer, TypeOK, Request
  <2>3. \A e \in events' : e \in events \/ e.key = request[h].key
    BY <1>4 DEF Commit
  <2>4. \A g \in Requests \ {h} : Holds(g) => request[g].key # request[h].key
    BY <1>4 DEF LockInv, Holds, Commit
  <2>5. QED
    BY <2>2, <2>3, <2>4 DEF KeyInv, KeyTaken, Holds
<1>5. ASSUME UNCHANGED <<request, events>> PROVE KeyInv'
  BY <1>5 DEF KeyInv, KeyTaken, Holds
<1>6. QED
  BY <1>1, <1>2, <1>3, <1>4, <1>5, Steps DEF RebuildRead, RebuildWrite, vars

-----------------------------------------------------------------------------
LEMMA NoRowIsNoRow == NoRow \notin Row
  BY DEF NoRow, Row

(* What a commit writes and where.                                             *)
LEMMA CommitShape ==
    ASSUME TypeOK, AppliedInv, NEW h \in Requests, Commit(h)
    PROVE  /\ request[h] \in Request
           /\ request[h].task \in Tasks
           /\ request[h].state \in Row
           /\ \A g \in Requests \ {h} : request'[g] = request[g]
           /\ request'[h].phase = "answered"
           /\ rebuild' = rebuild
           /\ \/ UNCHANGED <<row, events>> /\ request'[h].answer = "error"
              \/ /\ ~KeyTaken(request[h].key)
                 /\ ~VersionTaken(request[h].task, request[h].state.version)
                 /\ row' = [row EXCEPT ![request[h].task] = request[h].state]
                 /\ events' = events \cup
                        {[key |-> request[h].key, command |-> request[h].command,
                          task |-> request[h].task, state |-> request[h].state]}
                 /\ request'[h].answer = "done"
                 /\ request'[h].key = request[h].key
                 /\ request'[h].command = request[h].command
                 /\ request'[h].state = request[h].state
<1>1. /\ request[h] \in Request
      /\ request[h].command \in Commands
  BY RequestShape DEF Commit
<1>2. request[h].task \in Tasks
  BY DEF Commit, AppliedInv
<1>3. request[h].state \in Row
  BY <1>1, <1>2, CreatedRow, RowShape, ChangedRow DEF Commit, AppliedInv
<1>4. /\ \A g \in Requests \ {h} : request'[g] = request[g]
      /\ request'[h].phase = "answered"
      /\ rebuild' = rebuild
  BY <1>1 DEF Commit, Answer, TypeOK, Request
<1>5. CASE Answer(h, "error", NoRow) /\ UNCHANGED <<row, events>>
  <2>1. request'[h].answer = "error"
    BY <1>1, <1>5 DEF Answer, TypeOK, Request
  <2>2. QED
    BY <1>1, <1>2, <1>3, <1>4, <1>5, <2>1
<1>6. CASE /\ ~KeyTaken(request[h].key)
           /\ ~VersionTaken(request[h].task, request[h].state.version)
           /\ row' = [row EXCEPT ![request[h].task] = request[h].state]
           /\ events' = events \cup
                  {[key |-> request[h].key, command |-> request[h].command,
                    task |-> request[h].task, state |-> request[h].state]}
           /\ Answer(h, "done", request[h].state)
  <2>1. /\ request'[h].answer = "done"
        /\ request'[h].key = request[h].key
        /\ request'[h].command = request[h].command
        /\ request'[h].state = request[h].state
    BY <1>1, <1>6 DEF Answer, TypeOK, Request
  <2>2. QED
    BY <1>1, <1>2, <1>3, <1>4, <1>6, <2>1
<1>7. QED
  BY <1>5, <1>6 DEF Commit

LEMMA RebuildShape ==
    ASSUME TypeOK, RebuildWrite
    PROVE  /\ rebuild.phase = "rebuilding"
           /\ rebuild.task \in Tasks
           /\ rebuild.state \in Row
           /\ row' = [row EXCEPT ![rebuild.task] = rebuild.state]
<1>1. rebuild \in Rebuild
  BY DEF RebuildWrite, TypeOK
<1>2. QED
  BY <1>1 DEF RebuildWrite, Rebuilt, Rebuild

(* Tasks are never removed, and a locked row is left alone by everyone but its *)
(* holder.                                                                     *)
LEMMA RowsStay ==
    ASSUME TypeOK, LockInv, AppliedInv, [Next]_vars
    PROVE  /\ \A t \in Tasks : row[t] # NoRow => row'[t] # NoRow
           /\ \A t \in Tasks : RowLocked(t)' => row'[t] = row[t]
<1>1. ASSUME NEW h \in Requests, Commit(h)
      PROVE  /\ \A t \in Tasks : row[t] # NoRow => row'[t] # NoRow
             /\ \A t \in Tasks : RowLocked(t)' => row'[t] = row[t]
  <2>1. /\ request[h].task \in Tasks
        /\ request[h].state # NoRow
        /\ request[h].phase = "applied"
        /\ \A g \in Requests \ {h} : request'[g] = request[g]
        /\ request'[h].phase = "answered"
        /\ row' = row \/ row' = [row EXCEPT ![request[h].task] = request[h].state]
    BY <1>1, CommitShape, NoRowIsNoRow DEF Commit
  <2>2. \A g \in Requests : request'[g].phase = "applied" =>
            request'[g].task # request[h].task
    BY <2>1 DEF LockInv
  <2>3. \A t \in Tasks : RowLocked(t)' => t # request[h].task
    BY <2>2 DEF RowLocked
  <2>4. QED
    BY <2>1, <2>3 DEF TypeOK
<1>2. CASE RebuildWrite
  <2>1. /\ rebuild.task \in Tasks
        /\ rebuild.state # NoRow
        /\ row' = [row EXCEPT ![rebuild.task] = rebuild.state]
    BY <1>2, RebuildShape, NoRowIsNoRow
  <2>2. \A t \in Tasks : RowLocked(t)' => t # rebuild.task
    BY <1>2 DEF RebuildWrite, RowLocked
  <2>3. QED
    BY <2>1, <2>2 DEF TypeOK
<1>3. ASSUME row' = row
      PROVE  /\ \A t \in Tasks : row[t] # NoRow => row'[t] # NoRow
             /\ \A t \in Tasks : RowLocked(t)' => row'[t] = row[t]
  BY <1>3
<1>4. QED
  BY <1>1, <1>2, <1>3, Steps DEF Begin, Lookup, ReadBefore, Insert, Update, Abort, Finish,
                                 RebuildRead, vars

LEMMA TaskStep ==
    ASSUME TypeOK, LockInv, TaskInv, AppliedInv, [Next]_vars
    PROVE  TaskInv'
<1>1. \A t \in Tasks : row[t] # NoRow => row'[t] # NoRow
  BY RowsStay
<1>2. ASSUME NEW h \in Requests, NEW k \in Keys, NEW c \in Commands, Begin(h, k, c)
      PROVE  TaskInv'
  BY <1>2 DEF Begin, TaskInv, TypeOK
<1>3. ASSUME NEW h \in Requests, Lookup(h) PROVE TaskInv'
  <2>1. request[h] \in Request
    BY <1>3, RequestShape DEF Lookup
  <2>2. /\ \A g \in Requests \ {h} : request'[g] = request[g]
        /\ request'[h].task = request[h].task
        /\ request'[h].command = request[h].command
        /\ request[h].phase = "begun"
        /\ request'[h].phase \in {"looked", "answered"}
        /\ row' = row
    BY <1>3, <2>1 DEF Lookup, Answer, TypeOK, Request
  <2>3. QED
    BY <2>2 DEF TaskInv
<1>4. ASSUME NEW h \in Requests, ReadBefore(h) PROVE TaskInv'
  <2>1. request[h] \in Request
    BY <1>4, RequestShape DEF ReadBefore
  <2>2. /\ \A g \in Requests \ {h} : request'[g] = request[g]
        /\ request'[h].task = request[h].task
        /\ request'[h].command = request[h].command
        /\ request[h].phase = "looked"
        /\ request'[h].phase \in {"read", "answered"}
        /\ request'[h].phase = "read" => Found(request[h].command)
        /\ row' = row
    BY <1>4, <2>1 DEF ReadBefore, Answer, TypeOK, Request
  <2>3. QED
    BY <2>2 DEF TaskInv, Found, Accepts
<1>5. ASSUME NEW h \in Requests,
             (\E t \in Tasks : Insert(h, t)) \/ Update(h) \/ Commit(h)
                \/ Abort(h) \/ Finish(h)
      PROVE  TaskInv'
  <2>1. request[h].phase # "idle"
    BY <1>5 DEF Insert, Update, Commit, Abort, Finish, InTransaction
  <2>2. request[h] \in Request
    BY <2>1, RequestShape
  <2>3. /\ \A g \in Requests \ {h} : request'[g] = request[g]
        /\ request'[h].phase \in {"idle", "answered", "applied"}
    <3>1. ASSUME NEW t \in Tasks, Insert(h, t) PROVE <2>3!:
      BY <2>2, <3>1 DEF Insert, TypeOK, Request
    <3>2. CASE Update(h)
      BY <2>2, <3>2 DEF Update, Answer, TypeOK, Request
    <3>3. CASE Commit(h)
      BY <3>3, CommitShape
    <3>4. CASE Abort(h) \/ Finish(h)
      BY <3>4 DEF Abort, Finish, TypeOK, Idle
    <3>5. QED
      BY <1>5, <3>1, <3>2, <3>3, <3>4
  <2>4. \A g \in Requests : request[g].phase = "read" /\ request[g].command.kind # "create" =>
            request[g].command.task \in Tasks
    BY RequestShape, CommandShape
  <2>5. QED
    BY <1>1, <2>3, <2>4 DEF TaskInv
<1>6. ASSUME UNCHANGED request PROVE TaskInv'
  <2>1. \A g \in Requests : request[g].phase = "read" /\ request[g].command.kind # "create" =>
            request[g].command.task \in Tasks
    BY RequestShape, CommandShape
  <2>2. QED
    BY <1>1, <1>6, <2>1 DEF TaskInv
<1>7. QED
  BY <1>2, <1>3, <1>4, <1>5, <1>6, Steps DEF RebuildRead, RebuildWrite, vars

LEMMA AppliedStep ==
    ASSUME TypeOK, LockInv, TaskInv, AppliedInv, [Next]_vars
    PROVE  AppliedInv'
<1> DEFINE Kept(g) == /\ request[g].phase = "applied"
                      /\ request'[g] = request[g]
<1>1. ASSUME NEW h \in Requests, NEW t \in Tasks, Insert(h, t) PROVE AppliedInv'
  <2>1. request[h] \in Request
    BY <1>1, RequestShape DEF Insert
  <2>2. /\ \A g \in Requests \ {h} : request'[g] = request[g]
        /\ request'[h].task = t
        /\ request'[h].command = request[h].command
        /\ request'[h].state = Created(request[h].command)
        /\ request[h].command.kind = "create"
        /\ row[t] = NoRow
        /\ row' = row
    BY <1>1, <2>1 DEF Insert, TypeOK, Request
  <2>3. QED
    BY <2>2 DEF AppliedInv
<1>2. ASSUME NEW h \in Requests, Update(h) PROVE AppliedInv'
  <2>1. request[h] \in Request /\ request[h].command \in Commands
    BY <1>2, RequestShape DEF Update
  <2>2. /\ \A g \in Requests \ {h} : request'[g] = request[g]
        /\ request'[h].task = request[h].command.task
        /\ request'[h].command = request[h].command
        /\ request[h].command.kind # "create"
        /\ request'[h].phase = "applied" =>
              /\ request'[h].state = Changed(request[h].command, row[request[h].command.task])
              /\ Matches(request[h].command, row[request[h].command.task])
        /\ row' = row
    BY <1>2, <2>1 DEF Update, Answer, TypeOK, Request, TaskInv
  <2>3. /\ request[h].command.task \in Tasks
        /\ row[request[h].command.task] # NoRow
    BY <1>2, <2>1, <2>2, CommandShape DEF Update, TaskInv
  <2>4. QED
    BY <2>2, <2>3 DEF AppliedInv
<1>3. ASSUME \A g \in Requests : request'[g].phase = "applied" => Kept(g)
      PROVE  AppliedInv'
  <2>1. ASSUME NEW g \in Requests, request'[g].phase = "applied"
        PROVE  row'[request[g].task] = row[request[g].task]
    <3>1. Kept(g) /\ request[g].task \in Tasks
      BY <1>3, <2>1 DEF AppliedInv
    <3>2. \A t \in Tasks : t = request[g].task => RowLocked(t)'
      BY <2>1, <3>1 DEF RowLocked
    <3>3. QED
      BY <3>1, <3>2, RowsStay
  <2>2. QED
    BY <1>3, <2>1 DEF AppliedInv
<1>4. ASSUME NEW h \in Requests, NEW k \in Keys, NEW c \in Commands, Begin(h, k, c)
      PROVE  AppliedInv'
  BY <1>4, <1>3 DEF Begin, TypeOK
<1>5. ASSUME NEW h \in Requests,
             Lookup(h) \/ ReadBefore(h) \/ Commit(h) \/ Abort(h) \/ Finish(h)
      PROVE  AppliedInv'
  <2>1. request[h].phase # "idle"
    BY <1>5 DEF Lookup, ReadBefore, Commit, Abort, Finish, InTransaction
  <2>2. request[h] \in Request
    BY <2>1, RequestShape
  <2>3. /\ \A g \in Requests \ {h} : request'[g] = request[g]
        /\ request'[h].phase # "applied"
    <3>1. CASE Lookup(h)
      BY <2>2, <3>1 DEF Lookup, Answer, TypeOK, Request
    <3>2. CASE ReadBefore(h)
      BY <2>2, <3>2 DEF ReadBefore, Answer, TypeOK, Request
    <3>3. CASE Commit(h)
      BY <3>3, CommitShape
    <3>4. CASE Abort(h) \/ Finish(h)
      BY <3>4 DEF Abort, Finish, TypeOK, Idle
    <3>5. QED
      BY <1>5, <3>1, <3>2, <3>3, <3>4
  <2>4. QED
    BY <1>3, <2>3
<1>6. ASSUME UNCHANGED request PROVE AppliedInv'
  BY <1>3, <1>6
<1>7. QED
  BY <1>1, <1>2, <1>4, <1>5, <1>6, Steps DEF RebuildRead, RebuildWrite, vars

-----------------------------------------------------------------------------
(* A committed change records the version after one that is recorded, and that *)
(* one is the last of its task.                                                *)
LEMMA LastRecorded ==
    ASSUME TypeOK, AppliedInv, StreamInv, RowIsRecorded, NEW h \in Requests,
           request[h].phase = "applied", request[h].command.kind # "create",
           ~VersionTaken(request[h].task, request[h].state.version)
    PROVE  \E e \in events : /\ e.task = request[h].task
                             /\ e.state = row[request[h].task]
                             /\ e.state.version \in Nat
                             /\ request[h].state.version = e.state.version + 1
                             /\ \A d \in events : d.task = e.task =>
                                    d.state.version <= e.state.version
<1>1. /\ request[h].task \in Tasks
      /\ row[request[h].task] # NoRow
      /\ request[h].state = Changed(request[h].command, row[request[h].task])
  BY DEF AppliedInv
<1>2. PICK e \in events : e.task = request[h].task /\ e.state = row[request[h].task]
  BY <1>1 DEF RowIsRecorded, StreamOf
<1>3. \A d \in events : d.state.version \in Nat
  BY DEF TypeOK, Event, Row
<1>4. request[h].state.version = e.state.version + 1
  BY <1>1, <1>2 DEF Changed
<1>5. ASSUME NEW d \in events, d.task = e.task PROVE d.state.version <= e.state.version
  <2>1. d.state.version # e.state.version + 1
    BY <1>2, <1>4, <1>5 DEF VersionTaken
  <2>2. ~(e.state.version < e.state.version + 1 /\ e.state.version + 1 < d.state.version)
    BY <1>2, <1>3, <1>4, <1>5 DEF StreamInv, VersionTaken
  <2>3. QED
    BY <1>3, <2>1, <2>2
<1>6. QED
  BY <1>2, <1>3, <1>4, <1>5

LEMMA StreamStep ==
    ASSUME TypeOK, LockInv, TaskInv, AppliedInv, StreamInv, RebuildInv, RowIsRecorded,
           [Next]_vars
    PROVE  StreamInv' /\ RowIsRecorded'
<1>1. ASSUME NEW h \in Requests, Commit(h) PROVE StreamInv' /\ RowIsRecorded'
  <2> DEFINE t == request[h].task
             s == request[h].state
             new == [key |-> request[h].key, command |-> request[h].command,
                     task |-> t, state |-> s]
  <2>1. /\ t \in Tasks
        /\ s \in Row
        /\ s.version \in Nat
    BY <1>1, CommitShape DEF Row
  <2>2. CASE UNCHANGED <<row, events>>
    BY <2>2 DEF StreamInv, RowIsRecorded, StreamOf, VersionTaken
  <2>3. CASE /\ ~VersionTaken(t, s.version)
             /\ row' = [row EXCEPT ![t] = s]
             /\ events' = events \cup {new}
    <3>1. \A d \in events : d.state.version \in Nat /\ d.task \in Tasks
      BY DEF TypeOK, Event, Row
    <3>2. \A d, e \in events' : d.task = e.task /\ d.state.version = e.state.version => d = e
      BY <2>3 DEF StreamInv, VersionTaken
    <3>3. \A e \in events' : row'[e.task] # NoRow
      BY <2>1, <2>3, <3>1, NoRowIsNoRow DEF StreamInv, TypeOK
    <3>4. RowIsRecorded'
      <4>1. ASSUME NEW u \in Tasks, row'[u] # NoRow
            PROVE  \E e \in events' : e.task = u /\ e.state = row'[u]
        <5>1. CASE u = t
          <6>1. new \in events' /\ new.task = u /\ new.state = row'[u]
            BY <2>1, <2>3, <5>1 DEF TypeOK
          <6>2. QED
            BY <6>1
        <5>2. CASE u # t
          <6>1. row'[u] = row[u]
            BY <2>3, <5>2 DEF TypeOK
          <6>2. PICK e \in events : e.task = u /\ e.state = row[u]
            BY <4>1, <6>1 DEF RowIsRecorded, StreamOf
          <6>3. QED
            BY <2>3, <6>1, <6>2
        <5>3. QED
          BY <5>1, <5>2
      <4>2. QED
        BY <4>1 DEF RowIsRecorded, StreamOf
    <3>5. ASSUME NEW d \in events', NEW e \in events', NEW n \in Nat, d.task = e.task,
                 d.state.version < n, n < e.state.version
          PROVE  \E f \in events' : f.task = d.task /\ f.state.version = n
      <4>1. CASE d \in events /\ e \in events
        BY <2>3, <3>5, <4>1 DEF StreamInv, VersionTaken
      <4>2. CASE d = new /\ e = new
        BY <2>1, <3>5, <4>2
      <4>3. CASE request[h].command.kind = "create" /\ (d = new \/ e = new)
        <5>1. \A f \in events : f.task # t
          BY <1>1, <4>3 DEF AppliedInv, StreamInv, Commit
        <5>2. new.task = t
          OBVIOUS
        <5>3. \A f \in events' : f.task = t => f = new
          BY <2>3, <5>1
        <5>4. d = new /\ e = new
          BY <3>5, <4>3, <5>2, <5>3
        <5>5. QED
          BY <4>2, <5>4
      <4>4. CASE request[h].command.kind # "create" /\ (d = new \/ e = new)
        <5>1. PICK f \in events : /\ f.task = t
                                  /\ f.state.version \in Nat
                                  /\ s.version = f.state.version + 1
                                  /\ \A x \in events : x.task = f.task =>
                                         x.state.version <= f.state.version
          BY <1>1, <2>3, <4>4, LastRecorded DEF Commit
        <5>2. CASE d = new /\ e \in events
          BY <2>1, <3>1, <3>5, <5>1, <5>2
        <5>3. CASE d \in events /\ e = new
          <6>1. n <= f.state.version /\ d.task = f.task
            BY <2>1, <3>1, <3>5, <5>1, <5>3
          <6>2. CASE n = f.state.version
            BY <2>3, <6>1, <6>2
          <6>3. CASE n < f.state.version
            BY <2>3, <3>5, <5>3, <6>1, <6>3 DEF StreamInv, VersionTaken
          <6>4. QED
            BY <5>1, <6>1, <6>2, <6>3
        <5>4. QED
          BY <2>3, <4>2, <4>4, <5>2, <5>3
      <4>5. QED
        BY <2>3, <4>1, <4>3, <4>4
    <3>6. QED
      BY <3>2, <3>3, <3>4, <3>5 DEF StreamInv, VersionTaken
  <2>4. QED
    BY <1>1, <2>2, <2>3, CommitShape
<1>2. CASE RebuildWrite
  <2>1. /\ rebuild.task \in Tasks
        /\ rebuild.state \in Row
        /\ row' = [row EXCEPT ![rebuild.task] = rebuild.state]
        /\ events' = events
        /\ \E e \in events : e.task = rebuild.task /\ e.state = rebuild.state
    BY <1>2, RebuildShape DEF RebuildWrite, RebuildInv
  <2>2. StreamInv'
    <3>1. \A e \in events : e.task \in Tasks
      BY DEF TypeOK, Event
    <3>2. \A e \in events : row'[e.task] # NoRow
      BY <2>1, <3>1, NoRowIsNoRow DEF StreamInv, TypeOK
    <3>3. QED
      BY <2>1, <3>2 DEF StreamInv, VersionTaken
  <2>3. RowIsRecorded'
    BY <2>1 DEF RowIsRecorded, StreamOf, TypeOK
  <2>4. QED
    BY <2>2, <2>3
<1>3. ASSUME UNCHANGED <<row, events>> PROVE StreamInv' /\ RowIsRecorded'
  BY <1>3 DEF StreamInv, RowIsRecorded, StreamOf, VersionTaken
<1>4. QED
  BY <1>1, <1>2, <1>3, Steps DEF Begin, Lookup, ReadBefore, Insert, Update, Abort, Finish,
                                 RebuildRead, vars

LEMMA RebuildStep ==
    ASSUME TypeOK, AppliedInv, RebuildInv, [Next]_vars
    PROVE  RebuildInv'
<1>1. events \subseteq events'
  <2>1. ASSUME NEW h \in Requests, Commit(h) PROVE events \subseteq events'
    BY <2>1 DEF Commit
  <2>2. QED
    BY <2>1, Steps DEF Begin, Lookup, ReadBefore, Insert, Update, Abort, Finish,
                       RebuildRead, RebuildWrite, vars
<1>2. ASSUME NEW t \in Tasks, RebuildRead(t) PROVE RebuildInv'
  BY <1>1, <1>2 DEF RebuildRead, StreamOf, RebuildInv
<1>3. CASE RebuildWrite
  BY <1>3 DEF RebuildWrite, RebuildInv, Idle
<1>4. ASSUME rebuild' = rebuild PROVE RebuildInv'
  BY <1>1, <1>4 DEF RebuildInv
<1>5. QED
  BY <1>2, <1>3, <1>4, Steps DEF Begin, Lookup, ReadBefore, Insert, Update, Commit, Abort,
                                 Finish, vars

LEMMA AnswerStep ==
    ASSUME TypeOK, AppliedInv, AnswersAgree, [Next]_vars
    PROVE  AnswersAgree'
<1> DEFINE Recorded(q) == \E e \in events' : /\ e.key = q.key
                                             /\ e.command = q.command
                                             /\ e.state = q.state
           Success(q) == q.phase = "answered" /\ q.answer \in {"done", "replayed"}
<1>1. events \subseteq events'
  <2>1. ASSUME NEW h \in Requests, Commit(h) PROVE events \subseteq events'
    BY <2>1 DEF Commit
  <2>2. QED
    BY <2>1, Steps DEF Begin, Lookup, ReadBefore, Insert, Update, Abort, Finish,
                       RebuildRead, RebuildWrite, vars
<1>2. ASSUME NEW g \in Requests, request'[g] = request[g], Success(request'[g])
      PROVE  Recorded(request'[g])
  BY <1>1, <1>2 DEF AnswersAgree
<1>3. ASSUME NEW h \in Requests, Lookup(h), Success(request'[h])
      PROVE  Recorded(request'[h])
  <2>1. request[h] \in Request
    BY <1>3, RequestShape DEF Lookup
  <2>2. PICK e \in events : /\ e.key = request[h].key
                            /\ e.command = request[h].command
                            /\ Answer(h, "replayed", ReplayResult(e))
    BY <1>3, <2>1 DEF Lookup, Answer, TypeOK, Request
  <2>3. /\ request'[h].key = request[h].key
        /\ request'[h].command = request[h].command
        /\ request'[h].state = e.state
    BY <2>1, <2>2 DEF Answer, ReplayResult, TypeOK, Request
  <2>4. QED
    BY <1>1, <2>2, <2>3
<1>4. ASSUME NEW h \in Requests, Commit(h), Success(request'[h])
      PROVE  Recorded(request'[h])
  <2>1. /\ events' = events \cup
               {[key |-> request[h].key, command |-> request[h].command,
                 task |-> request[h].task, state |-> request[h].state]}
        /\ request'[h].key = request[h].key
        /\ request'[h].command = request[h].command
        /\ request'[h].state = request[h].state
    BY <1>4, CommitShape
  <2>2. QED
    BY <2>1
<1>5. ASSUME NEW h \in Requests,
             ReadBefore(h) \/ (\E t \in Tasks : Insert(h, t)) \/ Update(h)
      PROVE  ~Success(request'[h])
  <2>1. request[h] \in Request
    BY <1>5, RequestShape DEF ReadBefore, Insert, Update
  <2>2. CASE ReadBefore(h)
    BY <2>1, <2>2 DEF ReadBefore, Answer, TypeOK, Request
  <2>3. CASE \E t \in Tasks : Insert(h, t)
    BY <2>1, <2>3 DEF Insert, TypeOK, Request
  <2>4. CASE Update(h)
    BY <2>1, <2>4 DEF Update, Answer, TypeOK, Request
  <2>5. QED
    BY <1>5, <2>2, <2>3, <2>4
<1>6. ASSUME NEW g \in Requests, Success(request'[g]) PROVE Recorded(request'[g])
  <2>1. CASE request'[g] = request[g]
    BY <1>2, <1>6, <2>1
  <2>2. ASSUME NEW h \in Requests, NEW k \in Keys, NEW c \in Commands, Begin(h, k, c)
        PROVE  Recorded(request'[g])
    BY <1>6, <2>1, <2>2 DEF Begin, TypeOK
  <2>3. ASSUME NEW h \in Requests, Lookup(h) PROVE Recorded(request'[g])
    <3>1. g # h => request'[g] = request[g]
      BY <2>3 DEF Lookup, Answer, TypeOK
    <3>2. QED
      BY <1>3, <1>6, <2>1, <2>3, <3>1
  <2>4. ASSUME NEW h \in Requests,
               ReadBefore(h) \/ (\E t \in Tasks : Insert(h, t)) \/ Update(h)
        PROVE  Recorded(request'[g])
    <3>1. g # h
      BY <1>5, <1>6, <2>4
    <3>2. request'[g] = request[g]
      BY <2>4, <3>1 DEF ReadBefore, Insert, Update, Answer, TypeOK
    <3>3. QED
      BY <2>1, <3>2
  <2>5. ASSUME NEW h \in Requests, Commit(h) PROVE Recorded(request'[g])
    BY <1>4, <1>6, <2>1, <2>5, CommitShape
  <2>6. ASSUME NEW h \in Requests, Abort(h) \/ Finish(h) PROVE Recorded(request'[g])
    BY <1>6, <2>1, <2>6 DEF Abort, Finish, Idle, TypeOK
  <2>7. ASSUME UNCHANGED request PROVE Recorded(request'[g])
    BY <2>1, <2>7
  <2>8. QED
    BY <2>2, <2>3, <2>4, <2>5, <2>6, <2>7, Steps DEF RebuildRead, RebuildWrite, vars
<1>7. QED
  BY <1>6 DEF AnswersAgree

-----------------------------------------------------------------------------
LEMMA InitInv == Init => IInv
<1> SUFFICES ASSUME Init PROVE IInv
  OBVIOUS
<1>1. \A e \in events : /\ e.task \in Legacy
                        /\ e.state = Backfilled(e.task)
                        /\ e = [key |-> LegacyKey[e.task], command |-> Backfill,
                                task |-> e.task, state |-> Backfilled(e.task)]
  BY DEF Init, MigrationEvents
<1>2. \A t \in Tasks : row[t] = IF t \in Legacy THEN Backfilled(t) ELSE NoRow
  BY DEF Init
<1>3. \A t : Backfilled(t) # NoRow /\ Backfilled(t).version = 1
  BY DEF Backfilled, NoRow
<1>4. TypeOK
  BY <1>2, MigrationShape DEF Init, TypeOK
<1>5. LockInv /\ KeyInv /\ TaskInv /\ AppliedInv /\ RebuildInv /\ AnswersAgree
  BY DEF Init, Idle, LockInv, KeyInv, TaskInv, AppliedInv, RebuildInv, AnswersAgree, Holds
<1>6. StreamInv
  <2>1. \A d, e \in events : d.task = e.task => d = e
    BY <1>1
  <2>2. \A e \in events : row[e.task] # NoRow
    BY <1>1, <1>2, <1>3
  <2>3. \A e \in events : e.state.version = 1
    BY <1>1, <1>3
  <2>4. QED
    BY <2>1, <2>2, <2>3 DEF StreamInv
<1>7. RowIsRecorded
  <2>1. ASSUME NEW t \in Tasks, row[t] # NoRow
        PROVE  \E e \in events : e.task = t /\ e.state = row[t]
    <3>1. t \in Legacy /\ row[t] = Backfilled(t)
      BY <1>2, <2>1
    <3>2. [key |-> LegacyKey[t], command |-> Backfill, task |-> t,
           state |-> Backfilled(t)] \in events
      BY <3>1 DEF Init, MigrationEvents
    <3>3. QED
      BY <3>1, <3>2
  <2>2. QED
    BY <2>1 DEF RowIsRecorded, StreamOf
<1>8. QED
  BY <1>4, <1>5, <1>6, <1>7 DEF IInv

LEMMA Inductive == IInv /\ [Next]_vars => IInv'
  BY TypeStep, LockStep, KeyStep, TaskStep, AppliedStep, StreamStep, RebuildStep, AnswerStep
     DEF IInv

THEOREM Invariant == Spec => []IInv
  BY InitInv, Inductive, PTL DEF Spec

(* In every execution the variables of the command stream keep their types.    *)
THEOREM TypeCorrect == Spec => []TypeOK
  BY Invariant, PTL DEF IInv

(* In every execution, whatever commands, aborts and rebuilds interleave, each *)
(* task's row is a state its event stream records (domain_events).             *)
THEOREM Recorded == Spec => []RowIsRecorded
  BY Invariant, PTL DEF IInv

(* The advisory lock on the idempotency key suffices: no command that passed   *)
(* the lookup finds its key used when it inserts its event.                    *)
THEOREM KeysHeld == Spec => []KeyNeverLate
<1>1. KeyInv => KeyNeverLate
  BY DEF KeyInv, KeyNeverLate, Holds
<1>2. QED
  BY <1>1, Invariant, PTL DEF IInv

(* Every success that execute answers, first or replayed, is the recorded      *)
(* effect of that command under that key.                                      *)
THEOREM AnswersRecorded == Spec => []AnswersAgree
  BY Invariant, PTL DEF IInv

-----------------------------------------------------------------------------
(* The command stream implements the abstract history: an event is appended    *)
(* only as a fresh key's legal change of the last recorded state.              *)
THEOREM Implements == Spec => KeepsHistory
<1>1. Init => History!Init
  BY DEF Init, History!Init, History!MigrationEvents, MigrationEvents, History!Backfilled,
         Backfilled
<1>2. IInv /\ [Next]_vars => [History!Next]_events
  <2> SUFFICES ASSUME IInv, [Next]_vars, events' # events PROVE History!Next
    BY DEF History!Next
  <2>1. PICK h \in Requests : Commit(h)
    BY Steps DEF Begin, Lookup, ReadBefore, Insert, Update, Abort, Finish, RebuildRead,
                 RebuildWrite, vars
  <2> DEFINE k == request[h].key
             c == request[h].command
             t == request[h].task
             s == request[h].state
  <2>2. /\ request[h] \in Request
        /\ k \in Keys
        /\ c \in Commands
        /\ t \in Tasks
        /\ ~KeyTaken(k)
        /\ ~VersionTaken(t, s.version)
        /\ events' = events \cup {[key |-> k, command |-> c, task |-> t, state |-> s]}
    BY <2>1, CommitShape, RequestShape DEF IInv, Commit
  <2>3. History!Fresh(k)
    BY <2>2 DEF History!Fresh, KeyTaken
  <2>4. CASE c.kind = "create"
    <3>1. row[t] = NoRow /\ s = Created(c)
      BY <2>1, <2>4 DEF IInv, AppliedInv, Commit
    <3>2. History!Of(t) = {}
      BY <3>1 DEF IInv, StreamInv, History!Of
    <3>3. History!Create(k, c, t)
      BY <2>2, <2>3, <2>4, <3>1, <3>2 DEF History!Create, History!Record, History!Created,
                                          Created
    <3>4. QED
      BY <2>2, <3>3 DEF History!Next
  <2>5. CASE c.kind # "create"
    <3>1. /\ t = c.task
          /\ Matches(c, row[t])
          /\ s = Changed(c, row[t])
      BY <2>1, <2>5 DEF IInv, AppliedInv, Commit
    <3>2. PICK e \in events : /\ e.task = t
                              /\ e.state = row[t]
                              /\ \A d \in events : d.task = e.task =>
                                     d.state.version <= e.state.version
      BY <2>1, <2>2, <2>5, LastRecorded DEF IInv, Commit
    <3>3. History!Latest(e)
      BY <3>2 DEF History!Latest, History!Of
    <3>4. History!Legal(c, e.state)
      BY <3>1, <3>2 DEF Matches, History!Legal
    <3>5. History!Change(k, c, e)
      BY <2>2, <2>3, <2>5, <3>1, <3>2, <3>3, <3>4
         DEF History!Change, History!Record, History!Changed, Changed
    <3>6. QED
      BY <2>2, <3>5 DEF History!Next
  <2>6. QED
    BY <2>4, <2>5
<1>3. QED
  BY <1>1, <1>2, Invariant, PTL DEF Spec, KeepsHistory, History!Spec
=============================================================================
