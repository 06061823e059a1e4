----------------------------- MODULE TaskEvents -----------------------------
(* The task command stream (resource/task-event.service.ts and its callers).   *)
(* A command runs in one transaction: it takes an advisory lock on its         *)
(* idempotency key, looks the key up, applies a guarded UPDATE or an INSERT to *)
(* tasks and appends a domain event.  What it reads to validate the command    *)
(* goes through another connection of the same pool.  rebuild rewrites a task  *)
(* from its events.  Deliveries of GitHub would be commands of this stream;    *)
(* IntegrationJobs shows that no job processes them as the code is.            *)
EXTENDS TaskCommand, FiniteSets

CONSTANTS
    Requests,    \* commands the API is serving at once
    ServerKeys,  \* keys no client sends: the server and the migration make them up
    Pool         \* connections of the pool

ASSUME PoolAssumption ==
    /\ ServerKeys \subseteq Keys
    /\ IsFiniteSet(Requests)
    /\ Pool \in Nat \ {0}

VARIABLES
    row,      \* committed rows of tasks
    events,   \* committed rows of domain_events
    request,  \* commands being served
    rebuild   \* the projection rebuild in progress

vars == <<row, events, request, rebuild>>

NoRow == [version |-> 0]
Idle == [phase |-> "idle"]
Request == [phase : {"begun", "looked", "read", "applied", "answered"},
            key : Keys, command : Commands, task : Tasks \cup {NoTask},
            state : Row \cup {NoRow},
            answer : {"none", "done", "replayed", "conflict", "not_found", "stale", "error"}]
Rebuild == [phase : {"rebuilding"}, task : Tasks, state : Row]

TypeOK ==
    /\ row \in [Tasks -> Row \cup {NoRow}]
    /\ events \subseteq Event
    /\ request \in [Requests -> Request \cup {Idle}]
    /\ rebuild \in Rebuild \cup {Idle}

Init ==
    /\ row = [t \in Tasks |-> IF t \in Legacy THEN Backfilled(t) ELSE NoRow]
    /\ events = MigrationEvents
    /\ request = [h \in Requests |-> Idle]
    /\ rebuild = Idle

------------------------------------------------------------------------------
InTransaction(h) == request[h].phase \in {"begun", "looked", "read", "applied"}

(* A transaction keeps its connection until it ends, also while it waits.      *)
InUse == Cardinality({h \in Requests : InTransaction(h)})

KeyNeverLocked(k) == FALSE  \* mutant: no advisory lock
KeyLockedOnArrival(k) ==    \* mutant: a waiting command already counts as a holder
    \E h \in Requests : request[h].phase # "idle" /\ request[h].key = k
KeyLocked(k) == \E h \in Requests :
    request[h].phase \in {"looked", "read", "applied"} /\ request[h].key = k

RowLocked(t) == \E h \in Requests : request[h].phase = "applied" /\ request[h].task = t

KeyTaken(k) == \E e \in events : e.key = k
VersionTaken(t, n) == \E e \in events : e.task = t /\ e.state.version = n

StreamOf(t) == {e \in events : e.task = t}

(* reduceTaskEvents refuses a stream with a gap and takes its last state.      *)
Contiguous(stream) ==
    \A e \in stream : \/ \A d \in stream : d.state.version >= e.state.version
                      \/ \E d \in stream : d.state.version + 1 = e.state.version

(* What a replay returns: the result stored with the event, whatever the task  *)
(* has become since.                                                           *)
ReplayCurrent(e) == row[e.task]  \* mutant: replays the task as it is now
ReplayResult(e) == e.state

(* The WHERE clauses of the UPDATEs.                                           *)
MatchesAny(c, r) == TRUE  \* mutant: no version in the WHERE clause
Matches(c, r) ==
    /\ c.kind # "sync" => r.version = c.version
    /\ c.kind \in {"update", "review", "delete"} => ~r.deleted

(* What the command's reads require of the row before its UPDATE.              *)
Accepts(c, r) ==
    /\ r # NoRow
    /\ c.kind \in {"update", "review", "delete"} => ~r.deleted
    /\ c.kind = "review" => r.content \in Reviewable
    /\ c.kind = "restore" => r.deleted

Found(c) == c.kind # "create" => Accepts(c, row[c.task])

Answer(h, how, result) ==
    request' = [request EXCEPT ![h].phase = "answered", ![h].answer = how,
                               ![h].state = result]

------------------------------------------------------------------------------
Begin(h, k, c) ==
    /\ request[h] = Idle
    /\ k \in ServerKeys => ~KeyTaken(k) /\ \A g \in Requests :
                               request[g] # Idle => request[g].key # k
    /\ InUse < Pool
    /\ request' = [request EXCEPT ![h] = [phase |-> "begun", key |-> k, command |-> c,
                       task |-> c.task, state |-> NoRow, answer |-> "none"]]
    /\ UNCHANGED <<row, events, rebuild>>

(* The advisory lock and the lookup of the key it protects.                    *)
Lookup(h) ==
    LET k == request[h].key  c == request[h].command IN
    /\ request[h].phase = "begun"
    /\ ~KeyLocked(k)
    /\ \/ /\ ~KeyTaken(k)
          /\ request' = [request EXCEPT ![h].phase = "looked"]
       \/ \E e \in events : /\ e.key = k
                            /\ e.command = c
                            /\ Answer(h, "replayed", ReplayResult(e))
       \/ \E e \in events : /\ e.key = k
                            /\ e.command # c
                            /\ Answer(h, "conflict", NoRow)
    /\ UNCHANGED <<row, events, rebuild>>

(* The reads of the operation: through the pool, except in a webhook.          *)
ReadBefore(h) ==
    LET c == request[h].command IN
    /\ request[h].phase = "looked"
    /\ c.kind # "sync" => InUse < Pool
    /\ \/ /\ Found(c)
          /\ request' = [request EXCEPT ![h].phase = "read"]
       \/ /\ ~Found(c)
          /\ Answer(h, "not_found", NoRow)
    /\ UNCHANGED <<row, events, rebuild>>

Insert(h, t) ==
    /\ request[h].phase = "read"
    /\ request[h].command.kind = "create"
    /\ row[t] = NoRow
    /\ ~RowLocked(t)
    /\ request' = [request EXCEPT ![h].phase = "applied", ![h].task = t,
                                  ![h].state = Created(request[h].command)]
    /\ UNCHANGED <<row, events, rebuild>>

(* The UPDATE waits for the row and tests its WHERE clause on the row it gets. *)
Update(h) ==
    LET c == request[h].command IN
    /\ request[h].phase = "read"
    /\ c.kind # "create"
    /\ ~RowLocked(c.task)
    /\ \/ /\ Matches(c, row[c.task])
          /\ request' = [request EXCEPT ![h].phase = "applied",
                                        ![h].state = Changed(c, row[c.task])]
       \/ /\ ~Matches(c, row[c.task])
          /\ Answer(h, "stale", NoRow)
    /\ UNCHANGED <<row, events, rebuild>>

(* linkTaskFlows and taskWarnings read through the pool again; then the event  *)
(* is inserted under the unique indexes on key and on task and version.        *)
Commit(h) ==
    LET q == request[h] IN
    /\ q.phase = "applied"
    /\ q.command.kind \in {"create", "update"} => InUse < Pool
    /\ \/ /\ ~KeyTaken(q.key)
          /\ ~VersionTaken(q.task, q.state.version)
          /\ row' = [row EXCEPT ![q.task] = q.state]
          /\ events' = events \cup {[key |-> q.key, command |-> q.command,
                                     task |-> q.task, state |-> q.state]}
          /\ Answer(h, "done", q.state)
       \/ /\ KeyTaken(q.key) \/ VersionTaken(q.task, q.state.version)
          /\ Answer(h, "error", NoRow)
          /\ UNCHANGED <<row, events>>
    /\ UNCHANGED rebuild

(* A crash of the API or a failing statement rolls the transaction back.       *)
Abort(h) ==
    /\ InTransaction(h)
    /\ request' = [request EXCEPT ![h] = Idle]
    /\ UNCHANGED <<row, events, rebuild>>

Finish(h) ==
    /\ request[h].phase = "answered"
    /\ request' = [request EXCEPT ![h] = Idle]
    /\ UNCHANGED <<row, events, rebuild>>

(* rebuild reads the stream without locking the task and writes what it read.  *)
RebuildRead(t) ==
    /\ rebuild = Idle
    /\ Contiguous(StreamOf(t))
    /\ \E e \in StreamOf(t) :
          /\ \A d \in StreamOf(t) : d.state.version <= e.state.version
          /\ rebuild' = [phase |-> "rebuilding", task |-> t, state |-> e.state]
    /\ UNCHANGED <<row, events, request>>

RebuiltNewer ==  \* mutant: a rebuild counts as an edit
    [rebuild.state EXCEPT !.version = row[rebuild.task].version + 1]
Rebuilt == rebuild.state

RebuildWrite ==
    /\ rebuild # Idle
    /\ ~RowLocked(rebuild.task)
    /\ row' = [row EXCEPT ![rebuild.task] = Rebuilt]
    /\ rebuild' = Idle
    /\ UNCHANGED <<events, request>>

------------------------------------------------------------------------------
Serve(h) == Lookup(h) \/ ReadBefore(h) \/ (\E t \in Tasks : Insert(h, t))
            \/ Update(h) \/ Commit(h)

Next ==
    \/ \E h \in Requests :
          \/ \E k \in Keys, c \in Commands : Begin(h, k, c)
          \/ Serve(h)
          \/ Abort(h)
          \/ Finish(h)
    \/ \E t \in Tasks : RebuildRead(t)
    \/ RebuildWrite

Spec == Init /\ [][Next]_vars

(* PostgreSQL grants row and advisory locks, and the pool its connections, in  *)
(* the order of asking, so a wait that could end again and again does end.     *)
Fairness == \A h \in Requests : SF_vars(Serve(h)) /\ WF_vars(Finish(h))

FairSpec == Spec /\ Fairness

------------------------------------------------------------------------------
(* A task's row is always one its event stream records at that version, also   *)
(* while commands, aborted transactions and a late rebuild interleave, so the  *)
(* projection can be rebuilt from the stream.                                  *)
RowIsRecorded ==
    \A t \in Tasks : row[t] # NoRow => \E e \in StreamOf(t) : e.state = row[t]

(* The advisory lock makes a repeated command replay or conflict: no command   *)
(* reaches its INSERT to find its key taken by another one.                    *)
KeyNeverLate ==
    \A h \in Requests : request[h].phase = "applied" => ~KeyTaken(request[h].key)

(* Every success, first answer or replay, is the recorded effect of this very  *)
(* command under this key: retries cannot see another result than the first.   *)
AnswersAgree ==
    \A h \in Requests : request[h].phase = "answered"
                        /\ request[h].answer \in {"done", "replayed"} =>
        \E e \in events : /\ e.key = request[h].key
                          /\ e.command = request[h].command
                          /\ e.state = request[h].state

(* The stream implements the abstract history: chains of versions, each link   *)
(* legal where it was applied, each key effective once.                        *)
History == INSTANCE TaskHistory WITH history <- events
KeepsHistory == History!Spec

(* Every command that gets a connection is answered, or rolled back by a crash. *)
CommandsAnswered ==
    \A h \in Requests : InTransaction(h) ~> ~InTransaction(h)
=============================================================================
