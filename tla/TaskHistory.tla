---------------------------- MODULE TaskHistory ----------------------------
(* What the task command stream promises: each task's history is a chain of    *)
(* versions, every link is a command that was legal in the state before it,    *)
(* and an idempotency key takes effect at most once.                           *)
EXTENDS TaskCommand

VARIABLE history

Of(t) == {e \in history : e.task = t}

Fresh(k) == \A e \in history : e.key # k

Latest(e) == \A d \in Of(e.task) : d.state.version <= e.state.version

(* A client's command names the version it read and applies to no other.  That *)
(* a restored task was deleted, and a reviewed one in review, is tested on an  *)
(* earlier read and not promised here.                                         *)
Legal(c, row) ==
    /\ c.kind # "sync" => row.version = c.version
    /\ c.kind \in {"update", "review", "delete"} => ~row.deleted

Record(k, c, t, row) ==
    history' = history \cup {[key |-> k, command |-> c, task |-> t, state |-> row]}

Create(k, c, t) ==
    /\ c.kind = "create"
    /\ Fresh(k)
    /\ Of(t) = {}
    /\ Record(k, c, t, Created(c))

Change(k, c, e) ==
    /\ c.kind # "create"
    /\ c.task = e.task
    /\ Fresh(k)
    /\ Latest(e)
    /\ Legal(c, e.state)
    /\ Record(k, c, e.task, Changed(c, e.state))

Init == history = MigrationEvents

Next == \E k \in Keys, c \in Commands :
            \/ \E t \in Tasks : Create(k, c, t)
            \/ \E e \in history : Change(k, c, e)

Spec == Init /\ [][Next]_history
=============================================================================
