---------------------------- MODULE TaskCommand ----------------------------
(* The data of task commands: rows of tasks, the commands that change them     *)
(* (resource/task.service.ts, resource/relation.service.ts and the GitHub      *)
(* webhook) and the rows of domain_events that record them.                    *)
EXTENDS Naturals

CONSTANTS
    Tasks,
    NoTask,      \* the task of a command that creates one
    Keys,        \* idempotency keys
    Contents,    \* what an update sets: title, workflow state, review and so on
    Reviewable,  \* the contents with humanReviewRequired
    Commands,    \* the commands clients and webhooks send
    Backfill,    \* the command hash of the migration, which no command has
    Legacy,      \* tasks that migration 0011 found and gave an event
    LegacyKey,   \* the key of the event the migration gave a task
    LegacyContent

Row == [version : Nat \ {0}, content : Contents, deleted : BOOLEAN]

Command == [kind : {"create", "update", "review", "delete", "restore", "sync"},
            task : Tasks \cup {NoTask}, version : Nat, content : Contents]

(* aggregate_version is state.version; the stored result is the state.         *)
Event == [key : Keys, command : Commands \cup {Backfill}, task : Tasks, state : Row]

Backfilled(t) == [version |-> 1, content |-> LegacyContent, deleted |-> FALSE]

ASSUME CommandAssumption ==
    /\ NoTask \notin Tasks
    /\ Reviewable \subseteq Contents
    /\ Commands \subseteq Command
    /\ \A c \in Commands : /\ c.kind = "create" <=> c.task = NoTask
                           /\ c.kind = "review" => c.content \in Reviewable
    /\ Legacy \subseteq Tasks
    /\ LegacyKey \in [Legacy -> Keys]
    /\ \A s, t \in Legacy : LegacyKey[s] = LegacyKey[t] => s = t
    /\ LegacyContent \in Contents
    /\ Backfill \notin Commands

MigrationEvents ==
    {[key |-> LegacyKey[t], command |-> Backfill, task |-> t, state |-> Backfilled(t)] :
        t \in Legacy}

Created(c) == [version |-> 1, content |-> c.content, deleted |-> FALSE]

(* The SET clauses of the commands' UPDATEs; all of them add one to version.   *)
Changed(c, row) ==
    [version |-> row.version + 1,
     content |-> IF c.kind \in {"update", "review", "sync"} THEN c.content ELSE row.content,
     deleted |-> c.kind = "delete" \/ (c.kind # "restore" /\ row.deleted)]
=============================================================================
