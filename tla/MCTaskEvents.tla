---------------------------- MODULE MCTaskEvents ----------------------------
(* A small instance of TaskEvents: one task that predates the stream and one   *)
(* that a command may create.                                                  *)
EXTENDS TaskEvents

CONSTANTS t1, t2, t3, k1, k2, b1

MCTasks == {t1, t2, t3}
MCKeys == {k1, k2, b1}
MCServerKeys == {k2, b1}
MCLegacy == {t1}
MCLegacyKey == [t \in {t1} |-> b1]

Cmd(kind, task, version, content) ==
    [kind |-> kind, task |-> task, version |-> version, content |-> content]

MCCommands ==
    {Cmd("create", NoTask, 0, "open"),
     Cmd("update", t1, 1, "review"),
     Cmd("review", t1, 2, "review"),
     Cmd("delete", t1, 1, "open"),
     Cmd("restore", t1, 2, "open"),
     Cmd("sync", t1, 0, "open")}
=============================================================================
