------------------------------ MODULE MCClient ------------------------------
(* Clients of the token endpoint.  In "answers" requests reach it in any number *)
(* with any token the client ever held, from a user who has yet to consent; in  *)
(* "crowd" from one who is logged in, while nothing expires and the server      *)
(* stays up, so that all of them can be rotations; in "credentials" they are    *)
(* sent by invocations of the command line client, which share a file, from a   *)
(* user logged in to two servers.                                               *)
EXTENDS CliCredentials, TLC

CONSTANTS g1, g2, g3, o1, o2

VARIABLE part
vars == <<cliVars, part>>
files == <<store, cli, mishap>>

MCOriginOf == (g1 :> o1) @@ (g2 :> o2) @@ (g3 :> o1)

Init ==
    \/ part = "credentials" /\ CliInit(<<g1, g2>>)
    \/ /\ \/ part = "answers" /\ OAuthInit
          \/ part = "crowd" /\ LoggedIn(<<g1>>)
       /\ store = NoCopy
       /\ cli = [c \in Calls |-> NoCli]
       /\ mishap = {}

(* One grant is enough for requests to meet.                                    *)
Answers == OAuthNext /\ grants'[g2] = grants[g2] /\ grants'[g3] = grants[g3]
Quiet == /\ client' = client
         /\ history'.crashes = history.crashes
         /\ \A p \in Pairs : tokens'[p].expired = tokens[p].expired

Next ==
    /\ UNCHANGED part
    /\ \/ part = "answers" /\ Answers /\ UNCHANGED files
       \/ part = "crowd" /\ Answers /\ Quiet /\ UNCHANGED files
       \/ part = "credentials" /\ CliNext

(* The event loop runs every request on until it waits for the database, the    *)
(* database grants a row lock that is free, and the pool hands a connection     *)
(* that comes back to the request that has waited longest.                      *)
Served(c) ==
    /\ UNCHANGED part
    /\ \/ part # "credentials" /\ Progress(c) /\ UNCHANGED files
       \/ part = "credentials" /\ Step(c)

Spec == Init /\ [][Next]_vars /\ \A c \in Calls : WF_vars(Served(c))

(* The fields of the file, the tables and the requests in progress have the     *)
(* values the components give them.                                             *)
TypeOK == CliTypeOK
=============================================================================
