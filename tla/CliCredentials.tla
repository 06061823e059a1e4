--------------------------- MODULE CliCredentials ---------------------------
(* The command line client's credentials (apps/mcp: client/remote.ts,           *)
(* commands, oauth/refresh.ts, storage/credential-store.ts) against the token   *)
(* endpoint.  All origins share one file, rewritten whole; a call of            *)
(* OAuthGrants is the request one invocation makes.                             *)
EXTENDS OAuthGrants

CONSTANTS
    Origins,    \* servers the user logs in to
    OriginOf    \* the server a grant belongs to

ASSUME OriginAssumption == OriginOf \in [Grants -> Origins]

VARIABLES
    store,   \* credentials.json: the pair kept for each origin, or None
    cli,     \* progress of each invocation
    mishap   \* origins whose credentials something unforeseen happened to

cliVars == <<grants, tokens, client, call, begun, held, history, store, cli, mishap>>

NoCli == [at |-> "idle"]
NoCopy == [o \in Origins |-> None]
Cli == [at : {"found", "waiting", "got", "writing", "done"}, origin : Origins,
        pair : Nat, copy : [Origins -> Nat]]

CliTypeOK ==
    /\ OAuthTypeOK
    /\ store \in [Origins -> Nat]
    /\ cli \in [Calls -> Cli \cup {NoCli}]
    /\ mishap \subseteq Origins

(* The server after a login with each of some grants, the others unused.        *)
LoggedIn(first) ==
    LET g(i) == first[i] IN
    /\ grants = [x \in Grants |-> [code |-> IF \E i \in DOMAIN first : g(i) = x
                                            THEN "used" ELSE "absent", revoked |-> FALSE]]
    /\ tokens = [i \in DOMAIN first |-> [grant |-> g(i), family |-> i, replaced |-> FALSE,
                    accessRevoked |-> FALSE, refreshRevoked |-> FALSE, expired |-> FALSE]]
    /\ held = DOMAIN first
    /\ client = TRUE
    /\ call = [c \in Calls |-> NoCall]
    /\ begun = {}
    /\ history = [presented |-> {}, reused |-> {}, dropped |-> {}, raced |-> {},
                  swept |-> {}, revoked |-> {}, late |-> {}, crashes |-> 0]

(* Logged in to every origin with the first grant of each.                      *)
CliInit(first) ==
    /\ LoggedIn(first)
    /\ store = [o \in Origins |-> CHOOSE i \in DOMAIN first : OriginOf[first[i]] = o]
    /\ cli = [c \in Calls |-> NoCli]
    /\ mishap = {}

------------------------------------------------------------------------------
Server == <<grants, tokens, client, call, begun, held, history>>

Running(c) == cli[c].at \in {"found", "waiting", "got", "writing"} \/ Active(c)
Busy(o) == \E c \in Calls : Running(c) /\ cli[c].origin = o
Move(c, at) == cli' = [cli EXCEPT ![c].at = at]
Over(k) == [k EXCEPT !.at = "done", !.pair = None, !.copy = NoCopy]
Stop(c) == cli' = [cli EXCEPT ![c] = Over(@)]

(* connectToolClient and runStdio read the file; a token about to expire is     *)
(* refreshed first.  Two invocations for one origin at once are a mishap.       *)
Find(c, o) ==
    /\ cli[c] = NoCli
    /\ store[o] # None
    /\ cli' = [cli EXCEPT ![c] = [at |-> "found", origin |-> o, pair |-> store[o],
                                  copy |-> NoCopy]]
    /\ mishap' = mishap \cup {x \in {o} : Busy(o)}
    /\ UNCHANGED <<Server, store>>

UseAccess(c) ==
    /\ cli[c].at = "found"
    /\ AuthenticateMcp(cli[c].pair)
    /\ Stop(c)
    /\ UNCHANGED <<store, mishap>>

SendRefresh(c) ==
    /\ cli[c].at = "found"
    /\ RefreshRead(c, cli[c].pair)
    /\ Move(c, "waiting")
    /\ UNCHANGED <<store, mishap>>

(* login: the user consents and the code is exchanged.                          *)
Login(c, g) ==
    /\ cli[c] = NoCli
    /\ ExchangeRead(c, g)
    /\ cli' = [cli EXCEPT ![c] = [at |-> "waiting", origin |-> OriginOf[g], pair |-> None,
                                  copy |-> NoCopy]]
    /\ mishap' = mishap \cup {x \in {OriginOf[g]} : Busy(x)}
    /\ UNCHANGED store

(* The server works on the request; its answer, when there is one, may be lost. *)
ServerStep(c) ==
    /\ \/ RowWait(c) \/ UseCode(c) \/ ExchangeCommit(c) \/ Rotate(c)
       \/ LoseRotation(c) \/ RefreshCommit(c) \/ SweepBegin(c) \/ SweepEnd(c)
    /\ cli' = IF call'[c].pc = "ended" /\ cli[c].at = "waiting"
              THEN [cli EXCEPT ![c] = Over(@)] ELSE cli
    /\ UNCHANGED <<store, mishap>>

Receive(c) ==
    LET arrives == cli[c].at = "waiting" IN
    /\ Answer(c, arrives)
    /\ cli' = IF arrives THEN [cli EXCEPT ![c].at = "got", ![c].pair = call[c].token] ELSE cli
    /\ mishap' = IF arrives THEN mishap ELSE mishap \cup {cli[c].origin}
    /\ UNCHANGED store

LoseAnswer(c) ==
    /\ cli[c].at = "waiting"
    /\ Answer(c, FALSE)
    /\ Stop(c)
    /\ mishap' = mishap \cup {cli[c].origin}
    /\ UNCHANGED store

(* save and remove read the file and write all of it.  Whoever reads it while   *)
(* another is about to write may put back what the other replaced.              *)
StoreRead(c) ==
    /\ cli[c].at = "got"
    /\ cli' = [cli EXCEPT ![c].at = "writing", ![c].copy = store]
    /\ mishap' = IF \E d \in Calls : cli[d].at = "writing" THEN Origins ELSE mishap
    /\ UNCHANGED <<Server, store>>

SavedOld(c) == cli[c].copy[cli[c].origin]  \* mutant: the old refresh token is kept
Saved(c) == cli[c].pair

StoreWrite(c) ==
    /\ cli[c].at = "writing"
    /\ store' = [cli[c].copy EXCEPT ![cli[c].origin] = Saved(c)]
    /\ Stop(c)
    /\ UNCHANGED <<Server, mishap>>

(* logout removes the entry; the tokens stay as they are on the server.         *)
Logout(c, o) ==
    /\ cli[c] = NoCli
    /\ store[o] # None
    /\ cli' = [cli EXCEPT ![c] = [at |-> "writing", origin |-> o, pair |-> None,
                                  copy |-> store]]
    /\ mishap' = mishap \cup (IF \E d \in Calls : cli[d].at = "writing" THEN Origins ELSE {})
                        \cup {x \in {o} : Busy(o)}
    /\ UNCHANGED <<Server, store>>

Kill(c) ==
    /\ cli[c].at \in {"found", "waiting", "got", "writing"}
    /\ Stop(c)
    /\ mishap' = IF cli[c].at \in {"got", "writing"} /\ cli[c].pair # None
                 THEN mishap \cup {cli[c].origin} ELSE mishap
    /\ UNCHANGED <<Server, store>>

(* The user revokes a grant in the browser.                                     *)
UserRevokes(c, g) ==
    /\ cli[c] = NoCli
    /\ RevokeGrantRead(c, g)
    /\ cli' = [cli EXCEPT ![c] = [at |-> "done", origin |-> OriginOf[g], pair |-> None,
                                  copy |-> NoCopy]]
    /\ UNCHANGED <<store, mishap>>

Step(c) == ServerStep(c) \/ Receive(c) \/ LoseAnswer(c)

CliNext ==
    \/ \E c \in Calls :
          \/ \E o \in Origins : Find(c, o) \/ Logout(c, o)
          \/ \E g \in Grants : Login(c, g) \/ UserRevokes(c, g)
          \/ UseAccess(c) \/ SendRefresh(c) \/ Step(c)
          \/ StoreRead(c) \/ StoreWrite(c) \/ Kill(c)
    \/ \E g \in Grants : Consent(g) /\ UNCHANGED <<store, cli, mishap>>

CliSpec(first) == CliInit(first) /\ [][CliNext]_cliVars

------------------------------------------------------------------------------
(* The user stays logged in: when invocations come one after another, and each  *)
(* gets its answer and saves it, the stored refresh token is the family's live  *)
(* one, until the user revokes the grant.                                       *)
StoredTokenLive ==
    \A o \in Origins : store[o] # None /\ o \notin mishap /\ ~Busy(o) =>
        \/ LiveRefresh(store[o])
        \/ grants[tokens[store[o]].grant].revoked
=============================================================================
