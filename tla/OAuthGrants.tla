---------------------------- MODULE OAuthGrants ----------------------------
(* Grants, authorization codes and token families (oauth/service.ts).  A mint   *)
(* inserts an access and a refresh row at once: they are one pair here.  A      *)
(* transaction keeps a connection of the pool until it ends; a statement        *)
(* outside it runs on another, also when the handler that issues it has a       *)
(* transaction open.  What the rest of the API takes from the pool, and what    *)
(* authenticateMcp records of the use of a token, are left out.                 *)
EXTENDS Naturals, Sequences, FiniteSets

CONSTANTS
    Grants,      \* grants the user may give
    Calls,       \* bound: requests that exchange, refresh or revoke a grant
    Connections, \* size of the pool
    MaxCrashes   \* bound: restarts of the API process

ASSUME ConnectionAssumption == Connections \in Nat \ {0}

VARIABLES
    grants,    \* rows of oauth_grants, with their code: absent, fresh, used, revoked
    tokens,    \* committed rows of oauth_tokens, a sequence of pairs
    client,    \* whether the client registration is unexpired
    call,      \* progress of each request
    begun,     \* requests whose transaction is open
    held,      \* pairs whose answer reached the client
    history    \* what the client and the user did, for the properties

oauthVars == <<grants, tokens, client, call, begun, held, history>>

Pairs == DOMAIN tokens
NoCall == [pc |-> "idle"]
None == 0

Pair == [grant : Grants, family : Nat, replaced : BOOLEAN, accessRevoked : BOOLEAN,
         refreshRevoked : BOOLEAN, expired : BOOLEAN]
Call == [pc : {"eligible", "waiting", "minting", "sweep", "sweeping", "touching", "ended"},
         kind : {"exchange", "refresh", "revoke", "drop"}, grant : Grants, token : Nat,
         holds : BOOLEAN,          \* its open transaction holds the token's row
         rows : SUBSET Nat]        \* rows its sweep saw

OAuthTypeOK ==
    /\ grants \in [Grants -> [code : {"absent", "fresh", "used"}, revoked : BOOLEAN]]
    /\ tokens \in Seq(Pair)
    /\ client \in BOOLEAN
    /\ call \in [Calls -> Call \cup {NoCall}]
    /\ begun \subseteq Calls
    /\ held \subseteq Nat
    /\ history \in [presented : SUBSET Nat, reused : SUBSET Nat, dropped : SUBSET Nat,
                    raced : SUBSET Nat, swept : SUBSET Nat, revoked : SUBSET Grants,
                    late : SUBSET Grants, crashes : Nat]

OAuthInit ==
    /\ grants = [g \in Grants |-> [code |-> "absent", revoked |-> FALSE]]
    /\ tokens = <<>>
    /\ client = TRUE
    /\ call = [c \in Calls |-> NoCall]
    /\ begun = {}
    /\ held = {}
    /\ history = [presented |-> {}, reused |-> {}, dropped |-> {}, raced |-> {},
                  swept |-> {}, revoked |-> {}, late |-> {}, crashes |-> 0]

------------------------------------------------------------------------------
Active(c) == call[c].pc \notin {"idle", "ended"}
Goto(c, pc) == call' = [call EXCEPT ![c].pc = pc]

(* A sweep is a statement, or the transaction of revokeGrant, of its own.       *)
Free == Cardinality(begun) + Cardinality({c \in Calls : call[c].pc = "sweeping"})
            < Connections
Connected(c) == c \in begun \/ Free

(* The end of a request, also of one that fails, ends its transaction.          *)
EndedInTransaction(k) == [k EXCEPT !.pc = "ended", !.rows = {}]  \* mutant: no rollback
Ended(k) == [k EXCEPT !.pc = "ended", !.holds = FALSE, !.rows = {}]
End(c) == /\ call' = [call EXCEPT ![c] = Ended(@)]
          /\ begun' = begun \ {c}

(* Rows locked by an open transaction: the token or the code it has updated,    *)
(* and a token it waited for in vain.                                           *)
TokenLocked(p) == \E c \in Calls : call[c] # NoCall /\ call[c].holds /\ call[c].token = p
CodeLocked(g) == \E c \in Calls : /\ call[c].pc = "minting"
                                  /\ call[c].kind = "exchange"
                                  /\ call[c].grant = g
RowLocked(c) == IF call[c].kind = "exchange" THEN CodeLocked(call[c].grant)
                                             ELSE TokenLocked(call[c].token)

(* The WHERE clause of the UPDATE that rotates a token.                         *)
RotatesUnrevoked(p) == ~tokens[p].refreshRevoked  \* mutant: replaced_at is not tested
Rotates(p) == ~tokens[p].replaced /\ ~tokens[p].refreshRevoked

Family(f) == {p \in Pairs : tokens[p].family = f}
OfGrant(g) == {p \in Pairs : tokens[p].grant = g}
Unrevoked(S) == {p \in S : ~tokens[p].accessRevoked \/ ~tokens[p].refreshRevoked}

(* decideConsent: the grant and its code in one transaction, then touchClient.  *)
(* The client was looked at when the authorization began, not here.             *)
Consent(g) ==
    /\ Free
    /\ grants[g].code = "absent"
    /\ grants' = [grants EXCEPT ![g].code = "fresh"]
    /\ client' = TRUE
    /\ UNCHANGED <<tokens, call, begun, held, history>>

------------------------------------------------------------------------------
(* exchangeAuthorizationCode reads, then consumes the code in a transaction.    *)
ExchangeRead(c, g) ==
    /\ call[c] = NoCall /\ Free
    /\ grants[g].code = "fresh" /\ ~grants[g].revoked /\ client
    /\ call' = [call EXCEPT ![c] = [pc |-> "eligible", kind |-> "exchange", grant |-> g,
                                    token |-> None, holds |-> FALSE, rows |-> {}]]
    /\ UNCHANGED <<grants, tokens, client, begun, held, history>>

(* A transaction opens and its first statement finds the row it updates locked. *)
RowWait(c) ==
    /\ call[c].pc = "eligible" /\ Free
    /\ RowLocked(c)
    /\ Goto(c, "waiting")
    /\ begun' = begun \cup {c}
    /\ UNCHANGED <<grants, tokens, client, held, history>>

UseCode(c) ==
    /\ call[c].pc \in {"eligible", "waiting"} /\ call[c].kind = "exchange"
    /\ Connected(c)
    /\ ~CodeLocked(call[c].grant)
    /\ \/ /\ grants[call[c].grant].code = "fresh"
          /\ Goto(c, "minting")
          /\ begun' = begun \cup {c}
       \/ /\ grants[call[c].grant].code # "fresh"
          /\ End(c)
    /\ UNCHANGED <<grants, tokens, client, held, history>>

NewPair(c, f) == [grant |-> call[c].grant, family |-> f, replaced |-> FALSE,
                  accessRevoked |-> FALSE, refreshRevoked |-> FALSE, expired |-> FALSE]

ExchangeCommit(c) ==
    /\ call[c].pc = "minting" /\ call[c].kind = "exchange"
    /\ grants' = [grants EXCEPT ![call[c].grant].code = "used"]
    /\ tokens' = Append(tokens, NewPair(c, Len(tokens) + 1))
    /\ call' = [call EXCEPT ![c].pc = "touching", ![c].token = Len(tokens) + 1]
    /\ begun' = begun \ {c}
    /\ UNCHANGED <<client, held, history>>

------------------------------------------------------------------------------
(* refresh reads the row and takes it for a replay or goes on to rotate it.     *)
Replayed(p) == tokens[p].replaced \/ tokens[p].refreshRevoked
ExpiryReplayed(p) ==  \* mutant: an expired token is taken for a replay
    IF ~client \/ grants[tokens[p].grant].revoked THEN "refused"
    ELSE IF Replayed(p) \/ tokens[p].expired THEN "replay" ELSE "current"
Verdict(p) ==
    IF tokens[p].expired \/ ~client \/ grants[tokens[p].grant].revoked THEN "refused"
    ELSE IF Replayed(p) THEN "replay" ELSE "current"

RefreshRead(c, p) ==
    /\ call[c] = NoCall /\ Free
    /\ p \in held
    /\ Verdict(p) # "refused"
    /\ call' = [call EXCEPT ![c] =
          [pc |-> IF Verdict(p) = "replay" THEN "sweep" ELSE "eligible", kind |-> "refresh",
           grant |-> tokens[p].grant, token |-> p, holds |-> FALSE, rows |-> {}]]
    /\ history' = [history EXCEPT !.presented = @ \cup {p},
                                  !.reused = @ \cup ({p} \cap history.presented)]
    /\ UNCHANGED <<grants, tokens, client, begun, held>>

(* The guarded UPDATE of the old row takes it, or finds it replaced or revoked. *)
Rotate(c) ==
    /\ call[c].pc \in {"eligible", "waiting"} /\ call[c].kind = "refresh"
    /\ Connected(c)
    /\ ~TokenLocked(call[c].token)
    /\ Rotates(call[c].token)
    /\ call' = [call EXCEPT ![c].pc = "minting", ![c].holds = TRUE]
    /\ begun' = begun \cup {c}
    /\ UNCHANGED <<grants, tokens, client, held, history>>

(* A loser that had to wait keeps the row locked until its transaction ends,    *)
(* and its transaction ends after the sweep, which another connection makes.    *)
LoseRotation(c) ==
    /\ call[c].pc \in {"eligible", "waiting"} /\ call[c].kind = "refresh"
    /\ Connected(c)
    /\ ~TokenLocked(call[c].token)
    /\ ~Rotates(call[c].token)
    /\ call' = [call EXCEPT ![c].pc = "sweep", ![c].holds = (call[c].pc = "waiting")]
    /\ begun' = begun \cup {c}
    /\ UNCHANGED <<grants, tokens, client, held, history>>

SweepingOf(f) == {c \in Calls : /\ call[c].pc = "sweeping"
                                /\ call[c].rows \cap Family(f) # {}}

RefreshCommit(c) ==
    LET p == call[c].token  f == tokens[p].family IN
    /\ call[c].pc = "minting" /\ call[c].kind = "refresh"
    /\ tokens' = Append([tokens EXCEPT ![p].replaced = TRUE], NewPair(c, f))
    /\ call' = [call EXCEPT ![c].pc = "touching", ![c].token = Len(tokens) + 1,
                            ![c].holds = FALSE]
    /\ begun' = begun \ {c}
    /\ history' = [history EXCEPT !.raced = @ \cup {g \in {f} : SweepingOf(g) # {}}]
    /\ UNCHANGED <<grants, client, held>>

(* touchClient, and the answer, which may be lost.                              *)
Answer(c, arrives) ==
    /\ call[c].pc = "touching" /\ Free
    /\ End(c)
    /\ client' = TRUE
    /\ held' = held \cup (IF arrives THEN {call[c].token} ELSE {})
    /\ UNCHANGED <<grants, tokens, history>>

------------------------------------------------------------------------------
(* revokeGrant reads the grant before its transaction.                          *)
RevokeGrantRead(c, g) ==
    /\ call[c] = NoCall /\ Free
    /\ grants[g].code # "absent" /\ ~grants[g].revoked
    /\ call' = [call EXCEPT ![c] = [pc |-> "sweep", kind |-> "revoke", grant |-> g,
                                    token |-> None, holds |-> FALSE, rows |-> {}]]
    /\ UNCHANGED <<grants, tokens, client, begun, held, history>>

SweptToken(c) ==   \* mutant: the replayed token alone is revoked
    IF call[c].kind = "revoke" THEN OfGrant(call[c].grant) ELSE {call[c].token}
SweptRows(c) ==
    IF call[c].kind = "revoke" THEN OfGrant(call[c].grant)
                               ELSE Family(tokens[call[c].token].family)

(* revokeTokenFamily and the UPDATE of revokeGrantTokens: the rows committed    *)
(* when the statement begins, each changed once no transaction holds it.  The   *)
(* connection is a second one for a request that lost a rotation.               *)
SweepBegin(c) ==
    /\ call[c].pc = "sweep" /\ Free
    /\ call' = [call EXCEPT ![c].pc = "sweeping", ![c].rows = Unrevoked(SweptRows(c))]
    /\ UNCHANGED <<grants, tokens, client, begun, held, history>>

SweepBlocked(c) == \E p \in call[c].rows : TokenLocked(p) /\ ~tokens[p].refreshRevoked

SweepEnd(c) ==
    LET revoke == call[c].kind = "revoke" IN
    /\ call[c].pc = "sweeping"
    /\ ~SweepBlocked(c)
    /\ tokens' = [p \in Pairs |-> IF p \in call[c].rows
                     THEN [tokens[p] EXCEPT !.accessRevoked = TRUE, !.refreshRevoked = TRUE]
                     ELSE tokens[p]]
    /\ grants' = [grants EXCEPT ![call[c].grant].revoked = @ \/ revoke]
    /\ End(c)
    /\ history' = IF revoke
          THEN [history EXCEPT !.revoked = @ \cup {call[c].grant}]
          ELSE [history EXCEPT !.swept = @ \cup {tokens[call[c].token].family}]
    /\ UNCHANGED <<client, held>>

(* revoke: one row by its hash, whichever of the two the client names.  An      *)
(* UPDATE of a refresh row that a transaction holds waits for it.               *)
RevokeToken(p, row) ==
    /\ p \in held /\ Free
    /\ row = "refresh" => ~TokenLocked(p)
    /\ tokens' = IF row = "refresh" THEN [tokens EXCEPT ![p].refreshRevoked = TRUE]
                                    ELSE [tokens EXCEPT ![p].accessRevoked = TRUE]
    /\ history' = [history EXCEPT !.dropped = @ \cup {p}]
    /\ UNCHANGED <<grants, client, call, begun, held>>

RevokeWait(c, p) ==
    /\ call[c] = NoCall /\ Free
    /\ p \in held
    /\ TokenLocked(p)
    /\ call' = [call EXCEPT ![c] = [pc |-> "waiting", kind |-> "drop",
                                    grant |-> tokens[p].grant, token |-> p,
                                    holds |-> FALSE, rows |-> {}]]
    /\ begun' = begun \cup {c}
    /\ UNCHANGED <<grants, tokens, client, held, history>>

Drop(c) ==
    LET p == call[c].token IN
    /\ call[c].pc = "waiting" /\ call[c].kind = "drop"
    /\ ~TokenLocked(p)
    /\ tokens' = [tokens EXCEPT ![p].refreshRevoked = TRUE]
    /\ End(c)
    /\ history' = [history EXCEPT !.dropped = @ \cup {p}]
    /\ UNCHANGED <<grants, client, held>>

AuthenticatesUnrevoked(p) ==  \* mutant: the grant is not looked at
    ~tokens[p].accessRevoked /\ ~tokens[p].expired /\ client
Authenticates(p) == /\ ~tokens[p].accessRevoked /\ ~tokens[p].expired
                    /\ ~grants[tokens[p].grant].revoked
                    /\ client

(* authenticateMcp: one SELECT decides.                                         *)
AuthenticateMcp(p) ==
    /\ p \in held /\ Free
    /\ Authenticates(p)
    /\ history' = [history EXCEPT !.late =
                      @ \cup ({tokens[p].grant} \cap history.revoked)]
    /\ UNCHANGED <<grants, tokens, client, call, begun, held>>

Expire(p) ==
    /\ p \in Pairs /\ ~tokens[p].expired
    /\ tokens' = [tokens EXCEPT ![p].expired = TRUE]
    /\ UNCHANGED <<grants, client, call, begun, held, history>>

Lapse ==
    /\ client
    /\ client' = FALSE
    /\ UNCHANGED <<grants, tokens, call, begun, held, history>>

Crash ==
    /\ history.crashes < MaxCrashes
    /\ call' = [c \in Calls |-> IF Active(c) THEN Ended(call[c]) ELSE call[c]]
    /\ begun' = {}
    /\ history' = [history EXCEPT !.crashes = @ + 1]
    /\ UNCHANGED <<grants, tokens, client, held>>

Progress(c) ==
    \/ RowWait(c) \/ UseCode(c) \/ ExchangeCommit(c)
    \/ Rotate(c) \/ LoseRotation(c) \/ RefreshCommit(c)
    \/ SweepBegin(c) \/ SweepEnd(c) \/ Drop(c)
    \/ \E arrives \in BOOLEAN : Answer(c, arrives)

OAuthNext ==
    \/ \E g \in Grants : Consent(g)
    \/ \E c \in Calls :
          \/ \E g \in Grants : ExchangeRead(c, g) \/ RevokeGrantRead(c, g)
          \/ \E p \in held : RefreshRead(c, p) \/ RevokeWait(c, p)
          \/ Progress(c)
    \/ \E p \in held, row \in {"access", "refresh"} : RevokeToken(p, row)
    \/ \E p \in held : AuthenticateMcp(p)
    \/ \E p \in Pairs : Expire(p)
    \/ Lapse
    \/ Crash

OAuthSpec == OAuthInit /\ [][OAuthNext]_oauthVars

------------------------------------------------------------------------------
(* A grant has at most one refresh token that can still be rotated, however     *)
(* many requests exchange its code and present its tokens at once.              *)
LiveRefresh(p) == ~tokens[p].replaced /\ ~tokens[p].refreshRevoked
OneLiveRefresh ==
    \A p, q \in Pairs :
        tokens[p].grant = tokens[q].grant /\ LiveRefresh(p) /\ LiveRefresh(q) => p = q

(* A detected replay ends its family, unless a rotation committed while the     *)
(* UPDATE that ends it was running.                                             *)
ReplayEndsFamily ==
    \A p \in Pairs : /\ tokens[p].family \in history.swept
                     /\ tokens[p].family \notin history.raced
                     => tokens[p].accessRevoked /\ tokens[p].refreshRevoked

(* No token is revoked that the user or the client did not have revoked, or     *)
(* whose family did not see one of its refresh tokens presented twice.          *)
RevocationExplained ==
    \A p \in Pairs : tokens[p].accessRevoked \/ tokens[p].refreshRevoked =>
        \/ grants[tokens[p].grant].revoked
        \/ Family(tokens[p].family) \cap (history.reused \cup history.dropped) # {}

(* Once the answer to revokeGrant is out no request authenticates with a token  *)
(* of the grant, also not with one minted while it was being revoked.           *)
RevokedGrantUnused == history.late = {}

(* Requests end, but for two ways in which rotations that lost wait for ever:   *)
(* one that had to wait for its row now waits, in the sweep, for that row,      *)
(* which its own transaction holds; or the transactions of such rotations have  *)
(* taken the pool, and each asks it for a second connection.                    *)
SelfBlocked == \E c \in Calls :
    LET p == call[c].token IN
    /\ call[c].pc = "sweeping" /\ call[c].holds
    /\ p \in call[c].rows /\ ~tokens[p].refreshRevoked

Lost(c) == call[c].pc = "sweep" /\ c \in begun
Stuck(c) ==
    \/ Lost(c)
    \/ call[c].pc = "waiting" /\ RowLocked(c)
    \/ call[c].pc = "sweeping" /\ SweepBlocked(c)
Starved == /\ ~Free
           /\ \E c \in Calls : Lost(c)
           /\ \A c \in Calls : c \in begun \/ call[c].pc = "sweeping" => Stuck(c)

CallsAnswered ==
    \A c \in Calls : Active(c) ~> (~Active(c) \/ SelfBlocked \/ Starved)
=============================================================================
