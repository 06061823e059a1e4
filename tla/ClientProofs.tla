---------------------------- MODULE ClientProofs ----------------------------
(* Proofs about the authorization server and its command line client.           *)
(*                                                                              *)
(* Grants, codes and token families: however many requests exchange, refresh    *)
(* and revoke at once, and wherever the process restarts.  The rows an open     *)
(* transaction holds, and what it has yet to find out about the token it was    *)
(* given, are what the properties need to be inductive.                         *)
(*                                                                              *)
(* The client on top of them, for any number of invocations, servers and token  *)
(* pairs: a stored pair is one the server still takes, unless something         *)
(* unforeseen happened.  The proof takes every invocation through each step of  *)
(* the request it makes, because what the file may hold depends on how far the  *)
(* server has come.                                                             *)
EXTENDS CliCredentials, FiniteSetTheorems, SequenceTheorems, TLAPS

------------------------------------------------------------------------------
Presenting(c) == call[c].pc \in {"eligible", "waiting", "minting"} /\ call[c].kind = "refresh"
Replaying(c) == call[c].pc \in {"sweep", "sweeping"} /\ call[c].kind = "refresh"
Exchanging(c) == call[c].pc = "minting" /\ call[c].kind = "exchange"
Holding(c) == call[c] # NoCall /\ call[c].holds

(* Rows refer to rows: a family is named after its first pair, all of one grant. *)
RowsKnown ==
    /\ held \subseteq Pairs
    /\ history.swept \subseteq Pairs
    /\ \A p \in Pairs : tokens[p].family \in Pairs
    /\ \A p, q \in Pairs : tokens[p].family = tokens[q].family => tokens[p].grant = tokens[q].grant

(* What a request is about at each point.                                       *)
CallKnown(k) ==
    /\ k.pc \in {"eligible", "minting"} => k.kind \in {"exchange", "refresh"}
    /\ k.pc = "waiting" => k.kind \in {"exchange", "refresh", "drop"}
    /\ k.kind = "drop" /\ k.pc = "waiting" => k.token \in Pairs
    /\ k.pc \in {"sweep", "sweeping"} => k.kind \in {"refresh", "revoke"}
    /\ k.kind = "refresh" /\ k.pc # "ended" => k.token \in Pairs
    /\ k.kind = "refresh" /\ k.pc \notin {"touching", "ended"} => tokens[k.token].grant = k.grant
    /\ k.pc = "touching" => k.token \in Pairs
    /\ k.holds => k.kind = "refresh" /\ k.pc \in {"minting", "sweep", "sweeping"}
    /\ k.kind = "refresh" /\ k.pc = "minting" => k.holds /\ Rotates(k.token)
    /\ k.kind = "exchange" /\ k.pc = "minting" => grants[k.grant].code = "fresh"
    /\ k.pc = "sweeping" => k.rows \subseteq Pairs
    /\ k.pc = "sweeping" /\ k.kind = "revoke" => \A p \in k.rows : tokens[p].grant = k.grant

CallsKnown == \A c \in Calls, k \in Call : call[c] = k => CallKnown(k)

(* A code is used by one request, a row is held by one.                         *)
Alone ==
    /\ \A g \in Grants, p \in Pairs : tokens[p].grant = g => grants[g].code = "used"
    /\ \A c, d \in Calls : Exchanging(c) /\ Exchanging(d) /\ call[c].grant = call[d].grant => c = d
    /\ \A c, d \in Calls : Holding(c) /\ Holding(d) /\ call[c].token = call[d].token => c = d

(* Why a family may be revoked: because of a token presented twice, or dropped. *)
Explained(p) ==
    \/ grants[tokens[p].grant].revoked
    \/ \E q \in Pairs : /\ tokens[q].family = tokens[p].family
                        /\ q \in history.reused \cup history.dropped

(* A token that was replaced was presented; two requests that present one, or   *)
(* one that presents a replaced one, are a second use of it.                    *)
PresentedTwice ==
    /\ \A p \in Pairs : tokens[p].replaced => p \in history.presented
    /\ \A c \in Calls, p \in Pairs : Presenting(c) /\ call[c].token = p =>
           /\ p \in history.presented
           /\ tokens[p].replaced => p \in history.reused
    /\ \A c, d \in Calls, p \in Pairs :
           /\ Presenting(c) /\ call[c].token = p
           /\ Presenting(d) /\ call[d].token = p
           => c = d \/ p \in history.reused
    /\ \A c \in Calls, p \in Pairs : Replaying(c) /\ call[c].token = p => Explained(p)

Revoked(p) == tokens[p].accessRevoked /\ tokens[p].refreshRevoked

(* What a sweep saw is all there is of the family that is not revoked, unless a *)
(* rotation raced with it; and it is of the family.                             *)
SweepSees ==
    \A c \in Calls, p, q \in Pairs :
        /\ call[c].pc = "sweeping" /\ call[c].kind = "refresh" /\ call[c].token = p
        => /\ q \in call[c].rows => tokens[q].family = tokens[p].family
           /\ tokens[q].family = tokens[p].family =>
                 q \in call[c].rows \/ Revoked(q) \/ tokens[p].family \in history.raced

RevokedKept == \A g \in Grants : g \in history.revoked => grants[g].revoked

OInv == /\ OAuthTypeOK /\ RowsKnown /\ CallsKnown /\ Alone /\ PresentedTwice /\ SweepSees
        /\ RevokedKept /\ RevokedGrantUnused
        /\ OneLiveRefresh /\ RevocationExplained /\ ReplayEndsFamily

------------------------------------------------------------------------------
LEMMA CallFields ==
    ASSUME OInv, NEW c \in Calls, call[c].pc # "idle"
    PROVE  /\ call[c] \in Call /\ call[c] # NoCall
           /\ CallKnown(call[c])
           /\ call[c].grant \in Grants /\ call[c].token \in Nat
<1>1. call[c] \in Call
  BY DEF OInv, OAuthTypeOK, NoCall
<1>2. CallKnown(call[c])
  BY <1>1 DEF OInv, CallsKnown
<1>3. NoCall \notin Call
  BY DEF NoCall, Call
<1> QED  BY <1>1, <1>2, <1>3 DEF Call

LEMMA PairFields ==
    ASSUME OAuthTypeOK, NEW p \in Pairs
    PROVE  /\ tokens[p] \in Pair /\ tokens[p].grant \in Grants /\ tokens[p].family \in Nat
           /\ Len(tokens) \in Nat /\ Pairs = 1 .. Len(tokens) /\ p \in Nat
<1>1. tokens[p] \in Pair /\ Len(tokens) \in Nat /\ Pairs = 1 .. Len(tokens)
  BY DEF OAuthTypeOK, Pairs
<1> QED  BY <1>1 DEF Pair

LEMMA TokenLockedHolding ==
    ASSUME NEW p
    PROVE  TokenLocked(p) <=> \E c \in Calls : Holding(c) /\ call[c].token = p
  BY DEF TokenLocked, Holding

LEMMA ExplainedFamily ==
    ASSUME NEW p \in Pairs
    PROVE  Explained(p) <=> \/ grants[tokens[p].grant].revoked
                            \/ Family(tokens[p].family) \cap (history.reused \cup history.dropped) # {}
  BY DEF Explained, Family

LEMMA OAuthInitial == OAuthInit => OInv
<1> SUFFICES ASSUME OAuthInit PROVE OInv  OBVIOUS
<1>1. Pairs = {} /\ Len(tokens) = 0
  BY DEF OAuthInit, Pairs
<1>2. \A c \in Calls : call[c] = NoCall /\ call[c] \notin Call
  BY DEF OAuthInit, NoCall, Call
<1>3. OAuthTypeOK
  BY DEF OAuthInit, OAuthTypeOK
<1>4. RowsKnown /\ CallsKnown
  BY <1>1, <1>2 DEF OAuthInit, RowsKnown, CallsKnown
<1>5. Alone /\ PresentedTwice /\ SweepSees
  BY <1>1, <1>2 DEF Alone, PresentedTwice, SweepSees, NoCall, Exchanging, Holding, Presenting,
     Replaying
<1>6. RevokedKept /\ RevokedGrantUnused
  BY DEF OAuthInit, RevokedKept, RevokedGrantUnused
<1>7. OneLiveRefresh /\ RevocationExplained /\ ReplayEndsFamily
  BY <1>1 DEF OneLiveRefresh, RevocationExplained, ReplayEndsFamily
<1> QED  BY <1>3, <1>4, <1>5, <1>6, <1>7 DEF OInv

------------------------------------------------------------------------------
(* A request that takes a step which writes no row.                             *)
LEMMA CallStep ==
    ASSUME OInv, NEW c \in Calls, NEW k \in Call, call' = [call EXCEPT ![c] = k],
           UNCHANGED <<grants, tokens>>, client' \in BOOLEAN, held' \subseteq Pairs, begun' \subseteq Calls,
           history'.presented \subseteq Nat, history'.reused \subseteq Nat,
           history.presented \subseteq history'.presented, history.reused \subseteq history'.reused,
           history' = [history EXCEPT !.presented = history'.presented, !.reused = history'.reused],
           CallKnown(k),
           k.pc = "minting" /\ k.kind = "exchange" =>
              \A d \in Calls \ {c} : ~(Exchanging(d) /\ call[d].grant = k.grant),
           k.holds => \A d \in Calls \ {c} : ~(Holding(d) /\ call[d].token = k.token),
           k.pc \in {"eligible", "waiting", "minting"} /\ k.kind = "refresh" =>
              /\ k.token \in history'.presented
              /\ tokens[k.token].replaced => k.token \in history'.reused
              /\ \A d \in Calls \ {c} :
                    Presenting(d) /\ call[d].token = k.token => k.token \in history'.reused,
           k.pc \in {"sweep", "sweeping"} /\ k.kind = "refresh" =>
              Explained(k.token) \/ k.token \in history'.reused,
           k.pc = "sweeping" /\ k.kind = "refresh" =>
              \A q \in Pairs :
                 /\ q \in k.rows => tokens[q].family = tokens[k.token].family
                 /\ tokens[q].family = tokens[k.token].family =>
                       q \in k.rows \/ Revoked(q) \/ tokens[k.token].family \in history.raced
    PROVE  OInv'
<1>1. history \in [presented : SUBSET Nat, reused : SUBSET Nat, dropped : SUBSET Nat,
                   raced : SUBSET Nat, swept : SUBSET Nat, revoked : SUBSET Grants,
                   late : SUBSET Grants, crashes : Nat]
  BY DEF OInv, OAuthTypeOK
<1>2. /\ history' \in [presented : SUBSET Nat, reused : SUBSET Nat, dropped : SUBSET Nat,
                       raced : SUBSET Nat, swept : SUBSET Nat, revoked : SUBSET Grants,
                       late : SUBSET Grants, crashes : Nat]
      /\ history'.dropped = history.dropped /\ history'.raced = history.raced
      /\ history'.swept = history.swept /\ history'.revoked = history.revoked
      /\ history'.late = history.late
  BY <1>1
<1>3. Pairs' = Pairs
  BY DEF Pairs
<1>4. \A d \in Calls : (d = c /\ call'[d] = k) \/ (d # c /\ call'[d] = call[d])
  BY DEF OInv, OAuthTypeOK
<1>5. k # NoCall
  BY DEF NoCall, Call
<1>6. OAuthTypeOK'
  <2>1. call' \in [Calls -> Call \cup {NoCall}]
    BY DEF OInv, OAuthTypeOK
  <2>2. held' \subseteq Nat
    BY PairFields DEF OInv
  <2> QED  BY <1>2, <2>1, <2>2 DEF OInv, OAuthTypeOK
<1>7. RowsKnown'
  BY <1>2, <1>3 DEF OInv, RowsKnown
<1>8. CallsKnown'
  <2> SUFFICES ASSUME NEW d \in Calls, NEW m \in Call, call'[d] = m PROVE CallKnown(m)'
    BY DEF CallsKnown
  <2>1. CallKnown(m)
    BY <1>4 DEF OInv, CallsKnown
  <2> QED  BY <1>3, <2>1 DEF CallKnown, Rotates
<1>9. Alone'
  <2>1. \A d, e \in Calls : Exchanging(d)' /\ Exchanging(e)' /\ call'[d].grant = call'[e].grant => d = e
    BY <1>4 DEF OInv, Alone, Exchanging
  <2>2. \A d, e \in Calls : Holding(d)' /\ Holding(e)' /\ call'[d].token = call'[e].token => d = e
    BY <1>4 DEF OInv, Alone, Holding
  <2> QED  BY <1>3, <2>1, <2>2 DEF OInv, Alone
<1>10. \A p \in Pairs : Explained(p) \/ p \in history'.reused => Explained(p)'
  BY <1>2, <1>3 DEF Explained
<1>11. PresentedTwice'
  <2>1. \A d \in Calls, p \in Pairs : Presenting(d)' /\ call'[d].token = p =>
           p \in history'.presented /\ (tokens[p].replaced => p \in history'.reused)
    BY <1>4 DEF OInv, PresentedTwice, Presenting
  <2>2. \A d, e \in Calls, p \in Pairs :
           Presenting(d)' /\ call'[d].token = p /\ Presenting(e)' /\ call'[e].token = p =>
              d = e \/ p \in history'.reused
    BY <1>4 DEF OInv, PresentedTwice, Presenting
  <2>3. \A d \in Calls, p \in Pairs : Replaying(d)' /\ call'[d].token = p => Explained(p)'
    BY <1>4, <1>10 DEF OInv, PresentedTwice, Replaying
  <2> QED  BY <1>3, <2>1, <2>2, <2>3 DEF OInv, PresentedTwice
<1>12. SweepSees'
  BY <1>2, <1>3, <1>4 DEF OInv, SweepSees, Revoked
<1>13. RevokedKept' /\ RevokedGrantUnused'
  BY <1>2 DEF OInv, RevokedKept, RevokedGrantUnused
<1>14. OneLiveRefresh' /\ ReplayEndsFamily'
  BY <1>2, <1>3 DEF OInv, OneLiveRefresh, LiveRefresh, ReplayEndsFamily
<1>15. RevocationExplained'
  BY <1>2, <1>3 DEF OInv, RevocationExplained, Family
<1> QED  BY <1>6, <1>7, <1>8, <1>9, <1>11, <1>12, <1>13, <1>14, <1>15 DEF OInv

(* The same for a step that leaves the history as it is.                        *)
LEMMA QuietStep ==
    ASSUME OInv, NEW c \in Calls, NEW k \in Call, call' = [call EXCEPT ![c] = k],
           UNCHANGED <<grants, tokens, history>>, client' \in BOOLEAN, held' \subseteq Pairs, begun' \subseteq Calls,
           CallKnown(k),
           k.pc = "minting" /\ k.kind = "exchange" =>
              \A d \in Calls \ {c} : ~(Exchanging(d) /\ call[d].grant = k.grant),
           k.holds => \A d \in Calls \ {c} : ~(Holding(d) /\ call[d].token = k.token),
           k.pc \in {"eligible", "waiting", "minting"} /\ k.kind = "refresh" =>
              Presenting(c) /\ call[c].token = k.token,
           k.pc \in {"sweep", "sweeping"} /\ k.kind = "refresh" => Explained(k.token),
           k.pc = "sweeping" /\ k.kind = "refresh" =>
              \A q \in Pairs :
                 /\ q \in k.rows => tokens[q].family = tokens[k.token].family
                 /\ tokens[q].family = tokens[k.token].family =>
                       q \in k.rows \/ Revoked(q) \/ tokens[k.token].family \in history.raced
    PROVE  OInv'
<1>1. history \in [presented : SUBSET Nat, reused : SUBSET Nat, dropped : SUBSET Nat,
                   raced : SUBSET Nat, swept : SUBSET Nat, revoked : SUBSET Grants,
                   late : SUBSET Grants, crashes : Nat]
  BY DEF OInv, OAuthTypeOK
<1>2. /\ history' = [history EXCEPT !.presented = history'.presented, !.reused = history'.reused]
      /\ history'.presented = history.presented /\ history'.reused = history.reused
      /\ history.presented \subseteq Nat /\ history.reused \subseteq Nat
  BY <1>1
<1>3. k.pc \in {"eligible", "waiting", "minting"} /\ k.kind = "refresh" =>
         /\ k.token \in history.presented
         /\ tokens[k.token].replaced => k.token \in history.reused
         /\ \A d \in Calls \ {c} :
               Presenting(d) /\ call[d].token = k.token => k.token \in history.reused
  <2> SUFFICES ASSUME k.pc \in {"eligible", "waiting", "minting"}, k.kind = "refresh"
               PROVE  /\ k.token \in history.presented
                      /\ tokens[k.token].replaced => k.token \in history.reused
                      /\ \A d \in Calls \ {c} :
                            Presenting(d) /\ call[d].token = k.token => k.token \in history.reused
    OBVIOUS
  <2>1. k.token \in Pairs
    BY DEF CallKnown
  <2> QED  BY <2>1 DEF OInv, PresentedTwice
<1> QED  BY <1>2, <1>3, CallStep

(* A request that ends, whatever it was doing, tells nothing.                   *)
LEMMA EndStep ==
    ASSUME OInv, NEW c \in Calls, End(c), call[c].pc # "idle",
           UNCHANGED <<grants, tokens, history>>, client' \in BOOLEAN, held' \subseteq Pairs
    PROVE  OInv'
<1> DEFINE k == [call[c] EXCEPT !.pc = "ended", !.holds = FALSE, !.rows = {}]
<1>1. call[c] \in Call
  BY CallFields
<1>2. k \in Call /\ k.pc = "ended" /\ ~k.holds
  BY <1>1 DEF Call
<1>3. call' = [call EXCEPT ![c] = k]
  BY DEF End, Ended, OInv, OAuthTypeOK
<1> HIDE DEF k
<1>4. CallKnown(k) /\ begun' \subseteq Calls
  BY <1>2 DEF CallKnown, End, OInv, OAuthTypeOK
<1> QED  BY <1>2, <1>3, <1>4, QuietStep

LEMMA BeginExchange ==
    ASSUME OInv, NEW c \in Calls, NEW g \in Grants, ExchangeRead(c, g)
    PROVE  OInv'
<1> DEFINE k == [pc |-> "eligible", kind |-> "exchange", grant |-> g, token |-> None,
                 holds |-> FALSE, rows |-> {}]
<1>1. k \in Call /\ k.pc = "eligible" /\ k.kind = "exchange" /\ ~k.holds
  BY DEF Call, None
<1>2. /\ call' = [call EXCEPT ![c] = k] /\ UNCHANGED <<grants, tokens, history>>
      /\ client' \in BOOLEAN /\ held' \subseteq Pairs /\ begun' \subseteq Calls
  BY DEF ExchangeRead, OInv, OAuthTypeOK, RowsKnown
<1> HIDE DEF k
<1>3. CallKnown(k)
  BY <1>1 DEF CallKnown
<1> QED  BY <1>1, <1>2, <1>3, QuietStep

LEMMA BeginRevocation ==
    ASSUME OInv, NEW c \in Calls, NEW g \in Grants, RevokeGrantRead(c, g)
    PROVE  OInv'
<1> DEFINE k == [pc |-> "sweep", kind |-> "revoke", grant |-> g, token |-> None,
                 holds |-> FALSE, rows |-> {}]
<1>1. k \in Call /\ k.pc = "sweep" /\ k.kind = "revoke" /\ ~k.holds
  BY DEF Call, None
<1>2. /\ call' = [call EXCEPT ![c] = k] /\ UNCHANGED <<grants, tokens, history>>
      /\ client' \in BOOLEAN /\ held' \subseteq Pairs /\ begun' \subseteq Calls
  BY DEF RevokeGrantRead, OInv, OAuthTypeOK, RowsKnown
<1> HIDE DEF k
<1>3. CallKnown(k)
  BY <1>1 DEF CallKnown
<1> QED  BY <1>1, <1>2, <1>3, QuietStep

LEMMA RevokeWaitStep ==
    ASSUME OInv, NEW c \in Calls, NEW p \in held, RevokeWait(c, p)
    PROVE  OInv'
<1> DEFINE k == [pc |-> "waiting", kind |-> "drop", grant |-> tokens[p].grant, token |-> p,
                 holds |-> FALSE, rows |-> {}]
<1>1. p \in Pairs /\ tokens[p].grant \in Grants /\ p \in Nat
  BY PairFields DEF OInv, RowsKnown
<1>2. k \in Call /\ k.pc = "waiting" /\ k.kind = "drop" /\ k.token = p /\ ~k.holds
  BY <1>1 DEF Call
<1>3. /\ call' = [call EXCEPT ![c] = k] /\ UNCHANGED <<grants, tokens, history>>
      /\ client' \in BOOLEAN /\ held' \subseteq Pairs /\ begun' \subseteq Calls
  BY DEF RevokeWait, OInv, OAuthTypeOK, RowsKnown
<1> HIDE DEF k
<1>4. CallKnown(k)
  BY <1>1, <1>2 DEF CallKnown
<1> QED  BY <1>2, <1>3, <1>4, QuietStep

(* A token that is presented again, or presented after it was replaced, was     *)
(* presented before: it is reused.                                              *)
LEMMA BeginRefresh ==
    ASSUME OInv, NEW c \in Calls, NEW p \in held, RefreshRead(c, p)
    PROVE  OInv'
<1> DEFINE k == [pc |-> IF Verdict(p) = "replay" THEN "sweep" ELSE "eligible", kind |-> "refresh",
                 grant |-> tokens[p].grant, token |-> p, holds |-> FALSE, rows |-> {}]
<1>1. p \in Pairs
  BY DEF OInv, RowsKnown
<1>2. tokens[p].grant \in Grants /\ p \in Nat
  BY <1>1, PairFields DEF OInv
<1>3. /\ k \in Call /\ k.kind = "refresh" /\ k.token = p /\ ~k.holds /\ k.grant = tokens[p].grant
      /\ k.pc = IF Verdict(p) = "replay" THEN "sweep" ELSE "eligible"
  BY <1>2 DEF Call
<1>4. history \in [presented : SUBSET Nat, reused : SUBSET Nat, dropped : SUBSET Nat,
                   raced : SUBSET Nat, swept : SUBSET Nat, revoked : SUBSET Grants,
                   late : SUBSET Grants, crashes : Nat]
  BY DEF OInv, OAuthTypeOK
<1>5. /\ call' = [call EXCEPT ![c] = k] /\ UNCHANGED <<grants, tokens>>
      /\ client' \in BOOLEAN /\ held' \subseteq Pairs /\ begun' \subseteq Calls
      /\ history' = [history EXCEPT !.presented = history.presented \cup {p},
                                    !.reused = history.reused \cup ({p} \cap history.presented)]
  BY DEF RefreshRead, OInv, OAuthTypeOK, RowsKnown
<1>6. /\ history'.presented = history.presented \cup {p}
      /\ history'.reused = history.reused \cup ({p} \cap history.presented)
  BY <1>4, <1>5
<1>7. history' = [history EXCEPT !.presented = history'.presented, !.reused = history'.reused]
  BY <1>5, <1>6
<1>8. history'.presented \subseteq Nat /\ history'.reused \subseteq Nat
      /\ history.presented \subseteq history'.presented /\ history.reused \subseteq history'.reused
  BY <1>2, <1>4, <1>6
<1>9. tokens[p].replaced => p \in history'.reused
  BY <1>1, <1>6 DEF OInv, PresentedTwice
<1>10. \A d \in Calls \ {c} : Presenting(d) /\ call[d].token = p => p \in history'.reused
  BY <1>1, <1>6 DEF OInv, PresentedTwice
<1>11. Verdict(p) = "replay" => Explained(p) \/ p \in history'.reused
  <2>1. tokens[p].refreshRevoked => Explained(p)
    BY <1>1, ExplainedFamily DEF OInv, RevocationExplained
  <2> QED  BY <1>9, <2>1 DEF Verdict, Replayed
<1> HIDE DEF k
<1>12. CallKnown(k)
  BY <1>1, <1>3 DEF CallKnown
<1>13. k.pc \in {"eligible", "sweep"} /\ (k.pc = "sweep" => Verdict(p) = "replay")
  BY <1>3
<1> QED
  BY <1>3, <1>5, <1>6, <1>7, <1>8, <1>9, <1>10, <1>11, <1>12, <1>13, CallStep

(* A transaction that waits for a row only waits.                               *)
LEMMA RowWaitStep ==
    ASSUME OInv, NEW c \in Calls, RowWait(c)
    PROVE  OInv'
<1> DEFINE k == [call[c] EXCEPT !.pc = "waiting"]
<1>1. call[c] \in Call /\ CallKnown(call[c]) /\ UNCHANGED <<grants, tokens, history>>
      /\ client' \in BOOLEAN /\ held' \subseteq Pairs /\ begun' \subseteq Calls
  BY CallFields DEF RowWait, OInv, OAuthTypeOK, RowsKnown
<1>2. k \in Call /\ k.pc = "waiting" /\ k.kind = call[c].kind /\ k.token = call[c].token
      /\ k.holds = call[c].holds /\ k.grant = call[c].grant
  BY <1>1 DEF Call, RowWait
<1>3. call' = [call EXCEPT ![c] = k] /\ (k.kind = "refresh" => Presenting(c))
  BY <1>2 DEF RowWait, Goto, OInv, OAuthTypeOK, Presenting
<1> HIDE DEF k
<1>4. ~k.holds /\ CallKnown(k)
  BY <1>1, <1>2 DEF CallKnown, RowWait
<1> QED  BY <1>1, <1>2, <1>3, <1>4, QuietStep

LEMMA UseCodeStep ==
    ASSUME OInv, NEW c \in Calls, UseCode(c)
    PROVE  OInv'
<1>1. call[c] \in Call /\ UNCHANGED <<grants, tokens, client, held, history>>
      /\ client' \in BOOLEAN /\ held' \subseteq Pairs
  BY CallFields DEF UseCode, OInv, OAuthTypeOK, RowsKnown
<1>2. CASE End(c)
  BY <1>1, <1>2, EndStep DEF UseCode
<1>3. CASE grants[call[c].grant].code = "fresh" /\ Goto(c, "minting") /\ begun' = begun \cup {c}
  <2> DEFINE k == [call[c] EXCEPT !.pc = "minting"]
  <2>1. k \in Call /\ k.pc = "minting" /\ k.kind = "exchange" /\ k.grant = call[c].grant
        /\ k.holds = call[c].holds
    BY <1>1 DEF Call, UseCode
  <2>2. call' = [call EXCEPT ![c] = k] /\ begun' \subseteq Calls
    BY <1>3 DEF Goto, OInv, OAuthTypeOK
  <2>3. \A d \in Calls : ~(Exchanging(d) /\ call[d].grant = call[c].grant)
    BY DEF UseCode, CodeLocked, Exchanging
  <2>4. ~call[c].holds
    BY CallFields DEF UseCode, CallKnown
  <2> HIDE DEF k
  <2>5. CallKnown(k)
    BY <1>3, <2>1, <2>4 DEF CallKnown
  <2> QED  BY <1>1, <2>1, <2>2, <2>3, <2>4, <2>5, QuietStep
<1> QED  BY <1>2, <1>3 DEF UseCode

LEMMA RotateStep ==
    ASSUME OInv, NEW c \in Calls, Rotate(c)
    PROVE  OInv'
<1> DEFINE k == [call[c] EXCEPT !.pc = "minting", !.holds = TRUE]
<1>1. call[c] \in Call /\ CallKnown(call[c]) /\ UNCHANGED <<grants, tokens, history>>
      /\ client' \in BOOLEAN /\ held' \subseteq Pairs /\ begun' \subseteq Calls
  BY CallFields DEF Rotate, OInv, OAuthTypeOK, RowsKnown
<1>2. k \in Call /\ k.pc = "minting" /\ k.kind = "refresh" /\ k.token = call[c].token
      /\ k.holds /\ k.grant = call[c].grant
  BY <1>1 DEF Call, Rotate
<1>3. call' = [call EXCEPT ![c] = k] /\ Presenting(c)
  BY DEF Rotate, OInv, OAuthTypeOK, Presenting
<1>4. \A d \in Calls : ~(Holding(d) /\ call[d].token = call[c].token)
  BY TokenLockedHolding DEF Rotate
<1> HIDE DEF k
<1>5. CallKnown(k)
  BY <1>1, <1>2 DEF CallKnown, Rotate
<1> QED  BY <1>1, <1>2, <1>3, <1>4, <1>5, QuietStep

(* A rotation loses because the token was revoked, for which there is a reason, *)
(* or because another request replaced it, and then it was presented twice.     *)
LEMMA LoseRotationStep ==
    ASSUME OInv, NEW c \in Calls, LoseRotation(c)
    PROVE  OInv'
<1> DEFINE p == call[c].token
           k == [call[c] EXCEPT !.pc = "sweep", !.holds = (call[c].pc = "waiting")]
<1>1. call[c] \in Call /\ CallKnown(call[c]) /\ UNCHANGED <<grants, tokens, history>>
      /\ client' \in BOOLEAN /\ held' \subseteq Pairs /\ begun' \subseteq Calls
  BY CallFields DEF LoseRotation, OInv, OAuthTypeOK, RowsKnown
<1>2. k \in Call /\ k.pc = "sweep" /\ k.kind = "refresh" /\ k.token = p /\ k.grant = call[c].grant
  BY <1>1 DEF Call, LoseRotation
<1>3. call' = [call EXCEPT ![c] = k] /\ Presenting(c)
  BY DEF LoseRotation, OInv, OAuthTypeOK, Presenting
<1>4. \A d \in Calls : ~(Holding(d) /\ call[d].token = p)
  BY TokenLockedHolding DEF LoseRotation
<1>5. p \in Pairs
  BY <1>1 DEF CallKnown, LoseRotation
<1>6. Explained(p)
  <2>1. CASE tokens[p].refreshRevoked
    BY <1>5, <2>1, ExplainedFamily DEF OInv, RevocationExplained
  <2>2. CASE tokens[p].replaced
    BY <1>3, <1>5, <2>2 DEF OInv, PresentedTwice, Explained
  <2> QED  BY <2>1, <2>2 DEF LoseRotation, Rotates
<1> HIDE DEF k
<1>7. CallKnown(k)
  BY <1>1, <1>2 DEF CallKnown, LoseRotation
<1> QED  BY <1>1, <1>2, <1>3, <1>4, <1>6, <1>7, QuietStep

LEMMA AnswerStep ==
    ASSUME OInv, NEW c \in Calls, NEW arrives \in BOOLEAN, Answer(c, arrives)
    PROVE  OInv'
<1>1. call[c].token \in Pairs
  BY CallFields DEF Answer, CallKnown
<1>2. client' \in BOOLEAN /\ held' \subseteq Pairs
  BY <1>1 DEF Answer, OInv, RowsKnown
<1> QED  BY <1>2, EndStep DEF Answer

LEMMA SweepBeginStep ==
    ASSUME OInv, NEW c \in Calls, SweepBegin(c)
    PROVE  OInv'
<1> DEFINE p == call[c].token  k == [call[c] EXCEPT !.pc = "sweeping", !.rows = Unrevoked(SweptRows(c))]
<1>1. call[c] \in Call /\ CallKnown(call[c]) /\ UNCHANGED <<grants, tokens, history>>
      /\ client' \in BOOLEAN /\ held' \subseteq Pairs /\ begun' \subseteq Calls
  BY CallFields DEF SweepBegin, OInv, OAuthTypeOK, RowsKnown
<1>2. Unrevoked(SweptRows(c)) \subseteq Pairs
  BY DEF Unrevoked, SweptRows, OfGrant, Family
<1>3. Pairs \subseteq Nat
  BY PairFields DEF OInv
<1>4. /\ k \in Call /\ k.pc = "sweeping" /\ k.kind = call[c].kind /\ k.token = p
      /\ k.grant = call[c].grant /\ k.holds = call[c].holds /\ k.rows = Unrevoked(SweptRows(c))
  BY <1>1, <1>2, <1>3 DEF Call
<1>5. call' = [call EXCEPT ![c] = k]
  BY DEF SweepBegin, OInv, OAuthTypeOK
<1>6. call[c].kind = "refresh" => p \in Pairs /\ Explained(p)
  BY <1>1 DEF CallKnown, SweepBegin, Replaying, OInv, PresentedTwice
<1>7. call[c].kind = "refresh" =>
         \A q \in Pairs : /\ q \in k.rows => tokens[q].family = tokens[p].family
                          /\ tokens[q].family = tokens[p].family => q \in k.rows \/ Revoked(q)
  <2> SUFFICES ASSUME call[c].kind = "refresh", NEW q \in Pairs
               PROVE  /\ q \in k.rows => tokens[q].family = tokens[p].family
                      /\ tokens[q].family = tokens[p].family => q \in k.rows \/ Revoked(q)
    OBVIOUS
  <2> QED  BY <1>4 DEF Unrevoked, SweptRows, Family, Revoked
<1>8. call[c].kind = "revoke" => \A q \in k.rows : tokens[q].grant = call[c].grant
  BY <1>4 DEF Unrevoked, SweptRows, OfGrant
<1>9. k.holds => \A d \in Calls \ {c} : ~(Holding(d) /\ call[d].token = k.token)
  BY <1>1, <1>4 DEF OInv, Alone, Holding, CallKnown, SweepBegin, NoCall
<1> HIDE DEF k
<1>10. CallKnown(k)
  BY <1>1, <1>2, <1>4, <1>8 DEF CallKnown, SweepBegin
<1> QED  BY <1>1, <1>4, <1>5, <1>6, <1>7, <1>9, <1>10, QuietStep

------------------------------------------------------------------------------
(* Steps that mark rows: tokens as expired or revoked, grants as revoked or     *)
(* given; requests may end.  What they revoke must be explained, and none of it *)
(* held by a rotation.                                                          *)
HistoryTypes == [presented : SUBSET Nat, reused : SUBSET Nat, dropped : SUBSET Nat,
                 raced : SUBSET Nat, swept : SUBSET Nat, revoked : SUBSET Grants,
                 late : SUBSET Grants, crashes : Nat]

LEMMA MarkStep ==
    ASSUME OInv,
           grants' \in [Grants -> [code : {"absent", "fresh", "used"}, revoked : BOOLEAN]],
           \A g \in Grants : /\ grants[g].revoked => grants'[g].revoked
                             /\ \/ grants'[g].code = grants[g].code
                                \/ grants[g].code = "absent" /\ grants'[g].code = "fresh",
           tokens' \in Seq(Pair), Pairs' = Pairs,
           \A p \in Pairs : /\ tokens'[p].grant = tokens[p].grant
                            /\ tokens'[p].family = tokens[p].family
                            /\ tokens'[p].replaced = tokens[p].replaced
                            /\ tokens[p].accessRevoked => tokens'[p].accessRevoked
                            /\ tokens[p].refreshRevoked => tokens'[p].refreshRevoked,
           client' \in BOOLEAN, held' = held, begun' \subseteq Calls,
           call' \in [Calls -> Call \cup {NoCall}],
           \A d \in Calls : \/ call'[d] = call[d]
                            \/ call'[d].pc = "ended" /\ ~call'[d].holds,
           \A d \in Calls : call[d].pc = "minting" /\ call[d].kind = "refresh" =>
              (tokens'[call[d].token].refreshRevoked => tokens[call[d].token].refreshRevoked),
           history' \in HistoryTypes,
           history'.presented = history.presented, history'.reused = history.reused,
           history'.raced = history.raced, history.dropped \subseteq history'.dropped,
           history'.swept \subseteq Pairs,
           \A p \in Pairs : tokens[p].family \in history'.swept /\ tokens[p].family \notin history.swept =>
              Revoked(p)' \/ tokens[p].family \in history.raced,
           \A p \in Pairs : tokens'[p].accessRevoked \/ tokens'[p].refreshRevoked =>
              tokens[p].accessRevoked \/ tokens[p].refreshRevoked \/ Explained(p)',
           \A g \in Grants : g \in history'.revoked => grants'[g].revoked,
           history'.late = {}
    PROVE  OInv'
<1>1. OAuthTypeOK'
  BY DEF OInv, OAuthTypeOK, HistoryTypes
<1>2. RowsKnown'
  BY DEF OInv, RowsKnown
<1>3. \A d \in Calls : call'[d] # NoCall /\ call'[d] = call[d] => call[d] \in Call
  BY DEF OInv, OAuthTypeOK
<1>4. CallsKnown'
  <2> SUFFICES ASSUME NEW d \in Calls, NEW m \in Call, call'[d] = m PROVE CallKnown(m)'
    BY DEF CallsKnown
  <2>1. CASE m.pc = "ended" /\ ~m.holds
    BY <2>1 DEF CallKnown
  <2>2. CASE call[d] = m
    <3>1. CallKnown(m)
      BY <2>2 DEF OInv, CallsKnown
    <3>2. m.kind = "refresh" /\ m.pc = "minting" => Rotates(m.token)'
      BY <2>2, <3>1 DEF CallKnown, Rotates
    <3>3. m.kind = "exchange" /\ m.pc = "minting" => grants'[m.grant].code = "fresh"
      <4>1. m.grant \in Grants
        BY DEF Call
      <4> QED  BY <3>1, <4>1 DEF CallKnown
    <3>4. m.pc = "sweeping" /\ m.kind = "revoke" => \A p \in m.rows : tokens'[p].grant = m.grant
      BY <3>1 DEF CallKnown
    <3> QED  BY <3>1, <3>2, <3>3, <3>4 DEF CallKnown
  <2> QED  BY <2>1, <2>2
<1>5. Alone'
  <2>1. \A d \in Calls : Exchanging(d)' => Exchanging(d) /\ call'[d] = call[d]
    BY DEF Exchanging
  <2>2. \A d \in Calls : Holding(d)' => Holding(d) /\ call'[d] = call[d]
    BY DEF Holding
  <2>3. \A g \in Grants, p \in Pairs : tokens'[p].grant = g => grants'[g].code = "used"
    BY DEF OInv, Alone
  <2> QED  BY <2>1, <2>2, <2>3 DEF OInv, Alone
<1>6. \A p \in Pairs : Explained(p) => Explained(p)'
  <2> SUFFICES ASSUME NEW p \in Pairs, Explained(p) PROVE Explained(p)'
    OBVIOUS
  <2>1. tokens[p].grant \in Grants
    BY PairFields DEF OInv
  <2> QED  BY <2>1 DEF Explained
<1>7. PresentedTwice'
  <2>1. \A d \in Calls : Presenting(d)' => Presenting(d) /\ call'[d] = call[d]
    BY DEF Presenting
  <2>2. \A d \in Calls : Replaying(d)' => Replaying(d) /\ call'[d] = call[d]
    BY DEF Replaying
  <2> QED  BY <1>6, <2>1, <2>2 DEF OInv, PresentedTwice
<1>8. \A p \in Pairs : Revoked(p) => Revoked(p)'
  BY DEF Revoked
<1>9. SweepSees'
  <2>1. \A d \in Calls : call'[d].pc = "sweeping" => call'[d] = call[d]
    OBVIOUS
  <2> QED  BY <1>8, <2>1 DEF OInv, SweepSees
<1>10. RevokedKept' /\ RevokedGrantUnused'
  BY DEF RevokedKept, RevokedGrantUnused
<1>11. OneLiveRefresh'
  BY DEF OInv, OneLiveRefresh, LiveRefresh
<1>12. RevocationExplained'
  <2> SUFFICES ASSUME NEW p \in Pairs', tokens'[p].accessRevoked \/ tokens'[p].refreshRevoked
               PROVE  \/ grants'[tokens'[p].grant].revoked
                      \/ Family(tokens[p].family)' \cap (history'.reused \cup history'.dropped) # {}
    BY DEF RevocationExplained
  <2>1. Explained(p)'
    <3>1. tokens[p].accessRevoked \/ tokens[p].refreshRevoked => Explained(p)
      BY ExplainedFamily DEF OInv, RevocationExplained
    <3> QED  BY <1>6, <3>1
  <2> QED  BY <2>1 DEF Explained, Family
<1>13. ReplayEndsFamily'
  <2> SUFFICES ASSUME NEW p \in Pairs, tokens[p].family \in history'.swept,
                      tokens[p].family \notin history.raced
               PROVE  Revoked(p)'
    BY DEF ReplayEndsFamily, Revoked
  <2>1. tokens[p].family \in history.swept => Revoked(p)
    BY DEF OInv, ReplayEndsFamily, Revoked
  <2> QED  BY <1>8, <2>1
<1> QED  BY <1>1, <1>2, <1>4, <1>5, <1>7, <1>9, <1>10, <1>11, <1>12, <1>13 DEF OInv

(* A step that changes neither the rows of tokens nor a request.                *)
LEMMA OtherStep ==
    ASSUME OInv, UNCHANGED <<tokens, held>>,
           grants' \in [Grants -> [code : {"absent", "fresh", "used"}, revoked : BOOLEAN]],
           \A g \in Grants : /\ grants'[g].revoked = grants[g].revoked
                             /\ \/ grants'[g].code = grants[g].code
                                \/ grants[g].code = "absent" /\ grants'[g].code = "fresh",
           client' \in BOOLEAN, begun' \subseteq Calls,
           call' \in [Calls -> Call \cup {NoCall}],
           \A d \in Calls : \/ call'[d] = call[d]
                            \/ call'[d].pc = "ended" /\ ~call'[d].holds,
           history' \in HistoryTypes,
           history'.presented = history.presented, history'.reused = history.reused,
           history'.raced = history.raced, history'.dropped = history.dropped,
           history'.swept = history.swept, history'.revoked = history.revoked,
           history'.late = {}
    PROVE  OInv'
<1>1. tokens' \in Seq(Pair) /\ Pairs' = Pairs /\ history.swept \subseteq Pairs
  BY DEF OInv, OAuthTypeOK, Pairs, RowsKnown
<1>2. \A g \in Grants : g \in history'.revoked => grants'[g].revoked
  BY DEF OInv, RevokedKept
<1> QED  BY <1>1, <1>2, MarkStep

LEMMA ConsentStep ==
    ASSUME OInv, NEW g \in Grants, Consent(g)
    PROVE  OInv'
<1> USE DEF Consent
<1>1. grants' \in [Grants -> [code : {"absent", "fresh", "used"}, revoked : BOOLEAN]]
  BY DEF OInv, OAuthTypeOK
<1>2. \A h \in Grants : /\ grants'[h].revoked = grants[h].revoked
                        /\ \/ grants'[h].code = grants[h].code
                           \/ grants[h].code = "absent" /\ grants'[h].code = "fresh"
  BY DEF OInv, OAuthTypeOK
<1>3. call' \in [Calls -> Call \cup {NoCall}] /\ history' \in HistoryTypes /\ history'.late = {}
      /\ begun' \subseteq Calls
  BY DEF OInv, OAuthTypeOK, HistoryTypes, RevokedGrantUnused
<1> QED  BY <1>1, <1>2, <1>3, OtherStep

LEMMA LapseStep == OInv /\ Lapse => OInv'
<1> SUFFICES ASSUME OInv, Lapse PROVE OInv'  OBVIOUS
<1> USE DEF Lapse
<1>1. grants' \in [Grants -> [code : {"absent", "fresh", "used"}, revoked : BOOLEAN]]
      /\ call' \in [Calls -> Call \cup {NoCall}] /\ history' \in HistoryTypes /\ history'.late = {}
      /\ begun' \subseteq Calls
  BY DEF OInv, OAuthTypeOK, HistoryTypes, RevokedGrantUnused
<1> QED  BY <1>1, OtherStep

(* A grant that was revoked has no token that authenticates.                    *)
LEMMA AuthenticateStep ==
    ASSUME OInv, NEW p \in held, AuthenticateMcp(p)
    PROVE  OInv'
<1> USE DEF AuthenticateMcp
<1>1. grants' \in [Grants -> [code : {"absent", "fresh", "used"}, revoked : BOOLEAN]]
      /\ call' \in [Calls -> Call \cup {NoCall}] /\ client' \in BOOLEAN /\ begun' \subseteq Calls
  BY DEF OInv, OAuthTypeOK
<1>2. tokens[p].grant \in Grants
  BY PairFields DEF OInv, RowsKnown
<1>3. tokens[p].grant \notin history.revoked
  BY <1>2 DEF Authenticates, OInv, RevokedKept
<1>4. history \in HistoryTypes /\ history.late = {}
  BY DEF OInv, OAuthTypeOK, HistoryTypes, RevokedGrantUnused
<1>5. history' = [history EXCEPT !.late = {}]
  BY <1>3, <1>4
<1>6. /\ history' \in HistoryTypes /\ history'.late = {}
      /\ history'.presented = history.presented /\ history'.reused = history.reused
      /\ history'.raced = history.raced /\ history'.dropped = history.dropped
      /\ history'.swept = history.swept /\ history'.revoked = history.revoked
  BY <1>4, <1>5 DEF HistoryTypes
<1> QED  BY <1>1, <1>6, OtherStep

LEMMA CrashStep == OInv /\ Crash => OInv'
<1> SUFFICES ASSUME OInv, Crash PROVE OInv'  OBVIOUS
<1> USE DEF Crash
<1>1. grants' \in [Grants -> [code : {"absent", "fresh", "used"}, revoked : BOOLEAN]]
      /\ client' \in BOOLEAN /\ begun' \subseteq Calls
  BY DEF OInv, OAuthTypeOK
<1>2. history \in HistoryTypes /\ history.late = {} /\ history.crashes + 1 \in Nat
  BY DEF OInv, OAuthTypeOK, HistoryTypes, RevokedGrantUnused
<1>3. /\ history' \in HistoryTypes /\ history'.late = {}
      /\ history'.presented = history.presented /\ history'.reused = history.reused
      /\ history'.raced = history.raced /\ history'.dropped = history.dropped
      /\ history'.swept = history.swept /\ history'.revoked = history.revoked
  BY <1>2 DEF HistoryTypes
<1>4. \A d \in Calls : \/ call'[d] = call[d] /\ call[d] \in Call \cup {NoCall}
                       \/ call'[d] \in Call /\ call'[d].pc = "ended" /\ ~call'[d].holds
  <2> SUFFICES ASSUME NEW d \in Calls, Active(d)
               PROVE  call'[d] \in Call /\ call'[d].pc = "ended" /\ ~call'[d].holds
    BY DEF OInv, OAuthTypeOK
  <2>1. call[d] \in Call
    BY CallFields DEF Active
  <2> QED  BY <2>1 DEF Ended, Call
<1>5. call' \in [Calls -> Call \cup {NoCall}]
  BY <1>4
<1> QED  BY <1>1, <1>3, <1>4, <1>5, OtherStep

(* One row of a pair marked.                                                    *)
LEMMA OneMarked ==
    ASSUME OAuthTypeOK, NEW p \in Pairs, NEW r \in Pair, tokens' = [tokens EXCEPT ![p] = r]
    PROVE  /\ tokens' \in Seq(Pair) /\ Pairs' = Pairs
           /\ \A q \in Pairs : tokens'[q] = IF q = p THEN r ELSE tokens[q]
<1>1. tokens \in Seq(Pair) /\ p \in 1 .. Len(tokens) /\ Pairs = 1 .. Len(tokens)
  BY PairFields DEF OAuthTypeOK
<1>2. /\ tokens' \in Seq(Pair) /\ Len(tokens') = Len(tokens)
      /\ \A q \in 1 .. Len(tokens) : tokens'[q] = IF q = p THEN r ELSE tokens[q]
  BY <1>1, ExceptSeq
<1>3. Pairs' = 1 .. Len(tokens')
  BY <1>2, LenProperties DEF Pairs
<1> QED  BY <1>1, <1>2, <1>3

LEMMA ExpireStep ==
    ASSUME OInv, NEW p \in Pairs, Expire(p)
    PROVE  OInv'
<1> DEFINE r == [tokens[p] EXCEPT !.expired = TRUE]
<1>1. tokens[p] \in Pair
  BY PairFields DEF OInv
<1>2. /\ r \in Pair /\ r.grant = tokens[p].grant /\ r.family = tokens[p].family
      /\ r.replaced = tokens[p].replaced /\ r.accessRevoked = tokens[p].accessRevoked
      /\ r.refreshRevoked = tokens[p].refreshRevoked
  BY <1>1 DEF Pair
<1>3. tokens' = [tokens EXCEPT ![p] = r] /\ UNCHANGED <<grants, client, call, begun, held, history>>
  BY DEF Expire, OInv, OAuthTypeOK
<1> HIDE DEF r
<1>4. /\ tokens' \in Seq(Pair) /\ Pairs' = Pairs
      /\ \A q \in Pairs : tokens'[q] = IF q = p THEN r ELSE tokens[q]
  BY <1>2, <1>3, OneMarked DEF OInv
<1>5. /\ grants' \in [Grants -> [code : {"absent", "fresh", "used"}, revoked : BOOLEAN]]
      /\ client' \in BOOLEAN /\ call' \in [Calls -> Call \cup {NoCall}] /\ begun' \subseteq Calls
      /\ history' \in HistoryTypes /\ history'.late = {}
      /\ history'.swept \subseteq Pairs
      /\ \A g \in Grants : g \in history'.revoked => grants'[g].revoked
  BY <1>3 DEF OInv, OAuthTypeOK, HistoryTypes, RowsKnown, RevokedKept, RevokedGrantUnused
<1>6. \A d \in Calls : call[d].pc = "minting" /\ call[d].kind = "refresh" => call[d].token \in Pairs
  BY CallFields DEF CallKnown
<1> QED  BY <1>2, <1>3, <1>4, <1>5, <1>6, MarkStep

(* A token that is revoked alone was dropped; it is not one a rotation holds.   *)
LEMMA DroppedRow ==
    ASSUME OInv, NEW p \in Pairs, NEW r \in Pair,
           tokens' = [tokens EXCEPT ![p] = r],
           r.grant = tokens[p].grant, r.family = tokens[p].family,
           r.replaced = tokens[p].replaced,
           tokens[p].accessRevoked => r.accessRevoked,
           tokens[p].refreshRevoked => r.refreshRevoked,
           r.refreshRevoked => tokens[p].refreshRevoked \/ ~TokenLocked(p),
           history' = [history EXCEPT !.dropped = history.dropped \cup {p}],
           UNCHANGED <<grants, client, held>>, begun' \subseteq Calls,
           call' \in [Calls -> Call \cup {NoCall}],
           \A d \in Calls : \/ call'[d] = call[d]
                            \/ call'[d].pc = "ended" /\ ~call'[d].holds
    PROVE  OInv'
<1>1. p \in Nat
  BY PairFields DEF OInv
<1>2. /\ tokens' \in Seq(Pair) /\ Pairs' = Pairs
      /\ \A q \in Pairs : tokens'[q] = IF q = p THEN r ELSE tokens[q]
  BY OneMarked DEF OInv
<1>3. history \in HistoryTypes
  BY DEF OInv, OAuthTypeOK, HistoryTypes
<1>4. /\ history' \in HistoryTypes /\ history'.dropped = history.dropped \cup {p}
      /\ history'.late = history.late /\ history'.swept = history.swept
      /\ history'.revoked = history.revoked /\ history'.raced = history.raced
      /\ history'.presented = history.presented /\ history'.reused = history.reused
  BY <1>1, <1>3 DEF HistoryTypes
<1>5. /\ grants' \in [Grants -> [code : {"absent", "fresh", "used"}, revoked : BOOLEAN]]
      /\ client' \in BOOLEAN
      /\ history'.late = {} /\ history'.swept \subseteq Pairs
      /\ \A g \in Grants : g \in history'.revoked => grants'[g].revoked
  BY <1>4 DEF OInv, OAuthTypeOK, RowsKnown, RevokedKept, RevokedGrantUnused
<1>6. \A d \in Calls : call[d].pc = "minting" /\ call[d].kind = "refresh" =>
         (tokens'[call[d].token].refreshRevoked => tokens[call[d].token].refreshRevoked)
  <2> SUFFICES ASSUME NEW d \in Calls, call[d].pc = "minting", call[d].kind = "refresh",
                      tokens'[call[d].token].refreshRevoked
               PROVE  tokens[call[d].token].refreshRevoked
    OBVIOUS
  <2>1. call[d].token \in Pairs /\ Holding(d)
    BY CallFields DEF CallKnown, Holding
  <2>2. ~TokenLocked(p) => call[d].token # p
    BY <2>1, TokenLockedHolding
  <2> QED  BY <1>2, <2>1, <2>2
<1>7. Explained(p)'
  BY <1>2, <1>4 DEF Explained
<1>8. \A q \in Pairs : tokens'[q].accessRevoked \/ tokens'[q].refreshRevoked =>
          tokens[q].accessRevoked \/ tokens[q].refreshRevoked \/ Explained(q)'
  BY <1>2, <1>7
<1> QED  BY <1>2, <1>4, <1>5, <1>6, <1>8, MarkStep

LEMMA RevokeTokenStep ==
    ASSUME OInv, NEW p \in held, NEW row \in {"access", "refresh"}, RevokeToken(p, row)
    PROVE  OInv'
<1> DEFINE r == IF row = "refresh" THEN [tokens[p] EXCEPT !.refreshRevoked = TRUE]
                                   ELSE [tokens[p] EXCEPT !.accessRevoked = TRUE]
<1>1. p \in Pairs /\ tokens[p] \in Pair
  BY PairFields DEF OInv, RowsKnown
<1>2. /\ r \in Pair /\ r.grant = tokens[p].grant /\ r.family = tokens[p].family
      /\ r.replaced = tokens[p].replaced
      /\ tokens[p].accessRevoked => r.accessRevoked
      /\ tokens[p].refreshRevoked => r.refreshRevoked
      /\ r.refreshRevoked => row = "refresh" \/ tokens[p].refreshRevoked
  BY <1>1 DEF Pair
<1>3. /\ tokens' = [tokens EXCEPT ![p] = r] /\ UNCHANGED <<grants, client, call, begun, held>>
      /\ row = "refresh" => ~TokenLocked(p)
      /\ history' = [history EXCEPT !.dropped = history.dropped \cup {p}]
  BY DEF RevokeToken, OInv, OAuthTypeOK
<1>4. call' \in [Calls -> Call \cup {NoCall}] /\ begun' \subseteq Calls
  BY <1>3 DEF OInv, OAuthTypeOK
<1> HIDE DEF r
<1> QED  BY <1>1, <1>2, <1>3, <1>4, DroppedRow

LEMMA DropStep ==
    ASSUME OInv, NEW c \in Calls, Drop(c)
    PROVE  OInv'
<1> DEFINE p == call[c].token
           r == [tokens[p] EXCEPT !.refreshRevoked = TRUE]
           k == [call[c] EXCEPT !.pc = "ended", !.holds = FALSE, !.rows = {}]
<1>1. call[c] \in Call /\ p \in Pairs
  BY CallFields DEF Drop, CallKnown
<1>2. tokens[p] \in Pair
  BY <1>1, PairFields DEF OInv
<1>3. /\ r \in Pair /\ r.grant = tokens[p].grant /\ r.family = tokens[p].family
      /\ r.replaced = tokens[p].replaced /\ r.refreshRevoked
      /\ r.accessRevoked = tokens[p].accessRevoked
  BY <1>2 DEF Pair
<1>4. /\ tokens' = [tokens EXCEPT ![p] = r] /\ UNCHANGED <<grants, client, held>>
      /\ ~TokenLocked(p)
      /\ history' = [history EXCEPT !.dropped = history.dropped \cup {p}]
  BY DEF Drop, OInv, OAuthTypeOK
<1>5. k \in Call /\ k.pc = "ended" /\ ~k.holds
  BY <1>1 DEF Call
<1>6. call' = [call EXCEPT ![c] = k] /\ begun' \subseteq Calls
  BY DEF Drop, End, Ended, OInv, OAuthTypeOK
<1> HIDE DEF r, k
<1>7. /\ call' \in [Calls -> Call \cup {NoCall}]
      /\ \A d \in Calls : \/ call'[d] = call[d]
                          \/ call'[d].pc = "ended" /\ ~call'[d].holds
  BY <1>5, <1>6 DEF OInv, OAuthTypeOK
<1> HIDE DEF p
<1> QED  BY <1>1, <1>3, <1>4, <1>6, <1>7, DroppedRow

LEMMA RowsMarked ==
    ASSUME OAuthTypeOK, NEW R,
           tokens' = [p \in Pairs |-> IF p \in R
                        THEN [tokens[p] EXCEPT !.accessRevoked = TRUE, !.refreshRevoked = TRUE]
                        ELSE tokens[p]]
    PROVE  /\ tokens' \in Seq(Pair) /\ Pairs' = Pairs
           /\ \A p \in Pairs : /\ tokens'[p].grant = tokens[p].grant
                               /\ tokens'[p].family = tokens[p].family
                               /\ tokens'[p].replaced = tokens[p].replaced
                               /\ p \in R => Revoked(p)'
                               /\ p \notin R => tokens'[p] = tokens[p]
<1>1. \A p \in Pairs : tokens[p] \in Pair
  BY PairFields
<1>2. \A p \in Pairs : /\ tokens'[p] \in Pair
                       /\ tokens'[p].grant = tokens[p].grant
                       /\ tokens'[p].family = tokens[p].family
                       /\ tokens'[p].replaced = tokens[p].replaced
                       /\ p \in R => Revoked(p)'
                       /\ p \notin R => tokens'[p] = tokens[p]
  BY <1>1 DEF Pair, Revoked
<1>3. Len(tokens) \in Nat /\ Pairs = 1 .. Len(tokens)
  BY LenProperties DEF OAuthTypeOK, Pairs
<1>4. tokens' \in [1 .. Len(tokens) -> Pair]
  BY <1>2, <1>3
<1>5. tokens' \in Seq(Pair)
  BY <1>3, <1>4, SeqDef
<1>6. Pairs' = Pairs
  BY DEF Pairs
<1> QED  BY <1>2, <1>5, <1>6

(* A sweep ends on rows no rotation holds, for a reason.                        *)
LEMMA SweepEndStep ==
    ASSUME OInv, NEW c \in Calls, SweepEnd(c)
    PROVE  OInv'
<1> DEFINE p == call[c].token  g == call[c].grant  f == tokens[p].family  R == call[c].rows
           revoke == call[c].kind = "revoke"
<1>1. /\ call[c] \in Call /\ CallKnown(call[c]) /\ call[c].pc = "sweeping" /\ g \in Grants
      /\ call[c].kind \in {"refresh", "revoke"}
  BY CallFields DEF SweepEnd, CallKnown
<1>2. R \subseteq Pairs /\ (~revoke => p \in Pairs)
  BY <1>1 DEF CallKnown
<1>3. tokens' = [q \in Pairs |-> IF q \in R
                    THEN [tokens[q] EXCEPT !.accessRevoked = TRUE, !.refreshRevoked = TRUE]
                    ELSE tokens[q]]
      /\ UNCHANGED <<client, held>>
  BY DEF SweepEnd
<1>4. /\ tokens' \in Seq(Pair) /\ Pairs' = Pairs
      /\ \A q \in Pairs : /\ tokens'[q].grant = tokens[q].grant
                          /\ tokens'[q].family = tokens[q].family
                          /\ tokens'[q].replaced = tokens[q].replaced
                          /\ q \in R => Revoked(q)'
                          /\ q \notin R => tokens'[q] = tokens[q]
  BY <1>3, RowsMarked DEF OInv
<1>5. /\ grants' \in [Grants -> [code : {"absent", "fresh", "used"}, revoked : BOOLEAN]]
      /\ \A h \in Grants : /\ grants'[h].code = grants[h].code
                           /\ grants[h].revoked => grants'[h].revoked
      /\ revoke => grants'[g].revoked
  <2>1. grants' = [grants EXCEPT ![g].revoked = grants[g].revoked \/ revoke]
    BY DEF SweepEnd
  <2>2. grants \in [Grants -> [code : {"absent", "fresh", "used"}, revoked : BOOLEAN]]
    BY DEF OInv, OAuthTypeOK
  <2>3. (grants[g].revoked \/ revoke) \in BOOLEAN
    OBVIOUS
  <2> HIDE DEF revoke
  <2> QED  BY <1>1, <2>1, <2>2, <2>3
<1>6. call' \in [Calls -> Call \cup {NoCall}]
      /\ \A d \in Calls : \/ call'[d] = call[d]
                          \/ call'[d].pc = "ended" /\ ~call'[d].holds
  <2> DEFINE k == [call[c] EXCEPT !.pc = "ended", !.holds = FALSE, !.rows = {}]
  <2>1. k \in Call /\ k.pc = "ended" /\ ~k.holds
    BY <1>1 DEF Call
  <2>2. call' = [call EXCEPT ![c] = k]
    BY DEF SweepEnd, End, Ended, OInv, OAuthTypeOK
  <2> HIDE DEF k
  <2> QED  BY <2>1, <2>2 DEF OInv, OAuthTypeOK
<1>7. history \in HistoryTypes /\ history.late = {} /\ history.swept \subseteq Pairs
      /\ \A h \in Grants : h \in history.revoked => grants[h].revoked
  BY DEF OInv, OAuthTypeOK, HistoryTypes, RowsKnown, RevokedKept, RevokedGrantUnused
<1>8. ~revoke => f \in Pairs /\ f \in Nat
  BY <1>2, PairFields DEF OInv, RowsKnown
<1>9. /\ history' \in HistoryTypes /\ history'.late = {}
      /\ history'.presented = history.presented /\ history'.reused = history.reused
      /\ history'.raced = history.raced /\ history'.dropped = history.dropped
      /\ revoke => history'.swept = history.swept /\ history'.revoked = history.revoked \cup {g}
      /\ ~revoke => history'.swept = history.swept \cup {f} /\ history'.revoked = history.revoked
  <2>1. CASE revoke
    <3>1. history' = [history EXCEPT !.revoked = history.revoked \cup {g}]
      BY <2>1 DEF SweepEnd
    <3> QED  BY <1>1, <1>7, <2>1, <3>1 DEF HistoryTypes
  <2>2. CASE ~revoke
    <3>1. history' = [history EXCEPT !.swept = history.swept \cup {f}]
      BY <2>2 DEF SweepEnd
    <3> QED  BY <1>7, <1>8, <2>2, <3>1 DEF HistoryTypes
  <2> QED  BY <2>1, <2>2
<1>10. \A d \in Calls : call[d].pc = "minting" /\ call[d].kind = "refresh" =>
          (tokens'[call[d].token].refreshRevoked => tokens[call[d].token].refreshRevoked)
  <2> SUFFICES ASSUME NEW d \in Calls, call[d].pc = "minting", call[d].kind = "refresh"
               PROVE  (tokens'[call[d].token].refreshRevoked => tokens[call[d].token].refreshRevoked)
    OBVIOUS
  <2>1. call[d].token \in Pairs /\ Holding(d)
    BY CallFields DEF CallKnown, Holding
  <2>2. call[d].token \in R => tokens[call[d].token].refreshRevoked
    BY <2>1, TokenLockedHolding DEF SweepEnd, SweepBlocked
  <2> QED  BY <1>4, <2>1, <2>2
<1>11. \A q \in Pairs : tokens[q].family \in history'.swept /\ tokens[q].family \notin history.swept =>
          Revoked(q)' \/ tokens[q].family \in history.raced
  <2> SUFFICES ASSUME ~revoke, NEW q \in Pairs, tokens[q].family = f
               PROVE  Revoked(q)' \/ f \in history.raced
    BY <1>9
  <2>1. q \in R \/ Revoked(q) \/ f \in history.raced
    BY <1>1, <1>2 DEF OInv, SweepSees
  <2> QED  BY <1>4, <2>1 DEF Revoked
<1>12. \A q \in R : Explained(q)'
  <2> SUFFICES ASSUME NEW q \in R PROVE Explained(q)'
    OBVIOUS
  <2>1. q \in Pairs
    BY <1>2
  <2>2. CASE revoke
    <3>1. tokens[q].grant = g
      BY <1>1, <2>2 DEF CallKnown
    <3> QED  BY <1>4, <1>5, <2>1, <2>2, <3>1 DEF Explained
  <2>3. CASE ~revoke
    <3>1. Explained(p)
      BY <1>1, <1>2, <2>3 DEF OInv, PresentedTwice, Replaying
    <3>2. tokens[q].family = f
      BY <1>1, <1>2, <2>1, <2>3 DEF OInv, SweepSees
    <3>3. tokens[q].grant = tokens[p].grant /\ tokens[p].grant \in Grants
      BY <1>2, <2>1, <2>3, <3>2, PairFields DEF OInv, RowsKnown
    <3> QED  BY <1>4, <1>5, <1>9, <2>1, <3>1, <3>2, <3>3 DEF Explained
  <2> QED  BY <2>2, <2>3
<1>13. \A h \in Grants : h \in history'.revoked => grants'[h].revoked
  BY <1>5, <1>7, <1>9
<1>14. client' \in BOOLEAN /\ held' = held /\ history'.swept \subseteq Pairs
       /\ begun' \subseteq Calls
  BY <1>3, <1>7, <1>8, <1>9 DEF SweepEnd, End, OInv, OAuthTypeOK
<1>15. \A q \in Pairs : /\ tokens[q].accessRevoked => tokens'[q].accessRevoked
                        /\ tokens[q].refreshRevoked => tokens'[q].refreshRevoked
                        /\ tokens'[q].accessRevoked \/ tokens'[q].refreshRevoked =>
                              tokens[q].accessRevoked \/ tokens[q].refreshRevoked \/ Explained(q)'
  BY <1>4, <1>12 DEF Revoked
<1> HIDE DEF revoke, R, f, p, g
<1> QED  BY <1>4, <1>5, <1>6, <1>9, <1>10, <1>11, <1>13, <1>14, <1>15, MarkStep

------------------------------------------------------------------------------
(* Steps that add a pair: it is of family f, whose pairs are all of its grant   *)
(* and none of them can be rotated any more; a sweep of the family that is      *)
(* under way has raced with it, and so has one that is over.                    *)
LEMMA MintStep ==
    ASSUME OInv, NEW c \in Calls, NEW k \in Call, call' = [call EXCEPT ![c] = k],
           NEW f, NEW g \in Grants,
           k.pc = "touching", ~k.holds, k.token = Len(tokens) + 1,
           tokens' \in Seq(Pair), Len(tokens') = Len(tokens) + 1,
           tokens'[Len(tokens) + 1] =
              [grant |-> g, family |-> f, replaced |-> FALSE, accessRevoked |-> FALSE,
               refreshRevoked |-> FALSE, expired |-> FALSE],
           \A p \in Pairs : /\ tokens'[p].grant = tokens[p].grant
                            /\ tokens'[p].family = tokens[p].family
                            /\ tokens'[p].accessRevoked = tokens[p].accessRevoked
                            /\ tokens'[p].refreshRevoked = tokens[p].refreshRevoked
                            /\ \/ tokens'[p].replaced = tokens[p].replaced
                               \/ /\ Presenting(c) /\ Holding(c) /\ call[c].token = p
                                  /\ tokens'[p].replaced,
           f \in Pairs \cup {Len(tokens) + 1},
           \A p \in Pairs : tokens[p].family = f => tokens[p].grant = g,
           \A p \in Pairs : tokens[p].grant = g => ~LiveRefresh(p)',
           grants' \in [Grants -> [code : {"absent", "fresh", "used"}, revoked : BOOLEAN]],
           \A h \in Grants : /\ grants'[h].revoked = grants[h].revoked
                             /\ \/ grants'[h].code = grants[h].code
                                \/ Exchanging(c) /\ call[c].grant = h,
           grants'[g].code = "used", Exchanging(c) => call[c].grant = g,
           client' = client, held' = held, begun' \subseteq Calls,
           history' \in HistoryTypes,
           history'.presented = history.presented, history'.reused = history.reused,
           history'.dropped = history.dropped, history'.swept = history.swept,
           history'.revoked = history.revoked, history'.late = history.late,
           history.raced \subseteq history'.raced,
           f \in history.swept => f \in history'.raced,
           \A d \in Calls : /\ call[d].pc = "sweeping" /\ call[d].kind = "refresh"
                            /\ tokens[call[d].token].family = f
                            => f \in history'.raced
    PROVE  OInv'
<1> DEFINE n == Len(tokens) + 1
<1>1. Len(tokens) \in Nat /\ Pairs = 1 .. Len(tokens)
  BY LenProperties DEF OInv, OAuthTypeOK, Pairs
<1>2. Pairs' = 1 .. n
  BY LenProperties DEF Pairs
<1>3. Pairs' = Pairs \cup {n} /\ n \notin Pairs /\ n \in Nat
  BY <1>1, <1>2
<1>4. /\ tokens'[n].grant = g /\ tokens'[n].family = f /\ ~tokens'[n].replaced
      /\ ~tokens'[n].accessRevoked /\ ~tokens'[n].refreshRevoked
  OBVIOUS
<1>5. \A d \in Calls : (d = c /\ call'[d] = k) \/ (d # c /\ call'[d] = call[d])
  BY DEF OInv, OAuthTypeOK
<1>6. OAuthTypeOK'
  BY DEF OInv, OAuthTypeOK, HistoryTypes
<1>7. RowsKnown'
  <2>1. \A p \in Pairs' : tokens'[p].family \in Pairs'
    BY <1>3, <1>4 DEF OInv, RowsKnown
  <2>2. \A p \in Pairs : tokens'[p].family # n
    BY <1>3 DEF OInv, RowsKnown
  <2>3. \A p, q \in Pairs' :
           tokens'[p].family = tokens'[q].family => tokens'[p].grant = tokens'[q].grant
    BY <1>3, <1>4, <2>2 DEF OInv, RowsKnown
  <2>4. held' \subseteq Pairs' /\ history'.swept \subseteq Pairs'
    BY <1>3 DEF OInv, RowsKnown
  <2> QED  BY <2>1, <2>3, <2>4 DEF RowsKnown
<1>8. CallsKnown'
  <2> SUFFICES ASSUME NEW d \in Calls, NEW m \in Call, call'[d] = m PROVE CallKnown(m)'
    BY DEF CallsKnown
  <2>1. CASE d = c
    BY <1>3, <1>5, <2>1 DEF CallKnown
  <2>2. CASE d # c
    <3>1. CallKnown(m) /\ call[d] = m
      BY <1>5, <2>2 DEF OInv, CallsKnown
    <3>2. m.kind = "refresh" /\ m.pc = "minting" => Rotates(m.token)'
      <4> SUFFICES ASSUME m.kind = "refresh", m.pc = "minting" PROVE Rotates(m.token)'
        OBVIOUS
      <4>1. m.token \in Pairs /\ Rotates(m.token) /\ Holding(d)
        BY <3>1 DEF CallKnown, Holding, Call, NoCall
      <4>2. ~(Holding(c) /\ call[c].token = m.token)
        BY <2>2, <3>1, <4>1 DEF OInv, Alone
      <4> QED  BY <4>1, <4>2 DEF Rotates
    <3>3. m.kind = "exchange" /\ m.pc = "minting" => grants'[m.grant].code = "fresh"
      <4>1. m.grant \in Grants
        BY DEF Call
      <4> QED  BY <2>2, <3>1, <4>1 DEF CallKnown, OInv, Alone, Exchanging
    <3>4. m.kind = "refresh" /\ m.pc \notin {"touching", "ended"} =>
             m.token \in Pairs /\ tokens'[m.token].grant = m.grant
      BY <3>1 DEF CallKnown
    <3>5. m.pc = "sweeping" /\ m.kind = "revoke" => \A p \in m.rows : tokens'[p].grant = m.grant
      BY <3>1 DEF CallKnown
    <3> QED  BY <1>3, <3>1, <3>2, <3>3, <3>4, <3>5 DEF CallKnown
  <2> QED  BY <2>1, <2>2
<1>9. Alone'
  <2>1. \A h \in Grants, p \in Pairs' : tokens'[p].grant = h => grants'[h].code = "used"
    BY <1>3, <1>4 DEF OInv, Alone
  <2>2. \A d \in Calls : Exchanging(d)' => Exchanging(d) /\ call'[d] = call[d]
    BY <1>5 DEF Exchanging
  <2>3. \A d \in Calls : Holding(d)' => Holding(d) /\ call'[d] = call[d]
    BY <1>5 DEF Holding
  <2> QED  BY <2>1, <2>2, <2>3 DEF OInv, Alone
<1>10. \A p \in Pairs : Explained(p) => Explained(p)'
  <2> SUFFICES ASSUME NEW p \in Pairs, Explained(p) PROVE Explained(p)'
    OBVIOUS
  <2>1. tokens[p].grant \in Grants
    BY PairFields DEF OInv
  <2> QED  BY <1>3, <2>1 DEF Explained
<1>11. \A d \in Calls : Presenting(d)' => Presenting(d) /\ d # c /\ call'[d] = call[d] /\ call[d].token \in Pairs
  <2> SUFFICES ASSUME NEW d \in Calls, Presenting(d)'
               PROVE  Presenting(d) /\ d # c /\ call'[d] = call[d] /\ call[d].token \in Pairs
    OBVIOUS
  <2>1. Presenting(d) /\ d # c /\ call'[d] = call[d]
    BY <1>5 DEF Presenting
  <2> QED  BY <2>1, CallFields DEF Presenting, CallKnown
<1>12. \A d \in Calls : Replaying(d)' => Replaying(d) /\ call'[d] = call[d] /\ call[d].token \in Pairs
  <2> SUFFICES ASSUME NEW d \in Calls, Replaying(d)'
               PROVE  Replaying(d) /\ call'[d] = call[d] /\ call[d].token \in Pairs
    OBVIOUS
  <2>1. Replaying(d) /\ call'[d] = call[d]
    BY <1>5 DEF Replaying
  <2> QED  BY <2>1, CallFields DEF Replaying, CallKnown
<1>13. PresentedTwice'
  <2>1. \A p \in Pairs' : tokens'[p].replaced => p \in history'.presented
    BY <1>3, <1>4 DEF OInv, PresentedTwice
  <2>2. ASSUME NEW d \in Calls, NEW p \in Pairs, Presenting(d), d # c, call[d].token = p
        PROVE  p \in history'.presented /\ (tokens'[p].replaced => p \in history'.reused)
    <3>1. CASE tokens'[p].replaced = tokens[p].replaced
      BY <2>2, <3>1 DEF OInv, PresentedTwice
    <3>2. CASE Presenting(c) /\ call[c].token = p
      BY <2>2, <3>2 DEF OInv, PresentedTwice
    <3> QED  BY <3>1, <3>2
  <2>3. \A d \in Calls, p \in Pairs' : Presenting(d)' /\ call'[d].token = p =>
           p \in history'.presented /\ (tokens'[p].replaced => p \in history'.reused)
    BY <1>11, <2>2
  <2>4. \A d, e \in Calls, p \in Pairs' :
           Presenting(d)' /\ call'[d].token = p /\ Presenting(e)' /\ call'[e].token = p =>
              d = e \/ p \in history'.reused
    <3> SUFFICES ASSUME NEW d \in Calls, NEW e \in Calls, NEW p \in Pairs',
                        Presenting(d)', call'[d].token = p, Presenting(e)', call'[e].token = p
                 PROVE  d = e \/ p \in history.reused
      OBVIOUS
    <3>1. p \in Pairs /\ Presenting(d) /\ call[d].token = p /\ Presenting(e) /\ call[e].token = p
      BY <1>11
    <3> QED  BY <3>1 DEF OInv, PresentedTwice
  <2>5. \A d \in Calls, p \in Pairs' : Replaying(d)' /\ call'[d].token = p => Explained(p)'
    BY <1>10, <1>12 DEF OInv, PresentedTwice
  <2> QED  BY <2>1, <2>3, <2>4, <2>5 DEF PresentedTwice
<1>14. \A p \in Pairs : Revoked(p) <=> Revoked(p)'
  BY DEF Revoked
<1>15. SweepSees'
  <2> SUFFICES ASSUME NEW d \in Calls, NEW p \in Pairs', NEW q \in Pairs',
                      call'[d].pc = "sweeping", call'[d].kind = "refresh", call'[d].token = p
               PROVE  /\ q \in call'[d].rows => tokens'[q].family = tokens'[p].family
                      /\ tokens'[q].family = tokens'[p].family =>
                            q \in call'[d].rows \/ Revoked(q)' \/ tokens'[p].family \in history'.raced
    BY DEF SweepSees
  <2>1. /\ call'[d] = call[d] /\ call[d].pc = "sweeping" /\ call[d].kind = "refresh"
        /\ call[d].token = p
    BY <1>5
  <2>2. p \in Pairs /\ call[d].rows \subseteq Pairs
    BY <2>1, CallFields DEF CallKnown
  <2>3. CASE q \in Pairs
    BY <1>14, <2>1, <2>2, <2>3 DEF OInv, SweepSees
  <2>4. CASE q = n
    BY <1>3, <1>4, <2>1, <2>2, <2>4
  <2> QED  BY <1>3, <2>3, <2>4
<1>16. RevokedKept' /\ RevokedGrantUnused'
  BY DEF OInv, RevokedKept, RevokedGrantUnused
<1>17. OneLiveRefresh'
  <2>1. \A p \in Pairs : LiveRefresh(p)' => LiveRefresh(p) /\ tokens'[p].grant # g
    BY DEF LiveRefresh
  <2> QED  BY <1>3, <1>4, <2>1 DEF OInv, OneLiveRefresh
<1>18. RevocationExplained'
  <2> SUFFICES ASSUME NEW p \in Pairs', tokens'[p].accessRevoked \/ tokens'[p].refreshRevoked
               PROVE  \/ grants'[tokens'[p].grant].revoked
                      \/ Family(tokens[p].family)' \cap (history'.reused \cup history'.dropped) # {}
    BY DEF RevocationExplained
  <2>1. p \in Pairs
    BY <1>3, <1>4
  <2>2. Explained(p)'
    BY <1>10, <2>1, ExplainedFamily DEF OInv, RevocationExplained
  <2> QED  BY <2>2 DEF Explained, Family
<1>19. ReplayEndsFamily'
  <2> SUFFICES ASSUME NEW p \in Pairs', tokens'[p].family \in history'.swept,
                      tokens'[p].family \notin history'.raced
               PROVE  Revoked(p)'
    BY DEF ReplayEndsFamily, Revoked
  <2>1. p # n
    BY <1>4
  <2> QED  BY <1>3, <1>14, <2>1 DEF OInv, ReplayEndsFamily, Revoked
<1> QED  BY <1>6, <1>7, <1>8, <1>9, <1>13, <1>15, <1>16, <1>17, <1>18, <1>19 DEF OInv

LEMMA Appended ==
    ASSUME NEW S, NEW s \in Seq(S), NEW e \in S
    PROVE  /\ Append(s, e) \in Seq(S) /\ Len(Append(s, e)) = Len(s) + 1
           /\ Append(s, e)[Len(s) + 1] = e
           /\ \A i \in 1 .. Len(s) : Append(s, e)[i] = s[i]
  OBVIOUS

(* The rows a mint leaves: those there were and the new one, with the rotated   *)
(* one replaced.                                                                *)
LEMMA ExchangeCommitRows ==
    ASSUME OInv, NEW c \in Calls, ExchangeCommit(c)
    PROVE  /\ call[c] \in Call /\ CallKnown(call[c]) /\ Exchanging(c)
           /\ Len(tokens) \in Nat /\ Pairs = 1 .. Len(tokens)
           /\ Pairs' = Pairs \cup {Len(tokens) + 1} /\ Len(tokens) + 1 \notin Pairs
           /\ tokens' \in Seq(Pair) /\ Len(tokens') = Len(tokens) + 1
           /\ tokens'[Len(tokens) + 1] =
                 [grant |-> call[c].grant, family |-> Len(tokens) + 1, replaced |-> FALSE,
                  accessRevoked |-> FALSE, refreshRevoked |-> FALSE, expired |-> FALSE]
           /\ \A p \in Pairs : tokens'[p] = tokens[p]
<1> DEFINE n == Len(tokens) + 1
<1>1. call[c] \in Call /\ CallKnown(call[c]) /\ Exchanging(c) /\ call[c].grant \in Grants
  BY CallFields DEF ExchangeCommit, Exchanging
<1>2. Len(tokens) \in Nat /\ Pairs = 1 .. Len(tokens) /\ n \in Nat
  BY LenProperties DEF OInv, OAuthTypeOK, Pairs
<1>3. NewPair(c, n) \in Pair
  BY <1>1, <1>2 DEF NewPair, Pair
<1>4. /\ tokens' \in Seq(Pair) /\ Len(tokens') = n
      /\ tokens'[n] = NewPair(c, n)
      /\ \A p \in Pairs : tokens'[p] = tokens[p]
  BY <1>2, <1>3, Appended DEF ExchangeCommit, OInv, OAuthTypeOK
<1>5. Pairs' = 1 .. n
  BY <1>4, LenProperties DEF Pairs
<1>6. Pairs' = Pairs \cup {n} /\ n \notin Pairs
  BY <1>2, <1>5
<1> QED  BY <1>1, <1>2, <1>4, <1>6 DEF NewPair

LEMMA RefreshCommitRows ==
    ASSUME OInv, NEW c \in Calls, RefreshCommit(c)
    PROVE  /\ call[c] \in Call /\ CallKnown(call[c]) /\ call[c].token \in Pairs
           /\ tokens[call[c].token].grant = call[c].grant /\ Rotates(call[c].token)
           /\ Presenting(c) /\ Holding(c) /\ ~Exchanging(c)
           /\ Len(tokens) \in Nat /\ Pairs = 1 .. Len(tokens)
           /\ Pairs' = Pairs \cup {Len(tokens) + 1} /\ Len(tokens) + 1 \notin Pairs
           /\ tokens' \in Seq(Pair) /\ Len(tokens') = Len(tokens) + 1
           /\ tokens'[Len(tokens) + 1] =
                 [grant |-> call[c].grant, family |-> tokens[call[c].token].family,
                  replaced |-> FALSE, accessRevoked |-> FALSE, refreshRevoked |-> FALSE,
                  expired |-> FALSE]
           /\ \A q \in Pairs : /\ tokens'[q].grant = tokens[q].grant
                               /\ tokens'[q].family = tokens[q].family
                               /\ tokens'[q].accessRevoked = tokens[q].accessRevoked
                               /\ tokens'[q].refreshRevoked = tokens[q].refreshRevoked
                               /\ \/ q # call[c].token /\ tokens'[q].replaced = tokens[q].replaced
                                  \/ q = call[c].token /\ tokens'[q].replaced
<1> DEFINE p == call[c].token  f == tokens[p].family  n == Len(tokens) + 1
           r == [tokens[p] EXCEPT !.replaced = TRUE]
<1>1. /\ call[c] \in Call /\ CallKnown(call[c]) /\ call[c].grant \in Grants
      /\ call[c].kind = "refresh" /\ call[c].pc = "minting"
  BY CallFields DEF RefreshCommit
<1>2. Len(tokens) \in Nat /\ Pairs = 1 .. Len(tokens) /\ n \in Nat
  BY LenProperties DEF OInv, OAuthTypeOK, Pairs
<1>3. /\ p \in Pairs /\ tokens[p].grant = call[c].grant /\ Rotates(p) /\ Presenting(c) /\ Holding(c)
      /\ ~Exchanging(c)
  BY <1>1, CallFields DEF CallKnown, Presenting, Holding, Exchanging
<1>4. tokens[p] \in Pair /\ f \in Nat
  BY <1>3, PairFields DEF OInv
<1>5. /\ r \in Pair /\ r.replaced /\ r.grant = tokens[p].grant /\ r.family = f
      /\ r.accessRevoked = tokens[p].accessRevoked /\ r.refreshRevoked = tokens[p].refreshRevoked
  BY <1>4 DEF Pair
<1>6. NewPair(c, f) \in Pair
  BY <1>1, <1>4 DEF NewPair, Pair
<1>7. /\ tokens' \in Seq(Pair) /\ Len(tokens') = n
      /\ tokens'[n] = NewPair(c, f)
      /\ \A q \in Pairs : tokens'[q] = IF q = p THEN r ELSE tokens[q]
  <2> DEFINE s == [tokens EXCEPT ![p] = r]
  <2>1. /\ s \in Seq(Pair) /\ Len(s) = Len(tokens)
        /\ \A q \in 1 .. Len(tokens) : s[q] = IF q = p THEN r ELSE tokens[q]
    <3>1. tokens \in Seq(Pair) /\ p \in 1 .. Len(tokens)
      BY <1>2, <1>3 DEF OInv, OAuthTypeOK
    <3> HIDE DEF r
    <3> QED  BY <1>5, <3>1, ExceptSeq
  <2>2. tokens' = Append(s, NewPair(c, f))
    BY <1>2, <1>3 DEF RefreshCommit, OInv, OAuthTypeOK
  <2> HIDE DEF s, r
  <2> QED  BY <1>2, <1>6, <2>1, <2>2, Appended
<1>8. Pairs' = 1 .. n
  BY <1>7, LenProperties DEF Pairs
<1>9. Pairs' = Pairs \cup {n} /\ n \notin Pairs
  BY <1>2, <1>8
<1>10. tokens'[n] = [grant |-> call[c].grant, family |-> f, replaced |-> FALSE,
                     accessRevoked |-> FALSE, refreshRevoked |-> FALSE, expired |-> FALSE]
  BY <1>7 DEF NewPair
<1>11. \A q \in Pairs : /\ tokens'[q].grant = tokens[q].grant
                        /\ tokens'[q].family = tokens[q].family
                        /\ tokens'[q].accessRevoked = tokens[q].accessRevoked
                        /\ tokens'[q].refreshRevoked = tokens[q].refreshRevoked
                        /\ \/ q # p /\ tokens'[q].replaced = tokens[q].replaced
                           \/ q = p /\ tokens'[q].replaced
  BY <1>5, <1>7
<1> HIDE DEF n
<1>12. n = Len(tokens) + 1
  BY DEF n
<1> QED  BY <1>1, <1>2, <1>3, <1>7, <1>9, <1>10, <1>11, <1>12

LEMMA ExchangeCommitStep ==
    ASSUME OInv, NEW c \in Calls, ExchangeCommit(c)
    PROVE  OInv'
<1> DEFINE g == call[c].grant  n == Len(tokens) + 1
           k == [call[c] EXCEPT !.pc = "touching", !.token = n]
<1>1. call[c] \in Call /\ CallKnown(call[c]) /\ Exchanging(c) /\ g \in Grants
  BY ExchangeCommitRows, CallFields DEF ExchangeCommit
<1>2. Len(tokens) \in Nat /\ n \in Nat /\ n \notin Pairs
  <2>1. Len(tokens) \in Nat
    BY ExchangeCommitRows
  <2>2. n \in Nat
    BY <2>1
  <2>3. n \notin Pairs
    BY ExchangeCommitRows
  <2> QED  BY <2>1, <2>2, <2>3
<1>3. k \in Call /\ k.pc = "touching" /\ k.token = n /\ k.holds = call[c].holds
  BY <1>1, <1>2 DEF Call
<1>4. call' = [call EXCEPT ![c] = k] /\ UNCHANGED <<client, held, history>>
      /\ begun' \subseteq Calls
  BY DEF ExchangeCommit, OInv, OAuthTypeOK
<1>5. ~k.holds
  BY <1>1, <1>3 DEF CallKnown, Exchanging
<1>6. \A p \in Pairs : tokens[p].family # n /\ tokens[p].grant # g
  <2>1. grants[g].code = "fresh"
    BY <1>1 DEF CallKnown, Exchanging
  <2> QED  BY <1>1, <1>2, <2>1 DEF OInv, Alone, RowsKnown
<1>7. /\ grants' \in [Grants -> [code : {"absent", "fresh", "used"}, revoked : BOOLEAN]]
      /\ grants'[g].code = "used"
      /\ \A h \in Grants : /\ grants'[h].revoked = grants[h].revoked
                           /\ \/ grants'[h].code = grants[h].code
                              \/ Exchanging(c) /\ call[c].grant = h
  BY <1>1 DEF ExchangeCommit, OInv, OAuthTypeOK
<1>8. history' \in HistoryTypes /\ n \notin history.swept
  BY <1>2, <1>4 DEF OInv, OAuthTypeOK, HistoryTypes, RowsKnown
<1>9. \A d \in Calls : /\ call[d].pc = "sweeping" /\ call[d].kind = "refresh"
                       /\ tokens[call[d].token].family = n
                       => n \in history'.raced
  BY <1>6, CallFields DEF CallKnown
<1>10. \A p \in Pairs : /\ tokens'[p].grant = tokens[p].grant
                        /\ tokens'[p].family = tokens[p].family
                        /\ tokens'[p].accessRevoked = tokens[p].accessRevoked
                        /\ tokens'[p].refreshRevoked = tokens[p].refreshRevoked
                        /\ \/ tokens'[p].replaced = tokens[p].replaced
                           \/ /\ Presenting(c) /\ Holding(c) /\ call[c].token = p
                              /\ tokens'[p].replaced
  BY ExchangeCommitRows
<1>11. /\ tokens' \in Seq(Pair) /\ Len(tokens') = Len(tokens) + 1
       /\ tokens'[Len(tokens) + 1] =
             [grant |-> g, family |-> n, replaced |-> FALSE, accessRevoked |-> FALSE,
              refreshRevoked |-> FALSE, expired |-> FALSE]
       /\ k.token = Len(tokens) + 1 /\ n \in Pairs \cup {Len(tokens) + 1}
  BY <1>3, ExchangeCommitRows
<1>12. /\ \A p \in Pairs : tokens[p].family = n => tokens[p].grant = g
       /\ \A p \in Pairs : tokens[p].grant = g => ~LiveRefresh(p)'
       /\ n \in history.swept => n \in history'.raced
  BY <1>6, <1>8
<1>13. /\ history'.presented = history.presented /\ history'.reused = history.reused
       /\ history'.dropped = history.dropped /\ history'.swept = history.swept
       /\ history'.revoked = history.revoked /\ history'.late = history.late
       /\ history.raced \subseteq history'.raced
       /\ client' = client /\ held' = held /\ call' = [call EXCEPT ![c] = k]
       /\ begun' \subseteq Calls
       /\ k \in Call /\ k.pc = "touching" /\ ~k.holds
  BY <1>3, <1>4, <1>5
<1>14. g \in Grants /\ (Exchanging(c) => call[c].grant = g)
  BY <1>1
<1> HIDE DEF k, g, n
<1> QED
  BY <1>7, <1>8, <1>9, <1>10, <1>11, <1>12, <1>13, <1>14, MintStep, ZenonT(120)

(* The token that is rotated was the grant's only live one.  A sweep under way  *)
(* has it among its rows, unless the family raced before.                       *)
LEMMA RefreshCommitStep ==
    ASSUME OInv, NEW c \in Calls, RefreshCommit(c)
    PROVE  OInv'
<1> DEFINE g == call[c].grant  p == call[c].token  f == tokens[p].family  n == Len(tokens) + 1
           k == [call[c] EXCEPT !.pc = "touching", !.token = n, !.holds = FALSE]
<1>1. call[c] \in Call /\ g \in Grants /\ n \in Nat
  <2>1. call[c] \in Call /\ g \in Grants /\ Len(tokens) \in Nat
    BY RefreshCommitRows, CallFields DEF RefreshCommit
  <2>2. n \in Nat
    BY <2>1
  <2> QED  BY <2>1, <2>2
<1>2. /\ p \in Pairs /\ tokens[p].grant = g /\ Rotates(p) /\ Presenting(c) /\ Holding(c)
      /\ ~Exchanging(c)
  BY RefreshCommitRows
<1>3. f \in Pairs /\ f \in Nat
  BY <1>2, PairFields DEF OInv, RowsKnown
<1>4. k \in Call /\ k.pc = "touching" /\ k.token = n /\ ~k.holds
  BY <1>1 DEF Call
<1>5. call' = [call EXCEPT ![c] = k] /\ UNCHANGED <<client, held, grants>>
      /\ begun' \subseteq Calls
  BY DEF RefreshCommit, OInv, OAuthTypeOK
<1>6. history \in HistoryTypes
  BY DEF OInv, OAuthTypeOK, HistoryTypes
<1>7. /\ history' \in HistoryTypes
      /\ history'.raced = history.raced \cup {h \in {f} : SweepingOf(h) # {}}
      /\ history'.presented = history.presented /\ history'.reused = history.reused
      /\ history'.dropped = history.dropped /\ history'.swept = history.swept
      /\ history'.revoked = history.revoked /\ history'.late = history.late
  <2> DEFINE new == {h \in {f} : SweepingOf(h) # {}}
  <2>1. history' = [history EXCEPT !.raced = history.raced \cup new] /\ new \subseteq Nat
    BY <1>3 DEF RefreshCommit
  <2> HIDE DEF new
  <2>2. /\ history' \in HistoryTypes
        /\ history'.raced = history.raced \cup new
        /\ history'.presented = history.presented /\ history'.reused = history.reused
        /\ history'.dropped = history.dropped /\ history'.swept = history.swept
        /\ history'.revoked = history.revoked /\ history'.late = history.late
    BY <1>6, <2>1 DEF HistoryTypes
  <2> QED  BY <2>2 DEF new
<1>8. ~Revoked(p) /\ LiveRefresh(p)
  BY <1>2 DEF Rotates, Revoked, LiveRefresh
<1>9. f \in history.swept => f \in history'.raced
  BY <1>2, <1>7, <1>8 DEF OInv, ReplayEndsFamily, Revoked
<1>10. \A d \in Calls : /\ call[d].pc = "sweeping" /\ call[d].kind = "refresh"
                        /\ tokens[call[d].token].family = f
                        => f \in history'.raced
  <2> SUFFICES ASSUME NEW d \in Calls, call[d].pc = "sweeping", call[d].kind = "refresh",
                      tokens[call[d].token].family = f
               PROVE  f \in history'.raced
    OBVIOUS
  <2>1. call[d].token \in Pairs
    BY CallFields DEF CallKnown
  <2>2. p \in call[d].rows \/ f \in history.raced
    BY <1>2, <1>8, <2>1 DEF OInv, SweepSees
  <2>3. p \in call[d].rows => SweepingOf(f) # {}
    BY <1>2 DEF SweepingOf, Family
  <2> QED  BY <1>7, <2>2, <2>3
<1>11. \A q \in Pairs : tokens[q].family = f => tokens[q].grant = g
  BY <1>2 DEF OInv, RowsKnown
<1>12. \A q \in Pairs : tokens[q].grant = g => ~LiveRefresh(q)'
  BY <1>2, <1>8, RefreshCommitRows DEF OInv, OneLiveRefresh, LiveRefresh
<1>13. grants[g].code = "used"
       /\ grants \in [Grants -> [code : {"absent", "fresh", "used"}, revoked : BOOLEAN]]
  BY <1>1, <1>2 DEF OInv, Alone, OAuthTypeOK
<1>14. \A q \in Pairs : /\ tokens'[q].grant = tokens[q].grant
                        /\ tokens'[q].family = tokens[q].family
                        /\ tokens'[q].accessRevoked = tokens[q].accessRevoked
                        /\ tokens'[q].refreshRevoked = tokens[q].refreshRevoked
                        /\ \/ tokens'[q].replaced = tokens[q].replaced
                           \/ /\ Presenting(c) /\ Holding(c) /\ call[c].token = q
                              /\ tokens'[q].replaced
  BY <1>2, RefreshCommitRows
<1>15. /\ tokens' \in Seq(Pair) /\ Len(tokens') = n
       /\ tokens'[n] = [grant |-> g, family |-> f, replaced |-> FALSE, accessRevoked |-> FALSE,
                        refreshRevoked |-> FALSE, expired |-> FALSE]
  BY RefreshCommitRows
<1>16. history.raced \subseteq history'.raced
  BY <1>7
<1> HIDE DEF k, f
<1> QED
  BY <1>1, <1>2, <1>3, <1>4, <1>5, <1>7, <1>9, <1>10, <1>11, <1>12, <1>13, <1>14, <1>15, <1>16,
     MintStep

LEMMA OAuthInductive == OInv /\ [OAuthNext]_oauthVars => OInv'
<1> SUFFICES ASSUME OInv, [OAuthNext]_oauthVars PROVE OInv'  OBVIOUS
<1>1. CASE UNCHANGED oauthVars
  <2>1. /\ grants' \in [Grants -> [code : {"absent", "fresh", "used"}, revoked : BOOLEAN]]
        /\ call' \in [Calls -> Call \cup {NoCall}] /\ client' \in BOOLEAN
        /\ history' \in HistoryTypes /\ history'.late = {} /\ begun' \subseteq Calls
    BY <1>1 DEF oauthVars, OInv, OAuthTypeOK, HistoryTypes, RevokedGrantUnused
  <2> QED  BY <1>1, <2>1, OtherStep DEF oauthVars
<1>2. ASSUME NEW c \in Calls, Progress(c) PROVE OInv'
  BY <1>2, UseCodeStep, ExchangeCommitStep, RowWaitStep, RotateStep, LoseRotationStep,
     RefreshCommitStep, SweepBeginStep, SweepEndStep, DropStep, AnswerStep DEF Progress
<1>3. ASSUME NEW c \in Calls, NEW g \in Grants, ExchangeRead(c, g) \/ RevokeGrantRead(c, g)
      PROVE  OInv'
  BY <1>3, BeginExchange, BeginRevocation
<1> QED
  BY <1>1, <1>2, <1>3, ConsentStep, BeginRefresh, RevokeWaitStep, RevokeTokenStep, AuthenticateStep, ExpireStep,
     LapseStep, CrashStep DEF OAuthNext

LEMMA OAuthInvariant == OAuthSpec => []OInv
  BY OAuthInitial, OAuthInductive, PTL DEF OAuthSpec

(* The tables and what requests know of them have the shape the code gives them. *)
THEOREM OAuthTypeCorrect == OAuthSpec => []OAuthTypeOK
<1>1. OInv => OAuthTypeOK
  BY DEF OInv
<1> QED  BY OAuthInvariant, <1>1, PTL

(* A grant has at most one refresh token that can still be rotated: two         *)
(* rotations of one token, or two uses of one code, never both succeed.         *)
THEOREM OneLive == OAuthSpec => []OneLiveRefresh
<1>1. OInv => OneLiveRefresh
  BY DEF OInv
<1> QED  BY OAuthInvariant, <1>1, PTL

(* A detected replay ends its family, unless a rotation committed while the     *)
(* statement that ends it ran.                                                  *)
THEOREM ReplayEnds == OAuthSpec => []ReplayEndsFamily
<1>1. OInv => ReplayEndsFamily
  BY DEF OInv
<1> QED  BY OAuthInvariant, <1>1, PTL

(* Whatever is revoked was revoked for a reason: the user's, the client's, or a *)
(* token of the family that was presented twice.                                *)
THEOREM RevokedForReason == OAuthSpec => []RevocationExplained
<1>1. OInv => RevocationExplained
  BY DEF OInv
<1> QED  BY OAuthInvariant, <1>1, PTL

(* Once revokeGrant has answered, no token of the grant authenticates.          *)
THEOREM RevokedUnused == OAuthSpec => []RevokedGrantUnused
<1>1. OInv => RevokedGrantUnused
  BY DEF OInv
<1> QED  BY OAuthInvariant, <1>1, PTL

------------------------------------------------------------------------------
(* The command line client.  A pair is good that can be rotated, or whose grant *)
(* the user revoked.  An invocation that runs or waits for its answer is a      *)
(* client; what it has in hand it vouches for.                                  *)
Good(p) == LiveRefresh(p) \/ grants[tokens[p].grant].revoked
Belongs(p, o) == p \in Pairs /\ OriginOf[tokens[p].grant] = o

Client(c) == \/ cli[c].at \in {"found", "waiting", "got", "writing"}
             \/ Active(c) /\ call[c].kind # "revoke"
Vouches(c, p) ==
    \/ cli[c].at \in {"found", "got", "writing"} /\ cli[c].pair = p
    \/ Presenting(c) /\ call[c].token = p
    \/ call[c].pc = "touching" /\ call[c].token = p
Replacing(c) == \/ call[c].pc = "touching"
                \/ cli[c].at \in {"got", "writing"} /\ cli[c].pair # None

(* Each pair is kept under the server that issued it, and a request is made to  *)
(* the server the invocation is for.                                            *)
StoreKnown == \A o \in Origins : store[o] # None => Belongs(store[o], o)
CallerKnown(c) ==
    /\ cli[c] = NoCli \/ cli[c].at = "found" => call[c] = NoCall
    /\ cli[c].at \in {"got", "writing"} => ~Active(c)
    /\ cli[c] # NoCli => /\ cli[c].pair # None => Belongs(cli[c].pair, cli[c].origin)
                        /\ \A o \in Origins : cli[c].copy[o] # None => Belongs(cli[c].copy[o], o)
    /\ Active(c) => OriginOf[call[c].grant] = cli[c].origin
    /\ call[c].pc = "touching" => /\ call[c].kind # "revoke"
                                 /\ Belongs(call[c].token, cli[c].origin)
CliKnown == StoreKnown /\ \A c \in Calls : CallerKnown(c)

(* Where nothing unforeseen happened invocations for a server came one at a     *)
(* time, and whoever is about to write the file has read what it holds.         *)
OneByOne ==
    /\ \A c, d \in Calls : /\ Client(c) /\ Client(d) /\ cli[c].origin = cli[d].origin
                           /\ cli[c].origin \notin mishap
                           => c = d
    /\ \A c, d \in Calls : cli[c].at = "writing" /\ cli[d].at = "writing" /\ c # d =>
          Origins \subseteq mishap
    /\ \A c \in Calls, o \in Origins : cli[c].at = "writing" /\ o \notin mishap =>
          cli[c].copy[o] = store[o]

(* What is vouched for is good; a sweep means that the grant was revoked; and   *)
(* what is stored is good unless a client is about to replace it.               *)
AllGood ==
    /\ \A c \in Calls, p \in Pairs :
          Client(c) /\ cli[c].origin \notin mishap /\ Vouches(c, p) => Good(p)
    /\ \A c \in Calls :
          Replaying(c) /\ cli[c].origin \notin mishap => grants[call[c].grant].revoked
    /\ \A o \in Origins, p \in Pairs : o \notin mishap /\ store[o] = p =>
          Good(p) \/ \E c \in Calls : Client(c) /\ cli[c].origin = o /\ Replacing(c)

CInv == OInv /\ CliTypeOK /\ CliKnown /\ OneByOne /\ AllGood

------------------------------------------------------------------------------
LEMMA CliFields ==
    ASSUME CliTypeOK, NEW c \in Calls, cli[c].at # "idle"
    PROVE  /\ cli[c] \in Cli /\ cli[c] # NoCli
           /\ cli[c].origin \in Origins /\ cli[c].pair \in Nat /\ cli[c].copy \in [Origins -> Nat]
<1>1. cli[c] \in Cli \cup {NoCli} /\ NoCli \notin Cli
  BY DEF CliTypeOK, NoCli, Cli
<1>2. cli[c] \in Cli
  BY <1>1 DEF NoCli
<1> QED  BY <1>1, <1>2 DEF Cli

LEMMA ActiveFields ==
    ASSUME CInv, NEW c \in Calls, Active(c)
    PROVE  /\ call[c] \in Call /\ CallKnown(call[c]) /\ call[c].grant \in Grants
           /\ cli[c] \in Cli /\ cli[c] # NoCli /\ cli[c].at # "idle"
           /\ cli[c].at \notin {"found", "got", "writing"}
           /\ cli[c].origin = OriginOf[call[c].grant] /\ cli[c].origin \in Origins
           /\ call[c].kind # "revoke" => Client(c)
<1>1. call[c] \in Call /\ CallKnown(call[c]) /\ call[c].grant \in Grants /\ call[c] # NoCall
  BY CallFields DEF CInv, Active
<1>2. CallerKnown(c)
  BY DEF CInv, CliKnown
<1>3. cli[c] # NoCli /\ cli[c].at \notin {"found", "got", "writing"}
  BY <1>1, <1>2 DEF CallerKnown
<1>4. cli[c] \in Cli /\ cli[c].at # "idle"
  BY <1>3 DEF CInv, CliTypeOK, Cli
<1> QED  BY <1>1, <1>2, <1>3, <1>4 DEF CallerKnown, Cli, Client

LEMMA NoneNoPair == OAuthTypeOK => None \notin Pairs /\ Pairs \subseteq Nat
<1> SUFFICES ASSUME OAuthTypeOK PROVE None \notin Pairs /\ Pairs \subseteq Nat  OBVIOUS
<1>1. Pairs = 1 .. Len(tokens) /\ Len(tokens) \in Nat
  BY DEF OAuthTypeOK, Pairs
<1> QED  BY <1>1 DEF None

LEMMA NoneNoPairNext == OAuthTypeOK' => None \notin Pairs'
<1> SUFFICES ASSUME OAuthTypeOK' PROVE None \notin Pairs'  OBVIOUS
<1>1. Pairs' = 1 .. Len(tokens') /\ Len(tokens') \in Nat
  BY DEF OAuthTypeOK, Pairs
<1> QED  BY <1>1 DEF None

(* What every step of an invocation keeps: the others' progress, what went      *)
(* wrong, and which grant a row is of.                                          *)
Frame(c) == /\ \A d \in Calls \ {c} : cli'[d] = cli[d] /\ call'[d] = call[d]
            /\ mishap \subseteq mishap'
            /\ Pairs \subseteq Pairs' /\ \A p \in Pairs : tokens'[p].grant = tokens[p].grant
            /\ \A g \in Grants : grants[g].revoked => grants'[g].revoked

LEMMA KnownStep ==
    ASSUME CInv, NEW c \in Calls, Frame(c), StoreKnown', CallerKnown(c)'
    PROVE  CliKnown'
<1> SUFFICES ASSUME NEW d \in Calls \ {c} PROVE CallerKnown(d)'
  BY DEF CliKnown
<1>1. CallerKnown(d) /\ cli'[d] = cli[d] /\ call'[d] = call[d]
  BY DEF CInv, CliKnown, Frame
<1>2. \A p, o : Belongs(p, o) => Belongs(p, o)'
  BY DEF Frame, Belongs
<1> QED  BY <1>1, <1>2 DEF CallerKnown, Active

(* At most one invocation works for a server, unless that is a mishap.          *)
LEMMA OneByOneStep ==
    ASSUME CInv, NEW c \in Calls, Frame(c),
           Client(c)' => \/ Client(c) /\ cli'[c].origin = cli[c].origin
                         \/ cli'[c].origin \in mishap'
                         \/ \A d \in Calls : ~(Client(d) /\ cli[d].origin = cli'[c].origin),
           cli'[c].at = "writing" =>
              /\ store' = store
              /\ \A o \in Origins : cli'[c].copy[o] = store[o]
              /\ (\A d \in Calls : cli[d].at # "writing") \/ Origins \subseteq mishap',
           store' = store \/ cli[c].at = "writing"
    PROVE  OneByOne'
<1>1. \A d \in Calls \ {c} : cli'[d] = cli[d] /\ (Client(d)' <=> Client(d))
  BY DEF Frame, Client, Active
<1>2. mishap \subseteq mishap' /\ OneByOne
  BY DEF Frame, CInv
<1>3. ASSUME NEW d \in Calls, NEW e \in Calls, Client(d)', Client(e)',
             cli'[d].origin = cli'[e].origin, cli'[d].origin \notin mishap'
      PROVE  d = e
  BY <1>1, <1>2, <1>3 DEF OneByOne
<1>4. ASSUME NEW d \in Calls, NEW e \in Calls, cli'[d].at = "writing", cli'[e].at = "writing", d # e
      PROVE  Origins \subseteq mishap'
  BY <1>1, <1>2, <1>4 DEF OneByOne
<1>5. ASSUME NEW d \in Calls, NEW o \in Origins, cli'[d].at = "writing", o \notin mishap'
      PROVE  cli'[d].copy[o] = store'[o]
  BY <1>1, <1>2, <1>5 DEF OneByOne
<1> QED  BY <1>3, <1>4, <1>5 DEF OneByOne

(* What is vouched for stays good.  A pair that ceases to be good is replaced   *)
(* by the invocation that takes the step.                                       *)
LEMMA GoodStep ==
    ASSUME CInv, OAuthTypeOK', NEW c \in Calls, Frame(c),
           \A p \in Pairs : Good(p) =>
              \/ Good(p)'
              \/ OriginOf[tokens[p].grant] \in mishap'
              \/ /\ Client(c) /\ cli[c].origin = OriginOf[tokens[p].grant]
                 /\ Client(c)' /\ Replacing(c)' /\ cli'[c].origin = cli[c].origin,
           \A p \in Pairs' : Client(c)' /\ Vouches(c, p)' /\ cli'[c].origin \notin mishap' => Good(p)',
           Replaying(c)' /\ cli'[c].origin \notin mishap' => grants'[call'[c].grant].revoked,
           \A o \in Origins, p \in Pairs' :
              o \notin mishap' /\ store'[o] # store[o] /\ store'[o] = p => Good(p)',
           Client(c) /\ Replacing(c) /\ cli[c].origin \notin mishap' =>
              \/ Client(c)' /\ Replacing(c)' /\ cli'[c].origin = cli[c].origin
              \/ \A p \in Pairs' : store'[cli[c].origin] = p => Good(p)'
    PROVE  AllGood'
<1>1. \A d \in Calls \ {c} : /\ cli'[d] = cli[d] /\ call'[d] = call[d]
                             /\ Client(d)' <=> Client(d)
                             /\ Replacing(d)' <=> Replacing(d)
                             /\ Replaying(d)' <=> Replaying(d)
  BY DEF Frame, Client, Active, Replacing, Replaying
<1>2. \A p : \A d \in Calls \ {c} : Vouches(d, p)' <=> Vouches(d, p)
  BY DEF Frame, Vouches, Presenting
<1>3. mishap \subseteq mishap' /\ OneByOne /\ AllGood /\ CliTypeOK /\ None \notin Pairs
  BY NoneNoPair DEF Frame, CInv, CliTypeOK
<1>4. \A d \in Calls, p \in Pairs' :
         Client(d) /\ Vouches(d, p) => p = None \/ (p \in Pairs /\ cli[d].origin = OriginOf[tokens[p].grant])
  <2> SUFFICES ASSUME NEW d \in Calls, NEW p \in Pairs', Client(d), Vouches(d, p), p # None
               PROVE  p \in Pairs /\ cli[d].origin = OriginOf[tokens[p].grant]
    OBVIOUS
  <2>1. CallerKnown(d)
    BY DEF CInv, CliKnown
  <2>2. CASE cli[d].at \in {"found", "got", "writing"} /\ cli[d].pair = p
    <3>1. cli[d] # NoCli
      BY <2>2 DEF NoCli
    <3> QED  BY <2>1, <2>2, <3>1 DEF CallerKnown, Belongs
  <2>3. CASE Presenting(d) /\ call[d].token = p
    <3>1. Active(d)
      BY <2>3 DEF Presenting, Active
    <3> QED  BY <2>3, <3>1, ActiveFields DEF CallKnown, Presenting
  <2>4. CASE call[d].pc = "touching" /\ call[d].token = p
    BY <2>1, <2>4 DEF CallerKnown, Belongs
  <2> QED  BY <2>2, <2>3, <2>4 DEF Vouches
<1>5. ASSUME NEW d \in Calls, NEW p \in Pairs', Client(d)', cli'[d].origin \notin mishap', Vouches(d, p)'
      PROVE  Good(p)'
  <2>0. None \notin Pairs'
    BY NoneNoPairNext
  <2>1. CASE d = c
    BY <1>5, <2>1
  <2>2. CASE d # c
    <3>1. Client(d) /\ Vouches(d, p) /\ cli[d].origin \notin mishap'
      BY <1>1, <1>2, <1>5, <2>2
    <3>2. CASE p = None
      BY <2>0, <3>2
    <3>3. CASE p \in Pairs /\ cli[d].origin = OriginOf[tokens[p].grant]
      <4>1. Good(p)
        BY <1>3, <3>1, <3>3 DEF AllGood
      <4>2. ~(Client(c) /\ cli[c].origin = cli[d].origin)
        BY <1>3, <2>2, <3>1 DEF OneByOne
      <4> QED  BY <3>1, <3>3, <4>1, <4>2
    <3> QED  BY <1>4, <3>1, <3>2, <3>3
  <2> QED  BY <2>1, <2>2
<1>6. ASSUME NEW d \in Calls, Replaying(d)', cli'[d].origin \notin mishap'
      PROVE  grants'[call'[d].grant].revoked
  <2>1. CASE d = c
    BY <1>6, <2>1
  <2>2. CASE d # c
    <3>1. Replaying(d) /\ cli[d].origin \notin mishap /\ call'[d] = call[d]
      BY <1>1, <1>3, <1>6, <2>2
    <3>2. grants[call[d].grant].revoked
      BY <1>3, <3>1 DEF AllGood
    <3>3. call[d].grant \in Grants
      BY <3>1, CallFields DEF CInv, Replaying
    <3> QED  BY <3>1, <3>2, <3>3 DEF Frame
  <2> QED  BY <2>1, <2>2
<1>7. ASSUME NEW o \in Origins, NEW p \in Pairs', o \notin mishap', store'[o] = p, ~Good(p)'
      PROVE  \E d \in Calls : Client(d)' /\ cli'[d].origin = o /\ Replacing(d)'
  <2>1. store[o] = p
    BY <1>7
  <2>2. CASE p = None
    <3>1. None \notin Pairs'
      BY NoneNoPairNext
    <3> QED  BY <2>2, <3>1
  <2>3. CASE p # None
    <3>1. p \in Pairs /\ OriginOf[tokens[p].grant] = o
      BY <2>1, <2>3 DEF CInv, CliKnown, StoreKnown, Belongs
    <3>2. CASE Good(p)
      BY <1>7, <3>1, <3>2
    <3>3. CASE ~Good(p)
      <4>1. PICK d \in Calls : Client(d) /\ cli[d].origin = o /\ Replacing(d)
        BY <1>3, <1>7, <2>1, <3>1, <3>3 DEF AllGood
      <4>2. CASE d = c
        BY <1>7, <4>1, <4>2
      <4>3. CASE d # c
        BY <1>1, <4>1, <4>3
      <4> QED  BY <4>2, <4>3
    <3> QED  BY <3>2, <3>3
  <2> QED  BY <2>2, <2>3
<1> QED  BY <1>5, <1>6, <1>7 DEF AllGood

(* An invocation that goes on, or one that begins: it is the only one for its   *)
(* server, the copy it will write is of the file as it is, what it vouches for  *)
(* it vouched for before or has just found to be good, and if it was going to   *)
(* replace what is stored it still is.                                          *)
WorksAlone(c) == Client(c)' =>
    \/ Client(c) /\ cli'[c].origin = cli[c].origin
    \/ cli'[c].origin \in mishap'
    \/ \A d \in Calls : ~(Client(d) /\ cli[d].origin = cli'[c].origin)
CopiesAll(c) == cli'[c].at = "writing" =>
    /\ cli'[c].copy = store
    /\ (\A d \in Calls : cli[d].at # "writing") \/ Origins \subseteq mishap'
VouchesStill(c) == \A p \in Pairs : Client(c)' /\ Vouches(c, p)' /\ cli'[c].origin \notin mishap' =>
    \/ Good(p)
    \/ Client(c) /\ Vouches(c, p) /\ cli'[c].origin = cli[c].origin
ReplaysRevoked(c) == Replaying(c)' /\ cli'[c].origin \notin mishap' =>
    \/ grants[call'[c].grant].revoked
    \/ Replaying(c) /\ cli'[c].origin = cli[c].origin /\ call'[c].grant = call[c].grant
ReplacesStill(c) == Client(c) /\ Replacing(c) /\ cli[c].origin \notin mishap' =>
    Client(c)' /\ Replacing(c)' /\ cli'[c].origin = cli[c].origin
GoesOn(c) ==
    /\ \A d \in Calls \ {c} : call'[d] = call[d]
    /\ UNCHANGED <<grants, tokens, store>>
    /\ mishap \subseteq mishap' /\ mishap' \subseteq Origins
    /\ WorksAlone(c) /\ CopiesAll(c) /\ VouchesStill(c) /\ ReplaysRevoked(c) /\ ReplacesStill(c)

LEMMA Onward ==
    ASSUME CInv, OAuthTypeOK', NEW c \in Calls, NEW k \in Cli, cli' = [cli EXCEPT ![c] = k],
           CallerKnown(c)', GoesOn(c)
    PROVE  CliTypeOK' /\ CliKnown' /\ OneByOne' /\ AllGood'
<1> USE DEF GoesOn
<1>1. cli'[c] = k /\ \A d \in Calls \ {c} : cli'[d] = cli[d]
  BY DEF CInv, CliTypeOK
<1>2. CliTypeOK'
  <2>1. cli' \in [Calls -> Cli \cup {NoCli}] /\ store' \in [Origins -> Nat]
    BY DEF CInv, CliTypeOK
  <2> QED  BY <2>1 DEF CliTypeOK
<1>3. Frame(c)
  BY <1>1 DEF Frame, Pairs
<1>4. Pairs' = Pairs /\ (\A p : Good(p)' <=> Good(p)) /\ (\A p, o : Belongs(p, o)' <=> Belongs(p, o))
  BY DEF Pairs, Good, LiveRefresh, Belongs
<1>5. StoreKnown'
  BY <1>4 DEF CInv, CliKnown, StoreKnown
<1>6. CliKnown'
  BY <1>3, <1>5, KnownStep
<1>7. mishap \subseteq mishap' /\ AllGood
  BY DEF CInv
<1>8. OneByOne'
  BY <1>1, <1>3, OneByOneStep DEF WorksAlone, CopiesAll
<1>9. \A p \in Pairs' : Client(c)' /\ Vouches(c, p)' /\ cli'[c].origin \notin mishap' => Good(p)'
  BY <1>1, <1>4, <1>7 DEF AllGood, VouchesStill
<1>10. Replaying(c)' /\ cli'[c].origin \notin mishap' => grants'[call'[c].grant].revoked
  BY <1>1, <1>7 DEF AllGood, ReplaysRevoked
<1>11. AllGood'
  BY <1>1, <1>3, <1>4, <1>9, <1>10, GoodStep DEF ReplacesStill
<1> QED  BY <1>2, <1>6, <1>8, <1>11

LEMMA IdleFields ==
    ASSUME CInv, NEW c \in Calls, cli[c] = NoCli
    PROVE  call[c] = NoCall /\ ~Active(c) /\ ~Client(c) /\ ~Replaying(c) /\ cli[c].at = "idle"
<1>1. call[c] = NoCall
  BY DEF CInv, CliKnown, CallerKnown
<1> QED  BY <1>1 DEF NoCall, NoCli, Active, Client, Replaying

LEMMA Running1 == \A o \in Origins : (\E d \in Calls : Client(d) /\ cli[d].origin = o) => Busy(o)
  BY DEF Client, Busy, Running

LEMMA FindStep ==
    ASSUME CInv, OAuthTypeOK', NEW c \in Calls, NEW o \in Origins, Find(c, o)
    PROVE  CliTypeOK' /\ CliKnown' /\ OneByOne' /\ AllGood'
<1> DEFINE k == [at |-> "found", origin |-> o, pair |-> store[o], copy |-> NoCopy]
<1>1. NoCopy \in [Origins -> Nat] /\ \A x \in Origins : NoCopy[x] = None
  BY DEF NoCopy, None
<1>2. k \in Cli /\ k.at = "found" /\ k.origin = o /\ k.pair = store[o] /\ k.copy = NoCopy
  BY <1>1 DEF CInv, CliTypeOK, Cli
<1>3. cli' = [cli EXCEPT ![c] = k] /\ UNCHANGED <<grants, tokens, call, store>> /\ cli[c] = NoCli
      /\ mishap' = mishap \cup {x \in {o} : Busy(o)}
  BY DEF Find, Server
<1>4. call[c] = NoCall /\ ~Client(c) /\ cli'[c] = k
  BY <1>3, IdleFields DEF CInv, CliTypeOK
<1> HIDE DEF k
<1>5. ~Active(c)' /\ call'[c] = NoCall /\ call'[c].pc = "idle" /\ ~Replaying(c)' /\ ~Presenting(c)'
  BY <1>3, <1>4 DEF NoCall, Active, Replaying, Presenting
<1>6. \A p, x : Belongs(p, x)' <=> Belongs(p, x)
  BY <1>3 DEF Belongs, Pairs
<1>7. CallerKnown(c)'
  BY <1>1, <1>2, <1>4, <1>5, <1>6 DEF CallerKnown, CInv, CliKnown, StoreKnown
<1>8. o \in mishap' \/ \A d \in Calls : ~(Client(d) /\ cli[d].origin = o)
  BY <1>3, Running1
<1>9. \A p \in Pairs : Vouches(c, p)' /\ o \notin mishap' => Good(p)
  <2> SUFFICES ASSUME NEW p \in Pairs, Vouches(c, p)', o \notin mishap' PROVE Good(p)
    OBVIOUS
  <2>1. p = store[o]
    BY <1>2, <1>4, <1>5 DEF Vouches
  <2> QED  BY <1>3, <1>8, <2>1 DEF CInv, AllGood
<1>10. mishap \subseteq mishap' /\ mishap' \subseteq Origins
  BY <1>3 DEF CInv, CliTypeOK
<1>11. GoesOn(c)
  <2>3. cli'[c].at # "writing" /\ cli'[c].origin = o
    BY <1>2, <1>4
  <2>4. WorksAlone(c)
    BY <1>8, <2>3 DEF WorksAlone
  <2>5. CopiesAll(c)
    BY <2>3 DEF CopiesAll
  <2>6. ReplaysRevoked(c)
    BY <1>5 DEF ReplaysRevoked
  <2>7. ReplacesStill(c)
    BY <1>4 DEF ReplacesStill
  <2>2. VouchesStill(c)
    BY <1>2, <1>4, <1>9 DEF VouchesStill
  <2> QED  BY <1>3, <1>10, <2>2, <2>4, <2>5, <2>6, <2>7 DEF GoesOn
<1> QED  BY <1>2, <1>3, <1>7, <1>11, Onward

LEMMA OverFields ==
    ASSUME CliTypeOK, NEW c \in Calls, cli[c].at # "idle"
    PROVE  /\ Over(cli[c]) \in Cli /\ Over(cli[c]).at = "done" /\ Over(cli[c]).pair = None
           /\ Over(cli[c]).origin = cli[c].origin
           /\ \A o \in Origins : Over(cli[c]).copy[o] = None
<1>1. cli[c] \in Cli
  BY CliFields
<1>2. NoCopy \in [Origins -> Nat] /\ \A o \in Origins : NoCopy[o] = None
  BY DEF NoCopy, None
<1>3. None \in Nat /\ cli[c].origin \in Origins
  BY <1>1 DEF Cli, None
<1>4. Over(cli[c]) = [at |-> "done", origin |-> cli[c].origin, pair |-> None, copy |-> NoCopy]
  <2> DEFINE x == cli[c]
  <2>1. x = [at |-> x.at, origin |-> x.origin, pair |-> x.pair, copy |-> x.copy]
    BY <1>1 DEF Cli
  <2>2. Over(x) = [x EXCEPT !.at = "done", !.pair = None, !.copy = NoCopy]
    BY DEF Over
  <2> HIDE DEF x
  <2>3. Over(x) = [at |-> "done", origin |-> x.origin, pair |-> None, copy |-> NoCopy]
    BY <2>1, <2>2
  <2> QED  BY <2>3 DEF x
<1> QED  BY <1>2, <1>3, <1>4 DEF Cli

LEMMA DoneKnown ==
    ASSUME NEW c \in Calls, NEW k \in Cli, cli'[c] = k, k.at = "done", k.pair = None,
           \A o \in Origins : k.copy[o] = None,
           Active(c)' => OriginOf[call'[c].grant] = k.origin,
           call'[c].pc = "touching" =>
              call'[c].kind # "revoke" /\ Belongs(call[c].token, k.origin)'
    PROVE  CallerKnown(c)'
  BY DEF CallerKnown, NoCli

(* The server's work on a request, but for the commits and the end of a sweep.  *)
LEMMA ServerQuiet ==
    ASSUME CInv, OAuthTypeOK', NEW c \in Calls, Active(c), call[c].pc # "touching",
           NEW j \in Call, call' = [call EXCEPT ![c] = j],
           j.grant = call[c].grant, j.kind = call[c].kind, j.token = call[c].token,
           j.pc # "touching",
           UNCHANGED <<grants, tokens, store, mishap>>,
           cli' = IF call'[c].pc = "ended" /\ cli[c].at = "waiting"
                  THEN [cli EXCEPT ![c] = Over(cli[c])] ELSE cli,
           Presenting(c)' => Presenting(c),
           Replaying(c)' => \/ Replaying(c)
                            \/ grants[call[c].grant].revoked
                            \/ cli[c].origin \in mishap
    PROVE  CliTypeOK' /\ CliKnown' /\ OneByOne' /\ AllGood'
<1>1. /\ cli[c] \in Cli /\ cli[c].at \notin {"idle", "found", "got", "writing"}
      /\ cli[c].origin = OriginOf[call[c].grant] /\ cli[c].origin \in Origins
      /\ call[c].kind # "revoke" => Client(c)
  BY ActiveFields
<1>2. call'[c] = j /\ \A d \in Calls \ {c} : call'[d] = call[d]
  BY DEF CInv, OInv, OAuthTypeOK
<1>3. \E k \in Cli : /\ cli' = [cli EXCEPT ![c] = k] /\ cli'[c] = k
                     /\ k.origin = cli[c].origin
                     /\ \/ k = cli[c]
                        \/ /\ call'[c].pc = "ended" /\ k.at = "done" /\ k.pair = None
                           /\ \A o \in Origins : k.copy[o] = None
  <2>1. CASE call'[c].pc = "ended" /\ cli[c].at = "waiting"
    <3>1. cli' = [cli EXCEPT ![c] = Over(cli[c])] /\ cli'[c] = Over(cli[c])
      BY <2>1 DEF CInv, CliTypeOK
    <3> QED  BY <1>1, <2>1, <3>1, OverFields DEF CInv
  <2>2. CASE ~(call'[c].pc = "ended" /\ cli[c].at = "waiting")
    <3>1. cli' = [cli EXCEPT ![c] = cli[c]] /\ cli'[c] = cli[c]
      BY <2>2 DEF CInv, CliTypeOK
    <3> QED  BY <1>1, <3>1
  <2> QED  BY <2>1, <2>2
<1>4. PICK k \in Cli : /\ cli' = [cli EXCEPT ![c] = k] /\ cli'[c] = k
                       /\ k.origin = cli[c].origin
                       /\ \/ k = cli[c]
                          \/ /\ call'[c].pc = "ended" /\ k.at = "done" /\ k.pair = None
                             /\ \A o \in Origins : k.copy[o] = None
  BY <1>3
<1>5. \A p, o : Belongs(p, o)' <=> Belongs(p, o)
  BY DEF Belongs, Pairs
<1>6. CallerKnown(c)'
  <2>1. CASE k = cli[c]
    <3>1. k.at \notin {"idle", "found", "got", "writing"} /\ k # NoCli
      BY <1>1, <2>1 DEF NoCli
    <3>2. /\ k.pair # None => Belongs(k.pair, k.origin)
          /\ \A o \in Origins : k.copy[o] # None => Belongs(k.copy[o], o)
      BY <2>1, <3>1 DEF CInv, CliKnown, CallerKnown
    <3> QED  BY <1>1, <1>2, <1>4, <1>5, <3>1, <3>2 DEF CallerKnown
  <2>2. CASE k.at = "done" /\ k.pair = None /\ \A o \in Origins : k.copy[o] = None
    BY <1>1, <1>2, <1>4, <2>2, DoneKnown
  <2> QED  BY <1>4, <2>1, <2>2
<1>7. Client(c)' => Client(c)
  <2>1. CASE k = cli[c]
    BY <1>1, <1>2, <1>4, <2>1 DEF Client
  <2>2. CASE k.at = "done" /\ call'[c].pc = "ended"
    BY <1>4, <2>2 DEF Client, Active
  <2> QED  BY <1>4, <2>1, <2>2
<1>8. k.at \notin {"found", "got", "writing"}
  BY <1>1, <1>4
<1>9. GoesOn(c)
  <2>1. WorksAlone(c)
    BY <1>4, <1>7 DEF WorksAlone
  <2>2. CopiesAll(c)
    BY <1>4, <1>8 DEF CopiesAll
  <2>3. VouchesStill(c)
    <3> SUFFICES ASSUME NEW p \in Pairs, Client(c)', Vouches(c, p)' PROVE Vouches(c, p)
      BY <1>4, <1>7 DEF VouchesStill
    <3>1. Presenting(c)' /\ call'[c].token = p
      BY <1>2, <1>4, <1>8 DEF Vouches
    <3> QED  BY <1>2, <3>1 DEF Vouches
  <2>4. ReplaysRevoked(c)
    BY <1>2, <1>4 DEF ReplaysRevoked
  <2>5. ReplacesStill(c)
    BY <1>1 DEF ReplacesStill, Replacing
  <2>6. mishap \subseteq mishap' /\ mishap' \subseteq Origins
    BY DEF CInv, CliTypeOK
  <2> QED  BY <1>2, <2>1, <2>2, <2>3, <2>4, <2>5, <2>6 DEF GoesOn
<1> QED  BY <1>4, <1>6, <1>9, Onward

LEMMA RowWaitClient ==
    ASSUME CInv, OAuthTypeOK', NEW c \in Calls, RowWait(c), UNCHANGED <<store, mishap>>,
           cli' = IF call'[c].pc = "ended" /\ cli[c].at = "waiting"
                  THEN [cli EXCEPT ![c] = Over(@)] ELSE cli
    PROVE  CliTypeOK' /\ CliKnown' /\ OneByOne' /\ AllGood'
<1> DEFINE j == [call[c] EXCEPT !.pc = "waiting"]
<1>1. Active(c) /\ call[c] \in Call /\ call[c].pc = "eligible"
      /\ UNCHANGED <<grants, tokens, store, mishap>>
  BY CallFields DEF RowWait, Active, CInv
<1>2. j \in Call /\ j.grant = call[c].grant /\ j.kind = call[c].kind
      /\ j.token = call[c].token /\ j.pc = "waiting"
  BY <1>1 DEF Call
<1>3. call' = [call EXCEPT ![c] = j] /\ call'[c] = j
  BY DEF RowWait, Goto, CInv, OInv, OAuthTypeOK
<1> HIDE DEF j
<1>4. (Presenting(c)' => Presenting(c)) /\ ~Replaying(c)'
  BY <1>1, <1>2, <1>3 DEF Presenting, Replaying
<1> QED  BY <1>1, <1>2, <1>3, <1>4, ServerQuiet

LEMMA UseCodeClient ==
    ASSUME CInv, OAuthTypeOK', NEW c \in Calls, UseCode(c), UNCHANGED <<store, mishap>>,
           cli' = IF call'[c].pc = "ended" /\ cli[c].at = "waiting"
                  THEN [cli EXCEPT ![c] = Over(@)] ELSE cli
    PROVE  CliTypeOK' /\ CliKnown' /\ OneByOne' /\ AllGood'
<1>1. Active(c) /\ call[c] \in Call /\ call[c].pc # "touching" /\ call[c].kind = "exchange"
      /\ UNCHANGED <<grants, tokens, store, mishap>>
  BY CallFields DEF UseCode, Active, CInv
<1>2. PICK j \in Call : /\ call' = [call EXCEPT ![c] = j]
                        /\ j.grant = call[c].grant /\ j.kind = call[c].kind
                        /\ j.token = call[c].token /\ j.pc \in {"minting", "ended"}
  <2>1. CASE Goto(c, "minting")
    <3> DEFINE j == [call[c] EXCEPT !.pc = "minting"]
    <3>1. j \in Call /\ j.grant = call[c].grant /\ j.kind = call[c].kind
          /\ j.token = call[c].token /\ j.pc = "minting"
      BY <1>1 DEF Call
    <3>2. call' = [call EXCEPT ![c] = j]
      BY <2>1 DEF Goto, CInv, OInv, OAuthTypeOK
    <3> QED  BY <3>1, <3>2
  <2>2. CASE End(c)
    <3> DEFINE j == [call[c] EXCEPT !.pc = "ended", !.holds = FALSE, !.rows = {}]
    <3>1. j \in Call /\ j.grant = call[c].grant /\ j.kind = call[c].kind
          /\ j.token = call[c].token /\ j.pc = "ended"
      BY <1>1 DEF Call
    <3>2. call' = [call EXCEPT ![c] = j]
      BY <2>2 DEF End, Ended, CInv, OInv, OAuthTypeOK
    <3> QED  BY <3>1, <3>2
  <2> QED  BY <2>1, <2>2 DEF UseCode
<1>3. call'[c] = j
  BY <1>2 DEF CInv, OInv, OAuthTypeOK
<1>4. ~Presenting(c)' /\ ~Replaying(c)'
  BY <1>1, <1>2, <1>3 DEF Presenting, Replaying
<1> QED  BY <1>1, <1>2, <1>4, ServerQuiet

LEMMA RotationClient ==
    ASSUME CInv, OAuthTypeOK', NEW c \in Calls, Rotate(c) \/ LoseRotation(c),
           UNCHANGED <<store, mishap>>,
           cli' = IF call'[c].pc = "ended" /\ cli[c].at = "waiting"
                  THEN [cli EXCEPT ![c] = Over(@)] ELSE cli
    PROVE  CliTypeOK' /\ CliKnown' /\ OneByOne' /\ AllGood'
<1>1. /\ Active(c) /\ call[c] \in Call /\ CallKnown(call[c]) /\ call[c].grant \in Grants
      /\ call[c].pc \in {"eligible", "waiting"} /\ call[c].kind = "refresh" /\ Presenting(c)
      /\ UNCHANGED <<grants, tokens, store, mishap>>
  BY CallFields DEF Rotate, LoseRotation, Active, CInv, Presenting
<1>2. PICK j \in Call : /\ call' = [call EXCEPT ![c] = j]
                        /\ j.grant = call[c].grant /\ j.kind = call[c].kind
                        /\ j.token = call[c].token
                        /\ j.pc = "minting" \/ (j.pc = "sweep" /\ LoseRotation(c))
  <2>1. CASE Rotate(c)
    <3> DEFINE j == [call[c] EXCEPT !.pc = "minting", !.holds = TRUE]
    <3>1. j \in Call /\ j.grant = call[c].grant /\ j.kind = call[c].kind
          /\ j.token = call[c].token /\ j.pc = "minting"
      BY <1>1 DEF Call
    <3>2. call' = [call EXCEPT ![c] = j]
      BY <2>1 DEF Rotate, CInv, OInv, OAuthTypeOK
    <3> QED  BY <3>1, <3>2
  <2>2. CASE LoseRotation(c)
    <3> DEFINE j == [call[c] EXCEPT !.pc = "sweep", !.holds = (call[c].pc = "waiting")]
    <3>1. j \in Call /\ j.grant = call[c].grant /\ j.kind = call[c].kind
          /\ j.token = call[c].token /\ j.pc = "sweep"
      BY <1>1 DEF Call
    <3>2. call' = [call EXCEPT ![c] = j]
      BY <2>2 DEF LoseRotation, CInv, OInv, OAuthTypeOK
    <3> QED  BY <2>2, <3>1, <3>2
  <2> QED  BY <2>1, <2>2
<1>3. call'[c] = j
  BY <1>2 DEF CInv, OInv, OAuthTypeOK
<1>4. Replaying(c)' => grants[call[c].grant].revoked \/ cli[c].origin \in mishap
  <2> SUFFICES ASSUME LoseRotation(c), cli[c].origin \notin mishap
               PROVE  grants[call[c].grant].revoked
    BY <1>2, <1>3 DEF Replaying
  <2>1. call[c].token \in Pairs /\ tokens[call[c].token].grant = call[c].grant /\ Client(c)
    BY <1>1, ActiveFields DEF CallKnown
  <2>2. Good(call[c].token)
    BY <1>1, <2>1 DEF CInv, AllGood, Vouches
  <2>3. ~LiveRefresh(call[c].token)
    BY DEF LoseRotation, Rotates, LiveRefresh
  <2> QED  BY <2>1, <2>2, <2>3 DEF Good
<1> QED  BY <1>1, <1>2, <1>4, ServerQuiet

LEMMA SweepBeginClient ==
    ASSUME CInv, OAuthTypeOK', NEW c \in Calls, SweepBegin(c), UNCHANGED <<store, mishap>>,
           cli' = IF call'[c].pc = "ended" /\ cli[c].at = "waiting"
                  THEN [cli EXCEPT ![c] = Over(@)] ELSE cli
    PROVE  CliTypeOK' /\ CliKnown' /\ OneByOne' /\ AllGood'
<1> DEFINE j == [call[c] EXCEPT !.pc = "sweeping", !.rows = Unrevoked(SweptRows(c))]
<1>1. Active(c) /\ call[c] \in Call /\ call[c].pc = "sweep"
      /\ UNCHANGED <<grants, tokens, store, mishap>>
  BY CallFields DEF SweepBegin, Active, CInv
<1>2. Unrevoked(SweptRows(c)) \subseteq Nat
  BY NoneNoPair DEF CInv, OInv, Unrevoked, SweptRows, OfGrant, Family
<1>3. j \in Call /\ j.grant = call[c].grant /\ j.kind = call[c].kind
      /\ j.token = call[c].token /\ j.pc = "sweeping"
  BY <1>1, <1>2 DEF Call
<1>4. call' = [call EXCEPT ![c] = j] /\ call'[c] = j
  BY DEF SweepBegin, CInv, OInv, OAuthTypeOK
<1> HIDE DEF j
<1>5. ~Presenting(c)' /\ (Replaying(c)' => Replaying(c))
  BY <1>1, <1>3, <1>4 DEF Presenting, Replaying
<1> QED  BY <1>1, <1>3, <1>4, <1>5, ServerQuiet

(* The answer arrives, or not.                                                  *)
LEMMA AnswerClient ==
    ASSUME CInv, OAuthTypeOK', NEW c \in Calls, Receive(c) \/ LoseAnswer(c)
    PROVE  CliTypeOK' /\ CliKnown' /\ OneByOne' /\ AllGood'
<1> DEFINE j == Ended(call[c])
<1>1. /\ Active(c) /\ call[c] \in Call /\ call[c].pc = "touching"
      /\ UNCHANGED <<grants, tokens, store>> /\ call' = [call EXCEPT ![c] = j]
  BY CallFields DEF Receive, LoseAnswer, Answer, Active, CInv, End, OInv, OAuthTypeOK
<1>2. j.pc = "ended"
  BY <1>1 DEF Ended, Call
<1>3. call'[c].pc = "ended" /\ \A d \in Calls \ {c} : call'[d] = call[d]
  BY <1>1, <1>2 DEF CInv, OInv, OAuthTypeOK
<1> HIDE DEF j
<1>4. ~Active(c)' /\ ~Presenting(c)' /\ ~Replaying(c)' /\ call'[c].pc # "touching"
  BY <1>3 DEF Active, Presenting, Replaying
<1>5. /\ cli[c] \in Cli /\ cli[c].at \notin {"idle", "found", "got", "writing"}
      /\ cli[c].origin \in Origins
      /\ call[c].kind # "revoke" /\ Client(c) /\ Belongs(call[c].token, cli[c].origin)
  BY <1>1, ActiveFields DEF CInv, CliKnown, CallerKnown
<1>6. mishap \subseteq mishap' /\ mishap' \subseteq Origins
  BY <1>5 DEF Receive, LoseAnswer, CInv, CliTypeOK
<1>7. \A p, o : Belongs(p, o)' <=> Belongs(p, o)
  BY <1>1 DEF Belongs, Pairs
<1>8. CASE Receive(c) /\ cli[c].at = "waiting"
  <2> DEFINE k == [cli[c] EXCEPT !.at = "got", !.pair = call[c].token]
  <2>1. call[c].token \in Nat
    BY <1>1 DEF Call
  <2>2. k \in Cli /\ k.at = "got" /\ k.pair = call[c].token /\ k.origin = cli[c].origin
        /\ k.copy = cli[c].copy
    BY <1>5, <2>1 DEF Cli
  <2>3. cli' = [cli EXCEPT ![c] = k] /\ cli'[c] = k
    BY <1>8 DEF Receive, CInv, CliTypeOK
  <2> HIDE DEF k
  <2>4. \A o \in Origins : k.copy[o] # None => Belongs(k.copy[o], o)
    BY <1>5, <2>2 DEF CInv, CliKnown, CallerKnown, NoCli
  <2>5. CallerKnown(c)'
    BY <1>4, <1>5, <1>7, <2>2, <2>3, <2>4 DEF CallerKnown, NoCli
  <2>6. call[c].token # None
    BY <1>5, NoneNoPair DEF CInv, OInv, Belongs
  <2>7. Client(c)' /\ Replacing(c)'
    BY <2>2, <2>3, <2>6 DEF Client, Replacing
  <2>8. \A p : Vouches(c, p)' => Vouches(c, p)
    BY <1>1, <1>4, <2>2, <2>3 DEF Vouches
  <2>9. GoesOn(c)
    BY <1>1, <1>3, <1>4, <1>5, <1>6, <2>2, <2>3, <2>7, <2>8
    DEF GoesOn, WorksAlone, CopiesAll, VouchesStill, ReplaysRevoked, ReplacesStill
  <2> QED  BY <2>2, <2>3, <2>5, <2>9, Onward
<1>9. CASE ~(Receive(c) /\ cli[c].at = "waiting")
  <2>1. \E k \in Cli : /\ cli' = [cli EXCEPT ![c] = k] /\ cli'[c] = k
                       /\ k.origin = cli[c].origin
                       /\ k.at \notin {"found", "waiting", "got", "writing"}
                       /\ cli[c].origin \in mishap'
                       /\ \/ k = cli[c]
                          \/ k.at = "done" /\ k.pair = None /\ \A o \in Origins : k.copy[o] = None
    <3>1. CASE LoseAnswer(c)
      <4>1. cli' = [cli EXCEPT ![c] = Over(cli[c])] /\ cli'[c] = Over(cli[c])
            /\ cli[c].origin \in mishap'
        BY <3>1 DEF LoseAnswer, Stop, CInv, CliTypeOK
      <4> QED  BY <1>5, <4>1, OverFields DEF CInv
    <3>2. CASE Receive(c) /\ cli[c].at # "waiting"
      <4>1. cli' = [cli EXCEPT ![c] = cli[c]] /\ cli'[c] = cli[c] /\ cli[c].origin \in mishap'
        BY <3>2 DEF Receive, CInv, CliTypeOK
      <4> QED  BY <1>5, <3>2, <4>1
    <3> QED  BY <1>9, <3>1, <3>2
  <2>2. PICK k \in Cli : /\ cli' = [cli EXCEPT ![c] = k] /\ cli'[c] = k
                         /\ k.origin = cli[c].origin
                         /\ k.at \notin {"found", "waiting", "got", "writing"}
                         /\ cli[c].origin \in mishap'
                         /\ \/ k = cli[c]
                            \/ k.at = "done" /\ k.pair = None /\ \A o \in Origins : k.copy[o] = None
    BY <2>1
  <2>3. ~Client(c)'
    BY <1>4, <2>2 DEF Client
  <2>4. CallerKnown(c)'
    <3>1. CASE k = cli[c]
      <4>1. k # NoCli /\ k.at # "idle"
        BY <1>5, <3>1 DEF NoCli
      <4>2. /\ k.pair # None => Belongs(k.pair, k.origin)
            /\ \A o \in Origins : k.copy[o] # None => Belongs(k.copy[o], o)
        BY <3>1, <4>1 DEF CInv, CliKnown, CallerKnown
      <4> QED  BY <1>4, <1>7, <2>2, <4>1, <4>2 DEF CallerKnown
    <3>2. CASE k.at = "done" /\ k.pair = None /\ \A o \in Origins : k.copy[o] = None
      BY <1>4, <2>2, <3>2, DoneKnown
    <3> QED  BY <2>2, <3>1, <3>2
  <2>5. GoesOn(c)
    BY <1>1, <1>3, <1>4, <1>6, <2>2, <2>3
    DEF GoesOn, WorksAlone, CopiesAll, VouchesStill, ReplaysRevoked, ReplacesStill
  <2> QED  BY <2>2, <2>4, <2>5, Onward
<1> QED  BY <1>8, <1>9

(* An invocation that ends without having written.                              *)
LEMMA StopClient ==
    ASSUME CInv, OAuthTypeOK', NEW c \in Calls, UseAccess(c) \/ Kill(c)
    PROVE  CliTypeOK' /\ CliKnown' /\ OneByOne' /\ AllGood'
<1> DEFINE k == Over(cli[c])
<1>1. /\ cli[c].at \in {"found", "waiting", "got", "writing"}
      /\ UNCHANGED <<grants, tokens, call, store>>
      /\ mishap \subseteq mishap'
  BY DEF UseAccess, AuthenticateMcp, Kill, Server
<1>2. cli' = [cli EXCEPT ![c] = k] /\ cli'[c] = k
  BY DEF UseAccess, Kill, Stop, CInv, CliTypeOK
<1>3. k \in Cli /\ k.at = "done" /\ k.pair = None /\ k.origin = cli[c].origin
      /\ \A o \in Origins : k.copy[o] = None
  BY <1>1, OverFields DEF CInv
<1> HIDE DEF k
<1>4. Client(c) /\ cli[c].origin \in Origins /\ cli[c] # NoCli
  BY <1>1, CliFields DEF Client, CInv
<1>5. /\ Active(c)' <=> Active(c)
      /\ \A p, o : Belongs(p, o)' <=> Belongs(p, o)
      /\ Replaying(c)' <=> Replaying(c)
      /\ Presenting(c)' <=> Presenting(c)
  BY <1>1 DEF Active, Belongs, Pairs, Replaying, Presenting
<1>6. mishap' \subseteq Origins
  BY <1>4 DEF UseAccess, Kill, CInv, CliTypeOK
<1>7. CallerKnown(c)
  BY DEF CInv, CliKnown
<1>8. CallerKnown(c)'
  BY <1>1, <1>2, <1>3, <1>5, <1>7, DoneKnown DEF CallerKnown
<1>9. ReplacesStill(c)
  <2> SUFFICES ASSUME Replacing(c), cli[c].origin \notin mishap' PROVE Client(c)' /\ Replacing(c)'
    BY <1>2, <1>3 DEF ReplacesStill
  <2>1. ~(cli[c].at \in {"got", "writing"} /\ cli[c].pair # None)
    BY DEF UseAccess, Kill
  <2>2. call[c].pc = "touching"
    BY <2>1 DEF Replacing
  <2>3. Active(c) /\ call[c].kind # "revoke"
    BY <1>7, <2>2 DEF CallerKnown, Active
  <2> QED  BY <1>1, <1>5, <2>2, <2>3 DEF Client, Replacing
<1>10. VouchesStill(c)
  BY <1>1, <1>2, <1>3, <1>4, <1>5 DEF VouchesStill, Vouches
<1>11. GoesOn(c)
  BY <1>1, <1>2, <1>3, <1>4, <1>5, <1>6, <1>9, <1>10
  DEF GoesOn, WorksAlone, CopiesAll, ReplaysRevoked
<1> QED  BY <1>2, <1>3, <1>8, <1>11, Onward

(* A token that is vouched for is not taken for a replay.                       *)
LEMMA SendRefreshClient ==
    ASSUME CInv, OAuthTypeOK', NEW c \in Calls, SendRefresh(c)
    PROVE  CliTypeOK' /\ CliKnown' /\ OneByOne' /\ AllGood'
<1> DEFINE p == cli[c].pair
           k == [cli[c] EXCEPT !.at = "waiting"]
<1>1. cli[c] \in Cli /\ cli[c].at = "found" /\ cli[c] # NoCli /\ cli[c].origin \in Origins
  BY CliFields DEF SendRefresh, CInv
<1>2. k \in Cli /\ k.at = "waiting" /\ k.origin = cli[c].origin /\ k.pair = p /\ k.copy = cli[c].copy
  BY <1>1 DEF Cli
<1>3. cli' = [cli EXCEPT ![c] = k] /\ cli'[c] = k
  BY DEF SendRefresh, Move, CInv, CliTypeOK
<1>4. p \in Pairs /\ p # None /\ Verdict(p) # "refused"
  BY NoneNoPair DEF SendRefresh, RefreshRead, CInv, OInv, RowsKnown
<1>5. /\ call'[c].kind = "refresh" /\ call'[c].token = p /\ call'[c].grant = tokens[p].grant
      /\ call'[c].pc = IF Verdict(p) = "replay" THEN "sweep" ELSE "eligible"
      /\ \A d \in Calls \ {c} : call'[d] = call[d]
      /\ UNCHANGED <<grants, tokens, store, mishap>>
  BY DEF SendRefresh, RefreshRead, CInv, OInv, OAuthTypeOK
<1> HIDE DEF k
<1>6. CallerKnown(c) /\ Belongs(p, cli[c].origin)
  BY <1>1, <1>4 DEF CInv, CliKnown, CallerKnown
<1>7. \A q, o : Belongs(q, o)' <=> Belongs(q, o)
  BY <1>5 DEF Belongs, Pairs
<1>8. CallerKnown(c)'
  <2>1. k # NoCli /\ \A o \in Origins : k.copy[o] # None => Belongs(k.copy[o], o)
    BY <1>1, <1>2, <1>6 DEF CallerKnown, NoCli
  <2>2. call'[c].pc # "touching" /\ OriginOf[call'[c].grant] = k.origin
    BY <1>2, <1>5, <1>6 DEF Belongs
  <2> QED  BY <1>2, <1>3, <1>6, <1>7, <2>1, <2>2 DEF CallerKnown
<1>9. Client(c) /\ ~Replacing(c)
  BY <1>1, <1>6 DEF Client, CallerKnown, Replacing, NoCall
<1>10. VouchesStill(c)
  BY <1>1, <1>2, <1>3, <1>5, <1>9 DEF VouchesStill, Vouches
<1>11. ReplaysRevoked(c)
  <2> SUFFICES ASSUME Replaying(c)', cli[c].origin \notin mishap' PROVE FALSE
    BY <1>2, <1>3 DEF ReplaysRevoked
  <2>1. Verdict(p) = "replay"
    BY <1>5 DEF Replaying
  <2>2. ~grants[tokens[p].grant].revoked /\ ~LiveRefresh(p)
    BY <2>1 DEF Verdict, Replayed, LiveRefresh
  <2>3. Good(p)
    BY <1>1, <1>4, <1>5, <1>9 DEF CInv, AllGood, Vouches
  <2> QED  BY <2>2, <2>3 DEF Good
<1>12. WorksAlone(c) /\ CopiesAll(c) /\ ReplacesStill(c)
  BY <1>2, <1>3, <1>9 DEF WorksAlone, CopiesAll, ReplacesStill
<1>13. mishap \subseteq mishap' /\ mishap' \subseteq Origins
  BY <1>5 DEF CInv, CliTypeOK
<1>14. GoesOn(c)
  BY <1>5, <1>10, <1>11, <1>12, <1>13 DEF GoesOn
<1> QED  BY <1>2, <1>3, <1>8, <1>14, Onward

(* A login, and the user's revocation.                                          *)
LEMMA LoginClient ==
    ASSUME CInv, OAuthTypeOK', NEW c \in Calls, NEW g \in Grants, Login(c, g) \/ UserRevokes(c, g)
    PROVE  CliTypeOK' /\ CliKnown' /\ OneByOne' /\ AllGood'
<1> DEFINE k == [at |-> IF Login(c, g) THEN "waiting" ELSE "done", origin |-> OriginOf[g],
                 pair |-> None, copy |-> NoCopy]
<1>1. NoCopy \in [Origins -> Nat] /\ None \in Nat /\ \A o \in Origins : NoCopy[o] = None
  BY DEF NoCopy, None
<1>2. k \in Cli /\ k.at \in {"waiting", "done"} /\ k.origin = OriginOf[g] /\ k.pair = None
      /\ k.copy = NoCopy /\ (k.at = "waiting" <=> Login(c, g))
  BY <1>1, OriginAssumption DEF Cli
<1>3. cli[c] = NoCli /\ UNCHANGED <<grants, tokens, store>>
      /\ \A d \in Calls \ {c} : call'[d] = call[d]
  BY DEF Login, UserRevokes, ExchangeRead, RevokeGrantRead, CInv, OInv, OAuthTypeOK
<1>4. cli' = [cli EXCEPT ![c] = k] /\ cli'[c] = k
  <2>1. CASE Login(c, g)
    BY <2>1 DEF Login, CInv, CliTypeOK
  <2>2. CASE ~Login(c, g)
    BY <2>2 DEF UserRevokes, CInv, CliTypeOK
  <2> QED  BY <2>1, <2>2
<1> HIDE DEF k
<1>5. /\ call'[c].grant = g
      /\ \/ k.at = "waiting" /\ call'[c].kind = "exchange" /\ call'[c].pc = "eligible"
         \/ k.at = "done" /\ call'[c].kind = "revoke" /\ call'[c].pc = "sweep"
  BY <1>2 DEF Login, UserRevokes, ExchangeRead, RevokeGrantRead, CInv, OInv, OAuthTypeOK
<1>6. ~Client(c)
  BY <1>3, IdleFields
<1>7. ~Presenting(c)' /\ ~Replaying(c)' /\ call'[c].pc # "touching"
      /\ (Client(c)' => Login(c, g))
  BY <1>2, <1>4, <1>5 DEF Presenting, Replaying, Client
<1>8. mishap \subseteq mishap' /\ mishap' \subseteq Origins
  BY OriginAssumption DEF Login, UserRevokes, CInv, CliTypeOK
<1>9. CallerKnown(c)'
  BY <1>1, <1>2, <1>4, <1>5, <1>7 DEF CallerKnown, NoCli
<1>10. WorksAlone(c)
  <2>1. Login(c, g) => OriginOf[g] \in mishap' \/ \A d \in Calls : ~(Client(d) /\ cli[d].origin = OriginOf[g])
    BY OriginAssumption, Running1 DEF Login
  <2> QED  BY <1>2, <1>4, <1>7, <2>1 DEF WorksAlone
<1>11. VouchesStill(c)
  BY <1>2, <1>4, <1>7 DEF VouchesStill, Vouches
<1>12. CopiesAll(c) /\ ReplaysRevoked(c) /\ ReplacesStill(c)
  BY <1>2, <1>4, <1>6, <1>7 DEF CopiesAll, ReplaysRevoked, ReplacesStill
<1>13. GoesOn(c)
  BY <1>3, <1>8, <1>10, <1>11, <1>12 DEF GoesOn
<1> QED  BY <1>2, <1>4, <1>9, <1>13, Onward

LEMMA StoreReadClient ==
    ASSUME CInv, OAuthTypeOK', NEW c \in Calls, StoreRead(c)
    PROVE  CliTypeOK' /\ CliKnown' /\ OneByOne' /\ AllGood'
<1> DEFINE k == [cli[c] EXCEPT !.at = "writing", !.copy = store]
<1>1. cli[c] \in Cli /\ cli[c].at = "got" /\ cli[c] # NoCli
      /\ UNCHANGED <<grants, tokens, call, store>>
  BY CliFields DEF StoreRead, Server, CInv
<1>2. k \in Cli /\ k.at = "writing" /\ k.origin = cli[c].origin /\ k.pair = cli[c].pair
      /\ k.copy = store
  BY <1>1 DEF Cli, CInv, CliTypeOK
<1>3. cli' = [cli EXCEPT ![c] = k] /\ cli'[c] = k
  BY DEF StoreRead, CInv, CliTypeOK
<1> HIDE DEF k
<1>4. CallerKnown(c) /\ StoreKnown /\ ~Active(c) /\ Client(c)
  BY <1>1 DEF CInv, CliKnown, CallerKnown, Client
<1>5. /\ ~Active(c)' /\ ~Presenting(c)' /\ ~Replaying(c)' /\ call'[c].pc # "touching"
      /\ \A p, o : Belongs(p, o)' <=> Belongs(p, o)
      /\ call[c].pc # "touching"
  BY <1>1, <1>4 DEF Active, Presenting, Replaying, Belongs, Pairs
<1>6. CallerKnown(c)'
  BY <1>1, <1>2, <1>3, <1>4, <1>5 DEF CallerKnown, StoreKnown, NoCli
<1>7. mishap \subseteq mishap' /\ mishap' \subseteq Origins
  BY DEF StoreRead, CInv, CliTypeOK
<1>8. CopiesAll(c)
  BY <1>2, <1>3 DEF CopiesAll, StoreRead
<1>9. ReplacesStill(c)
  BY <1>1, <1>2, <1>3, <1>5 DEF ReplacesStill, Replacing, Client
<1>10. VouchesStill(c)
  BY <1>1, <1>2, <1>3, <1>4, <1>5 DEF VouchesStill, Vouches
<1>11. WorksAlone(c) /\ ReplaysRevoked(c)
  BY <1>2, <1>3, <1>4, <1>5 DEF WorksAlone, ReplaysRevoked
<1>12. GoesOn(c)
  BY <1>1, <1>7, <1>8, <1>9, <1>10, <1>11 DEF GoesOn
<1> QED  BY <1>2, <1>3, <1>6, <1>12, Onward

LEMMA LogoutClient ==
    ASSUME CInv, OAuthTypeOK', NEW c \in Calls, NEW o \in Origins, Logout(c, o)
    PROVE  CliTypeOK' /\ CliKnown' /\ OneByOne' /\ AllGood'
<1> DEFINE k == [at |-> "writing", origin |-> o, pair |-> None, copy |-> store]
<1>1. cli[c] = NoCli /\ UNCHANGED <<grants, tokens, call, store>>
      /\ cli' = [cli EXCEPT ![c] = k] /\ cli'[c] = k
  BY DEF Logout, Server, CInv, CliTypeOK
<1>2. k \in Cli /\ k.at = "writing" /\ k.origin = o /\ k.pair = None /\ k.copy = store
  BY DEF Cli, CInv, CliTypeOK, None
<1> HIDE DEF k
<1>3. call[c] = NoCall /\ ~Client(c) /\ ~Active(c) /\ StoreKnown
  BY <1>1, IdleFields DEF CInv, CliKnown
<1>4. /\ ~Active(c)' /\ ~Presenting(c)' /\ ~Replaying(c)' /\ call'[c].pc # "touching"
      /\ \A p, x : Belongs(p, x)' <=> Belongs(p, x)
  BY <1>1, <1>3 DEF Active, Presenting, Replaying, Belongs, Pairs
<1>5. CallerKnown(c)'
  BY <1>1, <1>2, <1>3, <1>4 DEF CallerKnown, StoreKnown, NoCli
<1>6. mishap \subseteq mishap' /\ mishap' \subseteq Origins
  BY DEF Logout, CInv, CliTypeOK
<1>7. CopiesAll(c)
  BY <1>1, <1>2 DEF CopiesAll, Logout
<1>8. WorksAlone(c)
  <2>1. o \in mishap' \/ \A d \in Calls : ~(Client(d) /\ cli[d].origin = o)
    BY Running1 DEF Logout
  <2> QED  BY <1>1, <1>2, <2>1 DEF WorksAlone
<1>9. VouchesStill(c)
  <2>1. None \notin Pairs
    BY NoneNoPair DEF CInv, CliTypeOK
  <2> QED  BY <1>1, <1>2, <1>4, <2>1 DEF VouchesStill, Vouches
<1>10. ReplaysRevoked(c) /\ ReplacesStill(c)
  BY <1>3, <1>4 DEF ReplaysRevoked, ReplacesStill
<1>11. GoesOn(c)
  BY <1>1, <1>6, <1>7, <1>8, <1>9, <1>10 DEF GoesOn
<1> QED  BY <1>1, <1>2, <1>5, <1>11, Onward

(* The file is written: but for the invocation's own server, what it had read   *)
(* is what is there, unless that is a mishap.                                   *)
LEMMA StoreWriteClient ==
    ASSUME CInv, OAuthTypeOK', NEW c \in Calls, StoreWrite(c)
    PROVE  CliTypeOK' /\ CliKnown' /\ OneByOne' /\ AllGood'
<1> DEFINE k == Over(cli[c])
<1>1. /\ cli[c] \in Cli /\ cli[c].at = "writing" /\ cli[c] # NoCli
      /\ cli[c].origin \in Origins /\ cli[c].pair \in Nat /\ cli[c].copy \in [Origins -> Nat]
      /\ UNCHANGED <<grants, tokens, call, mishap>>
      /\ store' = [cli[c].copy EXCEPT ![cli[c].origin] = cli[c].pair]
  BY CliFields DEF StoreWrite, Server, CInv, Saved
<1>2. cli' = [cli EXCEPT ![c] = k] /\ cli'[c] = k /\ \A d \in Calls \ {c} : cli'[d] = cli[d]
  BY DEF StoreWrite, Stop, CInv, CliTypeOK
<1>3. k \in Cli /\ k.at = "done" /\ k.pair = None /\ k.origin = cli[c].origin
      /\ \A o \in Origins : k.copy[o] = None
  BY <1>1, OverFields DEF CInv
<1> HIDE DEF k
<1>4. CallerKnown(c) /\ ~Active(c) /\ Client(c)
  BY <1>1 DEF CInv, CliKnown, CallerKnown, Client
<1>5. /\ ~Active(c)' /\ ~Replaying(c)' /\ call'[c].pc # "touching" /\ Pairs' = Pairs
      /\ \A p, o : Belongs(p, o)' <=> Belongs(p, o)
      /\ \A p : Good(p)' <=> Good(p)
  BY <1>1, <1>4 DEF Active, Replaying, Belongs, Pairs, Good, LiveRefresh
<1>6. CliTypeOK'
  <2>1. cli' \in [Calls -> Cli \cup {NoCli}] /\ store' \in [Origins -> Nat] /\ mishap' \subseteq Origins
    BY <1>1, <1>2, <1>3 DEF CInv, CliTypeOK
  <2> QED  BY <2>1 DEF CliTypeOK
<1>7. CallerKnown(c)'
  BY <1>2, <1>3, <1>5, DoneKnown
<1>8. /\ store'[cli[c].origin] = cli[c].pair
      /\ \A o \in Origins \ {cli[c].origin} : store'[o] = cli[c].copy[o]
  BY <1>1
<1>9. StoreKnown'
  <2>1. ASSUME NEW o \in Origins, store'[o] # None PROVE Belongs(store'[o], o)
    <3>1. CASE o = cli[c].origin
      BY <1>1, <1>4, <1>8, <2>1, <3>1 DEF CallerKnown
    <3>2. CASE o # cli[c].origin
      BY <1>1, <1>4, <1>8, <2>1, <3>2 DEF CallerKnown
    <3> QED  BY <3>1, <3>2
  <2> QED  BY <1>1, <2>1 DEF StoreKnown, Belongs, Pairs
<1>10. Frame(c)
  BY <1>1, <1>2 DEF Frame, Pairs
<1>11. CliKnown'
  BY <1>7, <1>9, <1>10, KnownStep
<1>12. ~Client(c)' /\ cli'[c].at # "writing"
  BY <1>2, <1>3, <1>5 DEF Client
<1>13. OneByOne'
  BY <1>1, <1>10, <1>12, OneByOneStep
<1>14. \A p \in Pairs : store'[cli[c].origin] = p /\ cli[c].origin \notin mishap' => Good(p)
  <2> SUFFICES ASSUME NEW p \in Pairs, cli[c].pair = p, cli[c].origin \notin mishap PROVE Good(p)
    BY <1>1, <1>8
  <2> QED  BY <1>1, <1>4 DEF CInv, AllGood, Vouches
<1>15. \A o \in Origins, p \in Pairs' :
          o \notin mishap' /\ store'[o] # store[o] /\ store'[o] = p => Good(p)'
  <2> SUFFICES ASSUME NEW o \in Origins, NEW p \in Pairs, o \notin mishap, store'[o] # store[o],
                      store'[o] = p
               PROVE  Good(p)
    BY <1>1, <1>5
  <2>1. o = cli[c].origin
    BY <1>1, <1>8 DEF CInv, OneByOne
  <2> QED  BY <1>1, <1>14, <2>1
<1>16. Client(c) /\ Replacing(c) /\ cli[c].origin \notin mishap' =>
          \A p \in Pairs' : store'[cli[c].origin] = p => Good(p)'
  BY <1>5, <1>14
<1>17. AllGood'
  BY <1>5, <1>10, <1>12, <1>15, <1>16, GoodStep
<1> QED  BY <1>6, <1>11, <1>13, <1>17

(* A commit: the new pair is live, and the old one, if there is one, is the     *)
(* invocation's to replace.                                                     *)
LEMMA CommitClient ==
    ASSUME CInv, OAuthTypeOK', NEW c \in Calls, Active(c), call[c].kind # "revoke",
           UNCHANGED <<cli, store, mishap>>, NEW n,
           \A g \in Grants : grants'[g].revoked = grants[g].revoked,
           Pairs' = Pairs \cup {n},
           tokens'[n].grant = call[c].grant, ~tokens'[n].replaced, ~tokens'[n].refreshRevoked,
           \A q \in Pairs : /\ tokens'[q].grant = tokens[q].grant
                            /\ tokens'[q].refreshRevoked = tokens[q].refreshRevoked
                            /\ \/ tokens'[q].replaced = tokens[q].replaced
                               \/ Presenting(c) /\ q = call[c].token,
           \A d \in Calls \ {c} : call'[d] = call[d],
           call'[c].pc = "touching", call'[c].kind = call[c].kind,
           call'[c].grant = call[c].grant, call'[c].token = n
    PROVE  CliTypeOK' /\ CliKnown' /\ OneByOne' /\ AllGood'
<1>1. /\ cli[c] \in Cli /\ cli[c].at \notin {"idle", "found", "got", "writing"} /\ cli[c] # NoCli
      /\ cli[c].origin = OriginOf[call[c].grant] /\ cli[c].origin \in Origins
      /\ Client(c) /\ CallKnown(call[c])
  BY ActiveFields
<1>2. /\ Active(c)' /\ Client(c)' /\ Replacing(c)' /\ ~Presenting(c)' /\ ~Replaying(c)'
  BY <1>1 DEF Active, Client, Replacing, Presenting, Replaying
<1>3. CliTypeOK'
  BY DEF CInv, CliTypeOK
<1>4. Frame(c)
  BY <1>1 DEF Frame
<1>5. \A p, o : Belongs(p, o) => Belongs(p, o)'
  BY DEF Belongs
<1>6. StoreKnown'
  BY <1>5 DEF CInv, CliKnown, StoreKnown
<1>7. CallerKnown(c)'
  <2>1. Belongs(n, cli[c].origin)'
    BY <1>1 DEF Belongs
  <2>2. CallerKnown(c)
    BY DEF CInv, CliKnown
  <2> QED  BY <1>1, <1>5, <2>1, <2>2 DEF CallerKnown
<1>8. CliKnown'
  BY <1>4, <1>6, <1>7, KnownStep
<1>9. OneByOne'
  BY <1>1, <1>4, OneByOneStep
<1>10. ASSUME NEW p \in Pairs, Good(p)
       PROVE  \/ Good(p)'
              \/ cli[c].origin = OriginOf[tokens[p].grant]
  <2>1. tokens[p].grant \in Grants
    BY PairFields DEF CInv, OInv
  <2>2. CASE Presenting(c) /\ p = call[c].token
    BY <1>1, <2>2 DEF Presenting, CallKnown
  <2>3. CASE ~(Presenting(c) /\ p = call[c].token)
    BY <1>10, <2>1, <2>3 DEF Good, LiveRefresh
  <2> QED  BY <2>2, <2>3
<1>11. \A p \in Pairs' : Vouches(c, p)' => Good(p)'
  <2> SUFFICES ASSUME NEW p \in Pairs', Vouches(c, p)' PROVE Good(p)'
    OBVIOUS
  <2>1. p = n
    BY <1>1, <1>2 DEF Vouches
  <2> QED  BY <2>1 DEF Good, LiveRefresh
<1>12. AllGood'
  BY <1>1, <1>2, <1>4, <1>10, <1>11, GoodStep
<1> QED  BY <1>3, <1>8, <1>9, <1>12

LEMMA ExchangeCommitClient ==
    ASSUME CInv, OAuthTypeOK', NEW c \in Calls, ExchangeCommit(c), UNCHANGED <<store, mishap>>,
           cli' = IF call'[c].pc = "ended" /\ cli[c].at = "waiting"
                  THEN [cli EXCEPT ![c] = Over(@)] ELSE cli
    PROVE  CliTypeOK' /\ CliKnown' /\ OneByOne' /\ AllGood'
<1>1. call[c] \in Call /\ Active(c) /\ call[c].kind = "exchange" /\ Exchanging(c)
  BY CallFields DEF ExchangeCommit, CInv, Active, Exchanging
<1>2. /\ \A d \in Calls \ {c} : call'[d] = call[d]
      /\ call'[c].pc = "touching" /\ call'[c].kind = call[c].kind
      /\ call'[c].grant = call[c].grant /\ call'[c].token = Len(tokens) + 1
  BY <1>1 DEF ExchangeCommit, CInv, OInv, OAuthTypeOK, Call
<1>3. cli' = cli
  BY <1>2
<1>4. \A g \in Grants : grants'[g].revoked = grants[g].revoked
  BY DEF ExchangeCommit, CInv, OInv, OAuthTypeOK
<1> DEFINE n == Len(tokens) + 1
<1>5. /\ Pairs' = Pairs \cup {n}
      /\ tokens'[n].grant = call[c].grant /\ ~tokens'[n].replaced /\ ~tokens'[n].refreshRevoked
      /\ \A q \in Pairs : /\ tokens'[q].grant = tokens[q].grant
                           /\ tokens'[q].refreshRevoked = tokens[q].refreshRevoked
                           /\ tokens'[q].replaced = tokens[q].replaced
  <2>1. /\ Pairs' = Pairs \cup {Len(tokens) + 1} /\ \A q \in Pairs : tokens'[q] = tokens[q]
        /\ tokens'[Len(tokens) + 1] =
              [grant |-> call[c].grant, family |-> Len(tokens) + 1, replaced |-> FALSE,
               accessRevoked |-> FALSE, refreshRevoked |-> FALSE, expired |-> FALSE]
    BY ExchangeCommitRows DEF CInv
  <2>2. Pairs' = Pairs \cup {n}
    BY <2>1
  <2>3. tokens'[n] = [grant |-> call[c].grant, family |-> n, replaced |-> FALSE,
                      accessRevoked |-> FALSE, refreshRevoked |-> FALSE, expired |-> FALSE]
    BY <2>1
  <2> HIDE DEF n
  <2> QED  BY <2>1, <2>2, <2>3
<1>6. call'[c].token = n
  BY <1>2
<1> HIDE DEF n
<1> QED  BY <1>1, <1>2, <1>3, <1>4, <1>5, <1>6, CommitClient

LEMMA RefreshCommitClient ==
    ASSUME CInv, OAuthTypeOK', NEW c \in Calls, RefreshCommit(c), UNCHANGED <<store, mishap>>,
           cli' = IF call'[c].pc = "ended" /\ cli[c].at = "waiting"
                  THEN [cli EXCEPT ![c] = Over(@)] ELSE cli
    PROVE  CliTypeOK' /\ CliKnown' /\ OneByOne' /\ AllGood'
<1>1. call[c] \in Call /\ Active(c) /\ call[c].kind = "refresh" /\ Presenting(c)
  BY CallFields DEF RefreshCommit, CInv, Active, Presenting
<1>2. /\ \A d \in Calls \ {c} : call'[d] = call[d]
      /\ call'[c].pc = "touching" /\ call'[c].kind = call[c].kind
      /\ call'[c].grant = call[c].grant /\ call'[c].token = Len(tokens) + 1
  BY <1>1 DEF RefreshCommit, CInv, OInv, OAuthTypeOK, Call
<1>3. cli' = cli
  BY <1>2
<1>4. \A g \in Grants : grants'[g].revoked = grants[g].revoked
  BY DEF RefreshCommit
<1> DEFINE n == Len(tokens) + 1
<1>5. /\ Pairs' = Pairs \cup {n}
      /\ tokens'[n].grant = call[c].grant /\ ~tokens'[n].replaced /\ ~tokens'[n].refreshRevoked
      /\ \A q \in Pairs : /\ tokens'[q].grant = tokens[q].grant
                           /\ tokens'[q].refreshRevoked = tokens[q].refreshRevoked
                           /\ \/ tokens'[q].replaced = tokens[q].replaced
                              \/ Presenting(c) /\ q = call[c].token
  <2>1. /\ Pairs' = Pairs \cup {Len(tokens) + 1}
        /\ tokens'[Len(tokens) + 1] =
              [grant |-> call[c].grant, family |-> tokens[call[c].token].family, replaced |-> FALSE,
               accessRevoked |-> FALSE, refreshRevoked |-> FALSE, expired |-> FALSE]
        /\ \A q \in Pairs : /\ tokens'[q].grant = tokens[q].grant
                             /\ tokens'[q].refreshRevoked = tokens[q].refreshRevoked
                             /\ \/ q # call[c].token /\ tokens'[q].replaced = tokens[q].replaced
                                \/ q = call[c].token /\ tokens'[q].replaced
    BY RefreshCommitRows DEF CInv
  <2>2. Pairs' = Pairs \cup {n}
    BY <2>1
  <2>3. tokens'[n] =
           [grant |-> call[c].grant, family |-> tokens[call[c].token].family, replaced |-> FALSE,
            accessRevoked |-> FALSE, refreshRevoked |-> FALSE, expired |-> FALSE]
    BY <2>1
  <2> HIDE DEF n
  <2> QED  BY <1>1, <2>1, <2>2, <2>3
<1>6. call'[c].token = n
  BY <1>2
<1> HIDE DEF n
<1> QED  BY <1>1, <1>2, <1>3, <1>4, <1>5, <1>6, CommitClient

(* The end of a sweep.  What it revokes is of the grant; a sweep that ends a    *)
(* family was of a grant already revoked, unless there was a mishap.            *)
LEMMA SweepEndClient ==
    ASSUME CInv, OAuthTypeOK', NEW c \in Calls, SweepEnd(c), UNCHANGED <<store, mishap>>,
           cli' = IF call'[c].pc = "ended" /\ cli[c].at = "waiting"
                  THEN [cli EXCEPT ![c] = Over(@)] ELSE cli
    PROVE  CliTypeOK' /\ CliKnown' /\ OneByOne' /\ AllGood'
<1> DEFINE g == call[c].grant
<1>1. /\ Active(c) /\ call[c] \in Call /\ CallKnown(call[c]) /\ g \in Grants
      /\ call[c].pc = "sweeping" /\ call[c].kind \in {"refresh", "revoke"} /\ call[c].rows \subseteq Pairs
  BY CallFields DEF SweepEnd, Active, CInv, CallKnown
<1>2. /\ cli[c] \in Cli /\ cli[c].at \notin {"idle", "found", "got", "writing"} /\ cli[c] # NoCli
      /\ cli[c].origin = OriginOf[g] /\ cli[c].origin \in Origins
      /\ call[c].kind # "revoke" => Client(c)
  BY <1>1, ActiveFields
<1>3. call'[c].pc = "ended" /\ \A d \in Calls \ {c} : call'[d] = call[d]
  <2>1. Ended(call[c]).pc = "ended"
    BY <1>1 DEF Ended, Call
  <2> QED  BY <2>1 DEF SweepEnd, End, CInv, OInv, OAuthTypeOK
<1>4. ~Active(c)' /\ ~Presenting(c)' /\ ~Replaying(c)' /\ call'[c].pc # "touching"
  BY <1>3 DEF Active, Presenting, Replaying
<1>5. /\ Pairs' = Pairs
      /\ \A p \in Pairs : tokens'[p].grant = tokens[p].grant
      /\ \A p \in Pairs : p \notin call[c].rows => tokens'[p] = tokens[p]
  <2>1. tokens' = [p \in Pairs |-> IF p \in call[c].rows
                      THEN [tokens[p] EXCEPT !.accessRevoked = TRUE, !.refreshRevoked = TRUE]
                      ELSE tokens[p]]
    BY DEF SweepEnd
  <2> QED  BY <2>1, RowsMarked DEF CInv, OInv, Pairs
<1>6. /\ \A h \in Grants : grants[h].revoked => grants'[h].revoked
      /\ call[c].kind = "revoke" => grants'[g].revoked
  <2> DEFINE revoke == call[c].kind = "revoke"
  <2>1. grants' = [grants EXCEPT ![g].revoked = grants[g].revoked \/ revoke]
    BY DEF SweepEnd
  <2>2. grants \in [Grants -> [code : {"absent", "fresh", "used"}, revoked : BOOLEAN]]
    BY DEF CInv, OInv, OAuthTypeOK
  <2>3. (grants[g].revoked \/ revoke) \in BOOLEAN
    OBVIOUS
  <2>4. (\A h \in Grants : grants[h].revoked => grants'[h].revoked) /\ (revoke => grants'[g].revoked)
    <3> HIDE DEF revoke
    <3> QED  BY <1>1, <2>1, <2>2, <2>3
  <2> QED  BY <2>4
<1>7. \E k \in Cli : /\ cli' = [cli EXCEPT ![c] = k] /\ cli'[c] = k /\ k.origin = cli[c].origin
                     /\ k.at \notin {"found", "waiting", "got", "writing"}
                     /\ \/ k = cli[c]
                        \/ k.at = "done" /\ k.pair = None /\ \A o \in Origins : k.copy[o] = None
  <2>1. CASE cli[c].at = "waiting"
    <3>1. cli' = [cli EXCEPT ![c] = Over(cli[c])] /\ cli'[c] = Over(cli[c])
      BY <1>3, <2>1 DEF CInv, CliTypeOK
    <3> QED  BY <1>2, <3>1, OverFields DEF CInv
  <2>2. CASE cli[c].at # "waiting"
    <3>1. cli' = [cli EXCEPT ![c] = cli[c]] /\ cli'[c] = cli[c]
      BY <2>2 DEF CInv, CliTypeOK
    <3> QED  BY <1>2, <2>2, <3>1
  <2> QED  BY <2>1, <2>2
<1>8. PICK k \in Cli : /\ cli' = [cli EXCEPT ![c] = k] /\ cli'[c] = k /\ k.origin = cli[c].origin
                       /\ k.at \notin {"found", "waiting", "got", "writing"}
                       /\ \/ k = cli[c]
                          \/ k.at = "done" /\ k.pair = None /\ \A o \in Origins : k.copy[o] = None
  BY <1>7
<1>9. CliTypeOK'
  <2>1. cli' \in [Calls -> Cli \cup {NoCli}]
    BY <1>8 DEF CInv, CliTypeOK
  <2> QED  BY <2>1 DEF CInv, CliTypeOK
<1>10. Frame(c)
  BY <1>3, <1>5, <1>6, <1>8 DEF Frame, CInv, CliTypeOK
<1>11. \A p, o : Belongs(p, o)' <=> Belongs(p, o)
  BY <1>5 DEF Belongs
<1>12. StoreKnown'
  BY <1>11 DEF CInv, CliKnown, StoreKnown
<1>13. CallerKnown(c)'
  <2>1. CASE k = cli[c]
    <3>1. /\ k # NoCli /\ k.at # "idle"
          /\ k.pair # None => Belongs(k.pair, k.origin)
          /\ \A o \in Origins : k.copy[o] # None => Belongs(k.copy[o], o)
      BY <1>2, <2>1 DEF CInv, CliKnown, CallerKnown
    <3> QED  BY <1>4, <1>8, <1>11, <3>1 DEF CallerKnown
  <2>2. CASE k.at = "done" /\ k.pair = None /\ \A o \in Origins : k.copy[o] = None
    BY <1>4, <1>8, <2>2, DoneKnown
  <2> QED  BY <1>8, <2>1, <2>2
<1>14. CliKnown'
  BY <1>10, <1>12, <1>13, KnownStep
<1>15. ~Client(c)' /\ cli'[c].at # "writing"
  BY <1>4, <1>8 DEF Client
<1>16. OneByOne'
  BY <1>10, <1>15, OneByOneStep
<1>17. ASSUME NEW p \in Pairs, Good(p), OriginOf[tokens[p].grant] \notin mishap
       PROVE  Good(p)'
  <2>1. tokens[p].grant \in Grants
    BY PairFields DEF CInv, OInv
  <2>2. CASE p \notin call[c].rows
    BY <1>5, <1>6, <1>17, <2>1, <2>2 DEF Good, LiveRefresh
  <2>3. CASE p \in call[c].rows
    <3>1. tokens[p].grant = g
      <4>1. CASE call[c].kind = "revoke"
        BY <1>1, <2>3, <4>1 DEF CallKnown
      <4>2. CASE call[c].kind = "refresh"
        <5>1. /\ call[c].token \in Pairs /\ tokens[call[c].token].grant = g
              /\ tokens[p].family = tokens[call[c].token].family
          BY <1>1, <2>3, <4>2 DEF CallKnown, CInv, OInv, SweepSees
        <5> QED  BY <5>1 DEF CInv, OInv, RowsKnown
      <4> QED  BY <1>1, <4>1, <4>2
    <3>2. grants'[g].revoked
      <4>1. CASE call[c].kind = "revoke"
        BY <1>6, <4>1
      <4>2. CASE call[c].kind = "refresh"
        BY <1>1, <1>2, <1>6, <1>17, <3>1, <4>2 DEF CInv, AllGood, Replaying
      <4> QED  BY <1>1, <4>1, <4>2
    <3> QED  BY <1>5, <3>1, <3>2 DEF Good
  <2> QED  BY <2>2, <2>3
<1>18. ~Replacing(c)
  BY <1>1, <1>2 DEF Replacing
<1>19. \A p \in Pairs : Good(p) => Good(p)' \/ OriginOf[tokens[p].grant] \in mishap'
  BY <1>17
<1>20. AllGood'
  BY <1>4, <1>10, <1>15, <1>18, <1>19, GoodStep
<1> QED  BY <1>9, <1>14, <1>16, <1>20

LEMMA ConsentClient ==
    ASSUME CInv, OAuthTypeOK',
           UNCHANGED <<tokens, call, store, cli, mishap>>,
           \A g \in Grants : grants'[g].revoked = grants[g].revoked
    PROVE  CliTypeOK' /\ CliKnown' /\ OneByOne' /\ AllGood'
<1>1. CliTypeOK'
  BY DEF CInv, CliTypeOK
<1>2. CliKnown'
  BY DEF CInv, CliKnown, StoreKnown, CallerKnown, Active, Belongs, Pairs
<1>3. OneByOne'
  BY DEF CInv, OneByOne, Client, Active
<1>4. \A p \in Pairs : Good(p)' <=> Good(p)
  BY PairFields DEF CInv, OInv, Good, LiveRefresh
<1>5. \A d \in Calls : /\ Client(d)' <=> Client(d)
                       /\ Replacing(d)' <=> Replacing(d)
                       /\ Replaying(d)' <=> Replaying(d)
  BY DEF Client, Replacing, Replaying, Active
<1>6. \A p : \A d \in Calls : Vouches(d, p)' <=> Vouches(d, p)
  BY DEF Vouches, Presenting
<1>7. Pairs' = Pairs /\ AllGood /\ mishap' = mishap /\ cli' = cli /\ store' = store /\ call' = call
  BY DEF Pairs, CInv
<1>8. AllGood'
  <2>1. ASSUME NEW d \in Calls, NEW p \in Pairs', Client(d)', cli'[d].origin \notin mishap', Vouches(d, p)'
        PROVE  Good(p)'
    <3>1. p \in Pairs /\ Client(d) /\ Vouches(d, p) /\ cli[d].origin \notin mishap
      BY <1>5, <1>6, <1>7, <2>1
    <3>2. Good(p)
      BY <1>7, <3>1 DEF AllGood
    <3> QED  BY <1>4, <3>1, <3>2
  <2>2. ASSUME NEW d \in Calls, Replaying(d)', cli'[d].origin \notin mishap'
        PROVE  grants'[call'[d].grant].revoked
    <3>1. Replaying(d) /\ grants[call[d].grant].revoked
      BY <1>5, <1>7, <2>2 DEF AllGood
    <3>2. call[d].grant \in Grants
      BY <3>1, CallFields DEF CInv, Replaying
    <3> QED  BY <1>7, <3>1, <3>2
  <2>3. ASSUME NEW o \in Origins, NEW p \in Pairs', o \notin mishap', store'[o] = p, ~Good(p)'
        PROVE  \E d \in Calls : Client(d)' /\ cli'[d].origin = o /\ Replacing(d)'
    <3>1. p \in Pairs /\ store[o] = p /\ o \notin mishap
      BY <1>7, <2>3
    <3>2. ~Good(p)
      BY <1>4, <2>3, <3>1
    <3>3. PICK d \in Calls : Client(d) /\ cli[d].origin = o /\ Replacing(d)
      BY <1>7, <3>1, <3>2 DEF AllGood
    <3> QED  BY <1>5, <1>7, <3>3
  <2> QED  BY <2>1, <2>2, <2>3 DEF AllGood
<1> QED  BY <1>1, <1>2, <1>3, <1>8

LEMMA ServerStepClient ==
    ASSUME CInv, OAuthTypeOK', NEW c \in Calls, ServerStep(c)
    PROVE  CliTypeOK' /\ CliKnown' /\ OneByOne' /\ AllGood'
<1>1. UNCHANGED <<store, mishap>>
      /\ cli' = IF call'[c].pc = "ended" /\ cli[c].at = "waiting"
                THEN [cli EXCEPT ![c] = Over(@)] ELSE cli
  BY DEF ServerStep
<1> QED
  BY <1>1, RowWaitClient, UseCodeClient, RotationClient, SweepBeginClient, ExchangeCommitClient,
     RefreshCommitClient, SweepEndClient DEF ServerStep

(* A step of the client and the server is a step of the server, or none.        *)
LEMMA CliServer == OInv /\ [CliNext]_cliVars => [OAuthNext]_oauthVars
<1> SUFFICES ASSUME OInv, [CliNext]_cliVars PROVE [OAuthNext]_oauthVars  OBVIOUS
<1>1. CASE UNCHANGED cliVars
  BY <1>1 DEF cliVars, oauthVars
<1>2. ASSUME NEW c \in Calls, NEW o \in Origins, Find(c, o) \/ Logout(c, o)
      PROVE  UNCHANGED oauthVars
  BY <1>2 DEF Find, Logout, Server, oauthVars
<1>3. ASSUME NEW c \in Calls, NEW g \in Grants, Login(c, g) \/ UserRevokes(c, g)
      PROVE  OAuthNext
  BY <1>3 DEF Login, UserRevokes, OAuthNext
<1>4. ASSUME NEW c \in Calls, UseAccess(c) PROVE OAuthNext
  <2>1. cli[c].pair \in held /\ AuthenticateMcp(cli[c].pair)
    BY <1>4 DEF UseAccess, AuthenticateMcp
  <2> QED  BY <2>1 DEF OAuthNext
<1>5. ASSUME NEW c \in Calls, SendRefresh(c) PROVE OAuthNext
  <2>1. cli[c].pair \in held /\ RefreshRead(c, cli[c].pair)
    BY <1>5 DEF SendRefresh, RefreshRead
  <2> QED  BY <2>1 DEF OAuthNext
<1>6. ASSUME NEW c \in Calls, Step(c) PROVE OAuthNext
  <2>1. (cli[c].at = "waiting") \in BOOLEAN /\ FALSE \in BOOLEAN
    OBVIOUS
  <2>2. Progress(c)
    BY <1>6, <2>1 DEF Step, ServerStep, Receive, LoseAnswer, Progress
  <2> QED  BY <2>2 DEF OAuthNext
<1>7. ASSUME NEW c \in Calls, StoreRead(c) \/ StoreWrite(c) \/ Kill(c)
      PROVE  UNCHANGED oauthVars
  BY <1>7 DEF StoreRead, StoreWrite, Kill, Server, oauthVars
<1>8. ASSUME NEW g \in Grants, Consent(g) PROVE OAuthNext
  BY <1>8 DEF OAuthNext
<1> QED  BY <1>1, <1>2, <1>3, <1>4, <1>5, <1>6, <1>7, <1>8 DEF CliNext

LEMMA CliInductive == CInv /\ [CliNext]_cliVars => CInv'
<1> SUFFICES ASSUME CInv, [CliNext]_cliVars PROVE CInv'  OBVIOUS
<1>1. OInv'
  BY CliServer, OAuthInductive DEF CInv
<1>2. OAuthTypeOK'
  BY <1>1 DEF OInv
<1>3. ASSUME UNCHANGED cliVars
      PROVE  CliTypeOK' /\ CliKnown' /\ OneByOne' /\ AllGood'
  BY <1>2, <1>3, ConsentClient DEF cliVars
<1>4. ASSUME NEW g \in Grants, Consent(g), UNCHANGED <<store, cli, mishap>>
      PROVE  CliTypeOK' /\ CliKnown' /\ OneByOne' /\ AllGood'
  <2>1. \A h \in Grants : grants'[h].revoked = grants[h].revoked
    BY <1>4 DEF Consent, CInv, OInv, OAuthTypeOK
  <2> QED  BY <1>2, <1>4, <2>1, ConsentClient DEF Consent
<1>5. ASSUME NEW c \in Calls, NEW o \in Origins, Find(c, o) \/ Logout(c, o)
      PROVE  CliTypeOK' /\ CliKnown' /\ OneByOne' /\ AllGood'
  BY <1>2, <1>5, FindStep, LogoutClient
<1>6. ASSUME NEW c \in Calls, NEW g \in Grants, Login(c, g) \/ UserRevokes(c, g)
      PROVE  CliTypeOK' /\ CliKnown' /\ OneByOne' /\ AllGood'
  BY <1>2, <1>6, LoginClient
<1>7. ASSUME NEW c \in Calls, UseAccess(c) \/ SendRefresh(c) \/ Step(c) \/ StoreRead(c)
                              \/ StoreWrite(c) \/ Kill(c)
      PROVE  CliTypeOK' /\ CliKnown' /\ OneByOne' /\ AllGood'
  BY <1>2, <1>7, StopClient, SendRefreshClient, ServerStepClient, AnswerClient, StoreReadClient,
     StoreWriteClient DEF Step
<1>8. CliTypeOK' /\ CliKnown' /\ OneByOne' /\ AllGood'
  BY <1>3, <1>4, <1>5, <1>6, <1>7 DEF CliNext
<1> QED  BY <1>1, <1>8 DEF CInv

(* A first grant for every server.                                              *)
OneEach(first) ==
    /\ first \in Seq(Grants)
    /\ \A o \in Origins : \E i \in DOMAIN first : OriginOf[first[i]] = o
    /\ \A i, j \in DOMAIN first : OriginOf[first[i]] = OriginOf[first[j]] => i = j

LEMMA CliInitial == ASSUME NEW first, OneEach(first), CliInit(first) PROVE CInv
<1>1. /\ Len(first) \in Nat /\ DOMAIN first = 1 .. Len(first)
      /\ \A i \in DOMAIN first : first[i] \in Grants
  BY DEF OneEach
<1>2. /\ Pairs = DOMAIN first
      /\ \A i \in Pairs : tokens[i] = [grant |-> first[i], family |-> i, replaced |-> FALSE,
                accessRevoked |-> FALSE, refreshRevoked |-> FALSE, expired |-> FALSE]
  BY DEF CliInit, LoggedIn, Pairs
<1>3. /\ \A i \in Pairs : i \in Nat /\ tokens[i] \in Pair
      /\ \A i \in Pairs : /\ tokens[i].grant = first[i] /\ tokens[i].family = i
                          /\ ~tokens[i].replaced /\ ~tokens[i].accessRevoked
                          /\ ~tokens[i].refreshRevoked
  <2> SUFFICES ASSUME NEW i \in Pairs
               PROVE  /\ i \in Nat /\ tokens[i] \in Pair
                      /\ tokens[i].grant = first[i] /\ tokens[i].family = i
                      /\ ~tokens[i].replaced /\ ~tokens[i].accessRevoked
                      /\ ~tokens[i].refreshRevoked
    OBVIOUS
  <2>1. i \in Nat /\ first[i] \in Grants
    BY <1>1, <1>2
  <2>2. tokens[i] = [grant |-> first[i], family |-> i, replaced |-> FALSE,
                     accessRevoked |-> FALSE, refreshRevoked |-> FALSE, expired |-> FALSE]
    BY <1>2
  <2> QED  BY <2>1, <2>2 DEF Pair
<1>4. tokens \in Seq(Pair)
  <2>1. tokens \in [1 .. Len(first) -> Pair]
    BY <1>1, <1>2, <1>3 DEF CliInit, LoggedIn
  <2> QED  BY <1>1, <2>1, SeqDef
<1>5. \A c \in Calls : call[c] = NoCall /\ call[c] \notin Call /\ cli[c] = NoCli
  BY DEF CliInit, LoggedIn, NoCall, Call
<1>6. /\ history \in [presented : SUBSET Nat, reused : SUBSET Nat, dropped : SUBSET Nat,
                       raced : SUBSET Nat, swept : SUBSET Nat, revoked : SUBSET Grants,
                       late : SUBSET Grants, crashes : Nat]
      /\ history.swept = {} /\ history.revoked = {} /\ history.late = {}
  BY DEF CliInit, LoggedIn
<1>7. OAuthTypeOK
  <2>1. grants \in [Grants -> [code : {"absent", "fresh", "used"}, revoked : BOOLEAN]]
    BY DEF CliInit, LoggedIn
  <2>2. held \subseteq Nat
    BY <1>2, <1>3 DEF CliInit, LoggedIn
  <2>3. client \in BOOLEAN /\ call \in [Calls -> Call \cup {NoCall}] /\ begun \subseteq Calls
    BY DEF CliInit, LoggedIn
  <2> QED  BY <1>4, <1>6, <2>1, <2>2, <2>3 DEF OAuthTypeOK
<1>8. RowsKnown /\ CallsKnown
  BY <1>2, <1>3, <1>5, <1>6 DEF CliInit, LoggedIn, RowsKnown, CallsKnown
<1>9. \A c \in Calls : /\ call[c].pc = "idle" /\ ~Active(c) /\ ~Exchanging(c) /\ ~Holding(c)
                       /\ ~Presenting(c) /\ ~Replaying(c) /\ ~Client(c) /\ cli[c].at = "idle"
  BY <1>5 DEF NoCall, NoCli, Active, Exchanging, Holding, Presenting, Replaying, Client
<1>10. /\ Alone /\ PresentedTwice /\ SweepSees
       /\ OneLiveRefresh /\ RevocationExplained /\ ReplayEndsFamily
       /\ RevokedKept /\ RevokedGrantUnused
  <2>1. \A g \in Grants, p \in Pairs : tokens[p].grant = g => grants[g].code = "used"
    BY <1>2, <1>3 DEF CliInit, LoggedIn
  <2>2. Alone /\ PresentedTwice /\ SweepSees
    BY <1>3, <1>9, <2>1 DEF Alone, PresentedTwice, SweepSees
  <2>3. OneLiveRefresh
    BY <1>2, <1>3 DEF OneEach, OneLiveRefresh
  <2>4. RevocationExplained /\ ReplayEndsFamily /\ RevokedKept /\ RevokedGrantUnused
    BY <1>3, <1>6 DEF RevocationExplained, ReplayEndsFamily, RevokedKept, RevokedGrantUnused
  <2> QED  BY <2>2, <2>3, <2>4
<1>11. \A o \in Origins : store[o] \in Pairs /\ OriginOf[first[store[o]]] = o
  BY <1>2 DEF CliInit, LoggedIn, OneEach
<1>12. CliTypeOK
  <2>1. store \in [Origins -> Nat] /\ cli \in [Calls -> Cli \cup {NoCli}] /\ mishap \subseteq Origins
    BY <1>3, <1>11 DEF CliInit, LoggedIn
  <2> QED  BY <1>7, <2>1 DEF CliTypeOK
<1>13. CliKnown
  <2>1. StoreKnown
    BY <1>3, <1>11 DEF StoreKnown, Belongs
  <2>2. \A c \in Calls : CallerKnown(c)
    BY <1>5, <1>9 DEF CallerKnown
  <2> QED  BY <2>1, <2>2 DEF CliKnown
<1>14. OneByOne
  BY <1>9 DEF OneByOne
<1>15. AllGood
  <2>1. \A p \in Pairs : Good(p)
    BY <1>3 DEF Good, LiveRefresh
  <2> QED  BY <1>9, <2>1 DEF AllGood
<1> QED  BY <1>7, <1>8, <1>9, <1>10, <1>12, <1>13, <1>14, <1>15 DEF CInv, OInv

(* The user stays logged in: where invocations come one after another, each     *)
(* gets its answer and saves it, the stored refresh token is the live one,      *)
(* until the user revokes the grant.                                            *)
THEOREM StoredLive ==
    ASSUME NEW CONSTANT first, OneEach(first)
    PROVE  CliSpec(first) => []StoredTokenLive
<1>1. CliInit(first) => CInv
  BY CliInitial
<1>2. CInv => StoredTokenLive
  <2> SUFFICES ASSUME CInv, NEW o \in Origins, store[o] # None, o \notin mishap, ~Busy(o)
               PROVE  LiveRefresh(store[o]) \/ grants[tokens[store[o]].grant].revoked
    BY DEF StoredTokenLive
  <2>1. store[o] \in Pairs
    BY DEF CInv, CliKnown, StoreKnown, Belongs
  <2>2. ~\E c \in Calls : Client(c) /\ cli[c].origin = o /\ Replacing(c)
    BY DEF Busy, Running, Client
  <2> QED  BY <2>1, <2>2 DEF CInv, AllGood, Good
<1> QED  BY <1>1, <1>2, CliInductive, PTL DEF CliSpec
=============================================================================
