-------------------------- MODULE SessionSyncProofs --------------------------
(* What TLAPS proves of SessionSync for any number of invocations, any batch    *)
(* size, any length of the rollout and any number of lost answers: the archive  *)
(* is a prefix of the rollout, no cursor passes it, a session shown as complete *)
(* is, and turns that ended keep their outcome.                                 *)
EXTENDS SessionSync, FiniteSetTheorems, FunctionTheorems, SequenceTheorems, TLAPS

PrefixOf(s, n) == {<<i, s[i]>> : i \in 1..n}
Held == Cardinality(archive.items)

Extends(t, s) == Len(s) <= Len(t) /\ \A i \in 1..Len(s) : t[i] = s[i]

(* A state file, or an invocation's copy of it, claims no more than the server  *)
(* holds.                                                                       *)
Covered(state) == (state.attached => archive.attached) /\ state.cursor <= Held

(* A request carries the items of the rollout after `from', none of which lies  *)
(* beyond a gap in the archive; one that claims completeness counts no item     *)
(* past `from'.                                                                 *)
Faithful(r) == r.kind = "ingest" =>
    /\ r.content.from <= r.content.to /\ r.content.to <= Len(rollout.items)
    /\ r.content.from <= Held
    /\ DOMAIN r.items = 1..(r.content.to - r.content.from)
    /\ \A i \in DOMAIN r.items : r.items[i] = rollout.items[r.content.from + i]
    /\ r.content.complete => r.content.count <= r.content.from

Applied(r) ==
    /\ r.kind = "attach" => archive.attached
    /\ r.kind = "ingest" => r.content.to <= Held

PrefixInv == Held \in 0..Len(rollout.items) /\ archive.items = PrefixOf(rollout.items, Held)
FileInv == Covered(file)
StoredInv == \A g \in archive.ingestions : g.content.to <= Held
OrphanInv == \A r \in orphans : Faithful(r)

(* An invocation trusts its copy of the state and its parse of the rollout, both*)
(* of which may be old by now.                                                  *)
Invocation == Reading \cup Sending \cup {Idle}
Trusted(k) ==
    /\ k.phase # "idle" => Covered(k.state)
    /\ k.phase \in {"sent", "stored"} => Extends(rollout.items, k.parsed.items)
    /\ k.phase = "sent" => Faithful(k.request)
    /\ k.phase = "stored" => Applied(k.request)
CliInv == \A c \in Clis, k \in Invocation : cli[c] = k => Trusted(k)

IInv == /\ TypeOK /\ PrefixInv /\ FileInv /\ StoredInv /\ OrphanInv /\ CliInv
        /\ CompleteIsWhole

------------------------------------------------------------------------------
(* A prefix of n items is a set of n pairs.                                     *)
LEMMA PrefixSize ==
    ASSUME NEW s, NEW n \in Nat
    PROVE  Cardinality(PrefixOf(s, n)) = n
<1> DEFINE f == [i \in 1..n |-> <<i, s[i]>>]
<1>1. f \in Bijection(1..n, PrefixOf(s, n))
  BY Fun_IsBij DEF PrefixOf
<1>2. IsFiniteSet(1..n) /\ Cardinality(1..n) = n
  BY FS_Interval
<1> QED
  BY <1>1, <1>2, FS_Bijection DEF ExistsBijection

LEMMA FunctionIsSeq ==
    ASSUME NEW S, NEW n \in Nat, NEW f \in [1..n -> S]
    PROVE  f \in Seq(S) /\ Len(f) = n
OBVIOUS

LEMMA Slice ==
    ASSUME NEW s \in Seq(Nat), NEW m \in Nat, NEW n \in Nat, m <= n, n <= Len(s)
    PROVE  /\ SubSeq(s, m + 1, n) \in Seq(Nat)
           /\ DOMAIN SubSeq(s, m + 1, n) = 1..(n - m)
           /\ \A i \in 1..(n - m) : SubSeq(s, m + 1, n)[i] = s[m + i]
<1>1. \A i \in m + 1 .. n : s[i] \in Nat
  OBVIOUS
<1>2. /\ SubSeq(s, m + 1, n) \in Seq(Nat)
      /\ Len(SubSeq(s, m + 1, n)) = n - m
      /\ \A i \in 1 .. n - (m + 1) + 1 : SubSeq(s, m + 1, n)[i] = s[m + 1 + i - 1]
  BY <1>1, SubSeqProperties
<1>3. \A i \in 1..(n - m) : i \in 1 .. n - (m + 1) + 1 /\ m + 1 + i - 1 = m + i
  OBVIOUS
<1> QED
  BY <1>2, <1>3, LenProperties

LEMMA ProgressType ==
    ASSUME NEW state \in State, NEW r \in Ingestion \cup {Attach}
    PROVE  Progress(state, r) \in State
<1>1. CASE r = Attach
  BY <1>1 DEF Progress, State, Attach
<1>2. CASE r \in Ingestion
  BY <1>2 DEF Progress, State, Ingestion, Content, Key
<1> QED
  BY <1>1, <1>2

LEMMA BatchType ==
    ASSUME NEW state \in State, NEW parsed \in Snapshot, state.cursor < Len(parsed.items)
    PROVE  BatchRequest(state, parsed) \in Ingestion
<1> DEFINE to == Least(state.cursor + Batch, Len(parsed.items))
<1>1. state.cursor \in Nat /\ parsed.items \in Seq(Nat) /\ parsed.turns \in Turns
  BY DEF State, Snapshot
<1>2. to \in Nat /\ to <= Len(parsed.items)
  BY <1>1, SyncAssumption DEF Least
<1>3. SubSeq(parsed.items, state.cursor + 1, to) \in Seq(Nat)
  <2>1. \A i \in state.cursor + 1 .. to : parsed.items[i] \in Nat
    BY <1>1, <1>2
  <2> QED
    BY <1>1, <1>2, <2>1
<1>4. /\ [from |-> state.cursor, to |-> to, revision |-> 0] \in Key
      /\ [from |-> state.cursor, to |-> to, turns |-> parsed.turns,
          count |-> Len(parsed.items), complete |-> FALSE] \in Content
  BY <1>1, <1>2 DEF Key, Content
<1> HIDE DEF to
<1> QED
  BY <1>3, <1>4 DEF BatchRequest, Ingestion, to

LEMMA SnapshotType ==
    ASSUME NEW state \in State, NEW parsed \in Snapshot
    PROVE  SnapshotRequest(state, parsed) \in Ingestion
<1>1. state.cursor \in Nat /\ parsed.items \in Seq(Nat) /\ parsed.turns \in Turns
      /\ parsed.revision \in Nat
  BY DEF State, Snapshot
<1>2. Complete(parsed) \in BOOLEAN
  BY DEF Complete
<1>3. <<>> \in Seq(Nat) /\ Len(parsed.items) \in Nat
  BY <1>1
<1> QED
  BY <1>1, <1>2, <1>3 DEF SnapshotRequest, Ingestion, Key, Content

LEMMA ContinuedType ==
    ASSUME NEW state \in State, NEW parsed \in Snapshot
    PROVE  Continued(state, parsed) \in Sending \cup {Idle}
<1>1. NextRequest(state, parsed) \in Ingestion \cup {Attach, Nothing}
  BY BatchType, SnapshotType DEF NextRequest
<1> QED
  BY <1>1 DEF Continued, Sending

LEMMA MergedType ==
    ASSUME TypeOK, NEW r \in Ingestion
    PROVE  /\ MergedTurns(r) \in Turns
           /\ \A i \in DOMAIN archive.turns :
                 /\ i \in DOMAIN MergedTurns(r)
                 /\ \/ MergedTurns(r)[i] = archive.turns[i]
                    \/ i \in DOMAIN r.content.turns /\ MergedTurns(r)[i] = r.content.turns[i]
<1>1. archive.turns \in Turns /\ r.content.turns \in Turns
  BY DEF TypeOK, Ingestion, Content
<1>2. PICK n \in Nat : DOMAIN archive.turns \cup DOMAIN r.content.turns = 1..n
  <2>1. /\ DOMAIN archive.turns = 1..Len(archive.turns)
        /\ DOMAIN r.content.turns = 1..Len(r.content.turns)
        /\ Len(archive.turns) \in Nat /\ Len(r.content.turns) \in Nat
    BY <1>1 DEF Turns
  <2>2. CASE Len(archive.turns) <= Len(r.content.turns)
    BY <2>1, <2>2
  <2>3. CASE Len(archive.turns) > Len(r.content.turns)
    BY <2>1, <2>3
  <2> QED
    BY <2>1, <2>2, <2>3
<1>3. MergedTurns(r) \in [1..n -> {"running"} \cup Outcomes]
  BY <1>1, <1>2 DEF MergedTurns, Turns
<1>4. MergedTurns(r) \in Turns
  BY <1>3, FunctionIsSeq DEF Turns
<1> QED
  BY <1>4 DEF MergedTurns

LEMMA NewItemsType ==
    ASSUME NEW r \in Ingestion
    PROVE  NewItems(r) \subseteq Nat \X Nat
<1>1. r.items \in Seq(Nat) /\ r.content.from \in Nat
  BY DEF Ingestion, Content
<1>2. \A i \in DOMAIN r.items : r.items[i] \in Nat /\ r.content.from + i \in Nat
  BY <1>1
<1> QED
  BY <1>2 DEF NewItems

LEMMA IngestedType ==
    ASSUME TypeOK, NEW r \in Ingestion \cup {Attach}
    PROVE  /\ Ingested(r).items \in SUBSET (Nat \X Nat)
           /\ Ingested(r) \in [attached : BOOLEAN, items : SUBSET (Nat \X Nat), turns : Turns,
                 status : {"pending", "ingesting", "complete"}, count : Nat,
                 ingestions : SUBSET [key : Key, content : Content]]
<1>1. CASE r = Attach
  BY <1>1 DEF Ingested, TypeOK, Attach
<1>2. CASE r \in Ingestion
  <2>1. /\ r.kind = "ingest" /\ r.content.count \in Nat /\ r.content.complete \in BOOLEAN
        /\ [key |-> r.key, content |-> r.content] \in [key : Key, content : Content]
    BY <1>2 DEF Ingestion, Content
  <2>2. MergedTurns(r) \in Turns /\ NewItems(r) \subseteq Nat \X Nat
    BY <1>2, MergedType, NewItemsType
  <2> QED
    BY <2>1, <2>2 DEF Ingested, TypeOK
<1> QED
  BY <1>1, <1>2

LEMMA CliShape ==
    ASSUME TypeOK, NEW c \in Clis
    PROVE  /\ cli[c].phase = "read" => cli[c] \in Reading
           /\ cli[c].phase \in {"sent", "stored"} => cli[c] \in Sending
           /\ cli[c].phase \in {"idle", "read", "sent", "stored"}
           /\ cli[c].phase = "idle" <=> cli[c] = Idle
BY DEF TypeOK, Reading, Sending, Idle

LEMMA TypeStep == TypeOK /\ [Next]_vars => TypeOK'
<1> SUFFICES ASSUME TypeOK, [Next]_vars PROVE TypeOK'
  OBVIOUS
<1>1. CASE Codex
  <2>1. rollout \in Snapshot
    BY DEF TypeOK
  <2>2. /\ rollout.items \in Seq(Nat) /\ rollout.turns \in Turns /\ rollout.revision \in Nat
        /\ Len(rollout.turns) \in Nat
    BY <2>1 DEF Snapshot, Turns
  <2>3. ASSUME NEW items \in Seq(Nat), NEW turns \in Turns, Append1(items, turns)
        PROVE  TypeOK'
    BY <2>2, <2>3 DEF Append1, TypeOK, Snapshot
  <2>4. CASE TurnStarts
    <3>1. Append(rollout.turns, "running") \in Turns
      BY <2>2 DEF Turns
    <3> QED
      BY <2>2, <2>3, <2>4, <3>1 DEF TurnStarts
  <2>5. CASE ItemWritten
    <3>1. Append(rollout.items, Len(rollout.turns)) \in Seq(Nat)
      BY <2>2
    <3> QED
      BY <2>2, <2>3, <2>5, <3>1 DEF ItemWritten
  <2>6. ASSUME NEW status \in Outcomes, TurnEnds(status) PROVE TypeOK'
    <3>1. PICK i \in DOMAIN rollout.turns :
             Append1(rollout.items, [rollout.turns EXCEPT ![i] = status])
      BY <2>6 DEF TurnEnds
    <3>2. [rollout.turns EXCEPT ![i] = status] \in Turns
      BY <2>2 DEF Turns
    <3> QED
      BY <2>2, <2>3, <3>1, <3>2
  <2> QED
    BY <1>1, <2>4, <2>5, <2>6 DEF Codex
<1>2. ASSUME NEW c \in Clis, ReadState(c) PROVE TypeOK'
  BY <1>2 DEF ReadState, TypeOK, Reading
<1>3. ASSUME NEW c \in Clis, Parse(c) PROVE TypeOK'
  <2>1. cli[c] \in Reading
    BY <1>3, CliShape DEF Parse
  <2>2. Continued(cli[c].state, rollout) \in Sending \cup {Idle}
    BY <2>1, ContinuedType DEF Reading, TypeOK
  <2> QED
    BY <1>3, <2>2 DEF Parse, TypeOK
<1>4. ASSUME NEW c \in Clis, Ingest(c) PROVE TypeOK'
  <2>1. cli[c] \in Sending
    BY <1>4, CliShape DEF Ingest
  <2>2. cli[c].request \in Ingestion \cup {Attach}
    BY <2>1 DEF Sending
  <2>3. [cli[c] EXCEPT !.phase = "stored"] \in Sending
    BY <2>1 DEF Sending
  <2>4. cli' \in [Clis -> Reading \cup Sending \cup {Idle}]
    BY <1>4, <2>3 DEF Ingest, TypeOK
  <2> QED
    BY <1>4, <2>2, <2>4, IngestedType DEF Ingest, TypeOK
<1>5. ASSUME NEW c \in Clis, Answered(c) PROVE TypeOK'
  <2>1. cli[c] \in Sending
    BY <1>5, CliShape DEF Answered
  <2>2. file' \in State
    BY <1>5, <2>1, ProgressType DEF Answered, Sending
  <2>3. Continued(file', cli[c].parsed) \in Sending \cup {Idle}
    BY <2>1, <2>2, ContinuedType DEF Sending
  <2> QED
    BY <1>5, <2>2, <2>3 DEF Answered, TypeOK
<1>6. ASSUME NEW c \in Clis, Abandoned(c) PROVE TypeOK'
  <2>1. cli[c].request \in Ingestion \cup {Attach}
    BY <1>6, CliShape DEF Abandoned, Sending
  <2> QED
    BY <1>6, <2>1 DEF Abandoned, TypeOK
<1>7. ASSUME NEW r \in orphans, IngestLate(r) PROVE TypeOK'
  <2>1. r \in Ingestion \cup {Attach}
    BY DEF TypeOK
  <2> QED
    BY <1>7, <2>1, IngestedType DEF IngestLate, TypeOK
<1>8. CASE UNCHANGED vars
  BY <1>8 DEF vars, TypeOK
<1> QED
  BY <1>1, <1>2, <1>3, <1>4, <1>5, <1>6, <1>7, <1>8 DEF Next, Sync

------------------------------------------------------------------------------
(* What is known of a request and of a state stays true while the rollout and   *)
(* the archive grow.                                                            *)
Grows ==
    /\ Held \in Nat /\ Held' \in Nat /\ Held <= Held'
    /\ archive.attached => archive'.attached
    /\ Extends(rollout'.items, rollout.items)

LEMMA CoveredStays ==
    ASSUME Grows, NEW state \in State, Covered(state)
    PROVE  Covered(state)'
BY DEF Grows, Covered, State

LEMMA AppliedStays ==
    ASSUME Grows, NEW r \in Ingestion \cup {Attach}, Applied(r)
    PROVE  Applied(r)'
BY DEF Grows, Applied, Ingestion, Attach, Content

LEMMA FaithfulStays ==
    ASSUME TypeOK, TypeOK', Grows, NEW r \in Ingestion \cup {Attach}, Faithful(r)
    PROVE  Faithful(r)'
<1>1. CASE r = Attach
  BY <1>1 DEF Faithful, Attach
<1>2. CASE r \in Ingestion
  <2>1. /\ Len(rollout.items) \in Nat /\ Len(rollout'.items) \in Nat
        /\ r.content.from \in Nat /\ r.content.to \in Nat
    BY <1>2 DEF TypeOK, Snapshot, Ingestion, Content
  <2>2. \A i \in 1..(r.content.to - r.content.from) : r.content.from + i \in 1..Len(rollout.items)
    BY <1>2, <2>1 DEF Faithful, Ingestion
  <2>3. DOMAIN r.items = 1..(r.content.to - r.content.from) /\ r.kind = "ingest"
    BY <1>2 DEF Faithful, Ingestion
  <2>4. \A i \in DOMAIN r.items : r.items[i] = rollout'.items[r.content.from + i]
    BY <2>2, <2>3 DEF Faithful, Grows, Extends
  <2>5. r.content.to <= Len(rollout'.items) /\ r.content.from <= Held'
    BY <2>1, <2>3 DEF Faithful, Grows, Extends
  <2> QED
    BY <2>3, <2>4, <2>5 DEF Faithful
<1> QED
  BY <1>1, <1>2

LEMMA ExtendsTransitive ==
    ASSUME NEW r \in Seq(Nat), NEW s \in Seq(Nat), NEW t \in Seq(Nat),
           Extends(s, r), Extends(t, s)
    PROVE  Extends(t, r)
BY DEF Extends

LEMMA TrustedStays ==
    ASSUME TypeOK, TypeOK', Grows, NEW k \in Invocation, Trusted(k)
    PROVE  Trusted(k)'
<1>1. CASE k = Idle
  BY <1>1 DEF Trusted, Idle
<1>2. CASE k \in Reading
  BY <1>2, CoveredStays DEF Trusted, Reading
<1>3. CASE k \in Sending
  <2>1. /\ k.state \in State /\ k.request \in Ingestion \cup {Attach}
        /\ k.parsed.items \in Seq(Nat) /\ k.phase \in {"sent", "stored"}
    BY <1>3 DEF Sending, Snapshot
  <2>2. Covered(k.state)'
    BY <2>1, CoveredStays DEF Trusted
  <2>3. Extends(rollout'.items, k.parsed.items)
    BY <2>1, ExtendsTransitive DEF Trusted, Grows, TypeOK, Snapshot
  <2>4. k.phase = "sent" => Faithful(k.request)'
    BY <2>1, FaithfulStays DEF Trusted
  <2>5. k.phase = "stored" => Applied(k.request)'
    BY <2>1, AppliedStays DEF Trusted
  <2> QED
    BY <2>1, <2>2, <2>3, <2>4, <2>5 DEF Trusted
<1> QED
  BY <1>1, <1>2, <1>3 DEF Invocation

LEMMA StandsStill ==
    ASSUME PrefixInv, TypeOK, UNCHANGED <<rollout, archive>>
    PROVE  Grows /\ PrefixInv' /\ (StoredInv => StoredInv') /\ (CompleteIsWhole => CompleteIsWhole')
BY DEF Grows, PrefixInv, StoredInv, CompleteIsWhole, Held, Extends, TypeOK, Snapshot

(* What an invocation sends next carries what the archive lacks.                *)
LEMMA RequestFaithful ==
    ASSUME TypeOK, PrefixInv, NEW state \in State, NEW parsed \in Snapshot,
           Covered(state), Extends(rollout.items, parsed.items)
    PROVE  Trusted(Continued(state, parsed))
<1> DEFINE r == NextRequest(state, parsed)
<1>1. /\ state.cursor \in Nat /\ Len(parsed.items) \in Nat /\ Len(rollout.items) \in Nat
      /\ Held \in Nat /\ Held <= Len(rollout.items) /\ parsed.items \in Seq(Nat)
  BY DEF State, Snapshot, TypeOK, PrefixInv
<1>2. CASE r = Nothing
  BY <1>2 DEF Continued, Trusted, Idle
<1>3. CASE r = Attach
  <2>1. Faithful(r)
    BY <1>3 DEF Faithful, Attach
  <2> QED
    BY <1>3, <2>1 DEF Continued, Trusted, Attach, Nothing
<1>4. CASE r = BatchRequest(state, parsed) /\ state.cursor < Len(parsed.items)
  <2> DEFINE to == Least(state.cursor + Batch, Len(parsed.items))
  <2> HIDE DEF r
  <2>1. /\ r.kind = "ingest" /\ r.content.from = state.cursor /\ r.content.to = to
        /\ ~r.content.complete /\ r.items = SubSeq(parsed.items, state.cursor + 1, to)
    BY <1>4 DEF BatchRequest
  <2>2. to \in Nat /\ state.cursor <= to /\ to <= Len(parsed.items)
    BY <1>1, <1>4, SyncAssumption DEF Least
  <2> HIDE DEF to
  <2>3. /\ DOMAIN r.items = 1..(to - state.cursor)
        /\ \A i \in 1..(to - state.cursor) : r.items[i] = parsed.items[state.cursor + i]
    <3>1. state.cursor \in Nat /\ parsed.items \in Seq(Nat)
      BY <1>1
    <3>2. /\ DOMAIN SubSeq(parsed.items, state.cursor + 1, to) = 1..(to - state.cursor)
          /\ \A i \in 1..(to - state.cursor) :
                SubSeq(parsed.items, state.cursor + 1, to)[i] = parsed.items[state.cursor + i]
      BY <2>2, <3>1, Slice
    <3> QED
      BY <2>1, <3>2
  <2>4. to <= Len(rollout.items)
    BY <1>1, <2>2 DEF Extends
  <2>5. \A i \in 1..(to - state.cursor) :
           parsed.items[state.cursor + i] = rollout.items[state.cursor + i]
    <3>1. \A i \in 1..(to - state.cursor) : state.cursor + i \in 1..Len(parsed.items)
      BY <1>1, <2>2
    <3> QED
      BY <3>1 DEF Extends
  <2>6. Faithful(r)
    BY <2>1, <2>2, <2>3, <2>4, <2>5 DEF Faithful, Covered
  <2> QED
    BY <2>1, <2>6 DEF Continued, Trusted, Nothing, r
<1>5. CASE r = SnapshotRequest(state, parsed) /\ ~(state.cursor < Len(parsed.items))
  <2>1. /\ r.kind = "ingest" /\ r.content.from = state.cursor /\ r.content.to = state.cursor
        /\ r.content.count = Len(parsed.items) /\ r.items = <<>>
    BY <1>5 DEF SnapshotRequest
  <2> HIDE DEF r
  <2>2. DOMAIN r.items = 1..(state.cursor - state.cursor)
    BY <1>1, <2>1
  <2>3. Faithful(r)
    BY <1>1, <1>5, <2>1, <2>2 DEF Faithful, Covered
  <2> QED
    BY <2>1, <2>3 DEF Continued, Trusted, Nothing, r
<1> QED
  BY <1>2, <1>3, <1>4, <1>5 DEF NextRequest

------------------------------------------------------------------------------
(* The items of a request that was not refused end the archived prefix, or lie  *)
(* within it.                                                                   *)
LEMMA ItemsJoin ==
    ASSUME TypeOK, PrefixInv, NEW r \in Ingestion, Faithful(r)
    PROVE  \E m \in Nat :
              /\ archive.items \cup NewItems(r) = PrefixOf(rollout.items, m)
              /\ Held <= m /\ r.content.to <= m /\ m <= Len(rollout.items)
<1> DEFINE from == r.content.from
           to == r.content.to
           s == rollout.items
<1>1. /\ from \in Nat /\ to \in Nat /\ Held \in Nat /\ Len(s) \in Nat /\ Held <= Len(s)
      /\ r.kind = "ingest" /\ archive.items = PrefixOf(s, Held)
  BY DEF Ingestion, Content, PrefixInv, TypeOK, Snapshot
<1>2. /\ from <= to /\ to <= Len(s) /\ from <= Held
      /\ DOMAIN r.items = 1..(to - from)
      /\ \A i \in 1..(to - from) : r.items[i] = s[from + i]
  BY <1>1 DEF Faithful
<1>3. NewItems(r) = {<<j, s[j]>> : j \in from + 1 .. to}
  <2>1. NewItems(r) = {<<from + i, s[from + i]>> : i \in 1..(to - from)}
    BY <1>2 DEF NewItems
  <2>2. \A i \in 1..(to - from) : from + i \in from + 1 .. to
    BY <1>1
  <2>3. \A j \in from + 1 .. to : j - from \in 1..(to - from) /\ from + (j - from) = j
    BY <1>1
  <2> HIDE DEF from, to, s
  <2>4. ASSUME NEW x \in NewItems(r) PROVE x \in {<<j, s[j]>> : j \in from + 1 .. to}
    BY <2>1, <2>2, <2>4
  <2>5. ASSUME NEW j \in from + 1 .. to PROVE <<j, s[j]>> \in NewItems(r)
    BY <2>1, <2>3, <2>5
  <2> QED
    BY <2>4, <2>5
<1> DEFINE m == IF to <= Held THEN Held ELSE to
<1>4. m \in Nat /\ Held <= m /\ to <= m /\ m <= Len(s)
  BY <1>1, <1>2
<1>5. 1..Held \cup (from + 1 .. to) = 1..m
  BY <1>1, <1>2
<1>6. archive.items \cup NewItems(r) = PrefixOf(s, m)
  <2> HIDE DEF from, to, s, m
  <2> QED
    BY <1>1, <1>3, <1>5 DEF PrefixOf
<1> QED
  BY <1>4, <1>6

LEMMA Accepted ==
    ASSUME TypeOK, PrefixInv, StoredInv, CompleteIsWhole,
           NEW r \in Ingestion \cup {Attach}, Faithful(r),
           archive' = IF Rejected(r) THEN archive ELSE Ingested(r), UNCHANGED rollout
    PROVE  Grows /\ PrefixInv' /\ StoredInv' /\ CompleteIsWhole' /\ (~Rejected(r) => Applied(r)')
<1> DEFINE s == rollout.items
<1>0. Held \in Nat /\ Len(s) \in Nat /\ Held <= Len(s) /\ Extends(rollout'.items, s)
      /\ rollout'.items = s
  BY DEF PrefixInv, TypeOK, Snapshot, Extends
<1>1. ASSUME archive'.items = archive.items, archive'.ingestions = archive.ingestions,
             archive'.status = archive.status, archive'.count = archive.count,
             archive.attached => archive'.attached
      PROVE  Held' = Held /\ Grows /\ PrefixInv' /\ StoredInv' /\ CompleteIsWhole'
  <2>1. Held' = Held
    BY <1>1 DEF Held
  <2> QED
    BY <1>0, <1>1, <2>1 DEF Grows, PrefixInv, StoredInv, CompleteIsWhole, Held
<1>2. CASE Rejected(r)
  BY <1>1, <1>2
<1>3. CASE ~Rejected(r) /\ r = Attach
  <2>1. archive' = [archive EXCEPT !.attached = TRUE] /\ r.kind = "attach"
    BY <1>3 DEF Ingested, Attach
  <2>2. /\ archive'.items = archive.items /\ archive'.ingestions = archive.ingestions
        /\ archive'.status = archive.status /\ archive'.count = archive.count
        /\ archive'.attached
    BY <2>1 DEF TypeOK
  <2> QED
    BY <1>1, <2>1, <2>2 DEF Applied
<1>4. CASE ~Rejected(r) /\ r \in Ingestion /\ Stored(r.key) # {}
  <2>1. r.kind = "ingest"
    BY <1>4 DEF Ingestion
  <2>2. archive' = archive
    BY <1>4, <2>1 DEF Ingested
  <2>3. PICK g \in archive.ingestions : g.content = r.content
    BY <1>4, <2>1 DEF Rejected, Stored
  <2>4. r.content.to <= Held
    BY <2>3 DEF StoredInv
  <2> QED
    BY <1>1, <2>1, <2>2, <2>4 DEF Applied
<1>5. CASE ~Rejected(r) /\ r \in Ingestion /\ Stored(r.key) = {}
  <2>1. r.kind = "ingest" /\ archive' = Ingested(r)
    BY <1>5 DEF Ingestion
  <2>2. /\ archive'.items = archive.items \cup NewItems(r)
        /\ archive'.ingestions = archive.ingestions \cup {[key |-> r.key, content |-> r.content]}
        /\ archive'.status = IF r.content.complete THEN "complete" ELSE "ingesting"
        /\ archive'.count = r.content.count /\ archive'.attached = archive.attached
    BY <1>5, <2>1 DEF Ingested, TypeOK
  <2>3. PICK m \in Nat : /\ archive'.items = PrefixOf(s, m)
                         /\ Held <= m /\ r.content.to <= m /\ m <= Len(s)
    BY <1>5, <2>2, ItemsJoin
  <2>4. Held' = m
    BY <2>3, PrefixSize DEF Held
  <2>5. Grows /\ PrefixInv' /\ Applied(r)'
    BY <1>0, <2>1, <2>2, <2>3, <2>4 DEF Grows, PrefixInv, Applied
  <2>6. StoredInv'
    <3> SUFFICES ASSUME NEW g \in archive'.ingestions PROVE g.content.to <= Held'
      BY DEF StoredInv
    <3>1. CASE g \in archive.ingestions
      <4>1. g.content.to \in Nat /\ g.content.to <= Held
        BY <3>1 DEF StoredInv, TypeOK, Content
      <4> QED
        BY <1>0, <2>3, <2>4, <4>1
    <3>2. CASE g = [key |-> r.key, content |-> r.content]
      BY <2>3, <2>4, <3>2
    <3> QED
      BY <2>2, <3>1, <3>2
  <2>7. CompleteIsWhole'
    <3>1. r.content.complete => r.content.count <= r.content.from /\ r.content.from <= Held
      BY <2>1 DEF Faithful
    <3>2. r.content.count \in Nat /\ r.content.from \in Nat
      BY <1>5 DEF Ingestion, Content
    <3>3. r.content.complete => r.content.count <= m
      BY <1>0, <2>3, <3>1, <3>2
    <3> QED
      BY <2>2, <2>4, <3>3 DEF CompleteIsWhole, Held
  <2> QED
    BY <2>5, <2>6, <2>7
<1> QED
  BY <1>2, <1>3, <1>4, <1>5

------------------------------------------------------------------------------
(* A step that leaves file, invocations and orphans alone need only let rollout *)
(* and archive grow.                                                            *)
LEMMA OthersKeep ==
    ASSUME IInv, TypeOK', Grows
    PROVE  /\ file' = file => FileInv'
           /\ \A r \in orphans : Faithful(r)'
           /\ \A c \in Clis, k \in Invocation : cli[c] = k => Trusted(k)'
<1>1. file' = file => FileInv'
  <2>1. Covered(file) /\ file \in State
    BY DEF IInv, FileInv, TypeOK
  <2> QED
    BY <2>1 DEF Grows, FileInv, Covered, State
<1>2. ASSUME NEW r \in orphans PROVE Faithful(r)'
  <2>1. r \in Ingestion \cup {Attach} /\ Faithful(r) /\ TypeOK
    BY DEF IInv, OrphanInv, TypeOK
  <2> QED
    BY <2>1, FaithfulStays
<1>3. ASSUME NEW k \in Invocation, NEW c \in Clis, cli[c] = k PROVE Trusted(k)'
  <2>1. Trusted(k) /\ TypeOK
    BY <1>3 DEF IInv, CliInv
  <2> QED
    BY <2>1, TrustedStays
<1> QED
  BY <1>1, <1>2, <1>3

LEMMA InvStep == IInv /\ [Next]_vars => IInv'
<1> SUFFICES ASSUME IInv, [Next]_vars PROVE IInv'
  OBVIOUS
<1>0. TypeOK /\ TypeOK' /\ cli \in [Clis -> Invocation] /\ cli' \in [Clis -> Invocation]
  BY TypeStep DEF IInv, TypeOK, Invocation
<1>1. CASE Codex
  <2>1. /\ \/ rollout'.items = rollout.items
           \/ rollout'.items = Append(rollout.items, Len(rollout.turns))
        /\ UNCHANGED <<archive, file, cli, orphans>>
    BY <1>1 DEF Codex, TurnStarts, ItemWritten, TurnEnds, Append1
  <2>2. rollout.items \in Seq(Nat) /\ rollout'.items \in Seq(Nat)
        /\ UNCHANGED <<archive, file, cli, orphans>>
    BY <1>0, <2>1 DEF TypeOK, Snapshot
  <2>3. Extends(rollout'.items, rollout.items) /\ Len(rollout'.items) \in Nat
    BY <2>1, <2>2 DEF Extends
  <2>4. Held' = Held /\ Held \in Nat /\ Held <= Len(rollout.items) /\ Len(rollout.items) \in Nat
    BY <2>2 DEF Held, IInv, PrefixInv
  <2>5. Grows
    BY <2>2, <2>3, <2>4 DEF Grows
  <2>6. PrefixInv'
    <3>1. Held' \in 0..Len(rollout'.items)
      BY <2>3, <2>4 DEF Extends
    <3>2. PrefixOf(rollout'.items, Held) = PrefixOf(rollout.items, Held)
      <4>1. \A i \in 1..Held : i \in 1..Len(rollout.items)
        BY <2>4
      <4> QED
        BY <2>3, <4>1 DEF Extends, PrefixOf
    <3> QED
      BY <2>2, <2>4, <3>1, <3>2 DEF IInv, PrefixInv
  <2>7. StoredInv' /\ CompleteIsWhole'
    BY <2>2, <2>4 DEF IInv, StoredInv, CompleteIsWhole, Held
  <2> QED
    BY <1>0, <2>2, <2>5, <2>6, <2>7, OthersKeep DEF IInv, OrphanInv, CliInv
<1>2. ASSUME NEW c \in Clis, cli[c].phase # "sent",
             UNCHANGED <<rollout, archive>>, Covered(file'),
             orphans' = orphans,
             \A d \in Clis \ {c} : cli'[d] = cli[d],
             \A k \in Invocation : cli'[c] = k => Trusted(k)
      PROVE  IInv'
  <2>1. Grows /\ PrefixInv' /\ StoredInv' /\ CompleteIsWhole'
    BY <1>0, <1>2, StandsStill DEF IInv
  <2>2. FileInv'
    BY <1>2 DEF FileInv, Covered, Held
  <2>3. \A k \in Invocation : cli'[c] = k => Trusted(k)'
    BY <1>0, <1>2, <2>1, TrustedStays
  <2>4. CliInv'
    BY <1>0, <1>2, <2>1, <2>3, OthersKeep DEF CliInv
  <2> QED
    BY <1>0, <1>2, <2>1, <2>2, <2>4, OthersKeep DEF IInv, OrphanInv
<1>3. ASSUME NEW c \in Clis, ReadState(c) PROVE IInv'
  <2>1. cli'[c] = [phase |-> "read", state |-> file] /\ cli[c].phase = "idle"
    BY <1>0, <1>3 DEF ReadState, TypeOK, Idle
  <2>2. Trusted(cli'[c])
    BY <2>1 DEF Trusted, IInv, FileInv
  <2> QED
    BY <1>2, <1>3, <2>1, <2>2 DEF ReadState, IInv, FileInv
<1>4. ASSUME NEW c \in Clis, Parse(c) PROVE IInv'
  <2>1. cli[c] \in Reading /\ cli[c].phase = "read" /\ rollout \in Snapshot
    BY <1>0, <1>4, CliShape DEF Parse, TypeOK
  <2>2. Covered(cli[c].state) /\ cli[c].state \in State
    BY <1>0, <2>1 DEF IInv, CliInv, Trusted, Reading
  <2>3. Extends(rollout.items, rollout.items)
    BY <2>1 DEF Extends, Snapshot
  <2>4. Trusted(Continued(cli[c].state, rollout))
    BY <1>0, <2>1, <2>2, <2>3, RequestFaithful DEF IInv
  <2>5. cli'[c] = Continued(cli[c].state, rollout)
    BY <1>0, <1>4 DEF Parse, TypeOK
  <2> QED
    BY <1>2, <1>4, <2>1, <2>4, <2>5 DEF Parse, IInv, FileInv
<1>5. ASSUME NEW c \in Clis, Answered(c) PROVE IInv'
  <2>1. cli[c] \in Sending /\ cli[c].phase = "stored"
    BY <1>0, <1>5, CliShape DEF Answered
  <2> DEFINE state == cli[c].state
             r == cli[c].request
             parsed == cli[c].parsed
  <2>2. /\ state \in State /\ parsed \in Snapshot /\ r \in Ingestion \cup {Attach}
        /\ Covered(state) /\ Applied(r) /\ Extends(rollout.items, parsed.items)
    BY <1>0, <2>1 DEF IInv, CliInv, Trusted, Sending
  <2>3. Progress(state, r) \in State
    BY <2>2, ProgressType
  <2> HIDE DEF state, r, parsed
  <2>4. Covered(Progress(state, r))
    <3>1. Held \in Nat
      BY DEF IInv, PrefixInv
    <3>2. CASE r = Attach
      BY <2>2, <3>1, <3>2 DEF Covered, Progress, Applied, Attach, State
    <3>3. CASE r \in Ingestion
      BY <2>2, <3>1, <3>3 DEF Covered, Progress, Applied, Ingestion, State
    <3> QED
      BY <2>2, <3>2, <3>3
  <2>5. Trusted(Continued(Progress(state, r), parsed))
    BY <1>0, <2>2, <2>3, <2>4, RequestFaithful DEF IInv
  <2>6. file' = Progress(state, r) /\ cli'[c] = Continued(Progress(state, r), parsed)
    BY <1>0, <1>5 DEF Answered, TypeOK, state, r, parsed
  <2> QED
    BY <1>2, <1>5, <2>1, <2>4, <2>5, <2>6 DEF Answered
<1>6. ASSUME NEW c \in Clis, Abandoned(c) PROVE IInv'
  <2>1. Grows /\ PrefixInv' /\ StoredInv' /\ CompleteIsWhole'
    BY <1>0, <1>6, StandsStill DEF IInv, Abandoned
  <2>2. cli'[c] = Idle /\ \A d \in Clis \ {c} : cli'[d] = cli[d]
    BY <1>0, <1>6 DEF Abandoned, TypeOK
  <2>3. \A k \in Invocation : cli'[c] = k => Trusted(k)'
    BY <2>2 DEF Trusted, Idle
  <2>4. OrphanInv'
    <3> SUFFICES ASSUME NEW r \in orphans' PROVE Faithful(r)'
      BY DEF OrphanInv
    <3>1. CASE r \in orphans
      BY <1>0, <2>1, <3>1, OthersKeep
    <3>2. CASE cli[c].phase = "sent" /\ r = cli[c].request
      <4>1. r \in Ingestion \cup {Attach} /\ Faithful(r)
        BY <1>0, <3>2, CliShape DEF Sending, IInv, CliInv, Trusted
      <4> QED
        BY <1>0, <2>1, <4>1, FaithfulStays
    <3> QED
      BY <1>6, <3>1, <3>2 DEF Abandoned
  <2>5. CliInv'
    BY <1>0, <2>1, <2>2, <2>3, OthersKeep DEF CliInv
  <2> QED
    BY <1>0, <1>6, <2>1, <2>4, <2>5, OthersKeep DEF Abandoned, IInv
<1>7. ASSUME NEW c \in Clis, Ingest(c) PROVE IInv'
  <2> DEFINE r == cli[c].request
  <2>1. /\ cli[c] \in Sending /\ cli[c].phase = "sent" /\ r \in Ingestion \cup {Attach}
        /\ Faithful(r) /\ cli[c].state \in State /\ Covered(cli[c].state)
        /\ cli[c].parsed \in Snapshot /\ Extends(rollout.items, cli[c].parsed.items)
    BY <1>0, <1>7, CliShape DEF Ingest, Sending, IInv, CliInv, Trusted
  <2>2. /\ archive' = IF Rejected(r) THEN archive ELSE Ingested(r)
        /\ UNCHANGED <<rollout, file, orphans>>
        /\ \A d \in Clis \ {c} : cli'[d] = cli[d]
        /\ cli'[c] = IF Rejected(r) THEN Idle ELSE [cli[c] EXCEPT !.phase = "stored"]
    BY <1>0, <1>7 DEF Ingest, TypeOK
  <2>3. Grows /\ PrefixInv' /\ StoredInv' /\ CompleteIsWhole'
    BY <1>0, <2>1, <2>2, Accepted DEF IInv
  <2>4. ASSUME NEW k \in Invocation, cli'[c] = k PROVE Trusted(k)'
    <3>1. CASE Rejected(r)
      BY <2>2, <2>4, <3>1 DEF Trusted, Idle
    <3>2. CASE ~Rejected(r)
      <4>1. /\ k.phase = "stored" /\ k.state = cli[c].state
            /\ k.request = r /\ k.parsed = cli[c].parsed
        BY <2>1, <2>2, <2>4, <3>2 DEF Sending
      <4>2. Covered(k.state)' /\ Applied(k.request)'
        <5>1. PICK state \in State, q \in Ingestion \cup {Attach} :
                 state = cli[c].state /\ q = r
          BY <2>1
        <5>2. Covered(state)'
          BY <2>1, <2>3, <5>1, CoveredStays
        <5>3. Applied(q)'
          BY <1>0, <2>1, <2>2, <3>2, <5>1, Accepted DEF IInv
        <5> QED
          BY <4>1, <5>1, <5>2, <5>3 DEF Covered, Applied
      <4> QED
        BY <2>1, <2>2, <4>1, <4>2 DEF Trusted
    <3> QED
      BY <3>1, <3>2
  <2>5. CliInv'
    BY <1>0, <2>2, <2>3, <2>4, OthersKeep DEF CliInv
  <2> QED
    BY <1>0, <2>2, <2>3, <2>5, OthersKeep DEF IInv, OrphanInv
<1>8. ASSUME NEW r \in orphans, IngestLate(r) PROVE IInv'
  <2>1. r \in Ingestion \cup {Attach} /\ Faithful(r)
    BY <1>0 DEF TypeOK, IInv, OrphanInv
  <2>2. Grows /\ PrefixInv' /\ StoredInv' /\ CompleteIsWhole'
    BY <1>0, <1>8, <2>1, Accepted DEF IInv, IngestLate
  <2> QED
    BY <1>0, <1>8, <2>2, OthersKeep DEF IngestLate, IInv, OrphanInv, CliInv
<1>9. CASE UNCHANGED vars
  <2>1. Grows /\ PrefixInv' /\ StoredInv' /\ CompleteIsWhole'
    BY <1>0, <1>9, StandsStill DEF IInv, vars
  <2> QED
    BY <1>0, <1>9, <2>1, OthersKeep DEF vars, IInv, OrphanInv, CliInv
<1> QED
  BY <1>1, <1>3, <1>4, <1>5, <1>6, <1>7, <1>8, <1>9 DEF Next, Sync

(* The strengthening is inductive.                                              *)
LEMMA Inductive == Spec => []IInv
<1>1. Init => IInv
  <2> SUFFICES ASSUME Init PROVE IInv
    OBVIOUS
  <2>1. TypeOK
    BY DEF Init, TypeOK, Snapshot, State, Turns
  <2>2. Held = 0 /\ Len(rollout.items) = 0
    BY FS_EmptySet DEF Init, Held
  <2>3. PrefixInv
    BY <2>2 DEF Init, PrefixInv, PrefixOf
  <2>4. FileInv /\ StoredInv /\ OrphanInv /\ CliInv /\ CompleteIsWhole
    BY <2>2 DEF Init, FileInv, Covered, StoredInv, OrphanInv, CliInv, Trusted, Idle,
                CompleteIsWhole
  <2> QED
    BY <2>1, <2>3, <2>4 DEF IInv
<1> QED
  BY <1>1, InvStep, PTL DEF Spec

(* Every state of SessionSync is well typed: what requests in flight carry, what*)
(* the archive merges, and what an invocation resumes from.                     *)
THEOREM SyncTypeCorrect == Spec => []TypeOK
BY Inductive, PTL DEF IInv

(* The archived items are exactly the first items of the rollout, whatever      *)
(* invocations overlap, answers are lost and late requests are applied.         *)
THEOREM PrefixArchived == Spec => []ArchiveIsPrefix
<1>1. IInv => ArchiveIsPrefix
  BY DEF IInv, PrefixInv, PrefixOf, Held, ArchiveIsPrefix
<1> QED
  BY <1>1, Inductive, PTL

(* The cursor an upload resumes from never passes what the server holds.        *)
THEOREM CursorSafe == Spec => []CursorCovered
<1>1. IInv => CursorCovered
  BY DEF IInv, FileInv, Covered, Held, CursorCovered
<1> QED
  BY <1>1, Inductive, PTL

(* A session shown as complete holds every item its manifest counts.            *)
THEOREM CompleteWhole == Spec => []CompleteIsWhole
BY Inductive, PTL DEF IInv

(* A turn that ended keeps its outcome: a request with an older snapshot of the *)
(* turns is refused, and one with fewer turns leaves the others alone.          *)
THEOREM OutcomesKept == Spec => OutcomesStay
<1>1. TypeOK /\ [Next]_vars =>
         \A i \in DOMAIN archive.turns :
            archive.turns[i] \in Outcomes =>
                i \in DOMAIN archive'.turns /\ archive'.turns[i] = archive.turns[i]
  <2> SUFFICES ASSUME TypeOK, [Next]_vars, NEW i \in DOMAIN archive.turns,
                      archive.turns[i] \in Outcomes
               PROVE  i \in DOMAIN archive'.turns /\ archive'.turns[i] = archive.turns[i]
    OBVIOUS
  <2>1. CASE archive' = archive
    BY <2>1
  <2>2. ASSUME NEW r \in Ingestion \cup {Attach}, ~Rejected(r), archive' = Ingested(r)
        PROVE  i \in DOMAIN archive'.turns /\ archive'.turns[i] = archive.turns[i]
    <3>1. CASE archive'.turns = archive.turns
      BY <3>1
    <3>2. CASE r \in Ingestion /\ Stored(r.key) = {}
      <4>1. r.kind = "ingest"
        BY <3>2 DEF Ingestion
      <4>2. ~TurnConflict(r) /\ archive'.turns = MergedTurns(r)
        BY <2>2, <3>2, <4>1 DEF Rejected, Ingested, TypeOK
      <4>3. i \in DOMAIN r.content.turns => r.content.turns[i] = archive.turns[i]
        BY <4>2 DEF TurnConflict
      <4> QED
        BY <3>2, <4>2, <4>3, MergedType
    <3>3. CASE r \in Ingestion /\ Stored(r.key) # {}
      BY <2>2, <3>3 DEF Ingested, Ingestion
    <3>4. CASE r = Attach
      BY <2>2, <3>4 DEF Ingested, Attach, TypeOK
    <3> QED
      BY <3>2, <3>3, <3>4
  <2>3. ASSUME NEW c \in Clis, Ingest(c)
        PROVE  i \in DOMAIN archive'.turns /\ archive'.turns[i] = archive.turns[i]
    <3>1. cli[c].request \in Ingestion \cup {Attach}
      BY <2>3, CliShape DEF Ingest, Sending
    <3> QED
      BY <2>1, <2>2, <2>3, <3>1 DEF Ingest
  <2>4. ASSUME NEW r \in orphans, IngestLate(r)
        PROVE  i \in DOMAIN archive'.turns /\ archive'.turns[i] = archive.turns[i]
    <3>1. r \in Ingestion \cup {Attach}
      BY DEF TypeOK
    <3> QED
      BY <2>1, <2>2, <2>4, <3>1 DEF IngestLate
  <2>5. Codex => archive' = archive
    BY DEF Codex, TurnStarts, ItemWritten, TurnEnds, Append1
  <2> QED
    BY <2>1, <2>3, <2>4, <2>5 DEF Next, Sync, ReadState, Parse, Answered, Abandoned, vars
<1> QED
  BY <1>1, SyncTypeCorrect, PTL DEF Spec, OutcomesStay
==============================================================================
