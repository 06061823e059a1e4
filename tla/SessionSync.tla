----------------------------- MODULE SessionSync -----------------------------
(* Incremental upload of a Codex rollout to a native session.  The client side  *)
(* is HandoffWorkflow.sync of apps/mcp/src/workflow/service.ts: it reads its    *)
(* state file, parses the rollout as it is now, attaches the session, ingests   *)
(* the items past its cursor in batches and then a snapshot of the revision,    *)
(* and writes its progress after every answer.  The server side is              *)
(* ingestNativeSession of apps/api/src/execution/service.ts, one transaction    *)
(* under an advisory lock on the idempotency key and a lock on the session row. *)
(* Codex keeps appending to the rollout meanwhile, answers get lost, invocations*)
(* overlap, and a request the client gave up on may reach the server later.     *)
EXTENDS Naturals, Sequences, FiniteSets

CONSTANTS
    Outcomes,  \* how a turn may end: completed, interrupted
    Clis,      \* invocations of the client on one checkout
    Batch,     \* items per ingestion (100, less when the items are large)
    MaxLines,  \* bound on the records Codex writes to the rollout
    MaxLost    \* bound on the answers that are lost

ASSUME SyncAssumption ==
    /\ "running" \notin Outcomes
    /\ Batch \in Nat \ {0}
    /\ MaxLines \in Nat
    /\ MaxLost \in Nat

VARIABLES
    rollout,  \* what parsing the rollout file yields now
    archive,  \* the native session, its turns, items and ingestions on the server
    file,     \* .git/anklav/state.json
    cli,      \* the invocations in progress
    orphans,  \* requests in flight whose sender is gone
    lost      \* answers lost so far

vars == <<rollout, archive, file, cli, orphans, lost>>

Turns == Seq({"running"} \cup Outcomes)
Snapshot == [items : Seq(Nat), turns : Turns, revision : Nat]
State == [attached : BOOLEAN, cursor : Nat, revision : Nat]

(* The idempotency key and the source revision of a request name the same thing:*)
(* a range of items, or a revision of the file.  The hash covers the rest.      *)
Content == [from : Nat, to : Nat, turns : Turns, count : Nat, complete : BOOLEAN]
Key == [from : Nat, to : Nat, revision : Nat]
Attach == [kind |-> "attach"]
Nothing == [kind |-> "nothing"]
Ingestion == [kind : {"ingest"}, key : Key, content : Content, items : Seq(Nat)]

Idle == [phase |-> "idle"]
Reading == [phase : {"read"}, state : State]
Sending == [phase : {"sent", "stored"}, state : State, parsed : Snapshot,
            request : Ingestion \cup {Attach}]

TypeOK ==
    /\ rollout \in Snapshot
    /\ archive \in [attached : BOOLEAN, items : SUBSET (Nat \X Nat), turns : Turns,
                    status : {"pending", "ingesting", "complete"}, count : Nat,
                    ingestions : SUBSET [key : Key, content : Content]]
    /\ file \in State
    /\ cli \in [Clis -> Reading \cup Sending \cup {Idle}]
    /\ orphans \subseteq Ingestion \cup {Attach}
    /\ lost \in Nat

Init ==
    /\ rollout = [items |-> <<>>, turns |-> <<>>, revision |-> 1]
    /\ archive = [attached |-> FALSE, items |-> {}, turns |-> <<>>, status |-> "pending",
                  count |-> 0, ingestions |-> {}]
    /\ file = [attached |-> FALSE, cursor |-> 0, revision |-> 0]
    /\ cli = [c \in Clis |-> Idle]
    /\ orphans = {}
    /\ lost = 0

------------------------------------------------------------------------------
(* Codex appends a record: the session_meta line is revision 1.                 *)
Append1(items, turns) ==
    /\ rollout.revision < MaxLines
    /\ rollout' = [items |-> items, turns |-> turns, revision |-> rollout.revision + 1]
    /\ UNCHANGED <<archive, file, cli, orphans, lost>>

TurnStarts == Append1(rollout.items, Append(rollout.turns, "running"))

ItemWritten == Append1(Append(rollout.items, Len(rollout.turns)), rollout.turns)

TurnEnds(status) ==
    \E i \in DOMAIN rollout.turns :
        /\ rollout.turns[i] = "running"
        /\ Append1(rollout.items, [rollout.turns EXCEPT ![i] = status])

------------------------------------------------------------------------------
Least(a, b) == IF a < b THEN a ELSE b

Complete(parsed) ==
    parsed.turns # <<>> /\ \A i \in DOMAIN parsed.turns : parsed.turns[i] \in Outcomes

BatchRequest(state, parsed) ==
    LET to == Least(state.cursor + Batch, Len(parsed.items)) IN
    [kind |-> "ingest",
     key |-> [from |-> state.cursor, to |-> to, revision |-> 0],
     content |-> [from |-> state.cursor, to |-> to, turns |-> parsed.turns,
                  count |-> Len(parsed.items), complete |-> FALSE],
     items |-> SubSeq(parsed.items, state.cursor + 1, to)]

SnapshotRequest(state, parsed) ==
    [kind |-> "ingest",
     key |-> [from |-> 0, to |-> 0, revision |-> parsed.revision],
     content |-> [from |-> state.cursor, to |-> state.cursor, turns |-> parsed.turns,
                  count |-> Len(parsed.items), complete |-> Complete(parsed)],
     items |-> <<>>]

SnapshotFirst(state, parsed) ==  \* mutant: the snapshot precedes the batches
    IF ~state.attached THEN Attach
    ELSE IF state.revision # parsed.revision THEN SnapshotRequest(state, parsed)
    ELSE IF state.cursor < Len(parsed.items) THEN BatchRequest(state, parsed)
    ELSE Nothing

(* What syncWith and uploadParsedSession send next: the attachment, then        *)
(* batches, then the snapshot, then nothing.                                    *)
NextRequest(state, parsed) ==
    IF ~state.attached THEN Attach
    ELSE IF state.cursor < Len(parsed.items) THEN BatchRequest(state, parsed)
    ELSE IF state.revision # parsed.revision THEN SnapshotRequest(state, parsed)
    ELSE Nothing

Continued(state, parsed) ==
    IF NextRequest(state, parsed) = Nothing THEN Idle
    ELSE [phase |-> "sent", state |-> state, parsed |-> parsed,
          request |-> NextRequest(state, parsed)]

ProgressEarly(state, r) ==  \* mutant: the cursor moves to the end of the rollout
    IF r.kind = "attach" THEN [state EXCEPT !.attached = TRUE, !.cursor = 0]
    ELSE [state EXCEPT !.cursor = r.content.count,
                       !.revision = IF r.key.revision = 0 THEN @ ELSE r.key.revision]

ProgressNone(state, r) ==  \* mutant: the cursor never moves
    IF r.kind = "attach" THEN [state EXCEPT !.attached = TRUE, !.cursor = 0]
    ELSE [state EXCEPT !.revision = IF r.key.revision = 0 THEN @ ELSE r.key.revision]

Progress(state, r) ==
    IF r.kind = "attach" THEN [state EXCEPT !.attached = TRUE, !.cursor = 0]
    ELSE [state EXCEPT !.cursor = r.content.to,
                       !.revision = IF r.key.revision = 0 THEN @ ELSE r.key.revision]

ReadState(c) ==
    /\ cli[c] = Idle
    /\ cli' = [cli EXCEPT ![c] = [phase |-> "read", state |-> file]]
    /\ UNCHANGED <<rollout, archive, file, orphans, lost>>

Parse(c) ==
    /\ cli[c].phase = "read"
    /\ cli' = [cli EXCEPT ![c] = Continued(cli[c].state, rollout)]
    /\ UNCHANGED <<rollout, archive, file, orphans, lost>>

(* The answer arrives: the invocation writes its own copy of the state with the *)
(* progress it made, and goes on.                                               *)
Answered(c) ==
    /\ cli[c].phase = "stored"
    /\ file' = Progress(cli[c].state, cli[c].request)
    /\ cli' = [cli EXCEPT ![c] = Continued(file', cli[c].parsed)]
    /\ UNCHANGED <<rollout, archive, orphans, lost>>

(* The invocation dies, or loses its connection, with a request under way: the  *)
(* server may have handled it, or may handle it later.                          *)
Abandoned(c) ==
    /\ cli[c].phase \in {"sent", "stored"}
    /\ lost < MaxLost
    /\ lost' = lost + 1
    /\ orphans' = IF cli[c].phase = "sent" THEN orphans \cup {cli[c].request} ELSE orphans
    /\ cli' = [cli EXCEPT ![c] = Idle]
    /\ UNCHANGED <<rollout, archive, file>>

------------------------------------------------------------------------------
Stored(key) == {g \in archive.ingestions : g.key = key}

TurnConflictNever(r) == FALSE  \* mutant: a turn that has ended may change again

(* Turns keep their place; one that has ended keeps its status.                 *)
TurnConflict(r) ==
    \E i \in DOMAIN r.content.turns \cap DOMAIN archive.turns :
        archive.turns[i] \in Outcomes /\ archive.turns[i] # r.content.turns[i]

NewItemsShifted(r) ==  \* mutant: items numbered from the cursor, not past it
    {<<r.content.from + i - 1, r.items[i]>> : i \in DOMAIN r.items}
NewItems(r) == {<<r.content.from + i, r.items[i]>> : i \in DOMAIN r.items}

(* Items are immutable.                                                         *)
ItemConflict(r) == \E old \in archive.items, new \in NewItems(r) : old[1] = new[1] /\ old # new

UnknownTurn(r) ==
    \E i \in DOMAIN r.items : r.items[i] > Len(r.content.turns) /\ r.items[i] > Len(archive.turns)

MergedTurns(r) ==
    [i \in DOMAIN archive.turns \cup DOMAIN r.content.turns |->
        IF i \in DOMAIN r.content.turns THEN r.content.turns[i] ELSE archive.turns[i]]

Rejected(r) ==
    IF r.kind = "attach" THEN FALSE
    ELSE IF Stored(r.key) # {} THEN \E g \in Stored(r.key) : g.content # r.content
    ELSE TurnConflict(r) \/ ItemConflict(r) \/ UnknownTurn(r)

Ingested(r) ==
    IF r.kind = "attach" THEN [archive EXCEPT !.attached = TRUE]
    ELSE IF Stored(r.key) # {} THEN archive
    ELSE [archive EXCEPT
             !.items = @ \cup NewItems(r),
             !.turns = MergedTurns(r),
             !.status = IF r.content.complete THEN "complete" ELSE "ingesting",
             !.count = r.content.count,
             !.ingestions = @ \cup {[key |-> r.key, content |-> r.content]}]

(* A refusal ends the invocation; it writes nothing.                            *)
Ingest(c) ==
    /\ cli[c].phase = "sent"
    /\ \/ /\ Rejected(cli[c].request)
          /\ cli' = [cli EXCEPT ![c] = Idle]
          /\ UNCHANGED archive
       \/ /\ ~Rejected(cli[c].request)
          /\ cli' = [cli EXCEPT ![c].phase = "stored"]
          /\ archive' = Ingested(cli[c].request)
    /\ UNCHANGED <<rollout, file, orphans, lost>>

IngestLate(r) ==
    /\ orphans' = orphans \ {r}
    /\ archive' = IF Rejected(r) THEN archive ELSE Ingested(r)
    /\ UNCHANGED <<rollout, file, cli, lost>>

------------------------------------------------------------------------------
Codex == TurnStarts \/ ItemWritten \/ \E status \in Outcomes : TurnEnds(status)

Sync(c) == ReadState(c) \/ Parse(c) \/ Ingest(c) \/ Answered(c)

Next ==
    \/ Codex
    \/ \E c \in Clis : Sync(c) \/ Abandoned(c)
    \/ \E r \in orphans : IngestLate(r)

Spec == Init /\ [][Next]_vars

(* An invocation that runs makes progress; once none runs, anklav sync is       *)
(* invoked again.                                                               *)
SyncAgain == (\A c \in Clis : cli[c] = Idle) /\ \E c \in Clis : ReadState(c)

FairSpec ==
    /\ Spec
    /\ WF_vars(SyncAgain)
    /\ \A c \in Clis : WF_vars(Parse(c) \/ Ingest(c) \/ Answered(c))

------------------------------------------------------------------------------
(* The archived items are a prefix of the rollout's, without a gap, an overlap  *)
(* or a foreign item, although invocations overlap with different cursors and   *)
(* late requests are applied out of order.                                      *)
ArchiveIsPrefix ==
    /\ Cardinality(archive.items) <= Len(rollout.items)
    /\ archive.items = {<<i, rollout.items[i]>> : i \in 1..Cardinality(archive.items)}

(* The cursor in the state file never passes what the server holds: an upload   *)
(* that resumes from it skips nothing.                                          *)
CursorCovered ==
    /\ file.attached => archive.attached
    /\ file.cursor <= Cardinality(archive.items)

(* A session shown as complete holds every item its manifest counts.            *)
CompleteIsWhole == archive.status = "complete" => archive.count <= Cardinality(archive.items)

(* A turn that the server saw end keeps its outcome, whatever order requests    *)
(* with older snapshots of the turns are applied in.                            *)
OutcomesStay ==
    [][\A i \in DOMAIN archive.turns :
          archive.turns[i] \in Outcomes =>
              i \in DOMAIN archive'.turns /\ archive'.turns[i] = archive.turns[i]]_vars

Synced ==
    /\ Cardinality(archive.items) = Len(rollout.items)
    /\ archive.turns = rollout.turns

(* Invocations that never overlap and never lose an answer bring the archive    *)
(* up to the rollout.                                                           *)
Undisturbed == lost = 0 /\ Cardinality({c \in Clis : cli[c] # Idle}) <= 1
ConvergesUndisturbed == []Undisturbed => <>[]Synced

(* "It is incremental and safe to repeat." (docs/codex-handoff.md, anklav sync) *)
SyncConverges == <>[]Synced
==============================================================================
