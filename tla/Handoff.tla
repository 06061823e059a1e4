------------------------------- MODULE Handoff -------------------------------
(* Moving a task between machines (apps/mcp/src/workflow/service.ts): start,    *)
(* checkpoint, continue and finish, against runs, Git slices and checkpoints    *)
(* on the server.  A working tree is a commit and the patch on top of it, and   *)
(* the hash of a patch tells patches apart.                                     *)
EXTENDS Integers, Sequences

CONSTANTS
    Machines,  \* checkouts bound to the project
    Commits,   \* commits every machine has
    Follows,   \* <<c, d>>: c is a proper ancestor of d
    Patches,   \* uncommitted changes
    Clean,     \* no uncommitted change
    MaxRuns,   \* bound: runs of the task
    MaxEdits   \* bound: changes people make to checkouts

VARIABLES
    tree,        \* the working tree of each machine
    file,        \* .git/anklav/state.json: the run, and whether it has a lease
    cmd,         \* the command running on each machine
    runs,        \* agent_runs of the task, in the order they started
    slice,       \* the latest row of git_slices of the task
    checkpoint,  \* the slice of the latest row of run_checkpoints, if it has one
    leased,      \* runs with a lease that is not released
    edits        \* changes people have made to checkouts

handoffVars == <<tree, file, cmd, runs, slice, checkpoint, leased, edits>>

Trees == [head : Commits, patch : Patches \cup {Clean}]
Slices == [head : Commits, patch : Patches \cup {Clean},
           dirty : {"clean", "dirty_captured", "dirty_missing"}]
NoSlice == [dirty |-> "none"]

(* What a command remembers: the checkout it inspected, then the slice it was   *)
(* given; a slice it captured; the run it started.                              *)
Idle == [at |-> "idle"]
Commands ==
    [at : {"inspected"}, git : Trees, edited : BOOLEAN]
    \cup [at : {"restoring", "ready"}, base : Slices \cup {NoSlice}, edited : BOOLEAN]
    \cup [at : {"captured"}, slice : Slices]
    \cup [at : {"started", "claimed"}, run : 1..MaxRuns]
    \cup [at : {"idle", "checkpointed", "released", "finished"}]

HandoffTypeOK ==
    /\ tree \in [Machines -> Trees]
    /\ file \in [Machines -> [run : 0..MaxRuns, lease : BOOLEAN]]
    /\ cmd \in [Machines -> Commands]
    /\ runs \in UNION {[1..n -> {"running", "ended"}] : n \in 0..MaxRuns}
    /\ {slice, checkpoint} \subseteq Slices \cup {NoSlice}
    /\ leased \subseteq 1..MaxRuns
    /\ edits \in 0..MaxEdits

HandoffInit ==
    /\ tree \in [Machines -> {t \in Trees : t.patch = Clean}]
    /\ file = [m \in Machines |-> [run |-> 0, lease |-> FALSE]]
    /\ cmd = [m \in Machines |-> Idle]
    /\ runs = <<>>
    /\ slice = NoSlice /\ checkpoint = NoSlice
    /\ leased = {}
    /\ edits = 0

------------------------------------------------------------------------------
Ancestor(c, d) == c = d \/ <<c, d>> \in Follows

(* gitSlice after capturePatch.                                                 *)
Captured(t) == [head |-> t.head, patch |-> t.patch,
                dirty |-> IF t.patch = Clean THEN "clean" ELSE "dirty_captured"]

Proceed(m, c) == cmd' = [cmd EXCEPT ![m] = c]
Server == <<runs, slice, checkpoint, leased>>
Other == <<Server, edits>>

(* Somebody edits, commits, stashes or checks out, also while a command runs.   *)
Person(m) ==
    /\ edits < MaxEdits /\ edits' = edits + 1
    /\ \E t \in Trees \ {tree[m]} : tree' = [tree EXCEPT ![m] = t]
    /\ cmd' = IF cmd[m].at \in {"inspected", "restoring", "ready"}
              THEN [cmd EXCEPT ![m].edited = TRUE] ELSE cmd
    /\ UNCHANGED <<file, Server>>

(* The process dies, or a call fails before it has an effect.                   *)
Die(m) ==
    /\ cmd[m] # Idle
    /\ Proceed(m, Idle)
    /\ UNCHANGED <<tree, file, Other>>

(* start reads no context pack; continue does, after it inspected the checkout. *)
(* Neither looks at the run that the state file may still name.                 *)
Start(m) ==
    /\ cmd[m] = Idle
    /\ Proceed(m, [at |-> "ready", base |-> NoSlice, edited |-> FALSE])
    /\ UNCHANGED <<tree, file, Other>>

Continue(m) ==
    /\ cmd[m] = Idle
    /\ Proceed(m, [at |-> "inspected", git |-> tree[m], edited |-> FALSE])
    /\ UNCHANGED <<tree, file, Other>>

(* The context pack: the slice of the latest checkpoint, or the task's latest   *)
(* slice when there is no checkpoint or it names none.                          *)
PackSlice == IF checkpoint # NoSlice THEN checkpoint ELSE slice

(* The conditions on which reconcile gives up.                                  *)
GivesUp(base, git) ==
    /\ base # NoSlice
    /\ \/ ~Ancestor(base.head, git.head)
       \/ base.dirty = "dirty_missing"
       \/ base.dirty = "dirty_captured" /\ git.patch \notin {Clean, base.patch}
       \/ base.dirty = "clean" /\ git.patch # Clean

Reconcile(m) ==
    LET git == cmd[m].git
        restores == PackSlice.dirty = "dirty_captured" /\ git.patch = Clean
    IN
    /\ cmd[m].at = "inspected"
    /\ IF GivesUp(PackSlice, git) THEN Proceed(m, Idle)
       ELSE Proceed(m, [at |-> IF restores THEN "restoring" ELSE "ready",
                        base |-> PackSlice, edited |-> cmd[m].edited])
    /\ UNCHANGED <<tree, file, Other>>

(* What git apply makes of a patch: on the clean commit it was taken from, the  *)
(* patch itself; anywhere else it is refused or leaves some difference.         *)
Applied(t, base) ==
    IF t = [head |-> base.head, patch |-> Clean] THEN {base.patch}
    ELSE Patches \cup {Clean}
MayRefuse(t, base) == t # [head |-> base.head, patch |-> Clean]

ReproducesAny(t, base) == TRUE  \* mutant: the restored tree is not inspected
Reproduces(t, base) == t.patch = base.patch

(* The patch is read back, applied, and the tree inspected again.               *)
RestorePatch(m) ==
    /\ cmd[m].at = "restoring"
    /\ \/ \E p \in Applied(tree[m], cmd[m].base) :
             LET t == [tree[m] EXCEPT !.patch = p] IN
             /\ tree' = [tree EXCEPT ![m] = t]
             /\ Proceed(m, IF Reproduces(t, cmd[m].base) THEN [cmd[m] EXCEPT !.at = "ready"]
                           ELSE Idle)
       \/ MayRefuse(tree[m], cmd[m].base) /\ Proceed(m, Idle) /\ UNCHANGED tree
    /\ UNCHANGED <<file, Other>>

(* start_run: the run and its starting slice in one transaction.                *)
StartRun(m) ==
    /\ cmd[m].at = "ready"
    /\ Len(runs) < MaxRuns
    /\ runs' = Append(runs, "running")
    /\ slice' = Captured(tree[m])
    /\ Proceed(m, [at |-> "started", run |-> Len(runs')])
    /\ UNCHANGED <<tree, file, checkpoint, leased, edits>>

(* claim_task_lease, not exclusive, releases the leases that have expired.      *)
ClaimLease(m) ==
    /\ cmd[m].at = "started"
    /\ \E expired \in SUBSET leased : leased' = (leased \ expired) \cup {cmd[m].run}
    /\ Proceed(m, [cmd[m] EXCEPT !.at = "claimed"])
    /\ UNCHANGED <<tree, file, runs, slice, checkpoint, edits>>

WriteStarted(m) ==
    /\ cmd[m].at = "claimed"
    /\ file' = [file EXCEPT ![m] = [run |-> cmd[m].run, lease |-> TRUE]]
    /\ Proceed(m, Idle)
    /\ UNCHANGED <<tree, Other>>

RunRuns(m) == file[m].run # 0 /\ runs[file[m].run] = "running"

(* checkpoint: capture_git_slice, create_run_checkpoint, release_task_lease and *)
(* the state file, one after the other.                                         *)
Checkpoint(m) ==
    /\ cmd[m] = Idle /\ RunRuns(m)
    /\ slice' = Captured(tree[m])
    /\ Proceed(m, [at |-> "captured", slice |-> slice'])
    /\ UNCHANGED <<tree, file, runs, checkpoint, leased, edits>>

CreateCheckpoint(m) ==
    /\ cmd[m].at = "captured"
    /\ checkpoint' = cmd[m].slice
    /\ Proceed(m, [at |-> "checkpointed"])
    /\ UNCHANGED <<tree, file, runs, slice, leased, edits>>

(* Releasing a lease that is gone fails, and the file keeps its name.           *)
ReleaseLease(m) ==
    /\ cmd[m].at = "checkpointed"
    /\ Proceed(m, IF file[m].lease => file[m].run \in leased THEN [at |-> "released"] ELSE Idle)
    /\ leased' = leased \ {r \in {file[m].run} : file[m].lease}
    /\ UNCHANGED <<tree, file, runs, slice, checkpoint, edits>>

WriteReleased(m) ==
    /\ cmd[m].at = "released"
    /\ file' = [file EXCEPT ![m].lease = FALSE]
    /\ Proceed(m, Idle)
    /\ UNCHANGED <<tree, Other>>

(* finish: finish_run takes the ending slice and releases the run's lease; the  *)
(* state file forgets the run afterwards.                                       *)
FinishRun(m) ==
    /\ cmd[m] = Idle /\ RunRuns(m)
    /\ slice' = Captured(tree[m])
    /\ runs' = [runs EXCEPT ![file[m].run] = "ended"]
    /\ leased' = leased \ {file[m].run}
    /\ Proceed(m, [at |-> "finished"])
    /\ UNCHANGED <<tree, file, checkpoint, edits>>

WriteFinished(m) ==
    /\ cmd[m].at = "finished"
    /\ file' = [file EXCEPT ![m] = [run |-> 0, lease |-> FALSE]]
    /\ Proceed(m, Idle)
    /\ UNCHANGED <<tree, Other>>

(* An agent calls the tools itself: a slice without its patch, or a checkpoint  *)
(* without a slice.                                                             *)
AgentSlice(m) ==
    /\ RunRuns(m)
    /\ slice' = [Captured(tree[m]) EXCEPT
                    !.dirty = IF @ = "clean" THEN "clean" ELSE "dirty_missing"]
    /\ UNCHANGED <<tree, file, cmd, runs, checkpoint, leased, edits>>

AgentCheckpoint(m) ==
    /\ file[m].run # 0
    /\ checkpoint' = NoSlice
    /\ UNCHANGED <<tree, file, cmd, runs, slice, leased, edits>>

HandoffNext == \E m \in Machines :
    \/ Person(m) \/ Die(m)
    \/ Start(m) \/ Continue(m) \/ Reconcile(m) \/ RestorePatch(m)
    \/ StartRun(m) \/ ClaimLease(m) \/ WriteStarted(m)
    \/ Checkpoint(m) \/ CreateCheckpoint(m) \/ ReleaseLease(m) \/ WriteReleased(m)
    \/ FinishRun(m) \/ WriteFinished(m)
    \/ AgentSlice(m) \/ AgentCheckpoint(m)

HandoffSpec == HandoffInit /\ [][HandoffNext]_handoffVars

------------------------------------------------------------------------------
(* A run that continues a task starts where the slice it was given left off: on *)
(* its commit or a later one, with exactly its uncommitted changes, unless      *)
(* somebody touched the checkout meanwhile.  This covers a continue after one   *)
(* that failed or died half way, with a patch applied and no run started.       *)
ContinuesFrom(base, start) ==
    /\ Ancestor(base.head, start.head)
    /\ start.patch = base.patch
    /\ base.dirty # "dirty_missing"

ContinuesFromSlice ==
    [][\A m \in Machines :
          Len(runs') > Len(runs) /\ cmd'[m].at = "started" /\ cmd[m].at = "ready"
             /\ cmd[m].base # NoSlice /\ ~cmd[m].edited
          => ContinuesFrom(cmd[m].base, slice')]_handoffVars
=============================================================================
