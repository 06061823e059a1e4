# Anklav, specified and checked

TLA+ specifications of the Anklav work-control application: models of its
concurrent parts, TLC configurations that check them on small instances, and
proofs of their safety properties for every instance. The source is the
reference; every definition that models code is tied to its lines by the `map`
of `PROJECT.json`.

    tlc -config MCAccess.cfg MCAccess            # one run
    tlapm TaskLeaseProofs.tla                    # one proof module

## 1. The system

Anklav is a NestJS API over PostgreSQL (`apps/api`), a command line client that
hands Codex work over between computers (`apps/mcp`), a React application
(`apps/web`) and an optional embedding worker. The API is one Node process: its
handlers interleave at every `await`, and each statement outside a transaction
runs on its own pooled connection. PostgreSQL runs at READ COMMITTED: a
statement sees what was committed when it began, an UPDATE waits for a locked
row and tests its WHERE clause again on the row it gets. Whatever must be atomic
is made so by transactions, row locks, advisory locks, unique indexes and
version columns, and the hazards are where a decision is taken outside them.

| Component | State | Operations | Hard behaviour | Correct when |
|---|---|---|---|---|
| Task leases (`execution/service.ts`) | runs, leases with an expiry, path scope and release mark | start, finish, claim, renew, release | the run status and the clock are read before the transaction; sweep, renewal and release race; crash inside a claim | one lease per run, exclusive scopes disjoint, live leases not swept, only running holders |
| Native sessions (`execution/service.ts`, `apps/mcp/src/workflow/service.ts`) | archived turns and items, ingestion keys; cursor and revision in the client's state file | attach, ingest; sync, import | growing file, lost answers, overlapping invocations, late requests | archive is a gapless prefix, cursor never ahead, sync converges |
| Handoff (`apps/mcp/src/workflow/service.ts`, `execution/service.ts`) | checkout and state file of each machine; runs, slices, checkpoints | start, continue, checkpoint, finish | a person at the checkout, patches that do not apply, commands cut off between remote calls | a run that continues starts from the slice it was given |
| Task command stream (`resource/task-event.service.ts`, `task.service.ts`, `relation.service.ts`, `github/webhook.service.ts`) | task rows with a version, domain events, idempotency keys | create, update, review, delete, restore, webhook sync, rebuild | retries in flight, optimistic versions under waiting UPDATEs, nested connections, rebuild | rows are recorded, chains without gaps, keys effective once, every command answered |
| Relations and hierarchy (`relation.service.ts`, `task.service.ts`) | blocking pairs, parents, trash | relate, unrelate, reparent, trash | a path search of many statements, under a lock for relations and without one for parents | no short cycle; a cycle of parents only from a race |
| Identifiers (`project-flow.service.ts`, `base.service.ts`) | project keys, counters, identifiers, aliases | create and rename projects, create and move tasks | the key is read before the counter is taken | an identifier once given finds its task |
| Workspace (`workspace/service.ts`) | memberships, workflow states | add and update members; archive states | check then act on owners; records enter a state while it is archived | an owner remains, archived states stay empty |
| Accounts (`auth`) | users, sessions | setup, login, logout, password change, reset | hashing between read and write; login against password change | old sessions end with the old password |
| OAuth (`oauth`) | grants, codes, token families, open transactions | consent, exchange, refresh, revoke, authenticate | concurrent refresh, lost answers, a sweep on a second connection of a finite pool | one live refresh token, a replay ends the family, nothing else does, requests end |
| Client credentials (`apps/mcp`) | one file for all servers | login, refresh, logout | invocations share the file; the answer to a refresh may be lost | the stored token is the live one |
| Memory (`memory/service.ts`) | claims, decisions | propose, resolve, supersede | statuses read before the transaction | one accepted answer per question, successors stand |
| Evidence (`evidence`) | files named by their hash, rows, upload keys | record, persist, read | the file is outside the transaction; crashes and power losses | what is recorded can be read, an answer is about what was sent |
| Knowledge (`portfolio-knowledge`) | artifacts with revisions and verification; milestones | record, verify, promote, dispose, revise, relate; create, update, delete | several reads and a call to GitHub before the write | as if requests came one at a time |
| Portfolio import (`portfolio-import`) | batches, mappings, created objects | apply, resume, roll back | one transaction per object, interruption, edits between the test and the rollback | edits survive, what was made goes |
| Embedding queue (`retrieval`) | derived documents, jobs with a lease, embeddings | refresh, claim, complete, fail, retry | lease expiry with a slow provider, content changing under a job | no stale embedding, every current document embedded |
| GitHub jobs (`github`) | connection, repositories, deliveries, jobs | set up, disconnect, receive, maintain, reclaim, claim, process, retry | overlapping sweeps, look before insert, late failures, raw rows | one reconciliation pending, and a job does its work |
| Collaboration, activity feed, MCP tools, web, deployment | rows of their own, or none | | | see section 6 |

The components meet in few places. The command line client drives leases,
sessions and the handoff by remote calls, under tokens of the OAuth component.
GitHub webhooks are meant to become task commands, and a committed command to
queue a job for GitHub; as the code is, no job does anything (section 3). Every
handler draws from the one connection pool. The portfolio import writes task
rows that the command stream owns, without the domain events that belong to
them: a task that came by an import has a stream its rebuild refuses.

## 2. Modules

| Module | Models | Checked by | Proved in |
|---|---|---|---|
| `PathScope` | `pathsOverlap` over an abstract prefix relation | `access`, `lease_ended` | `TaskLeaseProofs` |
| `TaskLease` | leases and runs | `access`, `lease_ended` | `TaskLeaseProofs` |
| `SessionSync` | sync client, rollout and ingestion | `session_sync`, `session_sync_lost` | `SessionSyncProofs` |
| `TaskCommand` | rows, commands and events of tasks, as data | task runs | `TaskEventsProofs` |
| `TaskHistory` | abstract: what the command stream promises | refined by `TaskEvents` | `TaskEventsProofs` |
| `TaskEvents` | the command stream, its locks and its pool | `task_events`, `task_pool` | `TaskEventsProofs` |
| `EmbeddingQueue` | refresh of derived documents, embedding jobs and workers | `queues`, `embedding_ends`, `embedding_lost` | `EmbeddingQueueProofs` |
| `IntegrationJobs` | the jobs of the GitHub integration | `queues`, `integration_jobs` | `QueuesProofs` |
| `PortfolioImport` | import batches and their rollback | `queues` | `QueuesProofs` |
| `OAuthGrants` | grants, codes and token families | `client` | `ClientProofs` |
| `Accounts` | passwords and browser sessions | `access` | `AccessProofs` |
| `Membership` | members of a workspace | `access` | `AccessProofs` |
| `CliCredentials` | the client's credentials file, over `OAuthGrants` | `client` | `ClientProofs` |
| `Blocking` | blocking relations | `records` | `RecordsProofs` |
| `Hierarchy` | parents of tasks | `records` | `RecordsProofs` |
| `Identifiers` | project keys and task identifiers | `records` | `RecordsProofs` |
| `WorkflowStates` | archiving of states against records entering them | `records` | `RecordsProofs` |
| `Memory` | claims and decisions | `records` | `RecordsProofs` |
| `Handoff` | a task moving between machines | `records` | `RecordsProofs` |
| `Evidence` | uploads, files and rows | `records` | `RecordsProofs` |
| `KnowledgeRules` | abstract: artifacts and milestones served one request at a time | refined by `Knowledge` | `RecordsProofs` |
| `Knowledge` | the same with the reads and writes of each request | `records` | `RecordsProofs` |
| `MC...` | values of the constants for TLC, and sums of parts | | |

A definition marked `mutant` is no part of a specification: it is a plausible
bug in the definition below it, and the property named with it in
`PROJECT.json` fails when it takes that definition's place.

`MCAccess`, `MCRecords`, `MCQueues` and `MCClient` put several components in one
run. Each behaviour takes the steps of one of the parts. This loses nothing: no
guard of one part reads what another part writes, so a behaviour of all of them
together, looked at through the variables of one part, is a behaviour of that
part. The one thing several parts share is that a task exists or is in the
trash, and every part whose guards look at it has actions of its own that create,
delete and restore tasks. Where components do interact they are composed:
`CliCredentials` runs over `OAuthGrants`, whose calls are its remote requests,
and `TaskEvents` covers the webhook commands beside those of the API.

Many components decide on what they have read before the transaction that
writes. Where this can go wrong in the code, the property says so: it names the
race as an exception, by a variable that records that the race took place
(`raced`, `late`, `odd`, `causes`, `slips`, `mishap`, `contested`, `crowded`,
`changed`). TLC violates the property stated without it. The exceptions are listed
per module below.

### TaskLease

`run` is `agent_runs.status`, `lease` the table `task_leases`, `now` the clock
of the API process. `claim` and `renewal` hold what a handler has read so far.
`claimLease` is five steps, split where other handlers can run: `ClaimCheck`
(status, access rule, clock), `ClaimSweep` (task row lock, release of expired
leases), `ClaimSelect` (active leases), and one of `ClaimReplay`, `ClaimReject`,
`ClaimGrant`. The sweep becomes visible only when the transaction commits, so it
is kept in `claim[h].swept` until then; the swept rows are locked meanwhile, and
`RenewUpdate`, `ReleaseLease` and `FinishRun` wait for them. A rejected claim
rolls the sweep back. `Crash` drops every open transaction. A scope is a set of
paths because `normalizedPaths` sorts and removes duplicates; the string prefix
test is the relation `Under`, about which only what holds for strings is
assumed. `Covers` says independently which files a scope lets its holder write,
so `ExclusiveWriters` does not repeat `PathsOverlap`.

`RenewDelay` bounds the time between `renewLease` reading the clock and its
UPDATE, and a term is longer than it. This is an assumption about the
deployment, not a check in the code: the API accepts no term under a minute, and
an UPDATE that waits for a pooled connection or a row longer than that could
write an expiry that has already passed, between the sweep and the selection of
a claim. `OneLeasePerRun` rests on it.

### SessionSync

`rollout` is what parsing the rollout file yields: items (each the number of its
turn), turn states, and a revision that grows with the file. `archive` is the
session row with its items, turns, and the ingestions stored under their keys.
`file` is the state file, `cli` the invocations in progress, `orphans` the
requests whose sender has gone but which may still arrive. One invocation reads
the state file, parses, and then sends what `NextRequest` says until nothing is
left, writing its own copy of the state after every answer, which is how
overlapping invocations overwrite each other's cursor. The key of a request is
its range or its revision; the content compared under that key is everything
the server hashes. An ingestion is one step because it runs under an advisory
lock on the key and a lock on the session row.

### TaskCommand, TaskHistory, TaskEvents

A row is its version, its content (the columns an update sets, as one value) and
whether it is deleted. A command names the version its client read. `TaskEvents`
splits a command where it waits: `Begin` takes a pooled connection, `Lookup`
takes the advisory lock and looks the key up (replay, conflict or go on),
`ReadBefore` reads the task through a second connection, `Insert` or `Update`
changes the row under its lock with the WHERE clause tested on the row it then
has, `Commit` appends the event under the two unique indexes. A webhook reads
inside its transaction and needs no second connection. `Abort` is a failing
statement or a crash. `RebuildRead` and `RebuildWrite` are `rebuild`, which has
no caller in the source yet; it reads the stream unlocked and writes without a
version guard.

`TaskHistory` is the abstract specification: one variable, the set of events;
a key is used once, a task is created once, and a change extends the latest
state of its task by a legal command. `TaskEvents` implements it with `history`
mapped to `events` (`KeepsHistory`). What the history does not promise is as
telling: a rebuild that writes an older row makes the next command collide with
the version index instead of forking the chain, but because a restore reads
`deleted` before its UPDATE, "a restored task was deleted" is not among its
guarantees.

### EmbeddingQueue

`doc` is `retrieval_documents` by place (source and part): content hash and row
id, a new one each time the row is inserted again. `embedding` is
`retrieval_embeddings`, with the text the vector was computed from beside the
hash it is stored under. `jobs` is `retrieval_embedding_jobs` under its unique
key, `ripe` standing for the two times a claim compares with the clock.
`refresher` holds what a refresh has read: the sources, which may change in any
way, and then the documents; `RefreshCommit` upserts what differs from what was
read, deletes what is gone with its vector and jobs, and queues. `worker` is the
progress of `runOnce`, one action per statement or transaction read: `Sweep` and
`Claim` (`claimJobs`), `Load` (the join with the documents as they are by then),
`Supersede`, `Embed` (the provider answers for the batch or throws),
`CompleteRead` and `CompleteWrite` or `CompleteDrop` (a transaction that locks
nothing between reading and writing), `Fail` for one item after another.
`CompleteFails` is any error on the way, including the foreign key of a vector
whose document a refresh has deleted. `Crash` loses the batch; the jobs stay
running until their leases expire.

### OAuthGrants, CliCredentials

`tokens` holds an access and a refresh row as one pair, since they are always
inserted together. `call` is a request at the token endpoint. A rotation is a
guarded UPDATE (`Rotate`, `LoseRotation`, or `RowWait` first when the row is
locked) and a commit; a replay is answered by a sweep of the family on another
connection (`SweepBegin`, `SweepEnd`), which sees the rows committed when it
begins and waits for locked ones. `ReplayEndsFamily` excepts a rotation that
commits while the sweep runs: its new pair is not among the rows the sweep saw.
`begun` are the requests whose transaction is open: each keeps a connection of
the pool, and a statement outside a transaction needs one that is `Free`, also
when the request that issues it has a transaction open. `RevokeToken` is the
UPDATE of `revoke`; when the row is locked it waits on its connection
(`RevokeWait`, `Drop`). `CallsAnswered` excepts two ways in which rotations that
lost wait for ever (`service.ts:209-211`). In `SelfBlocked` one that had to wait
holds the row its own sweep, on the other connection, waits for. In `Starved` no
connection is free and every one of them is kept by a rotation that lost and
asks for a second, or by a request that waits for a row; with rotations alone,
as many as the pool has connections are enough, of any families. TLC violates
the property without either exception. `RevocationExplained` says that a family
is ended only if one of its refresh tokens was presented twice, which a client
whose answer was lost also does.

`CliCredentials` puts invocations of the command line client in front of it: a
file for all servers, read and rewritten whole, and a refresh before the call
when the access token is about to expire (an answer 401 is not retried).
`StoredTokenLive` excepts an origin with a `mishap`: a lost answer, a process
killed before it saved, or two invocations at once.

### Accounts, Membership

A password is the number of times it was set. A session carries the password it
was opened with, and `OldSessionsEnd` excepts a login whose INSERT came after
the deletion of the sessions by a change of the password it had checked.
`updateMember` reads, counts the active owners and updates in three statements;
`OwnerKept` excepts an update between the count and the write (`overlap`: two
owners demote each other) and `addMember` for the last owner (`added_again`: the
upsert lowers the role without a count).

### Blocking, Hierarchy, Identifiers

`Level` is one turn of the loop in `hasPath`, a query per level, while the
request holds the advisory lock. Deletions come without the lock, but remove
edges only. The loop ends after 100 levels (`MaxDepth`) with the answer that
there is no path, hence "short": a longer cycle is possible. `Climb` is one
turn of the loop in `ensureValidParent`, which holds nothing: two requests that
reparent at once close a cycle. `CyclesRaced` says that every non-empty set of
tasks whose parents are in the set again, as a cycle is, has a task in `raced`:
one whose parent was written after another one had been written since its walk
began.

A task takes the key its project had when `allocateTaskIdentifier` read it and
the next number when the counter is incremented. `IdentifierResolves` excepts
keys in `changed`: those a project gave up although tasks had been named after
them. `updateProject` refuses a new key only while a task is present in the
project (`project-flow.service.ts:182`). So a rename may commit while the first
task is being named, and it may come once all tasks of the project have been
moved away, when only their aliases keep the old key. That key may go to another
project, whose tasks then take identifiers already given, and an old identifier
leads to the wrong task, although it should stay resolvable
(`db/schema/work.ts:207`). The run has two projects, enough for the first case; with a
third TLC shows the second, and the proof covers any number.

### WorkflowStates, Memory

`PlaceRead` and `PlaceWrite` are the reading of a state and the insert or
versioned update that puts a record into it; archiving moves what it finds in
the state and commits. Only records written by a request that had read the
state before may be left in it (`late`). An archived task state has had no
tasks: moving tasks changes their rows, the trigger of migration 0011 demands a
domain event, and `archiveWorkflowState` writes none, so the commit fails
(`kind = "task" => rows = {}`).

`Memory` is one module for claims and decisions. `supersede` sets its
replacement accepted whatever has become of it, and whether or not it answers
the same question; `odd` collects the decisions accepted so.

### Handoff

`tree` is the working tree of each machine, `file` its `.git/anklav/state.json`,
`cmd` the command it runs: between any two remote calls or writes of the file
the command may die (`Die`). `Reconcile` is the test of the checkout against
the slice in the context pack, `RestorePatch` the application of the patch, which
yields the patch on the commit it was taken from and anything elsewhere.
`Person` edits the checkout at any time. `ContinuesFromSlice` excepts a checkout
somebody touched while the command ran. Leases are here as much as the commands
need; their expiry and exclusion are in `TaskLease`.

### Evidence

`disk` is what is stored under each hash: absent, torn, or whole; `unflushed`
the names a power loss may take back. The temporary file is written and flushed
in one step, then renamed and read back; the rows follow in a transaction.
`EvidenceReadable` excepts bytes whose name was lost, which the code does not
wait for (it flushes the file and not its directory). `AnswersMatch` excepts keys
two uploads of different bytes were under way with: the INSERT of the second
does nothing and it is answered with the artifact of the first.

### KnowledgeRules, Knowledge

`KnowledgeRules` is the abstract specification: what each request may do to a
record as it is when it is changed. In `Knowledge` a request reads the artifact,
then its reference and revisions, may ask GitHub for a file, and writes under
the version its client named; so all it decided on may be old. `ServedInTurn`
is the refinement: the version in the WHERE clause makes the rest of what was
read current. What it protects shows in a verification that fails: it leaves
`verification` as it was and takes the stamp away, and only the version keeps a
promotion that had read the stamp from using it. One artifact and one milestone
are enough, since relations between artifacts change nothing but a version.
An artifact made canonical stays so when its file is missing later.

### IntegrationJobs

`connection`, `repositories`, `stored` and `integration` are the tables of the
connection, its installed repositories, the deliveries and the jobs; `sweep` is
the progress of each `processJobs`, which the timer starts every four seconds
whether or not the last one has ended. Once a minute (`maintained`) a sweep does
the maintenance first: `Maintain` deletes and reads the connection, `Look` looks
for a pending reconciliation, `EnqueueReconcile` queues one. Then `Reclaim` takes
back jobs locked for ten minutes, `ClaimJobs` claims those that are due, and
`CompleteJob` or `FailJob` ends one after another, by its id alone and with the
attempts it was claimed with.

`RawRow` is what the claim returns: a raw `UPDATE ... RETURNING *`, whose rows
node-postgres names after the columns and the code casts to the type of the
schema, which has other names. So `ProcessJob`, which is what `processJob` does
to the repositories, finds no `connectionId` and returns at once, and the job is
marked completed. No job of any type does its work, no repository is ever
listed, none can be mapped to a project, no issue is created and no delivery
becomes a task command. What a job would do beyond that point is therefore not
modelled. `OneReconcile` is about the queue itself and holds whatever a job does,
but for `slips`: `slow` (a maintenance took more than a minute, so the next one
looks beside it), `revived` (a sweep that no longer had a settled job failed it)
and `retried` (an administrator queued a settled one again).

### PortfolioImport

A batch is imported in one transaction per source key, by as many requests as
retry it, any of which may stop. A rollback reads the batch, tests one created
object after the other for edits, and deletes them all in a transaction that does
not test again: `EditsKept` speaks of what had been edited when it began.
`RolledBackGone` excepts batches an apply of which ran beside the rollback
(`crowded`).

## 3. What the runs show

| Run | Instance | Result |
|---|---|---|
| `lease_ended` | 2 runs of 1 task, 2 lease rows, 2 claims and 1 renewal at once, mixed access terms | `HolderIsRunning` fails: a claim checked before `finishRun` is granted after it |
| `session_sync` | 2 invocations, batches of 1, 4 records, 1 lost answer | all properties hold |
| `session_sync_lost` | 1 invocation, batches of 2, 1 lost answer | `SyncConverges` fails: after a lost answer and one more record the key is refused for ever |
| `task_events` | 2 requests, 3 keys (1 client, 1 server, 1 of the migration), 6 commands, 3 connections | all properties hold |
| `task_pool` | the same with as many connections as requests | `CommandsAnswered` fails: each command waits for a connection the other holds |
| `queues` | embedding: 2 workers with batches of 1, 1 document with 2 contents and 2 row ids, 2 attempts; GitHub jobs: 2 sweeps, 3 jobs claimed by twos, 2 attempts, 2 faults; imports: 2 objects, 2 requests, 2 batches | all properties hold |
| `embedding_ends` | 1 worker with batches of 3, 2 documents, 3 jobs, 2 attempts | every job ends |
| `embedding_lost` | 1 worker, 1 document with 2 contents | `EveryDocumentQueued` fails: the job of the content the document returns to has ended already |
| `integration_jobs` | 2 repositories, 1 sweep, 3 jobs, no fault | `RepositoriesLoaded` fails: the job that loads the repositories is completed and none is loaded |
| `access` | leases: 2 runs of 1 task, 2 lease rows, 2 claims and 1 renewal at once, nested exclusive scopes, clock 0..2; accounts: 2 users, 4 requests, 3 passwords each, 1 restart; membership: 3 people, 3 requests | all properties hold |
| `client` | 3 requests and a pool of 2; a grant not yet given, with expiries and 1 restart; a grant in use, with neither; or 3 grants on 2 servers and the command line client | all properties hold |
| `records` | ten parts: relations and parents of 3 tasks, 2 projects with 3 keys, 3 states, 2 answers to each of 2 questions, 3 claims, 2 contents under 2 keys and 1 loss, 4 versions of an artifact or a milestone, 2 machines with 2 runs; 2 or 3 requests at once | all properties hold |

`lease_ended`, `session_sync_lost`, `task_pool`, `embedding_lost` and
`integration_jobs` each refute what a comment, a message or a document of the
repository says; `PROJECT.json`
quotes it under `findings`.

**Bounds.** Two handlers are enough for every pair of steps to interleave, and
all locks are pairwise. Two lease rows let a run hold, lose and ask for a lease
again and let two runs compete; a clock of three instants separates before, at
and after the expiry of a term of two. Four rollout records give a turn that
starts, two items and an end, hence two batches, a snapshot while the turn runs
and one after; `MaxLost` bounds lost answers, and one suffices for everything a
lost answer can cause to a batch. One legacy task and a task to create, with one
command of each kind and versions 1 to 3, make every pair of commands conflict
or follow. Two workers let a lost lease pass to another worker while its first
holder still answers; two contents let a document change and change back; two
attempts separate a retry from a last one; two row ids let a deleted document
return while a worker holds its job. Batches of one make the two workers share
two jobs; the other run claims every job at once, because the order in which
jobs are claimed (`run_after`) is not modelled and a member who retries for ever
could otherwise starve a job, which the code's order prevents. The runs have one
refresh at a time; the proofs have any number.

Three requests on one grant are an exchange or a refresh that wins, one that
loses, and a revocation or a third rotation; with two connections, two rotations
that lose take the pool. Four account requests are a setup, a login, a change
and a login or reset beside it; three password values separate a session one
change old from one two changes old. Three members and three requests let two
owners act on each other while a third is added. Three tasks close a cycle
longer than the walk of two levels looks at, and let a request see half of
another's work. Three workflow states let a replacement be archived itself, and
three requests put a record between two archivings. Two answers to each of two
questions let a supersession cross questions. Four versions let a client name
one that is two behind. Two machines, three patches and two runs give a run that
continues from another, a foreign patch, and none. Two sweeps overlap, three
jobs are a refresh, a reconciliation and one more, two attempts separate a retry
from a last one, and two faults let a job be taken back from a sweep that then
fails it.

The symmetry sets of `access`, `records`, `queues` and `lease_ended` permute
requests, tasks and values that no definition distinguishes; no run that checks
a liveness property uses one.

**Fairness.** `SessionSync`, `TaskEvents`, `EmbeddingQueue` and `MCClient` state
it. An invocation of the client that runs goes on, and sync is invoked again
when none runs: that is what "repeat it" means. PostgreSQL grants row and
advisory locks in the order of asking, and the pool gives connections in the
order of asking, so a step of a command that is enabled again and again is taken
(strong fairness of `Serve`); an answered request is finished. A request at the
token endpoint goes on when it can (weak fairness of `Served`): the event loop,
the database and the pool see to it, and as each request of the model is made
once, connections do not come and go before it for ever. An embedding worker
polls as long as the process runs and is restarted when it ends, and time
passes. Nothing is fair about Codex, people, clients, crashes, aborts, rebuilds
or the arrival of late requests.

**Deadlock.** It is checked in `task_events` and the embedding runs with one
worker. The other models stop when their bounds are used up (each request is
served once, versions, clocks and faults are bounded), and `task_pool` is about a
stop. That requests end is the subject of `CommandsAnswered`, `CallsAnswered` and
`JobsEnd`.

**Type invariants.** Each module has one. It is part of the inductive invariant
where there are proofs and was checked by TLC on the instances above; the runs
spend their time on the other properties.

## 4. What is proved

TLAPS proves every safety and action property of the passing runs, for every
value of the constants that meets the named assumptions (`LeaseAssumption`,
`PathsAssumption`, `CommandAssumption`, `PoolAssumption`, `EmbeddingAssumption`,
`FounderAssumption`, `OriginAssumption`, `NoParentAssumption`,
`NumberAssumption`, `UnkeyedAssumption`, `JobsAssumption`,
`ConnectionAssumption`, and those named with a theorem below). Few of the
properties are inductive alone: a handler acts on what it read some steps ago.
What is added says what such a memory is still worth.

* `TaskLeaseProofs`: `TypeCorrect`, `OneLease`, `Exclusive`, `LiveKept` and
  `ReleaseFinal`. `OneLeasePerRun` is not inductive: a claim grants on what it
  selected some steps ago. `IInv` adds that the row lock admits one claim transaction per task (`LockInv`), that
  every unreleased lease of its task which it has not swept is still live at the
  time it read and, once it has selected, among what it selected (`SweepInv`),
  and that the times read are past and a renewal's is at most `RenewDelay` old
  (`ClockInv`). Renewals, releases and run ends must not disturb the second part:
  they wait for swept rows, and a renewal only moves an expiry past the present,
  which is where `ClockInv` is needed. From it a granted lease is the only one of
  its run, and an exclusive one meets no overlapping writer; `OverlapSound` and
  `PathsAssumption` turn the overlap test into disjoint coverage. `LiveKept` needs
  that what a sweep holds had expired when its claim read the clock and has not
  been renewed since, as its row is locked (`SweptExpired`); `ReleaseFinal` looks
  at every way a row is written (`RowStep`).
* `SessionSyncProofs`: `SyncTypeCorrect`, `PrefixArchived`, `CursorSafe`,
  `CompleteWhole` and `OutcomesKept`. A state file, an invocation's copy of it and
  a stored ingestion claim no more than the server holds (`FileInv`, `CliInv`,
  `StoredInv`), and a request, its sender alive or not, carries the items of the
  rollout after a point that is no gap (`OrphanInv`, `Faithful`): so a late or
  repeated request extends the prefix or adds nothing. An old parse of the
  rollout is a prefix of it (`Extends`), since Codex only appends.
* `TaskEventsProofs`: `TypeCorrect`, `Recorded`, `KeysHeld`, `AnswersRecorded`,
  `Implements`. The inductive invariant `IInv` relates the requests to the
  stream: two requests past the lookup never share a key and two that have
  changed a row never share the row (`LockInv`), a looked-up key is used by no
  event (`KeyInv`), the state an applied request will commit is computed from
  what its locked row still is (`AppliedInv`), the versions of a stream are an
  interval without repetition (`StreamInv`), and a rebuild in progress holds a
  state of the stream (`RebuildInv`).
  The refinement follows step by step: `Commit` is a `Create` or a `Change` of
  the history, everything else stutters.

* `EmbeddingQueueProofs`: `TypeCorrect`, `VectorsMatch`, `DeadExhausted` and
  `SettledForGood`. `VectorsMatch` needs that the text of every item a worker
  holds is the one its job was queued for (`ItemInv`), which is what the
  comparison in `runOnce` establishes and nothing later disturbs; the second
  comparison, in `complete`, is not needed for it. `DeadExhausted` needs that as
  long as a worker still runs a job, the attempts it read are the job's
  (`HeldInv`): nobody else claims under its id, a retried job is not running, and
  a document inserted again has a new id. It assumes distinct worker ids. The
  code's default id is the process id, the same in every container; with a shared
  id the same model violates `DeadIsExhausted`.

* `AccessProofs`: `WorkspaceOwned` and `SessionsEnded`. `OwnerKept` needs that an
  update which takes an owner away had counted another one (`OwnerCounted`), who
  is still there unless requests overlapped. `OldSessionsEnd` needs that a reset
  has the row of its user to itself and, before it commits, has deleted or raced
  with every session of the user there is (`ResetAlone`).
* `ClientProofs`: of the server, `OAuthTypeCorrect`, `OneLive`, `ReplayEnds`,
  `RevokedForReason` and `RevokedUnused`, all from `OInv`, for a pool of any size. A
  code or a row has one request working on it (`Alone`); two requests that present a token, or one that
  presents a replaced one, are a second use of it (`PresentedTwice`); and what a
  sweep saw is all of the family that is not revoked yet, unless a rotation raced
  (`SweepSees`). Of the client, `StoredLive`, for a first grant at each server
  (`OneEach`). `CInv` is `OInv` with what invocations know: each pair is kept
  under the server that issued it (`CliKnown`); where nothing unforeseen happened
  one invocation at a time is at work for a server, and whoever writes the file
  has read what it holds (`OneByOne`); what an invocation has in hand is good, and
  what is stored is too or is about to be replaced (`AllGood`). The proof takes an
  invocation through each step of its request, which is why it rests on the whole
  invariant of the server.
* `RecordsProofs`, part by part:
  * `BlockingAcyclic`, assuming `Bounds` (`hasPath` looks at one level at least).
    `NoShortCycle` needs that at most one request is past the lock (`OneHolder`)
    and what its walk has shown of the relations as they are (`Walk`): it has not
    met the source, and what it has visited leads only to what it has visited or is
    about to, and covers every path from the target shorter than the levels walked.
    Deletions keep this, and nobody else inserts meanwhile, which is why only
    insertions need the lock. For the step that inserts, a shortest path is taken
    from a closed one (a set of numbers has a least, by the library's
    `WellFoundedInduction`) and the new relation is cut out of it.
  * `ArchivedEmpty`. The inductive invariant adds that the rows an archiving has
    moved are still in the state it found them in, that what else is in the state
    came late (`RowsHeld`), and that two archivings have moved different rows
    (`RowsApart`): the rows are locked.
  * `MemoryTypeCorrect`, `AnswersUnique` and `SuccessorsStand`. `SuccessorStands`
    is inductive because a supersession makes its replacement accepted in the same
    transaction: no set of superseded records can become closed.
  * `Readable` and `AnswersKept`, assuming that `Unknown` is no content. Nothing
    under a hash is ever torn, since bytes arrive by a rename; an upload that has
    checked its bytes can rely on them until the machine stops, which ends it
    (`StoredWhole`); rivals for a key are marked before either can insert
    (`RivalsContest`, `LateContest`).
  * `Serialized`, assuming that `Nothing` is no record. `Fits` is the invariant: a
    request has a version no newer than the record's, and when it is the record's,
    what it has read is the record. Every change increments the version. So a write
    whose WHERE clause is met was decided on the present, and is a step of
    `KnowledgeRules`; all other steps stutter.
  * `Acyclic`. A walk no parent was written beside has read a set of tasks, without
    the one it is for, in which every parent is in the set or the next to look at
    (`MovesSound`). When it ends at a task without a parent that set is closed and
    has no cycle, and the task it is for is put in front of it.
  * `Resolved`. Keys are unique, a task keeps every identifier it was given, as its
    own or as an alias (`NamesKept`), and an identifier under a key never given up
    was counted by the project that has the key (`NumbersCounted`), so nothing is
    given twice (`GivenOnce`).
  * `Continued`. On a checkout nobody touched, a command that goes on from a slice
    stands on its commit or a later one, and has its patch once it is ready
    (`GoesBy`).
* `QueuesProofs`: `Reconciles` for `IntegrationJobs`, `EditsSafe` and `Gone` for
  `PortfolioImport`.
  * `OneReconcile` needs that, unless something slipped, there is one sweep at most
    between the begin of its maintenance and its insert, that none is while another
    maintenance may begin, and that one about to insert is right that no
    reconciliation is pending (`Alone`); and that a sweep which completes, fails or
    takes back a job makes none pending that was not.
  * `ImportInv` says that an object at the version a batch made it at is as the
    batch left it (`AsMade`); that what a rollback may not delete is among what it
    has yet to test, and will be found changed (`Caught`); that whoever made a live
    object is on record (`OnRecord`); and that nobody imports for a batch rolled
    back alone (`Ended`).

`MigrationEvents`, the constants and the relation `Under` are arbitrary in these
proofs: any number of handlers, leases, keys, tasks, records and requests, any
pool.

Only model-checked are the liveness properties `ConvergesUndisturbed`,
`CommandsAnswered`, `CallsAnswered` and `JobsEnd`: liveness under fairness and what
is enabled are out of the prover's reach. The five refuted properties of section 3
are counterexamples and have no proof. A theorem says as much as its property: the
races a property excepts (section 2) are excepted in the proof too.

## 5. Abstractions

Authentication and membership checks are left out where they do not touch the
modelled state: a request that fails them changes nothing. Texts, hashes and
identifiers are values compared for equality; a hash is taken to be injective.
`hashtext` of an advisory lock may make two keys share a lock, which only makes
commands wait. A GitHub webhook that creates a task is a create command under a
server key; it needs one connection fewer than modelled. No delivery is
processed as the code is (`IntegrationJobs`), so the webhook commands of
`TaskEvents`, like `rebuild`, are modelled as they are written and not as they
are called.

There is one embedding profile and it is active: no code of the application
changes `embedding_profiles`. The transaction of a refresh is one step after its
first read, since it works on rows it has locked or on its own project, and the
two reads of `complete` are one step. `SKIP LOCKED` needs no state: a claim that
skips a row is a claim made just before or after the transaction that holds it.

In `OAuthGrants` and in `TaskEvents` the pool serves that component alone: other
handlers hold connections for a while and give them back, unless they nest too,
and so can only make a shortage come sooner. A `Consent` is one step, with the
touch of the client. `AuthenticateMcp` is the one SELECT that decides; the
transaction in which it then notes the last use is left out. In
`PortfolioImport` the reads of a transaction are one step with it, as is the
creation of the project the import needs. In `IntegrationJobs` the statements of
`completeSetup` and of `webhook` are one step each, the jobs of a sweep come in
any order, and there is one workspace. In `Handoff` the inspection of a
checkout, the capture of its patch and the call that sends it are one step, and
only the latest slice and checkpoint are kept; a machine runs one command at a
time. `Identifiers` has no trash for projects. `Knowledge` takes imported
artifacts for native ones, and a repository for listed although none is
(`IntegrationJobs`).

## 6. Not modelled

* Collaboration (checklists, labels, comments, convergence criteria): each
  operation is one guarded insert or update of a row of its own. Positions may
  repeat, and the code sorts by them and the identifier.
* The activity feed: its sequence numbers are allocated before commit, so a
  reader with a cursor could miss a row; but no reader in the repository keeps
  one.
* The MCP tool surface: scope checks and dispatch to services modelled here.
* Related and duplicate relations, repository links, flows and descriptive
  fields: single inserts and updates. Names, positions and initial-state flags of
  workflow states.
* Registration of OAuth clients and the pending authorization request, which end
  before a grant exists.
* Run events, checkpoints as history, `link`, `import-codex`, the creation of a
  task by `start`, `start --read-only`; the browser part of a login and the stdio bridge.
* Search, ranking and traces of retrieval: pure scoring over what is stored.
* The planning of an import, its drift and conflict rows, its report. Context
  packs and lists of knowledge are queries; the part of a context pack the
  client acts on is in `Handoff`.
* The work of GitHub's jobs (repositories, issues, pull requests, deliveries), which
  the code never reaches, and requests by hand for issues, reviews and merges, which
  need a listed repository.
* The web application, whose only state is a cache of answers, the containers,
  and the generated API client, which is types.

The last point is why the map covers a small share of the repository's lines: the
generated client alone is a quarter of them, and the views of the web application,
the request and answer types and the queries hold no state of their own.
