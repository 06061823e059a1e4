--------------------------- MODULE EmbeddingQueue ---------------------------
(* Derived documents and the queue that embeds them.  RetrievalService.refresh   *)
(* of apps/api/src/retrieval/service.ts derives a project's documents from its   *)
(* sources and queues one job per document and content without a vector.  The    *)
(* loop of retrieval/worker.ts calls EmbeddingWorkerService.runOnce, which       *)
(* claims jobs under a lease, embeds their texts and stores the vectors.         *)
(* Sources change, refreshes overlap, leases expire under a slow worker, the     *)
(* provider fails, workers die, members retry dead jobs.  One embedding profile, *)
(* always active.  A content stands for its hash.                                *)
EXTENDS Naturals, FiniteSets

CONSTANTS
    Docs,         \* places of derived documents: source and part
    Versions,     \* the contents each may have
    Absent,       \* no such source, no such document, no vector
    Refreshers,   \* refresh requests served at the same time
    Workers,      \* worker processes
    WorkerId,     \* the id each writes to locked_by
    Nobody,       \* locked_by is null
    MaxAttempts,  \* max_attempts
    Batch,        \* EMBEDDING_WORKER_BATCH_SIZE
    MaxIds        \* bound on the documents inserted at one place

Texts == UNION {Versions[d] : d \in Docs}

ASSUME EmbeddingAssumption ==
    /\ Absent \notin Texts
    /\ WorkerId \in [Workers -> {WorkerId[w] : w \in Workers}]
    /\ \A w \in Workers : WorkerId[w] # Nobody
    /\ MaxAttempts \in Nat \ {0}
    /\ Batch \in Nat \ {0}
    /\ MaxIds \in Nat \ {0}

VARIABLES
    doc,        \* retrieval_documents: content hash and row id
    embedding,  \* retrieval_embeddings: content_hash, and the text embedded
    jobs,       \* retrieval_embedding_jobs by place and content
    refresher,  \* the refreshes under way
    worker      \* the workers' runOnce calls

vars == <<doc, embedding, jobs, refresher, worker>>

(* ripe: run_after has passed (queued), locked_at is older than a lease (running)*)
Job == [status : {"none", "queued", "running", "completed", "dead", "superseded"},
        attempts : 0..MaxAttempts,
        lockedBy : {WorkerId[w] : w \in Workers} \cup {Nobody},
        ripe : BOOLEAN]
NoJob == [status |-> "none", attempts |-> 0, lockedBy |-> Nobody, ripe |-> FALSE]
NoVector == [hash |-> Absent, text |-> Absent]
JobId == [doc : Docs, id : 0..MaxIds, hash : Texts]
Item == [job : JobId, text : Texts, attempts : 0..MaxAttempts]

RunState == [phase : {"idle", "swept", "claimed", "loaded", "complete", "write", "drop",
                      "fail"},
             jobs : SUBSET JobId, items : SUBSET Item, todo : SUBSET Item]
Contents == Texts \cup {Absent}
Row == [hash : Contents, id : 0..MaxIds]
Found == [Docs -> Contents]
Quiet == [phase |-> "idle"]
Reading == [phase : {"read"}, found : Found, seen : [Docs -> Row]]
Idle == [phase |-> "idle", jobs |-> {}, items |-> {}, todo |-> {}]

TypeOK ==
    /\ doc \in [Docs -> Row]
    /\ embedding \in [Docs -> [hash : Contents, text : Contents]]
    /\ jobs \in [Docs \X Texts -> Job]
    /\ refresher \in [Refreshers -> {Quiet} \cup Reading]
    /\ worker \in [Workers -> RunState]

Init ==
    /\ doc = [d \in Docs |-> [hash |-> Absent, id |-> 0]]
    /\ embedding = [d \in Docs |-> NoVector]
    /\ jobs = [k \in Docs \X Texts |-> NoJob]
    /\ refresher = [r \in Refreshers |-> Quiet]
    /\ worker = [w \in Workers |-> Idle]

------------------------------------------------------------------------------
(* refresh reads the sources, which change freely, before its transaction and    *)
(* the documents at its start.                                                   *)
RefreshRead(r) ==
    /\ refresher[r].phase = "idle"
    /\ \E found \in Found :
         /\ \A d \in Docs : found[d] \in Versions[d] \cup {Absent}
         /\ refresher' = [refresher EXCEPT ![r] =
                [phase |-> "read", found |-> found, seen |-> doc]]
    /\ UNCHANGED <<doc, embedding, jobs, worker>>

(* A row whose hash differs from the one read is upserted; a row read and not    *)
(* derived again is deleted by its id.                                           *)
Indexed(d, found, seen) ==
    IF found[d] # Absent /\ found[d] # seen[d].hash
    THEN [hash |-> found[d],
          id |-> IF doc[d].hash = Absent THEN doc[d].id + 1 ELSE doc[d].id]
    ELSE IF found[d] = Absent /\ doc[d].id = seen[d].id
    THEN [doc[d] EXCEPT !.hash = Absent]
    ELSE doc[d]

Deleted(d, new) == new[d].hash = Absent

(* A job for every document without a vector of its content, ON CONFLICT DO      *)
(* NOTHING; the jobs of a deleted document go with it.                           *)
Unembedded(k, new, vectors) == k[2] = new[k[1]].hash /\ vectors[k[1]].hash # k[2]

Enqueued(k, new, vectors) ==
    IF Deleted(k[1], new) THEN NoJob
    ELSE IF Unembedded(k, new, vectors) /\ jobs[k].status = "none"
    THEN [NoJob EXCEPT !.status = "queued", !.ripe = TRUE]
    ELSE jobs[k]

RefreshCommit(r) ==
    LET new == [d \in Docs |-> Indexed(d, refresher[r].found, refresher[r].seen)]
        vectors == [d \in Docs |-> IF Deleted(d, new) THEN NoVector ELSE embedding[d]]
    IN
    /\ refresher[r].phase = "read"
    /\ \A d \in Docs : new[d].id <= MaxIds
    /\ doc' = new
    /\ embedding' = vectors
    /\ jobs' = [k \in Docs \X Texts |-> Enqueued(k, new, vectors)]
    /\ refresher' = [refresher EXCEPT ![r] = Quiet]
    /\ UNCHANGED worker

RefreshFails(r) ==
    /\ refresher[r].phase # "idle"
    /\ refresher' = [refresher EXCEPT ![r] = Quiet]
    /\ UNCHANGED <<doc, embedding, jobs, worker>>

RetryJob(k) ==
    /\ jobs[k].status = "dead"
    /\ jobs' = [jobs EXCEPT ![k].status = "queued", ![k].attempts = 0, ![k].ripe = TRUE]
    /\ UNCHANGED <<doc, embedding, refresher, worker>>

(* Time passes: a queued job's run_after, a running job's lease.                 *)
Ripen(k) ==
    /\ jobs[k].status \in {"queued", "running"} /\ ~jobs[k].ripe
    /\ jobs' = [jobs EXCEPT ![k].ripe = TRUE]
    /\ UNCHANGED <<doc, embedding, refresher, worker>>

------------------------------------------------------------------------------
(* The worker's statements.                                                      *)
Exhausted(j) ==
    /\ j.attempts >= MaxAttempts
    /\ j.status = "queued" \/ (j.status = "running" /\ j.ripe)

ClaimableQueued(j) ==  \* mutant: an expired lease is not reclaimed
    j.attempts < MaxAttempts /\ j.status = "queued" /\ j.ripe

Claimable(j) ==
    j.attempts < MaxAttempts /\ j.status \in {"queued", "running"} /\ j.ripe

Key(id) == <<id.doc, id.hash>>

Exists(id) == doc[id.doc].hash # Absent /\ doc[id.doc].id = id.id

LockedBy(w, id) == Exists(id) /\ jobs[Key(id)].lockedBy = WorkerId[w]

RunningAnyones(w, id) ==  \* mutant: locked_by is not compared
    Exists(id) /\ jobs[Key(id)].status = "running"

ById(w, id) == Exists(id)  \* mutant: the update's WHERE is the id alone

Mine(w, id) == LockedBy(w, id) /\ jobs[Key(id)].status = "running"

Settled(j, status) ==
    [j EXCEPT !.status = status, !.lockedBy = Nobody, !.ripe = FALSE]

Sweep(w) ==
    /\ worker[w].phase = "idle"
    /\ jobs' = [k \in Docs \X Texts |->
                   IF Exhausted(jobs[k]) THEN Settled(jobs[k], "dead") ELSE jobs[k]]
    /\ worker' = [worker EXCEPT ![w].phase = "swept"]
    /\ UNCHANGED <<doc, embedding, refresher>>

Claimed(w, j) ==
    [status |-> "running", attempts |-> j.attempts + 1, lockedBy |-> WorkerId[w],
     ripe |-> FALSE]

ClaimNothing(w) ==
    /\ worker[w].phase = "swept"
    /\ \A k \in Docs \X Texts : ~Claimable(jobs[k])
    /\ worker' = [worker EXCEPT ![w] = Idle]
    /\ UNCHANGED <<doc, embedding, jobs, refresher>>

Claim(w) ==
    LET ready == {k \in Docs \X Texts : Claimable(jobs[k])} IN
    /\ worker[w].phase = "swept"
    /\ \E batch \in SUBSET ready \ {{}} :
         /\ Cardinality(batch) <= Batch
         /\ Cardinality(batch) = Batch \/ batch = ready
         /\ jobs' = [k \in Docs \X Texts |->
                        IF k \in batch THEN Claimed(w, jobs[k]) ELSE jobs[k]]
         /\ worker' = [worker EXCEPT ![w].phase = "claimed", ![w].jobs =
                {[doc |-> k[1], id |-> doc[k[1]].id, hash |-> k[2]] : k \in batch}]
    /\ UNCHANGED <<doc, embedding, refresher>>

(* The claimed jobs joined with their documents as they are now.                 *)
OutdatedNever(id) == FALSE  \* mutant: the text is taken without comparing hashes

Outdated(id) == doc[id.doc].hash # id.hash

Load(w) ==
    LET rows == {id \in worker[w].jobs : Exists(id)}
        valid == {[job |-> id, text |-> doc[id.doc].hash, attempts |-> jobs[Key(id)].attempts] :
                      id \in {i \in rows : ~Outdated(i)}}
    IN
    /\ worker[w].phase = "claimed"
    /\ worker' = [worker EXCEPT ![w] =
            [phase |-> "loaded", jobs |-> {id \in rows : Outdated(id)},
             items |-> valid, todo |-> valid]]
    /\ UNCHANGED <<doc, embedding, jobs, refresher>>

Supersede(w) ==
    /\ worker[w].phase = "loaded"
    /\ \E id \in worker[w].jobs :
         /\ worker' = [worker EXCEPT ![w].jobs = @ \ {id}]
         /\ jobs' = IF LockedBy(w, id)
                    THEN [jobs EXCEPT ![Key(id)] = Settled(@, "superseded")]
                    ELSE jobs
    /\ UNCHANGED <<doc, embedding, refresher>>

(* processProfileBatch: the provider embeds the whole batch or throws; whatever  *)
(* throws on the way, every item of the batch is failed.                         *)
Embed(w) ==
    /\ worker[w].phase = "loaded" /\ worker[w].jobs = {}
    /\ \E phase \in {"complete", "fail"} :
         worker' = [worker EXCEPT ![w] =
             IF worker[w].items = {} THEN Idle ELSE [worker[w] EXCEPT !.phase = phase]]
    /\ UNCHANGED <<doc, embedding, jobs, refresher>>

Failing(w) == [worker[w] EXCEPT !.phase = "fail", !.todo = worker[w].items, !.jobs = {}]

Remaining(w, item) ==
    IF worker[w].todo = {item} THEN Idle
    ELSE [worker[w] EXCEPT !.todo = @ \ {item}, !.jobs = {},
                           !.phase = IF @ = "fail" THEN "fail" ELSE "complete"]

(* complete: the transaction reads job and document; worker.jobs keeps the item. *)
CompleteRead(w) ==
    /\ worker[w].phase = "complete"
    /\ \E item \in worker[w].todo :
         worker' = [worker EXCEPT ![w] =
             IF ~Mine(w, item.job) THEN Remaining(w, item)
             ELSE [worker[w] EXCEPT !.jobs = {item.job},
                       !.phase = IF Outdated(item.job) THEN "drop" ELSE "write"]]
    /\ UNCHANGED <<doc, embedding, jobs, refresher>>

(* ... and writes by id.  The vector of a deleted document violates its foreign  *)
(* key; any statement may fail.                                                  *)
CompleteWrite(w) ==
    /\ worker[w].phase = "write"
    /\ \E item \in worker[w].todo :
         /\ worker[w].jobs = {item.job}
         /\ Exists(item.job)
         /\ embedding' = [embedding EXCEPT ![item.job.doc] =
                             [hash |-> item.job.hash, text |-> item.text]]
         /\ jobs' = [jobs EXCEPT ![Key(item.job)] = Settled(@, "completed")]
         /\ worker' = [worker EXCEPT ![w] = Remaining(w, item)]
    /\ UNCHANGED <<doc, refresher>>

CompleteDrop(w) ==
    /\ worker[w].phase = "drop"
    /\ \E item \in worker[w].todo :
         /\ worker[w].jobs = {item.job}
         /\ jobs' = IF Exists(item.job)
                    THEN [jobs EXCEPT ![Key(item.job)] = Settled(@, "superseded")]
                    ELSE jobs
         /\ worker' = [worker EXCEPT ![w] = Remaining(w, item)]
    /\ UNCHANGED <<doc, embedding, refresher>>

CompleteFails(w) ==
    /\ worker[w].phase \in {"complete", "write", "drop"}
    /\ worker' = [worker EXCEPT ![w] = Failing(w)]
    /\ UNCHANGED <<doc, embedding, jobs, refresher>>

(* fail: the attempts are those read with the batch.                             *)
Fail(w) ==
    /\ worker[w].phase = "fail"
    /\ \E item \in worker[w].todo :
         /\ jobs' = IF Mine(w, item.job)
                    THEN [jobs EXCEPT ![Key(item.job)] =
                        Settled(@, IF item.attempts >= MaxAttempts THEN "dead" ELSE "queued")]
                    ELSE jobs
         /\ worker' = [worker EXCEPT ![w] = Remaining(w, item)]
    /\ UNCHANGED <<doc, embedding, refresher>>

(* The process ends, or runOnce throws and main exits; the container restarts.   *)
Crash(w) ==
    /\ worker[w].phase \notin {"idle", "swept"}
    /\ worker' = [worker EXCEPT ![w] = Idle]
    /\ UNCHANGED <<doc, embedding, jobs, refresher>>

------------------------------------------------------------------------------
RunOnce(w) ==
    \/ Sweep(w) \/ ClaimNothing(w) \/ Claim(w) \/ Load(w) \/ Supersede(w) \/ Embed(w)
    \/ CompleteRead(w) \/ CompleteWrite(w) \/ CompleteDrop(w) \/ CompleteFails(w)
    \/ Fail(w)

Refresh(r) == RefreshRead(r) \/ RefreshCommit(r) \/ RefreshFails(r)

Next ==
    \/ \E r \in Refreshers : Refresh(r)
    \/ \E k \in Docs \X Texts : RetryJob(k) \/ Ripen(k)
    \/ \E w \in Workers : RunOnce(w) \/ Crash(w)

Spec == Init /\ [][Next]_vars

(* Each worker keeps polling and time passes.                                    *)
FairSpec ==
    /\ Spec
    /\ \A w \in Workers : WF_vars(RunOnce(w))
    /\ \A k \in Docs \X Texts : WF_vars(Ripen(k))

------------------------------------------------------------------------------
(* A vector stored under a content hash was computed from the text that hashes   *)
(* to it, though the text is read in one statement, embedded outside any         *)
(* transaction and stored in another, while the document changes back and forth: *)
(* search trusts the hash alone.                                                 *)
VectorMatchesHash == \A d \in Docs : embedding[d].text = embedding[d].hash

(* Only a job that has used all its attempts is dead: a worker that lost its     *)
(* lease cannot bury a job a member has retried and another worker runs.         *)
DeadIsExhausted ==
    \A k \in Docs \X Texts : jobs[k].status = "dead" => jobs[k].attempts >= MaxAttempts

(* A completed or superseded job never runs again while its document lives,      *)
(* whichever item of its batch fails after it and however late a worker is.      *)
SettledStays ==
    [][\A k \in Docs \X Texts :
          jobs[k].status \in {"completed", "superseded"} =>
              jobs'[k].status \in {"completed", "superseded", "none"}]_vars

(* A queued or running job ends: completed, superseded, dead or removed with its *)
(* document, through provider failures, expired leases and lost workers.         *)
JobsEnd ==
    \A k \in Docs \X Texts :
        jobs[k].status \in {"queued", "running"} ~> jobs[k].status \notin {"queued", "running"}

(* After a refresh every document whose content has no vector has a job that     *)
(* will produce it or that a member can retry.                                   *)
EveryDocumentQueued ==
    \A d \in Docs :
        doc[d].hash \in {Absent, embedding[d].hash}
        \/ jobs[<<d, doc[d].hash>>].status \in {"queued", "running", "dead"}
=============================================================================
