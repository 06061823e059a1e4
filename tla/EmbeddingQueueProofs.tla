------------------------ MODULE EmbeddingQueueProofs ------------------------
(* Proofs about EmbeddingQueue, for every number of documents, contents,         *)
(* refreshes, workers and attempts.                                              *)
EXTENDS EmbeddingQueue, TLAPS

Held(w) == worker[w].items \cup worker[w].todo

(* An item's text is the one its job was queued for, and its id is not that of a *)
(* document yet to come.                                                         *)
ItemInv ==
    \A w \in Workers : \A item \in Held(w) :
        /\ item.text = item.job.hash
        /\ item.job.id <= doc[item.job.doc].id

(* While a worker still runs a job, the attempts it read with its batch are the  *)
(* job's; it holds no batch when it claims one.                                  *)
HeldInv ==
    \A w \in Workers :
        /\ worker[w].phase \in {"idle", "swept", "claimed"} => Held(w) = {}
        /\ \A item \in Held(w) :
              Mine(w, item.job) => jobs[Key(item.job)].attempts = item.attempts

DistinctIds == \A v, w \in Workers : WorkerId[v] = WorkerId[w] => v = w

(* Facts about the helpers.                                                      *)
LEMMA SettledJob ==
    ASSUME NEW j \in Job, NEW status \in {"queued", "completed", "dead", "superseded"}
    PROVE  /\ Settled(j, status) \in Job
           /\ Settled(j, status).status = status
           /\ Settled(j, status).attempts = j.attempts
BY DEF Settled, Job

LEMMA Attempts == 0 \in 0..MaxAttempts /\ MaxAttempts \in Nat /\ MaxIds \in Nat /\ 0 \in 0..MaxIds
BY EmbeddingAssumption DEF EmbeddingAssumption

LEMMA NoJobType ==
    /\ NoJob \in Job
    /\ [NoJob EXCEPT !.status = "queued", !.ripe = TRUE] \in Job
BY Attempts DEF NoJob, Job

LEMMA IdleState == Idle \in RunState /\ Idle.items = {} /\ Idle.todo = {} /\ Idle.jobs = {}
BY DEF Idle, RunState

LEMMA RemainingState ==
    ASSUME NEW w \in Workers, worker[w] \in RunState, NEW item
    PROVE  /\ Remaining(w, item) \in RunState
           /\ Remaining(w, item).items \subseteq worker[w].items
           /\ Remaining(w, item).todo \subseteq worker[w].todo
<1>1. CASE worker[w].todo = {item}
  BY <1>1, IdleState DEF Remaining
<1>2. CASE worker[w].todo # {item}
  BY <1>2 DEF Remaining, RunState
<1> QED BY <1>1, <1>2

LEMMA FailingState ==
    ASSUME NEW w \in Workers, worker[w] \in RunState
    PROVE  /\ Failing(w) \in RunState
           /\ Failing(w).items = worker[w].items
           /\ Failing(w).todo = worker[w].items
BY DEF Failing, RunState

------------------------------------------------------------------------------
(* Type correctness.                                                             *)
LEMMA TypeRefresh ==
    ASSUME TypeOK, NEW r \in Refreshers, Refresh(r)
    PROVE  TypeOK'
<1>1. CASE RefreshRead(r)
  BY <1>1 DEF RefreshRead, TypeOK, Reading
<1>2. CASE RefreshCommit(r)
  <2> DEFINE new == [d \in Docs |-> Indexed(d, refresher[r].found, refresher[r].seen)]
             vectors == [d \in Docs |-> IF Deleted(d, new) THEN NoVector ELSE embedding[d]]
  <2>1. refresher[r] \in Reading
    BY <1>2 DEF RefreshCommit, TypeOK, Quiet
  <2>2. ASSUME NEW d \in Docs PROVE new[d] \in Row
    <3>1. new[d].id <= MaxIds
      BY <1>2 DEF RefreshCommit
    <3>2. doc[d] \in Row /\ refresher[r].found[d] \in Contents
      BY <2>1 DEF TypeOK, Reading, Found
    <3>3. new[d] = Indexed(d, refresher[r].found, refresher[r].seen)
      OBVIOUS
    <3>4. Absent \in Contents
      BY DEF Contents
    <3>5. MaxIds \in Nat
      BY Attempts
    <3> HIDE DEF new
    <3> QED BY <3>1, <3>2, <3>3, <3>4, <3>5 DEF Indexed, Row
  <2>3. doc' \in [Docs -> Row]
    BY <1>2, <2>2 DEF RefreshCommit
  <2>4. embedding' \in [Docs -> [hash : Contents, text : Contents]]
    <3>1. NoVector \in [hash : Contents, text : Contents]
      BY DEF NoVector, Contents
    <3>2. embedding' = vectors
      BY <1>2 DEF RefreshCommit
    <3> QED BY <3>1, <3>2 DEF TypeOK
  <2>5. jobs' \in [Docs \X Texts -> Job]
    <3>2. jobs' = [k \in Docs \X Texts |-> Enqueued(k, new, vectors)]
      BY <1>2 DEF RefreshCommit
    <3>3. ASSUME NEW k \in Docs \X Texts PROVE Enqueued(k, new, vectors) \in Job
      BY NoJobType DEF Enqueued, TypeOK
    <3> QED BY <3>2, <3>3
  <2>6. refresher' \in [Refreshers -> {Quiet} \cup Reading] /\ worker' \in [Workers -> RunState]
    BY <1>2 DEF RefreshCommit, TypeOK
  <2> QED BY <2>3, <2>4, <2>5, <2>6 DEF TypeOK
<1>3. CASE RefreshFails(r)
  BY <1>3 DEF RefreshFails, TypeOK
<1> QED BY <1>1, <1>2, <1>3 DEF Refresh

LEMMA TypeTime ==
    ASSUME TypeOK, NEW k \in Docs \X Texts, RetryJob(k) \/ Ripen(k)
    PROVE  TypeOK'
<1>1. jobs[k] \in Job
  BY DEF TypeOK
<1>2. jobs' \in [Docs \X Texts -> Job]
  <2>1. CASE RetryJob(k)
    <3>1. [jobs[k] EXCEPT !.status = "queued", !.attempts = 0, !.ripe = TRUE] \in Job
      BY <1>1, Attempts DEF Job
    <3> QED BY <2>1, <3>1 DEF RetryJob, TypeOK
  <2>2. CASE Ripen(k)
    <3>1. [jobs[k] EXCEPT !.ripe = TRUE] \in Job
      BY <1>1 DEF Job
    <3> QED BY <2>2, <3>1 DEF Ripen, TypeOK
  <2> QED BY <2>1, <2>2
<1> QED BY <1>2 DEF RetryJob, Ripen, TypeOK

LEMMA TypeRun ==
    ASSUME TypeOK, NEW w \in Workers, RunOnce(w) \/ Crash(w)
    PROVE  TypeOK'
<1> USE DEF TypeOK
<1>0. worker[w] \in RunState
  OBVIOUS
<1>k. ASSUME NEW id \in JobId PROVE Key(id) \in Docs \X Texts
  BY DEF Key, JobId
<1>1. CASE Sweep(w)
  <2>1. jobs' \in [Docs \X Texts -> Job]
    <3>1. ASSUME NEW k \in Docs \X Texts PROVE Settled(jobs[k], "dead") \in Job
      BY SettledJob
    <3> QED BY <1>1, <3>1 DEF Sweep
  <2>2. [worker[w] EXCEPT !.phase = "swept"] \in RunState
    BY <1>0 DEF RunState
  <2> QED BY <1>1, <2>1, <2>2 DEF Sweep
<1>2. CASE ClaimNothing(w)
  BY <1>2, IdleState DEF ClaimNothing
<1>3. CASE Claim(w)
  <2>1. PICK batch \in SUBSET {k \in Docs \X Texts : Claimable(jobs[k])} :
          /\ jobs' = [k \in Docs \X Texts |->
                        IF k \in batch THEN Claimed(w, jobs[k]) ELSE jobs[k]]
          /\ worker' = [worker EXCEPT ![w].phase = "claimed", ![w].jobs =
                {[doc |-> k[1], id |-> doc[k[1]].id, hash |-> k[2]] : k \in batch}]
    BY <1>3 DEF Claim
  <2>2. ASSUME NEW k \in batch PROVE Claimed(w, jobs[k]) \in Job
    <3>1. jobs[k] \in Job /\ jobs[k].attempts < MaxAttempts /\ MaxAttempts \in Nat
      BY Attempts DEF Claimable
    <3>2. jobs[k].attempts + 1 \in 0..MaxAttempts
      BY <3>1 DEF Job
    <3> QED BY <3>2 DEF Claimed, Job
  <2>3. jobs' \in [Docs \X Texts -> Job]
    BY <2>1, <2>2
  <2>4. {[doc |-> k[1], id |-> doc[k[1]].id, hash |-> k[2]] : k \in batch} \in SUBSET JobId
    BY DEF JobId, Row
  <2>5. worker' \in [Workers -> RunState]
    BY <1>0, <2>1, <2>4 DEF RunState
  <2> QED BY <1>3, <2>3, <2>5 DEF Claim
<1>4. CASE Load(w)
  <2> DEFINE rows == {id \in worker[w].jobs : Exists(id)}
             stale == {id \in rows : Outdated(id)}
             valid == {[job |-> id, text |-> doc[id.doc].hash,
                        attempts |-> jobs[Key(id)].attempts] : id \in {i \in rows : ~Outdated(i)}}
  <2>1. rows \subseteq JobId
    BY <1>0 DEF RunState
  <2>2. valid \in SUBSET Item
    <3>1. ASSUME NEW id \in rows, ~Outdated(id)
          PROVE  [job |-> id, text |-> doc[id.doc].hash,
                  attempts |-> jobs[Key(id)].attempts] \in Item
      <4>1. id \in JobId /\ doc[id.doc].hash \in Texts
        BY <2>1, <3>1 DEF Outdated, JobId
      <4>2. jobs[Key(id)].attempts \in 0..MaxAttempts
        BY <4>1, <1>k DEF Job
      <4> QED BY <4>1, <4>2 DEF Item
    <3> QED BY <3>1
  <2>3. [phase |-> "loaded", jobs |-> stale, items |-> valid, todo |-> valid] \in RunState
    <3>1. stale \in SUBSET JobId
      BY <2>1
    <3> HIDE DEF stale, valid
    <3> QED BY <2>2, <3>1 DEF RunState
  <2> QED BY <1>4, <2>3 DEF Load
<1>5. CASE Supersede(w)
  <2>1. PICK id \in worker[w].jobs :
          /\ worker' = [worker EXCEPT ![w].jobs = @ \ {id}]
          /\ jobs' = IF LockedBy(w, id)
                     THEN [jobs EXCEPT ![Key(id)] = Settled(@, "superseded")] ELSE jobs
    BY <1>5 DEF Supersede
  <2>2. Key(id) \in Docs \X Texts
    BY <1>0, <1>k DEF RunState
  <2>3. jobs' \in [Docs \X Texts -> Job]
    BY <2>1, <2>2, SettledJob
  <2>4. worker' \in [Workers -> RunState]
    BY <1>0, <2>1 DEF RunState
  <2> QED BY <1>5, <2>3, <2>4 DEF Supersede
<1>6. CASE Embed(w)
  <2>1. PICK phase \in {"complete", "fail"} :
          worker' = [worker EXCEPT ![w] =
             IF worker[w].items = {} THEN Idle ELSE [worker[w] EXCEPT !.phase = phase]]
    BY <1>6 DEF Embed
  <2>2. [worker[w] EXCEPT !.phase = phase] \in RunState
    BY <1>0 DEF RunState
  <2> QED BY <1>6, <2>1, <2>2, IdleState DEF Embed
<1>7. CASE CompleteRead(w)
  <2>1. PICK item \in worker[w].todo :
          worker' = [worker EXCEPT ![w] =
             IF ~Mine(w, item.job) THEN Remaining(w, item)
             ELSE [worker[w] EXCEPT !.jobs = {item.job},
                       !.phase = IF Outdated(item.job) THEN "drop" ELSE "write"]]
    BY <1>7 DEF CompleteRead
  <2>2. item.job \in JobId
    BY <1>0 DEF RunState, Item
  <2>3. [worker[w] EXCEPT !.jobs = {item.job},
                       !.phase = IF Outdated(item.job) THEN "drop" ELSE "write"] \in RunState
    BY <1>0, <2>2 DEF RunState
  <2>4. worker' \in [Workers -> RunState]
    BY <1>0, <2>1, <2>3, RemainingState
  <2> QED BY <1>7, <2>4 DEF CompleteRead
<1>8. CASE CompleteWrite(w)
  <2>1. PICK item \in worker[w].todo :
         /\ embedding' = [embedding EXCEPT ![item.job.doc] =
                             [hash |-> item.job.hash, text |-> item.text]]
         /\ jobs' = [jobs EXCEPT ![Key(item.job)] = Settled(@, "completed")]
         /\ worker' = [worker EXCEPT ![w] = Remaining(w, item)]
    BY <1>8 DEF CompleteWrite
  <2>2. item \in Item /\ item.job \in JobId
    BY <1>0 DEF RunState, Item
  <2>3. Key(item.job) \in Docs \X Texts
    BY <2>2, <1>k
  <2>4. jobs' \in [Docs \X Texts -> Job]
    BY <2>1, <2>3, SettledJob
  <2>5. worker' \in [Workers -> RunState]
    BY <1>0, <2>1, RemainingState
  <2>6. [hash |-> item.job.hash, text |-> item.text] \in [hash : Contents, text : Contents]
    BY <2>2 DEF Item, JobId, Contents
  <2>7. embedding' \in [Docs -> [hash : Contents, text : Contents]]
    BY <2>1, <2>6
  <2> QED BY <1>8, <2>4, <2>5, <2>7 DEF CompleteWrite
<1>9. CASE CompleteDrop(w)
  <2>1. PICK item \in worker[w].todo :
         /\ jobs' = IF Exists(item.job)
                    THEN [jobs EXCEPT ![Key(item.job)] = Settled(@, "superseded")]
                    ELSE jobs
         /\ worker' = [worker EXCEPT ![w] = Remaining(w, item)]
    BY <1>9 DEF CompleteDrop
  <2>2. Key(item.job) \in Docs \X Texts
    BY <1>0, <1>k DEF RunState, Item
  <2>3. jobs' \in [Docs \X Texts -> Job]
    BY <2>1, <2>2, SettledJob
  <2>4. worker' \in [Workers -> RunState]
    BY <1>0, <2>1, RemainingState
  <2> QED BY <1>9, <2>3, <2>4 DEF CompleteDrop
<1>10. CASE CompleteFails(w)
  BY <1>0, <1>10, FailingState DEF CompleteFails
<1>11. CASE Fail(w)
  <2>1. PICK item \in worker[w].todo :
         /\ jobs' = IF Mine(w, item.job)
                    THEN [jobs EXCEPT ![Key(item.job)] =
                        Settled(@, IF item.attempts >= MaxAttempts THEN "dead" ELSE "queued")]
                    ELSE jobs
         /\ worker' = [worker EXCEPT ![w] = Remaining(w, item)]
    BY <1>11 DEF Fail
  <2>2. Key(item.job) \in Docs \X Texts
    BY <1>0, <1>k DEF RunState, Item
  <2>3. jobs' \in [Docs \X Texts -> Job]
    <3> DEFINE status == IF item.attempts >= MaxAttempts THEN "dead" ELSE "queued"
    <3>1. status \in {"dead", "queued"}
      OBVIOUS
    <3>2. jobs' = IF Mine(w, item.job)
                  THEN [jobs EXCEPT ![Key(item.job)] = Settled(@, status)] ELSE jobs
      BY <2>1
    <3> HIDE DEF status
    <3> QED BY <2>2, <3>1, <3>2, SettledJob
  <2>4. worker' \in [Workers -> RunState]
    BY <1>0, <2>1, RemainingState
  <2> QED BY <1>11, <2>3, <2>4 DEF Fail
<1>12. CASE Crash(w)
  BY <1>12, IdleState DEF Crash
<1> QED BY <1>1, <1>2, <1>3, <1>4, <1>5, <1>6, <1>7, <1>8, <1>9, <1>10, <1>11, <1>12
        DEF RunOnce

LEMMA TypeStep == TypeOK /\ [Next]_vars => TypeOK'
<1> SUFFICES ASSUME TypeOK, [Next]_vars PROVE TypeOK'
  OBVIOUS
<1>1. CASE UNCHANGED vars
  BY <1>1 DEF vars, TypeOK
<1>2. CASE Next
  BY <1>2, TypeRefresh, TypeTime, TypeRun DEF Next
<1> QED BY <1>1, <1>2

(* Every reachable state is well typed; in particular no job is claimed more     *)
(* often than max_attempts between two retries by a member.                      *)
THEOREM TypeCorrect == Spec => []TypeOK
<1>1. Init => TypeOK
  <2>1. [hash |-> Absent, id |-> 0] \in Row /\ NoVector \in [hash : Contents, text : Contents]
    BY Attempts DEF Row, Contents, NoVector
  <2> QED BY <2>1, NoJobType, IdleState DEF Init, TypeOK
<1> QED BY <1>1, TypeStep, PTL DEF Spec

------------------------------------------------------------------------------
(* Vectors.                                                                      *)

(* Only Load gives a worker items it did not hold.                               *)
LEMMA ItemsKept ==
    ASSUME TypeOK, NEW w \in Workers, RunOnce(w) \/ Crash(w), ~Load(w)
    PROVE  doc' = doc /\ \A v \in Workers : Held(v)' \subseteq Held(v)
<1> USE DEF TypeOK, Held
<1>0. worker[w] \in RunState
  OBVIOUS
<1>1. CASE Sweep(w) \/ Claim(w) \/ Supersede(w)
  <2>1. CASE Sweep(w)
    BY <1>0, <2>1 DEF Sweep, RunState
  <2>2. CASE Claim(w)
    <3>1. PICK ids : worker' = [worker EXCEPT ![w].phase = "claimed", ![w].jobs = ids]
      BY <2>2 DEF Claim
    <3> QED BY <1>0, <2>2, <3>1 DEF Claim, RunState
  <2>3. CASE Supersede(w)
    <3>1. PICK id : worker' = [worker EXCEPT ![w].jobs = @ \ {id}]
      BY <2>3 DEF Supersede
    <3> QED BY <1>0, <2>3, <3>1 DEF Supersede, RunState
  <2> QED BY <1>1, <2>1, <2>2, <2>3
<1>6. CASE Embed(w)
  <2>1. PICK phase : worker' = [worker EXCEPT ![w] =
             IF worker[w].items = {} THEN Idle ELSE [worker[w] EXCEPT !.phase = phase]]
    BY <1>6 DEF Embed
  <2> QED BY <1>0, <1>6, <2>1, IdleState DEF Embed, RunState
<1>2. CASE ClaimNothing(w) \/ Crash(w)
  BY <1>0, <1>2, IdleState DEF ClaimNothing, Crash
<1>3. CASE CompleteRead(w)
  <2>1. PICK item \in worker[w].todo :
          worker' = [worker EXCEPT ![w] =
             IF ~Mine(w, item.job) THEN Remaining(w, item)
             ELSE [worker[w] EXCEPT !.jobs = {item.job},
                       !.phase = IF Outdated(item.job) THEN "drop" ELSE "write"]]
    BY <1>3 DEF CompleteRead
  <2>2. [worker[w] EXCEPT !.jobs = {item.job},
             !.phase = IF Outdated(item.job) THEN "drop" ELSE "write"].items = worker[w].items
    BY <1>0 DEF RunState
  <2>3. [worker[w] EXCEPT !.jobs = {item.job},
             !.phase = IF Outdated(item.job) THEN "drop" ELSE "write"].todo = worker[w].todo
    BY <1>0 DEF RunState
  <2>4. Held(w)' \subseteq Held(w)
    BY <1>0, <2>1, <2>2, <2>3, RemainingState
  <2> QED BY <1>3, <2>1, <2>4 DEF CompleteRead
<1>4. CASE CompleteWrite(w) \/ CompleteDrop(w) \/ Fail(w)
  <2>1. PICK item : worker' = [worker EXCEPT ![w] = Remaining(w, item)]
    BY <1>4 DEF CompleteWrite, CompleteDrop, Fail
  <2> QED BY <1>0, <1>4, <2>1, RemainingState DEF CompleteWrite, CompleteDrop, Fail
<1>5. CASE CompleteFails(w)
  BY <1>0, <1>5, FailingState DEF CompleteFails
<1> QED BY <1>1, <1>2, <1>3, <1>4, <1>5, <1>6 DEF RunOnce

(* The items Load builds.                                                        *)
LEMMA Loaded ==
    ASSUME TypeOK, NEW w \in Workers, Load(w)
    PROVE  /\ UNCHANGED <<doc, embedding, jobs>>
           /\ worker'[w].phase = "loaded"
           /\ \A v \in Workers \ {w} : worker'[v] = worker[v]
           /\ \A item \in Held(w)' :
                 /\ Exists(item.job) /\ ~Outdated(item.job)
                 /\ item.text = doc[item.job.doc].hash
                 /\ item.attempts = jobs[Key(item.job)].attempts
<1> DEFINE rows == {id \in worker[w].jobs : Exists(id)}
           valid == {[job |-> id, text |-> doc[id.doc].hash,
                      attempts |-> jobs[Key(id)].attempts] : id \in {i \in rows : ~Outdated(i)}}
<1>1. worker' = [worker EXCEPT ![w] =
          [phase |-> "loaded", jobs |-> {id \in rows : Outdated(id)},
           items |-> valid, todo |-> valid]]
  BY DEF Load
<1>2. Held(w)' = valid /\ worker'[w].phase = "loaded"
  <2> HIDE DEF valid, rows
  <2> QED BY <1>1 DEF TypeOK, Held
<1>3. \A v \in Workers \ {w} : worker'[v] = worker[v]
  BY <1>1 DEF TypeOK
<1>4. ASSUME NEW item \in valid
      PROVE  /\ Exists(item.job) /\ ~Outdated(item.job)
             /\ item.text = doc[item.job.doc].hash
             /\ item.attempts = jobs[Key(item.job)].attempts
  <2>1. PICK id \in rows : ~Outdated(id) /\ item = [job |-> id, text |-> doc[id.doc].hash,
                      attempts |-> jobs[Key(id)].attempts]
    OBVIOUS
  <2> QED BY <2>1
<1> QED BY <1>2, <1>3, <1>4 DEF Load

(* A document's id never goes back.                                              *)
LEMMA IdsGrow ==
    ASSUME TypeOK, NEW r \in Refreshers, RefreshCommit(r), NEW d \in Docs
    PROVE  /\ doc'[d].id \in Nat /\ doc[d].id \in Nat /\ doc[d].id <= doc'[d].id
           /\ doc[d].hash = Absent /\ doc'[d].hash # Absent => doc[d].id < doc'[d].id
<1>1. doc[d] \in Row /\ doc[d].id \in Nat
  BY Attempts DEF TypeOK, Row
<1>2. doc'[d] = Indexed(d, refresher[r].found, refresher[r].seen)
  BY DEF RefreshCommit
<1> QED BY <1>1, <1>2 DEF Indexed, Row

LEMMA ItemStep ==
    ASSUME TypeOK, ItemInv, [Next]_vars
    PROVE  ItemInv'
<1>1. ASSUME NEW r \in Refreshers, RefreshCommit(r) PROVE ItemInv'
  <2>1. worker' = worker
    BY <1>1 DEF RefreshCommit
  <2>2. ASSUME NEW w \in Workers, NEW item \in Held(w)
        PROVE  item.text = item.job.hash /\ item.job.id <= doc'[item.job.doc].id
    <3>1. item.job.doc \in Docs /\ item.job.id \in Nat
      BY Attempts DEF TypeOK, Held, RunState, Item, JobId
    <3>2. item.text = item.job.hash /\ item.job.id <= doc[item.job.doc].id
      BY DEF ItemInv
    <3> QED BY <1>1, <3>1, <3>2, IdsGrow
  <2> QED BY <2>1, <2>2 DEF ItemInv, Held
<1>2. ASSUME NEW r \in Refreshers, RefreshRead(r) \/ RefreshFails(r) PROVE ItemInv'
  BY <1>2 DEF RefreshRead, RefreshFails, ItemInv, Held
<1>3. ASSUME NEW k \in Docs \X Texts, RetryJob(k) \/ Ripen(k) PROVE ItemInv'
  BY <1>3 DEF RetryJob, Ripen, ItemInv, Held
<1>4. ASSUME NEW w \in Workers, Load(w) PROVE ItemInv'
  <2>1. ASSUME NEW item \in Held(w)'
        PROVE  item.text = item.job.hash /\ item.job.id <= doc[item.job.doc].id
    <3>1. /\ Exists(item.job) /\ ~Outdated(item.job)
          /\ item.text = doc[item.job.doc].hash
      BY <1>4, <2>1, Loaded
    <3>2. item \in Item
      BY <1>4, <2>1, TypeStep DEF Next, RunOnce, TypeOK, RunState, Held
    <3>3. item.job.id \in Nat
      BY <3>2, Attempts DEF Item, JobId
    <3> QED BY <3>1, <3>3 DEF Exists, Outdated
  <2> QED BY <1>4, <2>1, Loaded DEF ItemInv, Held
<1>5. ASSUME NEW w \in Workers, RunOnce(w) \/ Crash(w), ~Load(w) PROVE ItemInv'
  BY <1>5, ItemsKept DEF ItemInv
<1>6. CASE UNCHANGED vars
  BY <1>6 DEF vars, ItemInv, Held
<1> QED BY <1>1, <1>2, <1>3, <1>4, <1>5, <1>6 DEF Next, Refresh

LEMMA VectorStep ==
    ASSUME TypeOK, ItemInv, VectorMatchesHash, [Next]_vars
    PROVE  VectorMatchesHash'
<1>1. ASSUME NEW r \in Refreshers, RefreshCommit(r) PROVE VectorMatchesHash'
  BY <1>1 DEF RefreshCommit, VectorMatchesHash, NoVector
<1>2. ASSUME NEW w \in Workers, CompleteWrite(w) PROVE VectorMatchesHash'
  <2>1. PICK item \in worker[w].todo :
          /\ worker[w].jobs = {item.job}
          /\ embedding' = [embedding EXCEPT ![item.job.doc] =
                             [hash |-> item.job.hash, text |-> item.text]]
    BY <1>2 DEF CompleteWrite
  <2>2. item \in Held(w)
    BY <2>1 DEF Held
  <2>3. item.text = item.job.hash
    BY <2>2 DEF ItemInv
  <2> QED BY <2>1, <2>3 DEF VectorMatchesHash, TypeOK
<1>3. ASSUME embedding' = embedding PROVE VectorMatchesHash'
  BY <1>3 DEF VectorMatchesHash
<1> QED BY <1>1, <1>2, <1>3 DEF Next, Refresh, RefreshRead, RefreshFails, RetryJob, Ripen,
        RunOnce, Sweep, ClaimNothing, Claim, Load, Supersede, Embed, CompleteRead,
        CompleteDrop, CompleteFails, Fail, Crash, vars

(* The vector stored under a content hash is that content's, whatever the        *)
(* documents, the workers and their leases do in between.                        *)
THEOREM VectorsMatch == Spec => []VectorMatchesHash
<1>1. Init => ItemInv /\ VectorMatchesHash
  BY IdleState DEF Init, ItemInv, Held, VectorMatchesHash, NoVector
<1> QED BY <1>1, TypeCorrect, ItemStep, VectorStep, PTL DEF Spec

------------------------------------------------------------------------------
(* Attempts.                                                                     *)

(* A job run by w's id after a step was run by it before, with the attempts it   *)
(* has, unless w itself just claimed it.                                         *)
LEMMA MineBefore ==
    ASSUME TypeOK, ItemInv, DistinctIds, [Next]_vars, NEW w \in Workers,
           NEW item \in Held(w), Mine(w, item.job)', ~Claim(w)
    PROVE  Mine(w, item.job) /\ jobs'[Key(item.job)].attempts = jobs[Key(item.job)].attempts
<1> DEFINE k == Key(item.job)
<1>0. item.job \in JobId /\ k \in Docs \X Texts /\ item.job.doc \in Docs
      /\ item.job.id \in Nat
  BY Attempts DEF TypeOK, Held, RunState, Item, JobId, Key
<1>k. Key(item.job)' = k
  BY DEF Key
<1>m. Exists(item.job)' /\ jobs'[k].lockedBy = WorkerId[w] /\ jobs'[k].status = "running"
  BY <1>k DEF Mine, LockedBy
<1> HIDE DEF k
<1>1. ASSUME doc' = doc, jobs'[k].lockedBy = WorkerId[w] /\ jobs'[k].status = "running"
                => jobs'[k] = jobs[k] \/ (/\ jobs[k].status = "running"
                                         /\ jobs'[k].lockedBy = jobs[k].lockedBy
                                         /\ jobs'[k].attempts = jobs[k].attempts)
      PROVE  Mine(w, item.job) /\ jobs'[k].attempts = jobs[k].attempts
  BY <1>1, <1>m DEF Mine, LockedBy, Exists, k
<1>2. ASSUME NEW r \in Refreshers, RefreshCommit(r)
      PROVE  Mine(w, item.job) /\ jobs'[k].attempts = jobs[k].attempts
  <2>1. Exists(item.job)
    <3>1. item.job.id <= doc[item.job.doc].id
      BY DEF ItemInv
    <3> QED BY <1>0, <1>2, <1>m, <3>1, IdsGrow DEF Exists
  <2>2. jobs'[k] = jobs[k]
    BY <1>0, <1>2, <1>m DEF RefreshCommit, Enqueued, NoJob
  <2> QED BY <1>m, <2>1, <2>2 DEF Mine, LockedBy, k
<1>3. ASSUME NEW r \in Refreshers, RefreshRead(r) \/ RefreshFails(r)
      PROVE  Mine(w, item.job) /\ jobs'[k].attempts = jobs[k].attempts
  BY <1>1, <1>3 DEF RefreshRead, RefreshFails
<1>4. ASSUME NEW j \in Docs \X Texts, RetryJob(j) \/ Ripen(j)
      PROVE  Mine(w, item.job) /\ jobs'[k].attempts = jobs[k].attempts
  <2>1. CASE RetryJob(j)
    BY <1>0, <1>1, <2>1 DEF RetryJob, TypeOK, Job
  <2>2. CASE Ripen(j)
    BY <1>0, <1>1, <2>2 DEF Ripen, TypeOK, Job
  <2> QED BY <1>4, <2>1, <2>2
<1>5. ASSUME NEW v \in Workers, RunOnce(v) \/ Crash(v)
      PROVE  Mine(w, item.job) /\ jobs'[k].attempts = jobs[k].attempts
  <2>0. jobs[k] \in Job
    BY <1>0 DEF TypeOK
  <2>1. CASE Claim(v)
    <3>1. PICK batch \in SUBSET {j \in Docs \X Texts : Claimable(jobs[j])} :
            jobs' = [j \in Docs \X Texts |->
                        IF j \in batch THEN Claimed(v, jobs[j]) ELSE jobs[j]]
      BY <2>1 DEF Claim
    <3>2. WorkerId[v] # WorkerId[w]
      BY <2>1 DEF DistinctIds
    <3>3. jobs'[k] = jobs[k]
      BY <1>0, <1>m, <3>1, <3>2 DEF Claimed
    <3> QED BY <1>1, <2>1, <3>3 DEF Claim
  <2>2. CASE Sweep(v)
    <3>1. jobs'[k] = Settled(jobs[k], "dead") \/ jobs'[k] = jobs[k]
      BY <1>0, <2>2 DEF Sweep
    <3> QED BY <1>1, <1>m, <2>0, <2>2, <3>1, SettledJob DEF Sweep
  <2>3. ASSUME NEW j, NEW status \in {"queued", "completed", "dead", "superseded"},
               jobs' = [jobs EXCEPT ![j] = Settled(@, status)]
        PROVE  jobs'[k] = jobs[k]
    <3>1. jobs'[k] = Settled(jobs[k], status) \/ jobs'[k] = jobs[k]
      BY <1>0, <2>3 DEF TypeOK
    <3> QED BY <1>m, <2>0, <3>1, SettledJob
  <2>4. CASE Supersede(v)
    BY <1>1, <2>3, <2>4 DEF Supersede
  <2>5. CASE CompleteWrite(v)
    BY <1>1, <2>3, <2>5 DEF CompleteWrite
  <2>6. CASE CompleteDrop(v)
    BY <1>1, <2>3, <2>6 DEF CompleteDrop
  <2>7. CASE Fail(v)
    <3>1. \A i : (IF i.attempts >= MaxAttempts THEN "dead" ELSE "queued") \in {"dead", "queued"}
      OBVIOUS
    <3> QED BY <1>1, <2>3, <2>7, <3>1 DEF Fail
  <2>8. CASE ClaimNothing(v) \/ Load(v) \/ Embed(v) \/ CompleteRead(v) \/ CompleteFails(v)
             \/ Crash(v)
    BY <1>1, <2>8 DEF ClaimNothing, Load, Embed, CompleteRead, CompleteFails, Crash
  <2> QED BY <1>5, <2>1, <2>2, <2>4, <2>5, <2>6, <2>7, <2>8 DEF RunOnce
<1>6. CASE UNCHANGED vars
  BY <1>1, <1>6 DEF vars
<1> QED BY <1>2, <1>3, <1>4, <1>5, <1>6 DEF Next, Refresh, k

(* A worker that claims holds no batch, and gets one only by Load.               *)
LEMMA PhaseStep ==
    ASSUME TypeOK, HeldInv, [Next]_vars, NEW w \in Workers,
           worker'[w].phase \in {"idle", "swept", "claimed"}
    PROVE  Held(w)' = {}
<1>1. ASSUME NEW v \in Workers, RunOnce(v) \/ Crash(v), v # w PROVE Held(w)' = {}
  <2>1. worker'[w] = worker[w]
    BY <1>1 DEF RunOnce, Sweep, ClaimNothing, Claim, Load, Supersede, Embed, CompleteRead,
       CompleteWrite, CompleteDrop, CompleteFails, Fail, Crash, TypeOK
  <2> QED BY <2>1 DEF HeldInv, Held
<1>2. CASE RunOnce(w) \/ Crash(w)
  <2> USE DEF TypeOK, Held
  <2>0. worker[w] \in RunState
    OBVIOUS
  <2>1. CASE Sweep(w)
    BY <2>0, <2>1 DEF Sweep, HeldInv, RunState
  <2>2. CASE ClaimNothing(w) \/ Crash(w)
    BY <2>2, IdleState DEF ClaimNothing, Crash
  <2>3. CASE Claim(w)
    <3>1. PICK ids : worker' = [worker EXCEPT ![w].phase = "claimed", ![w].jobs = ids]
      BY <2>3 DEF Claim
    <3> QED BY <2>0, <2>3, <3>1 DEF Claim, HeldInv, RunState
  <2>4. CASE Load(w)
    BY <2>4, Loaded
  <2>5. CASE Supersede(w)
    <3>1. PICK id : worker' = [worker EXCEPT ![w].jobs = @ \ {id}]
      BY <2>5 DEF Supersede
    <3> QED BY <2>0, <2>5, <3>1 DEF Supersede, RunState
  <2>6. CASE Embed(w)
    <3>1. PICK phase \in {"complete", "fail"} : worker' = [worker EXCEPT ![w] =
             IF worker[w].items = {} THEN Idle ELSE [worker[w] EXCEPT !.phase = phase]]
      BY <2>6 DEF Embed
    <3> QED BY <2>0, <3>1, IdleState DEF RunState
  <2>7. ASSUME NEW item PROVE Remaining(w, item).phase \in {"complete", "fail"}
                              \/ Remaining(w, item) = Idle
    BY <2>0 DEF Remaining, RunState
  <2>8. CASE CompleteRead(w)
    <3>1. PICK item \in worker[w].todo :
          worker' = [worker EXCEPT ![w] =
             IF ~Mine(w, item.job) THEN Remaining(w, item)
             ELSE [worker[w] EXCEPT !.jobs = {item.job},
                       !.phase = IF Outdated(item.job) THEN "drop" ELSE "write"]]
      BY <2>8 DEF CompleteRead
    <3>2. [worker[w] EXCEPT !.jobs = {item.job},
               !.phase = IF Outdated(item.job) THEN "drop" ELSE "write"].phase
               \in {"drop", "write"}
      BY <2>0 DEF RunState
    <3> QED BY <2>7, <3>1, <3>2, IdleState
  <2>9. CASE CompleteWrite(w) \/ CompleteDrop(w) \/ Fail(w)
    <3>1. PICK item : worker' = [worker EXCEPT ![w] = Remaining(w, item)]
      BY <2>9 DEF CompleteWrite, CompleteDrop, Fail
    <3> QED BY <2>7, <3>1, IdleState
  <2>10. CASE CompleteFails(w)
    BY <2>0, <2>10 DEF CompleteFails, Failing, RunState
  <2> QED BY <1>2, <2>1, <2>2, <2>3, <2>4, <2>5, <2>6, <2>8, <2>9, <2>10 DEF RunOnce
<1>3. CASE UNCHANGED worker
  BY <1>3 DEF HeldInv, Held
<1> QED BY <1>1, <1>2, <1>3 DEF Next, Refresh, RefreshRead, RefreshCommit, RefreshFails,
        RetryJob, Ripen, vars

LEMMA HeldStep ==
    ASSUME TypeOK, ItemInv, HeldInv, DistinctIds, [Next]_vars
    PROVE  HeldInv'
<1>1. ASSUME NEW w \in Workers, NEW item \in Held(w)', Mine(w, item.job)'
      PROVE  jobs'[Key(item.job)].attempts = item.attempts
  <2>1. CASE Load(w)
    BY <1>1, <2>1, Loaded
  <2>2. CASE ~Load(w)
    <3>1. item \in Held(w)
      <4>1. CASE RunOnce(w) \/ Crash(w)
        BY <1>1, <2>2, <4>1, ItemsKept
      <4>2. ASSUME NEW v \in Workers, RunOnce(v) \/ Crash(v), v # w PROVE item \in Held(w)
        <5>1. worker'[w] = worker[w]
          BY <4>2 DEF RunOnce, Sweep, ClaimNothing, Claim, Load, Supersede, Embed,
             CompleteRead, CompleteWrite, CompleteDrop, CompleteFails, Fail, Crash, TypeOK
        <5> QED BY <1>1, <5>1 DEF Held
      <4>3. CASE UNCHANGED worker
        BY <1>1, <4>3 DEF Held
      <4> QED BY <4>1, <4>2, <4>3 DEF Next, Refresh, RefreshRead, RefreshCommit, RefreshFails,
                 RetryJob, Ripen, vars
    <3>2. ~Claim(w)
      BY <3>1 DEF Claim, HeldInv
    <3>3. Mine(w, item.job) /\ jobs'[Key(item.job)].attempts = jobs[Key(item.job)].attempts
      BY <1>1, <3>1, <3>2, MineBefore
    <3> QED BY <3>1, <3>3 DEF HeldInv
  <2> QED BY <2>1, <2>2
<1>2. \A item : Key(item.job)' = Key(item.job)
  BY DEF Key
<1> QED BY <1>1, <1>2, PhaseStep DEF HeldInv

(* A refresh removes a job, queues a new one or leaves it.                       *)
LEMMA RefreshedJob ==
    ASSUME NEW r \in Refreshers, RefreshCommit(r), NEW k \in Docs \X Texts
    PROVE  \/ jobs'[k].status = "none"
           \/ jobs[k].status = "none" /\ jobs'[k].status = "queued"
           \/ jobs'[k] = jobs[k]
<1>1. PICK new, vectors : jobs' = [j \in Docs \X Texts |-> Enqueued(j, new, vectors)]
  BY DEF RefreshCommit
<1>2. jobs'[k] = Enqueued(k, new, vectors)
  BY <1>1
<1>3. NoJob.status = "none" /\ [NoJob EXCEPT !.status = "queued", !.ripe = TRUE].status = "queued"
  BY DEF NoJob
<1> QED BY <1>2, <1>3 DEF Enqueued

LEMMA DeadStep ==
    ASSUME TypeOK, HeldInv, DeadIsExhausted, [Next]_vars
    PROVE  DeadIsExhausted'
<1> SUFFICES ASSUME NEW k \in Docs \X Texts, jobs'[k].status = "dead"
             PROVE  jobs'[k].attempts >= MaxAttempts
  BY DEF DeadIsExhausted
<1>0. jobs[k] \in Job /\ (jobs[k].status = "dead" => jobs[k].attempts >= MaxAttempts)
  BY DEF TypeOK, DeadIsExhausted
<1>1. ASSUME NEW r \in Refreshers, Refresh(r) PROVE jobs'[k].attempts >= MaxAttempts
  <2>1. CASE RefreshCommit(r)
    BY <1>0, <2>1, RefreshedJob
  <2> QED BY <1>0, <1>1, <2>1 DEF Refresh, RefreshRead, RefreshFails
<1>2. ASSUME NEW j \in Docs \X Texts, RetryJob(j) \/ Ripen(j)
      PROVE  jobs'[k].attempts >= MaxAttempts
  BY <1>0, <1>2 DEF RetryJob, Ripen, TypeOK, Job
<1>3. ASSUME NEW w \in Workers, RunOnce(w) \/ Crash(w) PROVE jobs'[k].attempts >= MaxAttempts
  <2>1. CASE Sweep(w)
    <3>1. jobs'[k] = IF Exhausted(jobs[k]) THEN Settled(jobs[k], "dead") ELSE jobs[k]
      BY <2>1 DEF Sweep
    <3> QED BY <1>0, <3>1, SettledJob DEF Exhausted
  <2>2. CASE Claim(w)
    <3>1. jobs'[k] = Claimed(w, jobs[k]) \/ jobs'[k] = jobs[k]
      BY <2>2 DEF Claim
    <3> QED BY <1>0, <3>1 DEF Claimed
  <2>3. ASSUME NEW j, NEW status \in {"completed", "superseded"},
               jobs' = [jobs EXCEPT ![j] = Settled(@, status)]
        PROVE  jobs'[k].attempts >= MaxAttempts
    <3>1. jobs'[k] = Settled(jobs[k], status) \/ jobs'[k] = jobs[k]
      BY <2>3 DEF TypeOK
    <3> QED BY <1>0, <3>1, SettledJob
  <2>4. CASE Supersede(w)
    BY <1>0, <2>3, <2>4 DEF Supersede
  <2>5. CASE CompleteWrite(w)
    BY <2>3, <2>5 DEF CompleteWrite
  <2>6. CASE CompleteDrop(w)
    BY <1>0, <2>3, <2>6 DEF CompleteDrop
  <2>7. CASE Fail(w)
    <3>1. PICK item \in worker[w].todo :
            jobs' = IF Mine(w, item.job)
                    THEN [jobs EXCEPT ![Key(item.job)] =
                        Settled(@, IF item.attempts >= MaxAttempts THEN "dead" ELSE "queued")]
                    ELSE jobs
      BY <2>7 DEF Fail
    <3>2. CASE Mine(w, item.job) /\ Key(item.job) = k
      <4>1. jobs[k].attempts = item.attempts
        BY <3>2 DEF HeldInv, Held
      <4>2. CASE item.attempts >= MaxAttempts
        <5>1. jobs'[k] = Settled(jobs[k], "dead")
          BY <3>1, <3>2, <4>2 DEF TypeOK
        <5> QED BY <1>0, <4>1, <4>2, <5>1, SettledJob
      <4>3. CASE ~(item.attempts >= MaxAttempts)
        <5>1. jobs'[k] = Settled(jobs[k], "queued")
          BY <3>1, <3>2, <4>3 DEF TypeOK
        <5> QED BY <1>0, <5>1, SettledJob
      <4> QED BY <4>2, <4>3
    <3>3. CASE ~(Mine(w, item.job) /\ Key(item.job) = k)
      BY <1>0, <3>1, <3>3 DEF TypeOK
    <3> QED BY <3>2, <3>3
  <2>8. CASE UNCHANGED jobs
    BY <1>0, <2>8
  <2> QED BY <1>3, <2>1, <2>2, <2>4, <2>5, <2>6, <2>7, <2>8 DEF RunOnce, ClaimNothing, Load,
          Embed, CompleteRead, CompleteFails, Crash
<1>4. CASE UNCHANGED vars
  BY <1>0, <1>4 DEF vars
<1> QED BY <1>1, <1>2, <1>3, <1>4 DEF Next

(* With one id per worker, a dead job has used max_attempts attempts since it    *)
(* was queued or retried.                                                        *)
THEOREM DeadExhausted ==
    ASSUME DistinctIds PROVE Spec => []DeadIsExhausted
<1>1. Init => ItemInv /\ HeldInv /\ DeadIsExhausted
  BY IdleState DEF Init, ItemInv, HeldInv, Held, DeadIsExhausted, NoJob
<1>2. ItemInv /\ HeldInv /\ TypeOK /\ DeadIsExhausted /\ [Next]_vars
         => ItemInv' /\ HeldInv' /\ DeadIsExhausted'
  BY ItemStep, HeldStep, DeadStep
<1> QED BY <1>1, <1>2, TypeCorrect, PTL DEF Spec

------------------------------------------------------------------------------
(* No step of a refresh, a member, the clock or any worker, however late, takes  *)
(* a completed or superseded job back into the queue.                            *)
THEOREM SettledForGood == Spec => SettledStays
<1> DEFINE Final == {"completed", "superseded"}
<1>1. TypeOK /\ [Next]_vars =>
          [\A k \in Docs \X Texts :
              jobs[k].status \in {"completed", "superseded"} =>
                  jobs'[k].status \in {"completed", "superseded", "none"}]_vars
  <2> SUFFICES ASSUME TypeOK, [Next]_vars, NEW k \in Docs \X Texts, jobs[k].status \in Final
               PROVE  jobs'[k].status \in Final \cup {"none"}
    OBVIOUS
  <2>0. jobs[k] \in Job
    BY DEF TypeOK
  <2>1. ASSUME NEW r \in Refreshers, Refresh(r) PROVE jobs'[k].status \in Final \cup {"none"}
    <3>1. CASE RefreshCommit(r)
      BY <3>1, RefreshedJob
    <3> QED BY <2>1, <3>1 DEF Refresh, RefreshRead, RefreshFails
  <2>2. ASSUME NEW j \in Docs \X Texts, RetryJob(j) \/ Ripen(j)
        PROVE  jobs'[k].status \in Final \cup {"none"}
    BY <2>0, <2>2 DEF RetryJob, Ripen, TypeOK, Job
  <2>3. ASSUME NEW w \in Workers, RunOnce(w) \/ Crash(w)
        PROVE  jobs'[k].status \in Final \cup {"none"}
    <3>1. CASE Sweep(w) \/ Claim(w)
      BY <3>1 DEF Sweep, Claim, Exhausted, Claimable
    <3>2. ASSUME NEW j, NEW status \in Final, jobs' = [jobs EXCEPT ![j] = Settled(@, status)]
          PROVE  jobs'[k].status \in Final
      <4>1. jobs'[k] = Settled(jobs[k], status) \/ jobs'[k] = jobs[k]
        BY <3>2 DEF TypeOK
      <4> QED BY <2>0, <4>1, SettledJob
    <3>3. CASE Supersede(w) \/ CompleteWrite(w) \/ CompleteDrop(w)
      BY <3>2, <3>3 DEF Supersede, CompleteWrite, CompleteDrop
    <3>4. CASE Fail(w)
      BY <3>4 DEF Fail, Mine, TypeOK
    <3>5. CASE UNCHANGED jobs
      BY <3>5
    <3> QED BY <2>3, <3>1, <3>3, <3>4, <3>5 DEF RunOnce, ClaimNothing, Load, Embed,
            CompleteRead, CompleteFails, Crash
  <2>4. CASE UNCHANGED vars
    BY <2>4 DEF vars
  <2> QED BY <2>1, <2>2, <2>3, <2>4 DEF Next
<1> QED BY <1>1, TypeCorrect, PTL DEF Spec, SettledStays
=============================================================================
