---------------------------- MODULE QueuesProofs ----------------------------
(* Proofs about work of several transactions that is resumed and repeated.      *)
(*                                                                              *)
(* Jobs of the GitHub integration: for any number of sweeps, jobs, deliveries   *)
(* and failures, no reconciliation is queued beside another, but for the        *)
(* mishaps IntegrationJobs names.  What makes it inductive: maintenances follow *)
(* each other, and nothing but a maintenance queues a reconciliation.           *)
(*                                                                              *)
(* Imports: for any number of objects, batches and requests, a rollback spares  *)
(* what others made or changed, and leaves nothing its batch made.              *)
EXTENDS IntegrationJobs, PortfolioImport, TLAPS

------------------------------------------------------------------------------
(* While nothing unforeseen happened: one sweep at a time does maintenance, in  *)
(* the minute that follows its begin; where it is about to queue a              *)
(* reconciliation there is none; and there is never more than one.              *)
Alone ==
    /\ \A v, w \in Sweeps : sweep[v].pc \in Maintaining /\ sweep[w].pc \in Maintaining => v = w
    /\ \A w \in Sweeps : sweep[w].pc \in Maintaining => maintained
    /\ \A w \in Sweeps : sweep[w].pc = "insert" => Pending = {}
    /\ \A i, j \in Pending : i = j

JobsInv == JobsTypeOK /\ (slips = {} => Alone)

(* Where no job becomes a pending reconciliation and no sweep takes a step of   *)
(* the maintenance other than its last, nothing changes that Alone is about.    *)
LEMMA Calm ==
    ASSUME Alone, Pending' \subseteq Pending, maintained' = maintained,
           \A w \in Sweeps : sweep'[w].pc \in Maintaining => sweep'[w].pc = sweep[w].pc
    PROVE  Alone'
<1>1. \A w \in Sweeps : sweep'[w].pc \in Maintaining => sweep[w].pc \in Maintaining
  OBVIOUS
<1>2. \A w \in Sweeps : sweep'[w].pc = "insert" => sweep[w].pc = "insert"
  BY DEF Maintaining
<1> QED BY <1>1, <1>2 DEF Alone

(* A sweep that moves on keeps the jobs it has claimed.                         *)
LEMMA Moves ==
    ASSUME JobsTypeOK, NEW w \in Sweeps, NEW pc, At(w, pc),
           pc \in {"idle", "reclaim", "claim", "work"} \cup Maintaining
    PROVE  /\ sweep' \in [Sweeps -> SweepState]
           /\ sweep'[w].pc = pc
           /\ \A v \in Sweeps : v # w => sweep'[v] = sweep[v]
  BY DEF At, JobsTypeOK, SweepState

(* A new job is pending when it is a reconciliation, and no other changes.      *)
LEMMA Appends ==
    ASSUME JobsTypeOK, NEW type \in {"refresh-repositories", "reconcile", "process-webhook"},
           Enqueue(type)
    PROVE  /\ integration' \in Seq(IntegrationJob)
           /\ type # "reconcile" => Pending' = Pending
           /\ Pending = {} => \A i, j \in Pending' : i = j
<1> DEFINE job == [type |-> type, status |-> "queued", attempts |-> 0]
<1>1. job \in IntegrationJob
  BY DEF IntegrationJob, Statuses
<1>2. integration' = Append(integration, job) /\ integration \in Seq(IntegrationJob)
  BY DEF Enqueue, JobsTypeOK
<1> HIDE DEF job
<1>3. /\ DOMAIN integration' = 1 .. Len(integration) + 1
      /\ DOMAIN integration = 1 .. Len(integration) /\ Len(integration) \in Nat
      /\ integration'[Len(integration) + 1] = job
      /\ \A j \in 1 .. Len(integration) : integration'[j] = integration[j]
      /\ integration' \in Seq(IntegrationJob)
  BY <1>1, <1>2
<1>4. job.type = type
  BY DEF job
<1> QED BY <1>3, <1>4 DEF Pending, Reconciling, Over

(* A change of statuses and attempts leaves a sequence of jobs.                 *)
LEMMA Rewrites ==
    ASSUME JobsTypeOK, NEW s, DOMAIN s = DOMAIN integration,
           s = [j \in DOMAIN integration |-> s[j]],
           \A j \in DOMAIN integration : s[j] \in IntegrationJob
    PROVE  s \in Seq(IntegrationJob)
<1>1. integration \in Seq(IntegrationJob)
  BY DEF JobsTypeOK
<1>2. PICK n \in Nat : DOMAIN integration = 1 .. n
  BY <1>1
<1>3. s \in [1 .. n -> IntegrationJob]
  BY <1>2
<1> QED BY <1>3

(* One job's status is set.                                                     *)
LEMMA Sets ==
    ASSUME JobsTypeOK, NEW j, NEW s \in Statuses, SetStatus(j, s)
    PROVE  /\ integration' \in Seq(IntegrationJob)
           /\ s \in {"completed", "dead"} \/ ~Reconciling(j) \/ ~Over(j)
                  => Pending' \subseteq Pending
<1>1. integration' = [integration EXCEPT ![j].status = s] /\ integration \in Seq(IntegrationJob)
  BY DEF SetStatus, JobsTypeOK
<1>2. \A i \in DOMAIN integration : integration[i] \in IntegrationJob
  BY <1>1
<1>3. DOMAIN integration' = DOMAIN integration
  BY <1>1
<1>4. ASSUME NEW i \in DOMAIN integration
      PROVE  /\ integration'[i] \in IntegrationJob
             /\ integration'[i].type = integration[i].type
             /\ i # j => integration'[i] = integration[i]
             /\ i = j => integration'[i].status = s
  BY <1>1, <1>2, <1>4 DEF IntegrationJob
<1>5. integration' = [i \in DOMAIN integration |-> integration'[i]]
  BY <1>1
<1>6. integration' \in Seq(IntegrationJob)
  <2>1. PICK q : q = integration'
    OBVIOUS
  <2>2. q = [i \in DOMAIN integration |-> q[i]] /\ DOMAIN q = DOMAIN integration
    BY <1>3, <1>5, <2>1
  <2>3. \A i \in DOMAIN integration : q[i] \in IntegrationJob
    BY <1>4, <2>1
  <2> QED BY <2>1, <2>2, <2>3, Rewrites
<1> QED BY <1>3, <1>4, <1>6 DEF Pending, Reconciling, Over

(* A sweep is done with a job.                                                  *)
LEMMA Closes ==
    ASSUME JobsTypeOK, NEW w \in Sweeps, NEW c, Close(w, c)
    PROVE  /\ sweep' \in [Sweeps -> SweepState]
           /\ \A v \in Sweeps : sweep'[v].pc \in Maintaining => sweep'[v].pc = sweep[v].pc
  BY DEF Close, JobsTypeOK, SweepState, NoSweep, Maintaining

(* Every step keeps the types, and Alone where it adds no mishap.               *)
LEMMA JobsStep ==
    ASSUME JobsInv, JobsNext
    PROVE  JobsInv'
<1> USE DEF JobsInv
<1>0. /\ connection \in Connection
      /\ repositories \subseteq Selected /\ stored \subseteq Deliveries
      /\ integration \in Seq(IntegrationJob) /\ sweep \in [Sweeps -> SweepState]
      /\ maintained \in BOOLEAN /\ slips \subseteq {"slow", "revived", "retried"} /\ faults \in Nat
  BY DEF JobsTypeOK
<1>1. CASE CompleteManifest \/ Disconnect
  <2>0. connection' \in Connection
    <3>1. [connection EXCEPT !.status = "app_created"] \in Connection
      BY <1>0 DEF Connection
    <3>2. [status |-> "disconnected", installation |-> FALSE] \in Connection
      BY DEF Connection
    <3> QED BY <1>1, <3>1, <3>2 DEF CompleteManifest, Disconnect
  <2>1. JobsTypeOK'
    BY <1>0, <1>1, <2>0 DEF JobsTypeOK, CompleteManifest, Disconnect
  <2>2. Pending' = Pending /\ sweep' = sweep /\ maintained' = maintained /\ slips' = slips
    BY <1>1 DEF CompleteManifest, Disconnect, Pending, Reconciling, Over
  <2> QED BY <2>1, <2>2, Calm
<1>2. ASSUME CompleteSetup \/ \E d \in Deliveries : ReceiveWebhook(d)
      PROVE  JobsInv'
  <2>1. PICK type \in {"refresh-repositories", "process-webhook"} : Enqueue(type)
    BY <1>2 DEF CompleteSetup, ReceiveWebhook
  <2>2. integration' \in Seq(IntegrationJob) /\ Pending' = Pending
    BY <2>1, Appends
  <2>3. /\ UNCHANGED <<repositories, sweep, maintained, slips, faults>>
        /\ stored' \subseteq Deliveries
        /\ connection' \in Connection
    <3>1. CASE CompleteSetup
      <4>1. [status |-> "installed", installation |-> TRUE] \in Connection
        BY DEF Connection
      <4> QED BY <1>0, <3>1, <4>1 DEF CompleteSetup
    <3>2. ASSUME NEW d \in Deliveries, ReceiveWebhook(d)
          PROVE  /\ UNCHANGED <<connection, repositories, sweep, maintained, slips, faults>>
                 /\ stored' \subseteq Deliveries
      BY <1>0, <3>2 DEF ReceiveWebhook
    <3> QED BY <1>0, <1>2, <3>1, <3>2
  <2>4. JobsTypeOK'
    BY <1>0, <2>2, <2>3 DEF JobsTypeOK
  <2> QED BY <2>2, <2>3, <2>4, Calm
<1>3. CASE MinutePasses
  <2> DEFINE slow == \E w \in Sweeps : sweep[w].pc \in Maintaining
  <2>0. /\ faults' \in Nat /\ maintained' \in BOOLEAN
        /\ slips' = slips \cup {x \in {"slow"} : slow}
        /\ UNCHANGED <<connection, repositories, stored, integration, sweep>>
    <3>1. (IF slow THEN Fault ELSE UNCHANGED faults) /\ Slip("slow", slow) /\ maintained' = FALSE
      BY <1>3 DEF MinutePasses
    <3>2. UNCHANGED <<connection, repositories, stored, integration, sweep>>
      BY <1>3 DEF MinutePasses
    <3> HIDE DEF slow
    <3>3. faults' \in Nat
      BY <1>0, <3>1 DEF Fault
    <3> QED BY <3>1, <3>2, <3>3 DEF Slip
  <2>1. JobsTypeOK'
    BY <1>0, <2>0 DEF JobsTypeOK
  <2>2. slips' = {} => slips = {} /\ ~slow
    BY <1>3 DEF MinutePasses, Slip
  <2>3. Pending' = Pending /\ sweep' = sweep
    BY <1>3 DEF MinutePasses, Pending, Reconciling, Over
  <2>4. \A w \in Sweeps : sweep[w].pc = "insert" => sweep[w].pc \in Maintaining
    BY DEF Maintaining
  <2> QED BY <2>1, <2>2, <2>3, <2>4 DEF Alone
<1>4. ASSUME NEW w \in Sweeps, StartSweep(w)
      PROVE  JobsInv'
  <2>1. PICK pc \in {"reclaim", "maintain"} : At(w, pc) /\ (maintained => pc = "reclaim")
    BY <1>4 DEF StartSweep
  <2>2. /\ sweep' \in [Sweeps -> SweepState] /\ sweep'[w].pc = pc
        /\ \A v \in Sweeps : v # w => sweep'[v] = sweep[v]
    BY <2>1, Moves DEF Maintaining
  <2>3. UNCHANGED <<connection, repositories, stored, integration, slips, faults>> /\ maintained'
    BY <1>4 DEF StartSweep
  <2>4. JobsTypeOK'
    BY <1>0, <1>4, <2>2 DEF JobsTypeOK, StartSweep
  <2>5. Pending' = Pending
    BY <2>3 DEF Pending, Reconciling, Over
  <2>6. ASSUME Alone PROVE Alone'
    BY <2>1, <2>2, <2>3, <2>5, <2>6 DEF Alone, Maintaining
  <2> QED BY <2>3, <2>4, <2>6
<1>5. ASSUME NEW w \in Sweeps, Maintain(w)
      PROVE  JobsInv'
  <2>1. PICK pc \in {"look", "reclaim"} : At(w, pc)
    BY <1>5 DEF Maintain
  <2>2. /\ sweep' \in [Sweeps -> SweepState] /\ sweep'[w].pc = pc
        /\ \A v \in Sweeps : v # w => sweep'[v] = sweep[v]
    BY <2>1, Moves DEF Maintaining
  <2>3. /\ UNCHANGED <<connection, repositories, integration, maintained, slips, faults>>
        /\ stored' \subseteq Deliveries /\ sweep[w].pc = "maintain"
    BY <1>0, <1>5 DEF Maintain
  <2>4. JobsTypeOK'
    BY <1>0, <2>2, <2>3 DEF JobsTypeOK
  <2>5. Pending' = Pending
    BY <2>3 DEF Pending, Reconciling, Over
  <2>6. ASSUME Alone PROVE Alone'
    BY <2>2, <2>3, <2>5, <2>6 DEF Alone, Maintaining
  <2> QED BY <2>3, <2>4, <2>6
<1>6. ASSUME NEW w \in Sweeps, Look(w)
      PROVE  JobsInv'
  <2>1. PICK pc \in {"insert", "reclaim"} : At(w, pc) /\ (pc = "insert" => Pending = {})
    BY <1>6 DEF Look
  <2>2. /\ sweep' \in [Sweeps -> SweepState] /\ sweep'[w].pc = pc
        /\ \A v \in Sweeps : v # w => sweep'[v] = sweep[v]
    BY <2>1, Moves DEF Maintaining
  <2>3. /\ UNCHANGED <<connection, repositories, stored, integration, maintained, slips, faults>>
        /\ sweep[w].pc = "look"
    BY <1>6 DEF Look
  <2>4. JobsTypeOK'
    BY <1>0, <2>2, <2>3 DEF JobsTypeOK
  <2>5. Pending' = Pending
    BY <2>3 DEF Pending, Reconciling, Over
  <2>6. ASSUME Alone PROVE Alone'
    BY <2>1, <2>2, <2>3, <2>5, <2>6 DEF Alone, Maintaining
  <2> QED BY <2>3, <2>4, <2>6
<1>7. ASSUME NEW w \in Sweeps, EnqueueReconcile(w)
      PROVE  JobsInv'
  <2>1. At(w, "reclaim") /\ Enqueue("reconcile") /\ sweep[w].pc = "insert"
    BY <1>7 DEF EnqueueReconcile
  <2>2. /\ sweep' \in [Sweeps -> SweepState] /\ sweep'[w].pc = "reclaim"
        /\ \A v \in Sweeps : v # w => sweep'[v] = sweep[v]
    BY <2>1, Moves
  <2>3. UNCHANGED <<connection, repositories, stored, maintained, slips, faults>>
    BY <1>7 DEF EnqueueReconcile
  <2>4. integration' \in Seq(IntegrationJob) /\ (Pending = {} => \A i, j \in Pending' : i = j)
    BY <2>1, Appends
  <2>5. JobsTypeOK'
    BY <1>0, <2>2, <2>3, <2>4 DEF JobsTypeOK
  <2>6. ASSUME Alone PROVE Alone'
    <3>1. \A v \in Sweeps : sweep'[v].pc \notin Maintaining
      BY <2>1, <2>2, <2>6 DEF Alone, Maintaining
    <3>2. \A v \in Sweeps : sweep'[v].pc # "insert"
      BY <3>1 DEF Maintaining
    <3> QED BY <2>1, <2>4, <2>6, <3>1, <3>2 DEF Alone
  <2> QED BY <2>3, <2>5, <2>6
<1>8. ASSUME NEW w \in Sweeps, Reclaim(w)
      PROVE  JobsInv'
  <2>1. PICK old \in SUBSET Running :
            /\ integration' = [j \in DOMAIN integration |->
                                  IF j \in old THEN [integration[j] EXCEPT !.status = "queued"]
                                  ELSE integration[j]]
            /\ IF old \cap Held # {} THEN Fault ELSE UNCHANGED faults
    BY <1>8 DEF Reclaim
  <2>2. /\ UNCHANGED <<connection, repositories, stored, maintained, slips>>
        /\ At(w, "claim") /\ sweep[w].pc = "reclaim"
    BY <1>8 DEF Reclaim
  <2>3. /\ sweep' \in [Sweeps -> SweepState] /\ sweep'[w].pc = "claim"
        /\ \A v \in Sweeps : v # w => sweep'[v] = sweep[v]
    BY <2>2, Moves
  <2>4. faults' \in Nat
    BY <1>0, <2>1 DEF Fault
  <2>5. \A j \in DOMAIN integration : integration[j] \in IntegrationJob
    BY <1>0
  <2>6. \A j \in DOMAIN integration :
            /\ integration'[j] \in IntegrationJob
            /\ integration'[j].type = integration[j].type
            /\ Over(j) => integration'[j].status = integration[j].status
    BY <2>1, <2>5 DEF IntegrationJob, Statuses, Over, Running
  <2>7. integration' \in Seq(IntegrationJob)
    BY <2>1, <2>6, Rewrites
  <2>8. Pending' \subseteq Pending
    BY <2>1, <2>6 DEF Pending, Reconciling, Over
  <2>9. JobsTypeOK'
    BY <1>0, <2>2, <2>3, <2>4, <2>7 DEF JobsTypeOK
  <2>10. \A v \in Sweeps : sweep'[v].pc \in Maintaining => sweep'[v].pc = sweep[v].pc
    BY <2>3 DEF Maintaining
  <2> QED BY <2>2, <2>8, <2>9, <2>10, Calm
<1>9. ASSUME NEW w \in Sweeps, ClaimJobs(w)
      PROVE  JobsInv'
  <2>1. PICK late \in SUBSET DOMAIN integration :
          LET ours == FirstOf(Due(late)) IN
          /\ integration' = [j \in DOMAIN integration |->
                                IF j \in ours
                                THEN [integration[j] EXCEPT !.status = "running", !.attempts = @ + 1]
                                ELSE integration[j]]
          /\ sweep' = [sweep EXCEPT ![w] =
                          IF ours = {} THEN NoSweep
                          ELSE [pc |-> "work",
                                claimed |-> {<<j, integration[j].attempts + 1>> : j \in ours}]]
    BY <1>9 DEF ClaimJobs
  <2>2. UNCHANGED <<connection, repositories, stored, maintained, slips, faults>>
    BY <1>9 DEF ClaimJobs
  <2>3. PICK ours : ours = FirstOf(Due(late))
    OBVIOUS
  <2>4. \A j \in ours : j \in DOMAIN integration /\ ~Over(j)
    BY <2>3 DEF FirstOf, Due, Over
  <2>0. \A j \in DOMAIN integration : integration[j] \in IntegrationJob
    BY <1>0
  <2>5. \A j \in DOMAIN integration : /\ integration[j] \in IntegrationJob
                                      /\ integration[j].attempts \in Nat
    BY <2>0 DEF IntegrationJob
  <2>6. ASSUME NEW j \in DOMAIN integration
        PROVE  /\ integration'[j] \in IntegrationJob
               /\ integration'[j].type = integration[j].type
               /\ Over(j) => integration'[j].status = integration[j].status
    <3>1. CASE j \in ours
      <4>1. integration'[j] = [integration[j] EXCEPT !.status = "running",
                                                     !.attempts = integration[j].attempts + 1]
        BY <2>1, <2>3, <3>1
      <4>2. integration'[j] = [type |-> integration[j].type, status |-> "running",
                               attempts |-> integration[j].attempts + 1]
        BY <2>5, <4>1 DEF IntegrationJob
      <4> QED BY <2>4, <2>5, <3>1, <4>2 DEF IntegrationJob, Statuses
    <3>2. CASE j \notin ours
      BY <2>1, <2>3, <2>5, <3>2
    <3> QED BY <3>1, <3>2
  <2>7. integration' = [j \in DOMAIN integration |-> integration'[j]]
        /\ DOMAIN integration' = DOMAIN integration
    BY <2>1
  <2>8. integration' \in Seq(IntegrationJob)
    <3>1. PICK q : q = integration'
      OBVIOUS
    <3> QED BY <2>6, <2>7, <3>1, Rewrites
  <2>9. Pending' \subseteq Pending
    BY <2>6, <2>7 DEF Pending, Reconciling, Over
  <2>10. \A j \in ours : <<j, integration[j].attempts + 1>> \in Nat \X Nat
    BY <1>0, <2>4, <2>5
  <2>11. /\ sweep' \in [Sweeps -> SweepState]
         /\ \A v \in Sweeps : sweep'[v].pc \in Maintaining => sweep'[v].pc = sweep[v].pc
    <3>1. PICK s : s = IF ours = {} THEN NoSweep
                       ELSE [pc |-> "work",
                             claimed |-> {<<j, integration[j].attempts + 1>> : j \in ours}]
      OBVIOUS
    <3>2. {<<j, integration[j].attempts + 1>> : j \in ours} \subseteq Nat \X Nat
      BY <2>10
    <3>3. s \in SweepState /\ s.pc \notin Maintaining
      BY <3>1, <3>2 DEF SweepState, NoSweep, Maintaining
    <3>4. sweep' = [sweep EXCEPT ![w] = s]
      BY <2>1, <2>3, <3>1
    <3> QED BY <1>0, <3>3, <3>4
  <2>12. JobsTypeOK'
    BY <1>0, <2>2, <2>8, <2>11 DEF JobsTypeOK
  <2> QED BY <2>2, <2>9, <2>11, <2>12, Calm
<1>10. ASSUME NEW w \in Sweeps, NEW c \in sweep[w].claimed, CompleteJob(w, c)
       PROVE  JobsInv'
  <2>1. /\ SetStatus(c[1], "completed") /\ Close(w, c)
        /\ UNCHANGED <<connection, stored, maintained, slips, faults>>
        /\ repositories' \subseteq Selected
    BY <1>0, <1>10 DEF CompleteJob, ProcessJob
  <2>2. integration' \in Seq(IntegrationJob) /\ Pending' \subseteq Pending
    BY <2>1, Sets DEF Statuses
  <2>3. /\ sweep' \in [Sweeps -> SweepState]
        /\ \A v \in Sweeps : sweep'[v].pc \in Maintaining => sweep'[v].pc = sweep[v].pc
    BY <2>1, Closes
  <2>4. JobsTypeOK'
    BY <1>0, <2>1, <2>2, <2>3 DEF JobsTypeOK
  <2> QED BY <2>1, <2>2, <2>3, <2>4, Calm
<1>11. ASSUME NEW w \in Sweeps, NEW c \in sweep[w].claimed, FailJob(w, c)
       PROVE  JobsInv'
  <2>1. c[2] \in Nat
    BY <1>0 DEF SweepState
  <2>2. PICK s \in {"dead", "queued"} : SetStatus(c[1], s) /\ (s = "queued" => c[2] < MaxTries)
    BY <1>11, <2>1, JobsAssumption DEF FailJob
  <2>3. /\ Close(w, c) /\ UNCHANGED <<connection, repositories, stored, maintained>>
        /\ slips' = slips \cup {x \in {"revived"} : Reconciling(c[1]) /\ Over(c[1]) /\ c[2] < MaxTries}
        /\ faults' \in Nat
    BY <1>0, <1>11 DEF FailJob, Fault, Slip
  <2>4. integration' \in Seq(IntegrationJob)
    BY <2>2, Sets DEF Statuses
  <2>5. slips' = {} => slips = {} /\ Pending' \subseteq Pending
    BY <2>2, <2>3, Sets DEF Statuses
  <2>6. /\ sweep' \in [Sweeps -> SweepState]
        /\ \A v \in Sweeps : sweep'[v].pc \in Maintaining => sweep'[v].pc = sweep[v].pc
    BY <2>3, Closes
  <2>7. JobsTypeOK'
    BY <1>0, <2>3, <2>4, <2>6 DEF JobsTypeOK
  <2> QED BY <2>3, <2>5, <2>6, <2>7, Calm
<1>12. ASSUME NEW j \in DOMAIN integration, RetryIntegrationJob(j)
       PROVE  JobsInv'
  <2>1. /\ SetStatus(j, "queued")
        /\ UNCHANGED <<connection, repositories, stored, sweep, maintained>>
        /\ slips' = slips \cup {x \in {"retried"} : Reconciling(j) /\ Over(j)}
        /\ faults' \in Nat
    BY <1>0, <1>12 DEF RetryIntegrationJob, Fault, Slip
  <2>2. integration' \in Seq(IntegrationJob)
    BY <2>1, Sets DEF Statuses
  <2>3. slips' = {} => slips = {} /\ Pending' \subseteq Pending
    BY <2>1, Sets DEF Statuses
  <2>4. JobsTypeOK'
    BY <1>0, <2>1, <2>2 DEF JobsTypeOK
  <2> QED BY <2>1, <2>3, <2>4, Calm
<1>13. CASE JobsCrash
  <2>1. /\ sweep' = [w \in Sweeps |-> NoSweep] /\ maintained' = FALSE
        /\ UNCHANGED <<connection, repositories, stored, integration, slips>>
        /\ faults' \in Nat
    BY <1>0, <1>13 DEF JobsCrash, Fault
  <2>2. JobsTypeOK'
    BY <1>0, <2>1 DEF JobsTypeOK, SweepState, NoSweep
  <2>3. Pending' = Pending
    BY <2>1 DEF Pending, Reconciling, Over
  <2> QED BY <2>1, <2>2, <2>3 DEF Alone, NoSweep, Maintaining
<1> QED BY <1>1, <1>2, <1>3, <1>4, <1>5, <1>6, <1>7, <1>8, <1>9, <1>10, <1>11, <1>12, <1>13
        DEF JobsNext

(* No reconciliation is queued beside one that is queued or running, however    *)
(* many sweeps overlap, fail, crash, take jobs back and repeat them; unless a   *)
(* maintenance took more than a minute, or a late failure or a member's retry   *)
(* queued a reconciliation again that was over.                                 *)
THEOREM Reconciles == JobsSpec => []OneReconcile
<1>1. JobsInit => JobsInv
  <2> SUFFICES ASSUME JobsInit PROVE JobsTypeOK /\ Alone
    BY DEF JobsInv
  <2>1. connection \in Connection /\ sweep \in [Sweeps -> SweepState]
    BY DEF JobsInit, NoSweep, SweepState, Connection
  <2>2. JobsTypeOK
    <3>1. <<>> \in Seq(IntegrationJob) /\ FALSE \in BOOLEAN /\ 0 \in Nat
      OBVIOUS
    <3>2. /\ integration = <<>> /\ repositories = {} /\ stored = {} /\ maintained = FALSE
          /\ slips = {} /\ faults = 0
      BY DEF JobsInit
    <3> QED BY <2>1, <3>1, <3>2 DEF JobsTypeOK
  <2>3. Pending = {}
    BY DEF JobsInit, Pending
  <2>4. \A w \in Sweeps : sweep[w].pc \notin Maintaining /\ sweep[w].pc # "insert"
    BY DEF JobsInit, NoSweep, Maintaining
  <2> QED BY <2>2, <2>3, <2>4 DEF Alone
<1>2. JobsInv /\ [JobsNext]_jobsVars => JobsInv'
  <2>1. ASSUME JobsInv, UNCHANGED jobsVars PROVE JobsInv'
    BY <2>1 DEF jobsVars, JobsInv, JobsTypeOK, Alone, Pending, Reconciling, Over
  <2> QED BY <2>1, JobsStep
<1>3. JobsInv => OneReconcile
  BY DEF JobsInv, Alone, OneReconcile
<1> QED BY <1>1, <1>2, <1>3, PTL DEF JobsSpec

------------------------------------------------------------------------------
(* The types, without the bound on changes.                                     *)
Objects == [state : {"absent", "live", "trashed"}, version : Nat]
Made == [batch : Batches, source : Sources, version : Nat]
Applying == [pc : {"initialized", "importing"}, batch : Batches, left : SUBSET Sources]
Rolling == [pc : {"read"}, batch : Batches, rows : SUBSET Made, unchecked : SUBSET Made,
            foreign : SUBSET Sources]

ImportTypes ==
    /\ row \in [Sources -> Objects]
    /\ created \subseteq Made
    /\ status \in [Batches -> {"none", "applying", "interrupted", "completed", "rolled_back"}]
    /\ request \in [Requests -> Applying \cup Rolling \cup {NoImport}]
    /\ maker \in [Sources -> Batches \cup {0}]
    /\ edited \subseteq Sources

(* An object at the version it was made at is as the batch left it.             *)
AsMade(c) ==
    LET o == row[c.source] IN
    /\ o.state # "absent"
    /\ c.version <= o.version
    /\ c.version = o.version =>
          o.state = "live" /\ maker[c.source] = c.batch /\ c.source \notin edited

(* What a rollback may not delete it has not checked yet, and will find changed. *)
Caught(r) == request[r].pc = "read" =>
    \A s \in request[r].foreign :
        \E d \in request[r].unchecked : d.source = s /\ d.version < row[s].version

(* Who made a live object is on record.                                         *)
OnRecord(s) == maker[s] # 0 =>
    row[s].state = "live" /\ \E c \in created : c.batch = maker[s] /\ c.source = s

(* Nothing of a batch rolled back alone is left, and nobody imports for it.     *)
ForBatch(r, b) == request[r].pc \in {"initialized", "importing"} /\ request[r].batch = b
Ended(b) == status[b] = "rolled_back" /\ b \notin crowded =>
    /\ \A s \in Sources : maker[s] # b
    /\ \A r \in Requests : ~ForBatch(r, b)

ImportInv ==
    /\ ImportTypes
    /\ \A c \in created : AsMade(c)
    /\ \A r \in Requests : Caught(r)
    /\ EditsKept
    /\ \A s \in Sources : OnRecord(s)
    /\ \A b \in Batches : Ended(b)

------------------------------------------------------------------------------
LEMMA ZeroNoBatch == 0 \notin Batches
BY DEF Batches

LEMMA ImportInitial == ImportInit => ImportInv
BY ZeroNoBatch DEF ImportInit, ImportInv, ImportTypes, Objects, AsMade, Caught, EditsKept, OnRecord,
    ForBatch, Ended, NoImport

(* A step that leaves the objects and the statuses of batches, and sends no     *)
(* request on to an import.                                                     *)
LEMMA OtherRequest ==
    ASSUME ImportInv, NEW r \in Requests, NEW q \in Applying \cup Rolling \cup {NoImport},
           request' = [request EXCEPT ![r] = q],
           UNCHANGED <<row, maker, edited, created, lost, crowded>>,
           status' \in [Batches -> {"none", "applying", "interrupted", "completed", "rolled_back"}],
           q.pc \in {"initialized", "importing"} => status'[q.batch] # "rolled_back" \/ q.batch \in crowded \/ ForBatch(r, q.batch),
           \A b \in Batches : status'[b] = "rolled_back" => status[b] = "rolled_back",
           q.pc = "read" => \A s \in q.foreign :
               \E d \in q.unchecked : d.source = s /\ d.version < row[s].version
    PROVE  ImportInv'
<1>1. ImportTypes'
  BY DEF ImportInv, ImportTypes
<1>2. \A c \in created' : AsMade(c)'
  BY DEF ImportInv, AsMade
<1>3. \A p \in Requests : request'[p] = IF p = r THEN q ELSE request[p]
  BY DEF ImportInv, ImportTypes
<1>4. \A p \in Requests : Caught(p)'
  BY <1>3 DEF ImportInv, Caught
<1>5. EditsKept' /\ \A s \in Sources : OnRecord(s)'
  BY DEF ImportInv, EditsKept, OnRecord
<1>6. ASSUME NEW b \in Batches, status'[b] = "rolled_back", b \notin crowded'
      PROVE  (\A s \in Sources : maker'[s] # b) /\ \A p \in Requests : ~ForBatch(p, b)'
  <2>1. (\A s \in Sources : maker[s] # b) /\ \A p \in Requests : ~ForBatch(p, b)
    BY <1>6 DEF ImportInv, Ended
  <2>2. ASSUME NEW p \in Requests PROVE ~ForBatch(p, b)'
    <3>1. CASE p = r
      BY <1>3, <1>6, <2>1, <3>1 DEF ForBatch
    <3>2. CASE p # r
      BY <1>3, <2>1, <3>2 DEF ForBatch
    <3> QED BY <3>1, <3>2
  <2> QED BY <2>1, <2>2
<1>7. \A b \in Batches : Ended(b)'
  BY <1>6 DEF Ended
<1> QED BY <1>1, <1>2, <1>4, <1>5, <1>7 DEF ImportInv

(* Whoever changes an object gives it a new version.                            *)
LEMMA NewVersion ==
    ASSUME ImportInv, NEW s \in Sources, NEW o \in Objects, row' = [row EXCEPT ![s] = o],
           row[s].state # "absent" => row[s].version < o.version,
           row[s].version <= o.version, o.state # "absent",
           NEW c \in created, \A t \in Sources : t # s => maker'[t] = maker[t] /\ (t \in edited' => t \in edited)
    PROVE  AsMade(c)'
<1>1. c \in Made /\ AsMade(c) /\ row \in [Sources -> Objects]
  BY DEF ImportInv, ImportTypes
<1>2. c.source \in Sources /\ c.version \in Nat
  BY <1>1 DEF Made
<1>3. row'[c.source] = IF c.source = s THEN o ELSE row[c.source]
  BY <1>1, <1>2
<1>4. CASE c.source = s
  <2>1. c.version < o.version /\ o.version \in Nat /\ row[s].version \in Nat
    BY <1>1, <1>2, <1>4 DEF AsMade, Objects
  <2> QED BY <1>2, <1>3, <1>4, <2>1 DEF AsMade
<1>5. CASE c.source # s
  BY <1>1, <1>2, <1>3, <1>5 DEF AsMade
<1> QED BY <1>4, <1>5

LEMMA CaughtStays ==
    ASSUME ImportInv, NEW s \in Sources, NEW o \in Objects, row' = [row EXCEPT ![s] = o],
           row[s].version <= o.version, NEW r \in Requests, request'[r] = request[r]
    PROVE  Caught(r)'
<1>1. row \in [Sources -> Objects] /\ request[r] \in Applying \cup Rolling \cup {NoImport} /\ Caught(r)
  BY DEF ImportInv, ImportTypes
<1>2. ASSUME request[r].pc = "read", NEW t \in request[r].foreign
      PROVE  \E d \in request[r].unchecked : d.source = t /\ d.version < row'[t].version
  <2>1. request[r] \in Rolling
    BY <1>1, <1>2 DEF Applying, NoImport
  <2>2. t \in Sources /\ request[r].unchecked \subseteq Made
    BY <1>2, <2>1 DEF Rolling
  <2>3. PICK d \in request[r].unchecked : d.source = t /\ d.version < row[t].version
    BY <1>1, <1>2 DEF Caught
  <2>4. d.version \in Nat /\ row[t].version \in Nat /\ row'[t].version \in Nat
        /\ row[t].version <= row'[t].version
    BY <1>1, <2>2, <2>3 DEF Made, Objects
  <2> QED BY <2>3, <2>4
<1> QED BY <1>2 DEF Caught

------------------------------------------------------------------------------
LEMMA ObjectStep ==
    ASSUME ImportInv, NEW s \in Sources, NEW o \in Objects, row' = [row EXCEPT ![s] = o],
           row[s].state # "absent" => row[s].version < o.version,
           row[s].version <= o.version, o.state # "absent",
           NEW k \in {maker[s], 0}, maker' = [maker EXCEPT ![s] = k], k # 0 => o.state = "live",
           edited' \subseteq edited \cup {s},
           UNCHANGED <<created, status, request, lost, crowded>>
    PROVE  ImportInv'
<1>0. maker \in [Sources -> Batches \cup {0}] /\ row \in [Sources -> Objects] /\ edited \subseteq Sources
  BY DEF ImportInv, ImportTypes
<1>1. ImportTypes'
  BY <1>0 DEF ImportInv, ImportTypes
<1>2. \A t \in Sources : /\ maker'[t] = IF t = s THEN k ELSE maker[t]
                         /\ row'[t] = IF t = s THEN o ELSE row[t]
                         /\ t # s /\ t \in edited' => t \in edited
  BY <1>0
<1>3. \A c \in created' : AsMade(c)'
  BY <1>2, NewVersion
<1>4. \A r \in Requests : Caught(r)'
  BY CaughtStays
<1>5. EditsKept'
  BY DEF ImportInv, EditsKept
<1>6. \A t \in Sources : OnRecord(t)'
  BY <1>2 DEF ImportInv, OnRecord
<1>7. \A b \in Batches : Ended(b)'
  BY <1>2, ZeroNoBatch DEF ImportInv, Ended, ForBatch
<1> QED BY <1>1, <1>3, <1>4, <1>5, <1>6, <1>7 DEF ImportInv

LEMMA PersonStep ==
    ASSUME ImportInv, NEW s \in Sources, Create(s) \/ Edit(s) \/ Trash(s) \/ Restore(s)
    PROVE  ImportInv'
<1>0. /\ row[s] \in Objects /\ row[s].version \in Nat /\ row \in [Sources -> Objects]
      /\ maker \in [Sources -> Batches \cup {0}] /\ maker' = [maker EXCEPT ![s] = maker'[s]]
      /\ UNCHANGED <<created, status, request, lost, crowded>>
      /\ edited' \subseteq edited \cup {s}
  BY DEF ImportInv, ImportTypes, Create, Edit, Trash, Restore, history, Objects
<1>1. CASE Create(s)
  <2>1. PICK o : o = [row[s] EXCEPT !.state = "live"]
    OBVIOUS
  <2>2. o \in Objects /\ o.state = "live" /\ o.version = row[s].version
    BY <1>0, <2>1 DEF Objects
  <2>3. row' = [row EXCEPT ![s] = o] /\ row[s].state = "absent" /\ maker' = maker
    BY <1>1, <2>1 DEF Create
  <2>4. PICK k : k = maker[s]
    OBVIOUS
  <2>5. k \in {maker[s], 0} /\ maker' = [maker EXCEPT ![s] = k]
    BY <1>0, <2>3, <2>4
  <2>6. row[s].version <= o.version /\ o.state # "absent"
    BY <1>0, <2>2
  <2> QED BY <1>0, <2>2, <2>3, <2>5, <2>6, ObjectStep
<1>2. ASSUME NEW state \in {"live", "trashed"}, row' = Changed(row, s, state),
             maker'[s] \in {maker[s], 0}, maker'[s] # 0 => state = "live"
      PROVE  ImportInv'
  <2>1. PICK o : o = [state |-> state, version |-> row[s].version + 1]
    OBVIOUS
  <2>2. o \in Objects /\ o.state = state /\ o.version = row[s].version + 1
    BY <1>0, <2>1 DEF Objects
  <2>3. row' = [row EXCEPT ![s] = o]
    BY <1>0, <1>2, <2>1 DEF Changed
  <2>4. PICK k : k = maker'[s]
    OBVIOUS
  <2>5. k \in {maker[s], 0} /\ maker' = [maker EXCEPT ![s] = k] /\ (k # 0 => o.state = "live")
    BY <1>0, <1>2, <2>2, <2>4
  <2>6. row[s].version < o.version /\ row[s].version <= o.version /\ o.state # "absent"
    BY <1>0, <2>2
  <2> QED BY <1>0, <2>2, <2>3, <2>5, <2>6, ObjectStep
<1>3. CASE Edit(s)
  BY <1>2, <1>3 DEF Edit
<1>4. CASE Trash(s)
  BY <1>0, <1>2, <1>4 DEF Trash
<1>5. CASE Restore(s)
  <2>1. maker'[s] = 0
    BY <1>0, <1>5 DEF Restore, ImportInv, OnRecord
  <2> QED BY <1>2, <1>5, <2>1 DEF Restore
<1> QED BY <1>1, <1>3, <1>4, <1>5

------------------------------------------------------------------------------
(* The steps of a request that leave the objects alone.                         *)
LEMMA Idle == NoImport \in Applying \cup Rolling \cup {NoImport} /\ NoImport.pc = "idle"
BY DEF NoImport

LEMMA InitializeStep ==
    ASSUME ImportInv, NEW r \in Requests, NEW b \in Batches, Initialize(r, b)
    PROVE  ImportInv'
<1>1. PICK q : q = [batch |-> b, left |-> Sources,
                    pc |-> IF status'[b] = "applying" THEN "importing" ELSE "initialized"]
  OBVIOUS
<1>2. q \in Applying /\ q.batch = b /\ q.pc # "read"
  BY <1>1 DEF Applying
<1>3. request' = [request EXCEPT ![r] = q] /\ UNCHANGED <<row, maker, edited, created, lost, crowded>>
  BY <1>1 DEF Initialize, objects, history
<1>4. /\ status' \in [Batches -> {"none", "applying", "interrupted", "completed", "rolled_back"}]
      /\ status'[b] # "rolled_back"
      /\ \A d \in Batches : status'[d] = "rolled_back" => status[d] = "rolled_back"
  BY DEF ImportInv, ImportTypes, Initialize, InForce, Fresh
<1> QED BY <1>2, <1>3, <1>4, OtherRequest

LEMMA MarkApplyingStep ==
    ASSUME ImportInv, NEW r \in Requests, MarkApplying(r)
    PROVE  ImportInv'
<1>1. PICK d : d = request[r]
  OBVIOUS
<1>2. d \in Applying
  BY <1>1 DEF ImportInv, ImportTypes, MarkApplying, Rolling, NoImport
<1>3. PICK q : q = [d EXCEPT !.pc = "importing"]
  OBVIOUS
<1>4. q \in Applying /\ q.batch = d.batch /\ q.pc = "importing" /\ d.batch \in Batches
  BY <1>2, <1>3 DEF Applying
<1>5. /\ request' = [request EXCEPT ![r] = q]
      /\ UNCHANGED <<row, maker, edited, created, lost, crowded>>
      /\ status' = [status EXCEPT ![d.batch] = "applying"]
  BY <1>1, <1>3 DEF MarkApplying, objects, history
<1>6. /\ status' \in [Batches -> {"none", "applying", "interrupted", "completed", "rolled_back"}]
      /\ status'[q.batch] # "rolled_back"
      /\ \A b \in Batches : status'[b] = "rolled_back" => status[b] = "rolled_back"
  BY <1>4, <1>5 DEF ImportInv, ImportTypes
<1> QED BY <1>4, <1>5, <1>6, OtherRequest

LEMMA DoneStep ==
    ASSUME ImportInv, NEW r \in Requests, Complete(r) \/ Interrupt(r) \/ Leave(r)
    PROVE  ImportInv'
<1>1. /\ request' = [request EXCEPT ![r] = NoImport]
      /\ UNCHANGED <<row, maker, edited, created, lost, crowded>>
  BY DEF Complete, Interrupt, Leave, Done, objects, history
<1>2. /\ status' \in [Batches -> {"none", "applying", "interrupted", "completed", "rolled_back"}]
      /\ \A b \in Batches : status'[b] = "rolled_back" => status[b] = "rolled_back"
  BY DEF ImportInv, ImportTypes, Complete, Interrupt, Leave
<1> QED BY <1>1, <1>2, Idle, OtherRequest

(* A rollback without the override has not checked any row yet, and an object   *)
(* it may not delete has a version the batch did not make.                      *)
LEMMA RollbackReadStep ==
    ASSUME ImportInv, NEW r \in Requests, NEW b \in Batches, NEW forced \in BOOLEAN,
           RollbackRead(r, b, forced)
    PROVE  ImportInv'
<1>1. PICK foreign : foreign = IF forced THEN {} ELSE {c.source : c \in {d \in RowsOf(b) :
                                    maker[d.source] # b \/ d.source \in edited}}
  OBVIOUS
<1>2. PICK unchecked : unchecked = IF forced THEN {} ELSE RowsOf(b)
  OBVIOUS
<1>3. PICK q : q = [pc |-> "read", batch |-> b, rows |-> RowsOf(b), unchecked |-> unchecked,
                    foreign |-> foreign]
  OBVIOUS
<1>4. RowsOf(b) \subseteq created /\ created \subseteq Made
  BY DEF ImportInv, ImportTypes, RowsOf
<1>5. foreign \subseteq Sources /\ unchecked \subseteq Made
  BY <1>1, <1>2, <1>4 DEF Made
<1>6. q \in Rolling /\ q.pc = "read" /\ q.foreign = foreign /\ q.unchecked = unchecked
  BY <1>3, <1>4, <1>5 DEF Rolling
<1>7. /\ request' = [request EXCEPT ![r] = q]
      /\ UNCHANGED <<row, maker, edited, created, lost, crowded, status>>
  BY <1>1, <1>2, <1>3 DEF RollbackRead, objects, history
<1>8. ASSUME NEW s \in foreign
      PROVE  \E d \in unchecked : d.source = s /\ d.version < row[s].version
  <2>1. PICK d \in RowsOf(b) : d.source = s /\ (maker[s] # b \/ s \in edited) /\ unchecked = RowsOf(b)
    BY <1>1, <1>2, <1>8
  <2>2. AsMade(d) /\ d.batch = b /\ d.version \in Nat /\ d.source \in Sources
    BY <1>4, <2>1 DEF ImportInv, RowsOf, Made
  <2>3. row[s].version \in Nat
    BY <2>1, <2>2 DEF ImportInv, ImportTypes, Objects
  <2> QED BY <2>1, <2>2, <2>3 DEF AsMade
<1>9. status' \in [Batches -> {"none", "applying", "interrupted", "completed", "rolled_back"}]
  BY <1>7 DEF ImportInv, ImportTypes
<1> QED BY <1>6, <1>7, <1>8, <1>9, OtherRequest

LEMMA CheckStep ==
    ASSUME ImportInv, NEW r \in Requests, NEW c \in created, Check(r, c)
    PROVE  ImportInv'
<1>1. PICK d : d = request[r]
  OBVIOUS
<1>2. d \in Rolling /\ Caught(r)
  BY <1>1 DEF ImportInv, ImportTypes, Check, Applying, NoImport
<1>3. PICK q : q = [d EXCEPT !.unchecked = @ \ {c}]
  OBVIOUS
<1>4. q \in Rolling /\ q.pc = "read" /\ q.foreign = d.foreign /\ q.unchecked = d.unchecked \ {c}
  BY <1>2, <1>3 DEF Rolling
<1>5. /\ request' = [request EXCEPT ![r] = q] /\ d.pc = "read"
      /\ UNCHANGED <<row, maker, edited, created, lost, crowded, status>>
      /\ row[c.source].version = c.version
  BY <1>1, <1>3 DEF Check, Unedited, objects, history
<1>6. ASSUME NEW s \in q.foreign
      PROVE  \E e \in q.unchecked : e.source = s /\ e.version < row[s].version
  <2>1. PICK e \in d.unchecked : e.source = s /\ e.version < row[s].version
    BY <1>1, <1>2, <1>4, <1>5, <1>6 DEF Caught
  <2>2. c \in Made /\ c.version \in Nat
    BY DEF ImportInv, ImportTypes, Made
  <2>3. e # c
    BY <1>5, <2>1, <2>2
  <2> QED BY <1>4, <2>1, <2>3
<1>7. status' \in [Batches -> {"none", "applying", "interrupted", "completed", "rolled_back"}]
  BY <1>5 DEF ImportInv, ImportTypes
<1> QED BY <1>4, <1>5, <1>6, <1>7, OtherRequest

------------------------------------------------------------------------------
(* Importing a key, and the end of a rollback.                                  *)
LEMMA ImportStep ==
    ASSUME ImportInv, NEW r \in Requests, NEW s \in Sources, Import(r, s)
    PROVE  ImportInv'
<1>1. PICK d : d = request[r]
  OBVIOUS
<1>2. d \in Applying /\ d.pc = "importing" /\ d.batch \in Batches /\ d.left \subseteq Sources
  BY <1>1 DEF ImportInv, ImportTypes, Import, Applying, Rolling, NoImport
<1>3. PICK q : q = [d EXCEPT !.left = @ \ {s}]
  OBVIOUS
<1>4. q \in Applying /\ q.batch = d.batch /\ q.pc = "importing"
  BY <1>2, <1>3 DEF Applying
<1>5. request' = [request EXCEPT ![r] = q] /\ UNCHANGED <<status, lost, crowded>>
  BY <1>1, <1>3 DEF Import, history
<1>6. ForBatch(r, d.batch)
  BY <1>1, <1>2 DEF ForBatch
<1>7. CASE UNCHANGED <<created, objects>>
  <2>1. status' \in [Batches -> {"none", "applying", "interrupted", "completed", "rolled_back"}]
    BY <1>5 DEF ImportInv, ImportTypes
  <2> QED BY <1>4, <1>5, <1>6, <1>7, <2>1, OtherRequest DEF objects
<1>8. CASE ~UNCHANGED <<created, objects>>
  <2>1. PICK b \in Batches : b = d.batch
    BY <1>2
  <2>2. PICK o : o = [state |-> "live", version |-> row[s].version + 1]
    OBVIOUS
  <2>3. PICK n : n = [batch |-> b, source |-> s, version |-> o.version]
    OBVIOUS
  <2>4. /\ row \in [Sources -> Objects] /\ row[s].version \in Nat
        /\ maker \in [Sources -> Batches \cup {0}] /\ edited \subseteq Sources
    BY DEF ImportInv, ImportTypes, Objects
  <2>5. /\ o \in Objects /\ o.state = "live" /\ row[s].version < o.version
        /\ row[s].version <= o.version
    BY <2>2, <2>4 DEF Objects
  <2>6. /\ row' = [row EXCEPT ![s] = o]
        /\ created' = created \cup {n}
        /\ maker' = [maker EXCEPT ![s] = b]
        /\ edited' = edited \ {s}
    BY <1>1, <1>8, <2>1, <2>2, <2>3, <2>4 DEF Import, Changed
  <2>7. n \in Made
    BY <2>3, <2>5 DEF Made, Objects
  <2>8. \A t \in Sources : /\ row'[t] = IF t = s THEN o ELSE row[t]
                           /\ maker'[t] = IF t = s THEN b ELSE maker[t]
    BY <2>4, <2>6
  <2>9. ImportTypes'
    <3>1. request' \in [Requests -> Applying \cup Rolling \cup {NoImport}]
      BY <1>4, <1>5 DEF ImportInv, ImportTypes
    <3>2. row' \in [Sources -> Objects] /\ maker' \in [Sources -> Batches \cup {0}] /\ created' \subseteq Made
      BY <2>4, <2>5, <2>6, <2>7 DEF ImportInv, ImportTypes
    <3> QED BY <1>5, <2>6, <3>1, <3>2 DEF ImportInv, ImportTypes
  <2>10. \A c \in created' : AsMade(c)'
    <3>1. \A c \in created : AsMade(c)'
      BY <2>5, <2>6, <2>8, NewVersion
    <3>2. AsMade(n)'
      BY <2>3, <2>5, <2>6, <2>8 DEF AsMade, Objects
    <3> QED BY <2>6, <3>1, <3>2
  <2>11. \A p \in Requests : Caught(p)'
    <3>1. \A p \in Requests : request'[p] = IF p = r THEN q ELSE request[p]
      BY <1>5 DEF ImportInv, ImportTypes
    <3>2. ASSUME NEW p \in Requests, p # r PROVE Caught(p)'
      BY <2>5, <2>6, <3>1, <3>2, CaughtStays
    <3> QED BY <1>4, <3>1, <3>2 DEF Caught
  <2>12. EditsKept'
    BY <1>5 DEF ImportInv, EditsKept
  <2>13. \A t \in Sources : OnRecord(t)'
    <3>1. OnRecord(s)'
      BY <2>3, <2>5, <2>6, <2>8 DEF OnRecord
    <3>2. ASSUME NEW t \in Sources, t # s PROVE OnRecord(t)'
      BY <2>6, <2>8, <3>2 DEF ImportInv, OnRecord
    <3> QED BY <3>1, <3>2
  <2>14. \A p \in Requests, e \in Batches : ForBatch(p, e)' => ForBatch(p, e)
    BY <1>1, <1>2, <1>4, <1>5 DEF ForBatch, ImportInv, ImportTypes
  <2>15. ASSUME NEW e \in Batches PROVE Ended(e)'
    <3>1. SUFFICES ASSUME status[e] = "rolled_back", e \notin crowded
                   PROVE  (\A t \in Sources : maker'[t] # e) /\ \A p \in Requests : ~ForBatch(p, e)'
      BY <1>5 DEF Ended
    <3>2. (\A t \in Sources : maker[t] # e) /\ \A p \in Requests : ~ForBatch(p, e)
      BY <3>1 DEF ImportInv, Ended
    <3>3. e # b
      BY <1>6, <2>1, <3>2
    <3> QED BY <2>8, <2>14, <3>2, <3>3
  <2> QED BY <2>9, <2>10, <2>11, <2>12, <2>13, <2>15 DEF ImportInv
<1> QED BY <1>7, <1>8

LEMMA RollbackCommitStep ==
    ASSUME ImportInv, NEW r \in Requests, RollbackCommit(r)
    PROVE  ImportInv'
<1>1. PICK d : d = request[r]
  OBVIOUS
<1>2. d \in Rolling /\ d.unchecked = {}
  BY <1>1 DEF ImportInv, ImportTypes, RollbackCommit, Applying, NoImport
<1>3. PICK b \in Batches : b = d.batch
  BY <1>2 DEF Rolling
<1>4. PICK gone : gone = Removed(r)
  OBVIOUS
<1>5. gone = {c.source : c \in d.rows}
  BY <1>1, <1>4 DEF Removed
<1>6. /\ row \in [Sources -> Objects] /\ maker \in [Sources -> Batches \cup {0}]
      /\ edited \subseteq Sources /\ request \in [Requests -> Applying \cup Rolling \cup {NoImport}]
      /\ status \in [Batches -> {"none", "applying", "interrupted", "completed", "rolled_back"}]
  BY DEF ImportInv, ImportTypes
<1>7. /\ row' = [s \in Sources |-> IF s \in gone
                                   THEN [state |-> "trashed", version |-> row[s].version + 1] ELSE row[s]]
      /\ status' = [status EXCEPT ![b] = "rolled_back"]
      /\ request' = [request EXCEPT ![r] = NoImport]
      /\ maker' = [s \in Sources |-> IF s \in gone THEN 0 ELSE maker[s]]
      /\ edited' = edited \ gone
      /\ lost' = lost \cup {s \in gone \cap d.foreign : row[s].state = "live"}
      /\ UNCHANGED created
  BY <1>1, <1>3, <1>4 DEF RollbackCommit, Done
<1>8. /\ crowded \subseteq crowded'
      /\ b \notin crowded' => RowsOf(b) = d.rows
                              /\ \A q \in Requests : ~ForBatch(q, b)
  BY <1>1, <1>3 DEF RollbackCommit, ForBatch
<1>9. ImportTypes'
  <2>1. row' \in [Sources -> Objects]
    BY <1>6, <1>7 DEF Objects
  <2>2. request' \in [Requests -> Applying \cup Rolling \cup {NoImport}]
    BY <1>6, <1>7
  <2>3. maker' \in [Sources -> Batches \cup {0}]
    BY <1>6, <1>7
  <2> QED BY <1>6, <1>7, <2>1, <2>2, <2>3 DEF ImportInv, ImportTypes
<1>10. ASSUME NEW c \in created' PROVE AsMade(c)'
  <2>1. c \in created /\ c.source \in Sources /\ c.version \in Nat /\ AsMade(c)
    BY <1>7 DEF ImportInv, ImportTypes, Made
  <2>2. row[c.source].version \in Nat
    BY <1>6, <2>1 DEF Objects
  <2>3. CASE c.source \in gone
    <3>1. row'[c.source] = [state |-> "trashed", version |-> row[c.source].version + 1]
      BY <1>7, <2>1, <2>3
    <3>2. row'[c.source].state = "trashed" /\ c.version < row'[c.source].version
          /\ row'[c.source].version \in Nat
      BY <2>1, <2>2, <3>1 DEF AsMade
    <3> QED BY <2>1, <3>2 DEF AsMade
  <2>4. CASE c.source \notin gone
    <3>1. row'[c.source] = row[c.source] /\ maker'[c.source] = maker[c.source]
      BY <1>7, <2>1, <2>4
    <3> QED BY <1>7, <2>1, <3>1 DEF AsMade
  <2> QED BY <2>3, <2>4
<1>11. ASSUME NEW p \in Requests PROVE Caught(p)'
  <2>1. CASE p = r
    BY <1>6, <1>7, <2>1, Idle DEF Caught
  <2>2. CASE p # r
    <3>1. request'[p] = request[p] /\ Caught(p)
      BY <1>7, <2>2 DEF ImportInv
    <3>2. ASSUME request[p].pc = "read", NEW t \in request[p].foreign
          PROVE  \E e \in request[p].unchecked : e.source = t /\ e.version < row'[t].version
      <4>1. request[p] \in Rolling
        BY <1>6, <3>2 DEF Applying, NoImport
      <4>2. t \in Sources /\ request[p].unchecked \subseteq Made
        BY <3>2, <4>1 DEF Rolling
      <4>3. PICK e \in request[p].unchecked : e.source = t /\ e.version < row[t].version
        BY <3>1, <3>2 DEF Caught
      <4>4. e.version \in Nat /\ row[t].version \in Nat
        BY <1>6, <4>2, <4>3 DEF Made, Objects
      <4>5. row'[t].version \in {row[t].version, row[t].version + 1}
        BY <1>7, <4>2
      <4> QED BY <4>3, <4>4, <4>5
    <3> QED BY <3>1, <3>2 DEF Caught
  <2> QED BY <2>1, <2>2
<1>12. EditsKept'
  <2>1. d.foreign = {}
    BY <1>1, <1>2 DEF ImportInv, Caught, Rolling
  <2> QED BY <1>7, <2>1 DEF ImportInv, EditsKept
<1>13. \A s \in Sources : OnRecord(s)'
  BY <1>7 DEF ImportInv, OnRecord
<1>14. ASSUME NEW e \in Batches PROVE Ended(e)'
  <2>1. SUFFICES ASSUME status'[e] = "rolled_back", e \notin crowded'
                 PROVE  (\A t \in Sources : maker'[t] # e) /\ \A p \in Requests : ~ForBatch(p, e)'
    BY DEF Ended
  <2>2. \A p \in Requests : ForBatch(p, e)' => ForBatch(p, e)
    BY <1>6, <1>7, Idle DEF ForBatch
  <2>3. CASE e = b
    <3>1. RowsOf(b) = d.rows /\ \A p \in Requests : ~ForBatch(p, b)
      BY <1>8, <2>1, <2>3
    <3>2. ASSUME NEW t \in Sources, maker'[t] = b PROVE FALSE
      <4>1. maker[t] = b /\ t \notin gone
        BY <1>7, <3>2, ZeroNoBatch
      <4>2. PICK c \in created : c.batch = b /\ c.source = t
        BY <4>1, ZeroNoBatch DEF ImportInv, OnRecord
      <4>3. c \in d.rows
        BY <3>1, <4>2 DEF RowsOf
      <4> QED BY <1>5, <4>1, <4>2, <4>3
    <3> QED BY <2>2, <2>3, <3>1, <3>2
  <2>4. CASE e # b
    <3>1. status[e] = "rolled_back" /\ e \notin crowded
      BY <1>6, <1>7, <1>8, <2>1, <2>4
    <3>2. (\A t \in Sources : maker[t] # e) /\ \A p \in Requests : ~ForBatch(p, e)
      BY <3>1 DEF ImportInv, Ended
    <3> QED BY <1>7, <2>2, <3>2, ZeroNoBatch
  <2> QED BY <2>3, <2>4
<1> QED BY <1>9, <1>10, <1>11, <1>12, <1>13, <1>14 DEF ImportInv

LEMMA ImportStutter == ImportInv /\ UNCHANGED importVars => ImportInv'
BY DEF importVars, ImportInv, ImportTypes, AsMade, Caught, EditsKept, OnRecord, Ended, ForBatch

LEMMA ImportsStep == ImportInv /\ [ImportNext]_importVars => ImportInv'
<1> SUFFICES ASSUME ImportInv, ImportNext PROVE ImportInv'
  BY ImportStutter
<1>1. CASE \E s \in Sources : Create(s) \/ Edit(s) \/ Trash(s) \/ Restore(s)
  BY <1>1, PersonStep
<1>2. ASSUME NEW r \in Requests,
             \/ \E b \in Batches : Initialize(r, b) \/ \E f \in BOOLEAN : RollbackRead(r, b, f)
             \/ MarkApplying(r) \/ Complete(r) \/ Interrupt(r)
             \/ \E s \in Sources : Import(r, s)
             \/ \E c \in created : Check(r, c)
             \/ RollbackCommit(r) \/ Leave(r)
      PROVE  ImportInv'
  BY <1>2, InitializeStep, RollbackReadStep, MarkApplyingStep, DoneStep, ImportStep, CheckStep,
     RollbackCommitStep
<1> QED BY <1>1, <1>2 DEF ImportNext

(* A rollback without the override deletes nothing that a person had edited     *)
(* when it began or that the batch had not made, for any bundle and any number  *)
(* of batches and requests, whoever edits or imports beside it.                 *)
THEOREM EditsSafe == ImportSpec => []EditsKept
<1>1. ImportInv => EditsKept
  BY DEF ImportInv
<1> QED BY <1>1, ImportInitial, ImportsStep, PTL DEF ImportSpec

(* Nothing a batch made is live once it is rolled back, unless an apply of it   *)
(* ran beside the rollback, for any bundle and any number of requests that are  *)
(* cut off and repeated.                                                        *)
THEOREM Gone == ImportSpec => []RolledBackGone
<1>1. ImportInv => RolledBackGone
  BY DEF ImportInv, Ended, RolledBackGone
<1> QED BY <1>1, ImportInitial, ImportsStep, PTL DEF ImportSpec
=============================================================================
