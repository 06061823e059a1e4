-------------------------- MODULE IntegrationJobs --------------------------
(* The jobs of the GitHub integration (github/: base, setup, webhook, work and  *)
(* job services) for one workspace.  The end of the setup and every webhook     *)
(* queue a job.  Every four seconds a sweep begins, whether or not the last has *)
(* ended: once a minute it does some maintenance and queues a reconciliation,   *)
(* then it takes back old jobs, claims those that are due and goes through      *)
(* them.  What has a job do its work, the id of its connection, is read from a  *)
(* raw row under a name the row does not have.                                  *)
EXTENDS Naturals, Sequences, FiniteSets

CONSTANTS
    Selected,     \* GitHub: the repositories the App is installed on
    Deliveries,   \* deliveries GitHub makes, each once or several times
    Sweeps,       \* bound: sweeps at once
    MaxTries,     \* attempts after which a job is dead; 8 in the code
    MaxClaimed,   \* jobs claimed at once; 10 in the code
    MaxJobs,      \* bound: jobs
    MaxFaults     \* bound: failures, crashes, manual retries, slow sweeps

ASSUME JobsAssumption == MaxTries \in Nat

VARIABLES
    connection,    \* githubConnections: its status, whether it has an installation id
    repositories,  \* githubRepositories, those installed
    stored,        \* githubWebhookDeliveries; none is ever marked as processed
    integration,   \* integrationJobs, in the order of their creation
    sweep,         \* progress of each processJobs
    maintained,    \* lastMaintenanceAt is less than a minute ago
    slips,         \* what went wrong so far
    faults         \* counted for the bound

jobsVars == <<connection, repositories, stored, integration, sweep, maintained, slips, faults>>

Connection == [status : {"none", "app_created", "installed", "disconnected"},
               installation : BOOLEAN]
Statuses == {"queued", "running", "completed", "dead"}
IntegrationJob == [type : {"refresh-repositories", "reconcile", "process-webhook"},
                   status : Statuses, attempts : Nat]
Maintaining == {"maintain", "look", "insert"}
NoSweep == [pc |-> "idle", claimed |-> {}]
SweepState == [pc : {"idle", "reclaim", "claim", "work"} \cup Maintaining,
               claimed : SUBSET (Nat \X Nat)]  \* jobs with their attempts when claimed

JobsTypeOK ==
    /\ connection \in Connection
    /\ repositories \subseteq Selected
    /\ stored \subseteq Deliveries
    /\ integration \in Seq(IntegrationJob)
    /\ sweep \in [Sweeps -> SweepState]
    /\ maintained \in BOOLEAN
    /\ slips \subseteq {"slow", "revived", "retried"}
    /\ faults \in Nat

JobsInit ==
    /\ connection = [status |-> "none", installation |-> FALSE]
    /\ repositories = {} /\ stored = {} /\ integration = <<>>
    /\ sweep = [w \in Sweeps |-> NoSweep]
    /\ maintained = FALSE /\ slips = {} /\ faults = 0

------------------------------------------------------------------------------
Fault == faults < MaxFaults /\ faults' = faults + 1
Slip(name, when) == slips' = slips \cup {x \in {name} : when}
Enqueue(type) ==
    /\ Len(integration) < MaxJobs
    /\ integration' = Append(integration, [type |-> type, status |-> "queued", attempts |-> 0])
Over(j) == integration[j].status \in {"completed", "dead"}
Reconciling(j) == integration[j].type = "reconcile"
Pending == {j \in DOMAIN integration : Reconciling(j) /\ ~Over(j)}
SetStatus(j, s) == integration' = [integration EXCEPT ![j].status = s]

(* completeManifest, completeSetup and disconnect.                              *)
CompleteManifest ==
    /\ connection' = [connection EXCEPT !.status = "app_created"]
    /\ UNCHANGED <<repositories, stored, integration, sweep, maintained, slips, faults>>

CompleteSetup ==
    /\ connection.status # "none"
    /\ connection' = [status |-> "installed", installation |-> TRUE]
    /\ Enqueue("refresh-repositories")
    /\ UNCHANGED <<repositories, stored, sweep, maintained, slips, faults>>

Disconnect ==
    /\ connection.status # "none"
    /\ connection' = [status |-> "disconnected", installation |-> FALSE]
    /\ UNCHANGED <<repositories, stored, integration, sweep, maintained, slips, faults>>

(* webhook: a delivery is stored once, and queued again when it is redelivered. *)
ReceiveWebhook(d) ==
    /\ connection.installation
    /\ stored' = stored \cup {d}
    /\ Enqueue("process-webhook")
    /\ UNCHANGED <<connection, repositories, sweep, maintained, slips, faults>>

------------------------------------------------------------------------------
At(w, pc) == sweep' = [sweep EXCEPT ![w].pc = pc]

(* processJobs begins.  The time of the maintenance is set before its first     *)
(* statement.                                                                   *)
StartSweepForgets(w) ==  \* mutant: lastMaintenanceAt is not set
    /\ sweep[w].pc = "idle"
    /\ At(w, IF maintained THEN "reclaim" ELSE "maintain")
    /\ UNCHANGED <<connection, repositories, stored, integration, maintained, slips, faults>>
StartSweep(w) ==
    /\ sweep[w].pc = "idle"
    /\ At(w, IF maintained THEN "reclaim" ELSE "maintain")
    /\ maintained' = TRUE
    /\ UNCHANGED <<connection, repositories, stored, integration, slips, faults>>

(* A minute after a maintenance began, as a rule long after it ended.           *)
MinutePasses ==
    LET slow == \E w \in Sweeps : sweep[w].pc \in Maintaining IN
    /\ maintained
    /\ maintained' = FALSE
    /\ IF slow THEN Fault ELSE UNCHANGED faults
    /\ Slip("slow", slow)
    /\ UNCHANGED <<connection, repositories, stored, integration, sweep>>

(* scheduleMaintenance: old deliveries are deleted and the connection is read.  *)
(* No reconciliation ever sets its lastReconciledAt, so that one is always due. *)
Maintain(w) ==
    /\ sweep[w].pc = "maintain"
    /\ \E old \in SUBSET stored : stored' = stored \ old
    /\ At(w, IF connection.status = "installed" THEN "look" ELSE "reclaim")
    /\ UNCHANGED <<connection, repositories, integration, maintained, slips, faults>>

Look(w) ==
    /\ sweep[w].pc = "look"
    /\ At(w, IF Pending = {} THEN "insert" ELSE "reclaim")
    /\ UNCHANGED <<connection, repositories, stored, integration, maintained, slips, faults>>

EnqueueReconcile(w) ==
    /\ sweep[w].pc = "insert"
    /\ Enqueue("reconcile")
    /\ At(w, "reclaim")
    /\ UNCHANGED <<connection, repositories, stored, maintained, slips, faults>>

(* Jobs locked for ten minutes are queued again, those of a crashed process or  *)
(* of a sweep that slow.                                                        *)
Running == {j \in DOMAIN integration : integration[j].status = "running"}
Held == UNION {{c[1] : c \in sweep[w].claimed} : w \in Sweeps}

Reclaim(w) ==
    /\ sweep[w].pc = "reclaim"
    /\ \E old \in SUBSET Running :
          /\ integration' = [j \in DOMAIN integration |->
                                IF j \in old THEN [integration[j] EXCEPT !.status = "queued"]
                                ELSE integration[j]]
          /\ IF old \cap Held # {} THEN Fault ELSE UNCHANGED faults
    /\ At(w, "claim")
    /\ UNCHANGED <<connection, repositories, stored, maintained, slips>>

(* A failed job is due some time later.                                         *)
Due(late) == {j \in DOMAIN integration : /\ integration[j].status = "queued"
                                         /\ integration[j].attempts = 0 \/ j \in late}
FirstOf(S) == {j \in S : Cardinality({k \in S : k < j}) < MaxClaimed}

ClaimJobs(w) ==
    /\ sweep[w].pc = "claim"
    /\ \E late \in SUBSET DOMAIN integration :
          LET ours == FirstOf(Due(late)) IN
          /\ integration' = [j \in DOMAIN integration |->
                                IF j \in ours
                                THEN [integration[j] EXCEPT !.status = "running", !.attempts = @ + 1]
                                ELSE integration[j]]
          /\ sweep' = [sweep EXCEPT ![w] =
                          IF ours = {} THEN NoSweep
                          ELSE [pc |-> "work",
                                claimed |-> {<<j, integration[j].attempts + 1>> : j \in ours}]]
    /\ UNCHANGED <<connection, repositories, stored, maintained, slips, faults>>

------------------------------------------------------------------------------
Close(w, c) ==
    LET rest == sweep[w].claimed \ {c} IN
    sweep' = [sweep EXCEPT ![w] = IF rest = {} THEN NoSweep ELSE [pc |-> "work", claimed |-> rest]]

(* The row as node-postgres returns it, with the names of the columns.          *)
RawRow(j) == [id |-> j, type |-> integration[j].type, connection_id |-> "the connection"]

(* processJob returns at once when the job has no connectionId; else these jobs *)
(* would read the repositories from GitHub.                                     *)
ProcessJob(row) ==
    IF "connectionId" \notin DOMAIN row THEN repositories
    ELSE IF row.type = "process-webhook" THEN repositories \cup Selected ELSE Selected

(* Nothing looks whether the job is still the sweep's.                          *)
CompleteJob(w, c) ==
    /\ c \in sweep[w].claimed
    /\ repositories' = ProcessJob(RawRow(c[1]))
    /\ SetStatus(c[1], "completed")
    /\ Close(w, c)
    /\ UNCHANGED <<connection, stored, maintained, slips, faults>>

(* The statement that completes the job fails.                                  *)
FailJob(w, c) ==
    /\ c \in sweep[w].claimed
    /\ Fault
    /\ SetStatus(c[1], IF c[2] >= MaxTries THEN "dead" ELSE "queued")
    /\ Close(w, c)
    /\ Slip("revived", Reconciling(c[1]) /\ Over(c[1]) /\ c[2] < MaxTries)
    /\ UNCHANGED <<connection, repositories, stored, maintained>>

(* retryJob, whatever the job's status is.                                      *)
RetryIntegrationJob(j) ==
    /\ integration[j].status # "queued"
    /\ Fault
    /\ SetStatus(j, "queued")
    /\ Slip("retried", Reconciling(j) /\ Over(j))
    /\ UNCHANGED <<connection, repositories, stored, sweep, maintained>>

(* The API process ends: for any reason, or since a statement of a sweep failed *)
(* outside its try block.                                                       *)
JobsCrash ==
    /\ Fault
    /\ sweep' = [w \in Sweeps |-> NoSweep]
    /\ maintained' = FALSE
    /\ UNCHANGED <<connection, repositories, stored, integration, slips>>

JobsNext ==
    \/ CompleteManifest \/ CompleteSetup \/ Disconnect
    \/ \E d \in Deliveries : ReceiveWebhook(d)
    \/ MinutePasses
    \/ \E w \in Sweeps :
          \/ StartSweep(w) \/ Maintain(w) \/ Look(w) \/ EnqueueReconcile(w)
          \/ Reclaim(w) \/ ClaimJobs(w)
          \/ \E c \in sweep[w].claimed : CompleteJob(w, c) \/ FailJob(w, c)
    \/ \E j \in DOMAIN integration : RetryIntegrationJob(j)
    \/ JobsCrash

JobsSpec == JobsInit /\ [][JobsNext]_jobsVars

------------------------------------------------------------------------------
(* However sweeps overlap, crash, take back and repeat jobs, no reconciliation  *)
(* is queued beside one that is queued or running, although a sweep looks for   *)
(* one in one statement and queues it in another; unless a maintenance took     *)
(* more than a minute, or the late failure of a sweep that no longer had the    *)
(* job, or an administrator's retry, queued a settled one again.                *)
OneReconcile == slips = {} => \A i, j \in Pending : i = j

(* Once the App is installed and every job is completed, the repositories it is *)
(* installed on are loaded: GitHubSettings.tsx says of a connection without     *)
(* repositories that installing the App loads them.                             *)
RepositoriesLoaded ==
    (/\ connection.status = "installed"
     /\ \A j \in DOMAIN integration : integration[j].status = "completed" /\ j \notin Held)
        => repositories = Selected
=============================================================================
