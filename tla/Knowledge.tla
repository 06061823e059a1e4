----------------------------- MODULE Knowledge -----------------------------
(* Knowledge artifacts and milestones (portfolio-knowledge/artifact.service.ts  *)
(* and base.service.ts).  A request reads the record in several statements,     *)
(* decides, may fetch a file from GitHub, and changes the record under the      *)
(* version its client names.  One artifact and one milestone; artifacts meet    *)
(* only in relations, which change the version of one of them.                  *)
EXTENDS Naturals

CONSTANTS
    Dates, Nothing,
    Askers,   \* bound: requests at once
    MaxVersion  \* bound: versions of a record

VARIABLES
    artifact, milestone,
    edition,  \* version of the artifact
    issueNo,  \* version of the milestone
    request   \* progress of each request

knowledgeVars == <<artifact, milestone, edition, issueNo, request>>

Rules == INSTANCE KnowledgeRules

Artifact == [origin : {"native", "git_backed"}, pinned : BOOLEAN, verified : BOOLEAN,
             standing : {"candidate", "canonical"} \cup Rules!Dispositions,
             stamped : BOOLEAN, newest : Nat, live : BOOLEAN]
Milestone == [status : Rules!Statuses, completedAt : Dates \cup {Nothing}, live : BOOLEAN]

NoRequest == [pc |-> "idle"]
ArtifactOps == {"promote", "dispose", "verify", "revise", "relate"}
Asking == [pc : {"row", "read", "found", "missing"}, op : ArtifactOps, expected : Nat,
           seen : Artifact]
Updating == [pc : {"milestone"}, expected : Nat, seen : Milestone]

KnowledgeTypeOK ==
    /\ artifact \in Artifact \cup {Nothing}
    /\ milestone \in Milestone \cup {Nothing}
    /\ edition \in Nat /\ issueNo \in Nat
    /\ request \in [Askers -> Asking \cup Updating \cup {NoRequest}]

KnowledgeInit ==
    /\ artifact = Nothing /\ milestone = Nothing
    /\ edition = 0 /\ issueNo = 0
    /\ request = [r \in Askers |-> NoRequest]

------------------------------------------------------------------------------
milestones == <<milestone, issueNo>>
artifacts == <<artifact, edition>>
Live(record) == record # Nothing /\ record.live
End(r) == request' = [request EXCEPT ![r] = NoRequest]

(* recordArtifact: content of its own, or a file in Git that may name a commit. *)
RecordArtifact ==
    /\ artifact = Nothing
    /\ artifact' \in {Rules!Native} \cup {Rules!GitBacked(p) : p \in BOOLEAN}
    /\ edition' = 1
    /\ UNCHANGED <<milestones, request>>

(* getArtifact: the artifact, then its reference and its revisions.  The client *)
(* names a version it has been told of.                                         *)
ReadArtifact(r, op, v) ==
    /\ request[r] = NoRequest
    /\ Live(artifact)
    /\ request' = [request EXCEPT ![r] = [pc |-> "row", op |-> op, expected |-> v,
                                          seen |-> artifact]]
    /\ UNCHANGED <<artifacts, milestones>>

(* Whether the request is refused for what it has read.                         *)
Allowed(op, seen) ==
    /\ op = "revise" => seen.origin = "native"
    /\ op = "verify" => seen.pinned
    /\ op = "promote" => seen.verified /\ seen.pinned /\ seen.stamped

ReadDetails(r) ==
    LET seen == [request[r].seen EXCEPT !.pinned = artifact.pinned, !.stamped = artifact.stamped,
                                        !.newest = artifact.newest] IN
    /\ request[r].pc = "row"
    /\ Allowed(request[r].op, seen)
    /\ request' = [request EXCEPT ![r].pc = "read", ![r].seen = seen]
    /\ UNCHANGED <<artifacts, milestones>>

(* fetchRepositoryFile: the file at the commit is there, or it is not.  The     *)
(* repository is taken to be listed, which IntegrationJobs shows it never is.   *)
FetchRepositoryFile(r) ==
    /\ request[r].pc = "read" /\ request[r].op = "verify"
    /\ \E answer \in {"found", "missing"} : request' = [request EXCEPT ![r].pc = answer]
    /\ UNCHANGED <<artifacts, milestones>>

(* The UPDATE finds the artifact under the version the client named, not        *)
(* deleted; the transaction around it writes the rest.                          *)
CurrentAny(r) == artifact.live  \* mutant: the version is not in the WHERE clause
Current(r) == artifact.live /\ edition = request[r].expected

Write(r, op, after) ==
    /\ request[r].pc # "idle" /\ request[r].pc # "milestone"
    /\ request[r].op = op
    /\ Current(r) /\ edition < MaxVersion
    /\ artifact' = after
    /\ edition' = edition + 1
    /\ End(r)
    /\ UNCHANGED milestones

PromoteArtifactCanonical(r) ==
    /\ request[r].pc = "read" /\ artifact.verified
    /\ Write(r, "promote", [artifact EXCEPT !.standing = "canonical"])

SetArtifactDisposition(r, d) ==
    /\ request[r].pc = "read"
    /\ Write(r, "dispose", [artifact EXCEPT !.standing = d])

(* A file that is missing leaves the artifact as verified as it was.            *)
VerifyRepositoryArtifact(r) ==
    \/ /\ request[r].pc = "found"
       /\ Write(r, "verify", [artifact EXCEPT !.verified = TRUE, !.stamped = TRUE])
    \/ /\ request[r].pc = "missing"
       /\ Write(r, "verify", [artifact EXCEPT !.stamped = FALSE])

(* The revision after the newest one that was read; the unique index refuses a  *)
(* number that is taken.                                                        *)
AddArtifactRevision(r) ==
    /\ request[r].pc = "read"
    /\ request[r].seen.newest >= artifact.newest
    /\ Write(r, "revise", [artifact EXCEPT !.newest = request[r].seen.newest + 1])

RelateArtifacts(r) == request[r].pc = "read" /\ Write(r, "relate", artifact)

------------------------------------------------------------------------------
(* createMilestone: a name of the project is used once.                         *)
CreateMilestone ==
    /\ milestone = Nothing
    /\ \E s \in Rules!Statuses, d \in Dates \cup {Nothing} :
          /\ d \in Rules!Completed(s, Nothing)
          /\ milestone' = [status |-> s, completedAt |-> d, live |-> TRUE]
    /\ issueNo' = 1
    /\ UNCHANGED <<artifacts, request>>

GetMilestone(r, v) ==
    /\ request[r] = NoRequest
    /\ Live(milestone)
    /\ request' = [request EXCEPT ![r] = [pc |-> "milestone", expected |-> v, seen |-> milestone]]
    /\ UNCHANGED <<artifacts, milestones>>

Matches(r) == /\ request[r].pc = "milestone"
              /\ milestone.live /\ issueNo = request[r].expected /\ issueNo < MaxVersion

(* The date is the one that was read, if there was one.                         *)
UpdateMilestone(r) ==
    /\ Matches(r)
    /\ \/ UNCHANGED milestone
       \/ \E s \in Rules!Statuses, d \in Dates \cup {Nothing} :
             /\ d \in Rules!Completed(s, request[r].seen.completedAt)
             /\ milestone' = [milestone EXCEPT !.status = s, !.completedAt = d]
    /\ issueNo' = issueNo + 1
    /\ End(r)
    /\ UNCHANGED artifacts

SoftDeleteMilestone(r) ==
    /\ Matches(r)
    /\ milestone' = [milestone EXCEPT !.live = FALSE]
    /\ issueNo' = issueNo + 1
    /\ End(r)
    /\ UNCHANGED artifacts

------------------------------------------------------------------------------
(* The rollback of an import deletes what it has made, whatever its version.    *)
RollbackArtifact ==
    /\ artifact # Nothing /\ edition < MaxVersion
    /\ artifact' = [artifact EXCEPT !.live = FALSE]
    /\ edition' = edition + 1
    /\ UNCHANGED <<milestones, request>>

RollbackMilestone ==
    /\ milestone # Nothing /\ issueNo < MaxVersion
    /\ milestone' = [milestone EXCEPT !.live = FALSE]
    /\ issueNo' = issueNo + 1
    /\ UNCHANGED <<artifacts, request>>

(* An import that names a deleted milestone brings it back.                     *)
RestoreMilestone ==
    /\ milestone # Nothing /\ ~milestone.live /\ issueNo < MaxVersion
    /\ milestone' = [milestone EXCEPT !.live = TRUE]
    /\ issueNo' = issueNo + 1
    /\ UNCHANGED <<artifacts, request>>

(* A refusal, a stale version, or a step that fails: nothing is written.        *)
Refuse(r) ==
    /\ request[r] # NoRequest
    /\ End(r)
    /\ UNCHANGED <<artifacts, milestones>>

KnowledgeNext ==
    \/ RecordArtifact \/ RollbackArtifact \/ CreateMilestone
    \/ RollbackMilestone \/ RestoreMilestone
    \/ \E r \in Askers :
          \/ \E op \in ArtifactOps, v \in 1 .. edition : ReadArtifact(r, op, v)
          \/ ReadDetails(r) \/ FetchRepositoryFile(r)
          \/ PromoteArtifactCanonical(r) \/ VerifyRepositoryArtifact(r)
          \/ AddArtifactRevision(r) \/ RelateArtifacts(r)
          \/ \E d \in Rules!Dispositions : SetArtifactDisposition(r, d)
          \/ \E v \in 1 .. issueNo : GetMilestone(r, v)
          \/ UpdateMilestone(r) \/ SoftDeleteMilestone(r) \/ Refuse(r)

KnowledgeSpec == KnowledgeInit /\ [][KnowledgeNext]_knowledgeVars

------------------------------------------------------------------------------
(* Every request that changes an artifact or a milestone has decided on the     *)
(* record as it is when it is changed, as if requests were served one at a      *)
(* time: only an artifact whose file has been found and not missed since is     *)
(* made canonical, revisions are numbered without gaps, and a completed         *)
(* milestone keeps its date.                                                    *)
ServedInTurn == Rules!RulesSpec
=============================================================================
