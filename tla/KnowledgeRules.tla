--------------------------- MODULE KnowledgeRules ---------------------------
(* What the knowledge services promise of an artifact and of a milestone when   *)
(* their requests are served one at a time: which changes each request may make *)
(* of the record as it is.                                                      *)
EXTENDS Naturals

CONSTANTS
    Dates,   \* times at which a milestone may be completed
    Nothing  \* no record yet

VARIABLES
    artifact,  \* knowledgeArtifacts with its reference and its newest revision
    milestone

rulesVars == <<artifact, milestone>>

Dispositions == {"superseded", "rejected"}
Statuses == {"planned", "completed"}

Native == [origin |-> "native", pinned |-> FALSE, standing |-> "candidate",
           verified |-> FALSE, stamped |-> FALSE, newest |-> 1, live |-> TRUE]
GitBacked(pinned) == [Native EXCEPT !.origin = "git_backed", !.pinned = pinned, !.newest = 0]

Completed(status, before) ==
    IF status # "completed" THEN {Nothing}
    ELSE IF before # Nothing THEN {before} ELSE Dates

RulesInit == artifact = Nothing /\ milestone = Nothing

------------------------------------------------------------------------------
Record ==
    /\ artifact = Nothing
    /\ artifact' \in {Native} \cup {GitBacked(p) : p \in BOOLEAN}

(* An administrator makes canonical only what stands verified by a file found   *)
(* at its commit, which any member may have fetched.                            *)
Promote ==
    /\ artifact.verified /\ artifact.stamped
    /\ artifact' = [artifact EXCEPT !.standing = "canonical"]

Dispose == \E d \in Dispositions : artifact' = [artifact EXCEPT !.standing = d]

Verify ==
    /\ artifact.pinned
    /\ \/ artifact' = [artifact EXCEPT !.verified = TRUE, !.stamped = TRUE]
       \/ artifact' = [artifact EXCEPT !.stamped = FALSE]

(* Revisions are numbered without gaps; a file in Git has none here.            *)
Revise ==
    /\ artifact.origin = "native"
    /\ artifact' = [artifact EXCEPT !.newest = @ + 1]

Change == artifact # Nothing /\ artifact.live /\ (Promote \/ Dispose \/ Verify \/ Revise)

DeleteArtifact == artifact # Nothing /\ artifact' = [artifact EXCEPT !.live = FALSE]

(* A milestone has the date of its completion as long as it is completed.       *)
Plan ==
    /\ milestone = Nothing
    /\ \E s \in Statuses, d \in Dates \cup {Nothing} :
          /\ d \in Completed(s, Nothing)
          /\ milestone' = [status |-> s, completedAt |-> d, live |-> TRUE]

Update ==
    /\ milestone # Nothing /\ milestone.live
    /\ \E s \in Statuses, d \in Dates \cup {Nothing} :
          /\ d \in Completed(s, milestone.completedAt)
          /\ milestone' = [milestone EXCEPT !.status = s, !.completedAt = d]

DeleteMilestone == milestone # Nothing /\ milestone' = [milestone EXCEPT !.live = FALSE]

RestoreMilestone == milestone # Nothing /\ milestone' = [milestone EXCEPT !.live = TRUE]

RulesNext ==
    \/ (Record \/ Change \/ DeleteArtifact) /\ UNCHANGED milestone
    \/ (Plan \/ Update \/ DeleteMilestone \/ RestoreMilestone) /\ UNCHANGED artifact

RulesSpec == RulesInit /\ [][RulesNext]_rulesVars
=============================================================================
