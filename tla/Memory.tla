------------------------------- MODULE Memory -------------------------------
(* Claims and decisions of one project (memory/service.ts).  An accepted claim  *)
(* is called verified in the code.  Each request reads the records first; its   *)
(* transaction takes effect at once, as resolveDecision and supersedeDecision   *)
(* hold the project's row from their first statement to their commit and the    *)
(* statements about claims test or set one row each.                            *)
CONSTANTS
    Decisions, Claims,
    QuestionOf,  \* the question of each decision
    Rulers,      \* bound: requests at once
    Unset        \* no successor

VARIABLES
    status,       \* of each record
    supersededBy, \* the record named when it was superseded
    ruling,       \* progress of each request
    odd           \* decisions accepted without a look at their question, or in
                  \* the place of one that was

memoryVars == <<status, supersededBy, ruling, odd>>

Records == Decisions \cup Claims
Status == {"absent", "proposed", "accepted", "rejected", "superseded"}
NoRuling == [pc |-> "idle"]
Ruling == [pc : {"read"}, kind : {"resolve", "supersede"}, of : Records, by : Records]

MemoryTypeOK ==
    /\ status \in [Records -> Status]
    /\ supersededBy \in [Records -> Records \cup {Unset}]
    /\ ruling \in [Rulers -> Ruling \cup {NoRuling}]
    /\ odd \subseteq Decisions

MemoryInit ==
    /\ status = [x \in Records |-> "absent"]
    /\ supersededBy = [x \in Records |-> Unset]
    /\ ruling = [r \in Rulers |-> NoRuling]
    /\ odd = {}

------------------------------------------------------------------------------
SameQuestion(x, y) == x \in Decisions /\ y \in Decisions /\ QuestionOf[x] = QuestionOf[y]

Propose(x) ==
    /\ status[x] = "absent"
    /\ status' = [status EXCEPT ![x] = "proposed"]
    /\ UNCHANGED <<supersededBy, ruling, odd>>

(* resolveClaim and resolveDecision read the record before they rule on it.     *)
ResolveRead(r, x) ==
    /\ ruling[r] = NoRuling
    /\ status[x] = "proposed"
    /\ ruling' = [ruling EXCEPT ![r] = [pc |-> "read", kind |-> "resolve", of |-> x, by |-> x]]
    /\ UNCHANGED <<status, supersededBy, odd>>

AnsweredAsFirst(x) ==  \* mutant: an answer accepted again after it was superseded is missed
    \E y \in Decisions \ {x} : /\ SameQuestion(x, y) /\ status[y] = "accepted"
                               /\ supersededBy[y] = Unset
Answered(x) == \E y \in Decisions \ {x} : SameQuestion(x, y) /\ status[y] = "accepted"

Accept(r) ==
    LET x == ruling[r].of IN
    /\ ruling[r].pc = "read" /\ ruling[r].kind = "resolve"
    /\ status[x] = "proposed" /\ ~Answered(x)
    /\ status' = [status EXCEPT ![x] = "accepted"]
    /\ ruling' = [ruling EXCEPT ![r] = NoRuling]
    /\ UNCHANGED <<supersededBy, odd>>

Reject(r) ==
    /\ ruling[r].pc = "read" /\ ruling[r].kind = "resolve"
    /\ status[ruling[r].of] = "proposed"
    /\ status' = [status EXCEPT ![ruling[r].of] = "rejected"]
    /\ ruling' = [ruling EXCEPT ![r] = NoRuling]
    /\ UNCHANGED <<supersededBy, odd>>

(* supersedeClaim and supersedeDecision read both records: the replacement may  *)
(* be the record itself, or answer another question.                            *)
SupersedeRead(r, x, y) ==
    /\ ruling[r] = NoRuling
    /\ x \in Decisions <=> y \in Decisions
    /\ status[x] = "accepted" /\ status[y] \in {"proposed", "accepted"}
    /\ ruling' = [ruling EXCEPT ![r] = [pc |-> "read", kind |-> "supersede", of |-> x, by |-> y]]
    /\ UNCHANGED <<status, supersededBy, odd>>

(* The status of the two records once one has superseded the other.  That of    *)
(* the replacement is set whatever it has become.                               *)
ReplacedOnly(x, y) == [status EXCEPT ![x] = "superseded"]  \* mutant: the replacement stays
Replaced(x, y) == [status EXCEPT ![x] = "superseded", ![y] = "accepted"]

Supersede(r) ==
    LET x == ruling[r].of  y == ruling[r].by IN
    /\ ruling[r].pc = "read" /\ ruling[r].kind = "supersede"
    /\ status[x] = "accepted"
    /\ status' = Replaced(x, y)
    /\ supersededBy' = [supersededBy EXCEPT ![x] = y]
    /\ ruling' = [ruling EXCEPT ![r] = NoRuling]
    /\ odd' = IF y \in Decisions /\ ( \/ ~SameQuestion(x, y)
                                      \/ status[y] \in {"rejected", "superseded"}
                                      \/ x \in odd )
              THEN odd \cup {y} ELSE odd

(* It finds the record changed, or another answer, or fails otherwise.          *)
Abandon(r) ==
    /\ ruling[r] # NoRuling
    /\ ruling' = [ruling EXCEPT ![r] = NoRuling]
    /\ UNCHANGED <<status, supersededBy, odd>>

MemoryNext ==
    \/ \E x \in Records : Propose(x)
    \/ \E r \in Rulers :
          \/ \E x \in Records : ResolveRead(r, x)
          \/ \E x, y \in Records : SupersedeRead(r, x, y)
          \/ Accept(r) \/ Reject(r) \/ Supersede(r) \/ Abandon(r)

MemorySpec == MemoryInit /\ [][MemoryNext]_memoryVars

------------------------------------------------------------------------------
(* A question has one accepted answer, unless one of two was put in place by a  *)
(* supersession that did not look: of an answer to another question, of a       *)
(* replacement resolved since it was read, or of an answer that was odd itself. *)
OneAnswer ==
    \A x, y \in Decisions :
        SameQuestion(x, y) /\ status[x] = "accepted" /\ status[y] = "accepted" /\ x # y
        => x \in odd \/ y \in odd

(* From a superseded record the successors lead to an accepted one, in whatever *)
(* order supersessions read and write: no set of superseded records is closed,  *)
(* and every successor is accepted or superseded itself.                        *)
SuccessorStands ==
    \A S \in SUBSET {x \in Records : status[x] = "superseded"} :
        S # {} => \E x \in S : /\ supersededBy[x] \in Records \ S
                               /\ status[supersededBy[x]] \in {"accepted", "superseded"}
=============================================================================
