------------------------------ MODULE PathScope ------------------------------
(* Path scopes of task leases (apps/api/src/execution/service.ts, the exported  *)
(* helpers normalizedPaths and pathsOverlap).  A path is an opaque value; Under *)
(* holds <<a, b>> when a.startsWith(b + "/"), Wild holds the paths containing   *)
(* an asterisk.  A normalised scope has no duplicates and a canonical order, so *)
(* it is a set of paths; the empty set is a claim on the whole task.            *)
CONSTANTS Paths, Under, Wild

(* The prefixes of one path form a chain: what startsWith gives for strings.    *)
ASSUME PathsAssumption ==
    /\ Under \subseteq Paths \X Paths
    /\ Wild \subseteq Paths
    /\ \A f, a, b \in Paths :
          (<<f, a>> \in Under /\ <<f, b>> \in Under)
             => (a = b \/ <<a, b>> \in Under \/ <<b, a>> \in Under)

SamePlaceOneWay(a, b) ==  \* mutant: only the left path may lie under the right one
    a = b \/ <<a, b>> \in Under \/ a \in Wild \/ b \in Wild
SamePlace(a, b) ==
    \/ a = b
    \/ <<a, b>> \in Under
    \/ <<b, a>> \in Under
    \/ a \in Wild
    \/ b \in Wild

PathsOverlap(left, right) ==
    \/ left = {}
    \/ right = {}
    \/ \E a \in left, b \in right : SamePlace(a, b)

(* What a scope lets its holder write: every path, the listed paths and what is *)
(* below them.  A wildcard may stand for any path.                              *)
Covers(scope, f) ==
    \/ scope = {}
    \/ \E p \in scope : p = f \/ <<f, p>> \in Under \/ p \in Wild
==============================================================================
