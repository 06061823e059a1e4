----------------------------- MODULE MCTaskLease -----------------------------
(* Instances of TaskLease for TLC.                                              *)
EXTENDS TaskLease, TLC

CONSTANTS r1, r2, t1

MCPaths == {"src", "src/api", "docs"}
MCUnder == {<<"src/api", "src">>}
Access(w, x, s) == [write |-> w, exclusive |-> x, scope |-> s]
ExclusiveTerms == {Access(TRUE, TRUE, {"src"}), Access(TRUE, TRUE, {"src/api"})}
MixedTerms == {Access(TRUE, TRUE, {"src"}), Access(TRUE, FALSE, {}), Access(FALSE, FALSE, {})}
MCTaskOf == [r \in Runs |-> t1]

(* The names of leases and of requests to claim one also stand for requests of  *)
(* other components, where those are as alike.                                  *)
Symmetry == Permutations(Leases) \cup Permutations(Handlers) \cup Permutations(Runs)
==============================================================================
