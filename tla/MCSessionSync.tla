---------------------------- MODULE MCSessionSync ----------------------------
(* Instances of SessionSync for TLC.                                            *)
EXTENDS SessionSync, TLC

Symmetry == Permutations(Clis)
==============================================================================
