-------------------------- MODULE MCEmbeddingQueue --------------------------
(* A small instance of EmbeddingQueue: one document whose content can go back    *)
(* to what it was, and one that only comes and goes.                             *)
EXTENDS EmbeddingQueue

CONSTANTS d1, d2, w1, w2

OneDoc == {d1}
TwoDocs == {d1, d2}
TwoVersions == [d \in {d1} |-> {"a", "b"}]
MixedVersions == [d \in {d1, d2} |-> IF d = d1 THEN {"a", "b"} ELSE {"a"}]
OwnIds == [w \in {w1, w2} |-> w]
OneId == [w \in {w1} |-> w]
=============================================================================
