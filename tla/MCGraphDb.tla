----------------------------- MODULE MCGraphDb -----------------------------
(* Instances of GraphDb: every key has the label "s1". *)
EXTENDS GraphDb, TLC

CONSTANT s1

MCKeyLabel == [k \in Key |-> s1]
MCSymmetry == Permutations(Vertex)
=============================================================================
