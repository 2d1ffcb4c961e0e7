-------------------------- MODULE MCContainerService --------------------------
(* Instances of ContainerService for TLC. *)
EXTENDS ContainerService, TLC

CONSTANTS h1, h2, n1, v1, v2, node, r1, r2, w1, w2

MCImageOf == [v \in Versions |-> node]
Symmetry == Permutations(Requests) \cup Permutations(Runners)
=============================================================================
