---------------------------- MODULE MCNodeQueue ----------------------------
(* Model-checking instance of NodeQueue: the nodes are interchangeable.     *)
EXTENDS NodeQueue, TLC

NodeSymmetry == Permutations(Nodes)
=============================================================================
