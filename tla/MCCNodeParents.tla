---------------------------- MODULE MCCNodeParents ---------------------------
(***************************************************************************)
(* A few nodes that are allocated, merged, destroyed and used again.       *)
(***************************************************************************)
EXTENDS CNodeParents, TLC

CONSTANTS n1, n2, n3, n4

FourNodes == {n1, n2, n3, n4}

NodesAlike == Permutations(Node)
=============================================================================
