------------------------------- MODULE MCLabels --------------------------------
(***************************************************************************)
(* A few nodes over several calls and clear()s.                            *)
(***************************************************************************)
EXTENDS Labels, TLC

CONSTANTS x1, x2, d1

TwoNodes == {x1, x2}
OneDatum == {d1}

NodesAlike == Permutations(Node)
=============================================================================
