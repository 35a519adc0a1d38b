---------------------------- MODULE MCPCNodeLinks ----------------------------
(* Five nodes, all detached at first, and every sequence of calls. *)
EXTENDS PCNodeLinks, TLC

CONSTANTS n1, n2, n3, n4, n5

FiveNodes == {n1, n2, n3, n4, n5}
NoLeaves == {}
Alike == Permutations(Inner)
=============================================================================
