------------------------------- MODULE MCShapes -------------------------------
(***************************************************************************)
(* One call of makeConsecutive on each of a few larger trees, for every    *)
(* subset of seven leaves: long paths with two arms, C-nodes that the path *)
(* enters and leaves at any neighbor, empty C-nodes on it, roots that are  *)
(* C-nodes or leaves, a search that overshoots the apex.                   *)
(***************************************************************************)
EXTENDS PCTreePromise, MCTrees

SevenLeaves == 11..17

\* A C-node as root with a C-node, a P-node and two leaves around it.
RingOfNodes == Built(<<C(<<2, 14, 3, 15>>), C(<<11, 12, 13>>), P(<<16, 17>>)>>, 1, Nil)

\* A chain of C-nodes with leaves on both sides.
Ladder == Built(<<C(<<11, 2, 12>>), C(<<13, 3>>), C(<<14, 4, 15>>), P(<<16, 17>>)>>, 1, Nil)

\* Two arms below a P-node.
TwoArms == Built(<<P(<<2, 3, 17>>), C(<<11, 4, 12>>), P(<<13, 14>>), P(<<15, 16>>)>>, 1, Nil)

\* A chain that ascends from a pair of leaves; the root is a leaf.
Chained == Built(<<P(<<11, 2>>), C(<<3, 12, 13>>), P(<<14, 4>>), P(<<15, 16>>)>>, 17, 1)

\* Two arms of different length and a way up: the shorter arm goes on beyond the
\* apex before the longer one arrives.
Uneven == Built(<<P(<<11, 2>>), P(<<3, 4>>), P(<<12, 13>>), P(<<14, 5>>), P(<<15, 16>>)>>, 17, 1)

Shapes == {RingOfNodes, Ladder, TwoArms, Chained, Uneven}

OnePerSubset == {SetToSeq(S) : S \in SUBSET Leaves}

NoRoots == {}

\* What the call leaves in the temporary data is not looked at any more.
WithoutLeftovers == <<tree, IF pc = "idle" THEN Nil ELSE temp, pc, work, client>>

\* Only the trees of the initial states are called on.
OneCall == pc = "idle" => tree \in InitTrees
=============================================================================
