---------------------------- MODULE MCRestriction ----------------------------
(***************************************************************************)
(* PCTree(leafNum): the user starts with one P-node that has all leaves,   *)
(* as the constructor makes it, and may make calls and move the root for   *)
(* as long as it likes.  Inner nodes are numbered, leaves are              *)
(* interchangeable.                                                        *)
(***************************************************************************)
EXTENDS PCTreePromise

CONSTANTS l1, l2, l3, l4, l5

FiveLeaves == {l1, l2, l3, l4, l5}

Star ==
  [type   |-> [x \in Node |-> IF x \in Leaves THEN "leaf"
                              ELSE IF x = 1 THEN "P" ELSE "free"],
   parent |-> [x \in Node |-> IF x \in Leaves THEN 1 ELSE Nil],
   kids   |-> [x \in Node |-> IF x = 1 THEN SetToSeq(Leaves) ELSE <<>>],
   root   |-> 1]

Stars == {Star}

\* Every set of leaves in every order.
AllRequests == SetToAllKPermutations(Leaves)

LeavesAlike == Permutations(Leaves)

\* What a call has left in the temporary data is reset by the next one before
\* it is read: states that differ in nothing else are one state.
WithoutLeftovers == <<tree, IF pc = "idle" THEN Nil ELSE temp, pc, work, client>>
=============================================================================
