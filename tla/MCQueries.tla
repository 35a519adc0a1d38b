------------------------------ MODULE MCQueries ------------------------------
(***************************************************************************)
(* One query of a tree with two to seven leaves: getRestrictions() for any *)
(* fixed leaf or none, or the loop over all embeddings.                    *)
(***************************************************************************)
EXTENDS TreeRestrictions, MCTrees

VARIABLES loop, pending, shown, admissible

walk == <<loop, pending, shown, admissible>>

SevenLeaves == 11..17

TwoLeaves == Built(<<P(<<11, 12>>)>>, 1, Nil)
TwoLeavesUp == Built(<<P(<<12>>)>>, 11, 1)
Star == Built(<<P(<<11, 12, 13, 14, 15>>)>>, 1, Nil)
Wheel == Built(<<C(<<11, 12, 13, 14, 15>>)>>, 1, Nil)
Pair == Built(<<P(<<11, 12, 2>>), P(<<13, 14>>)>>, 1, Nil)
RingOfNodes == Built(<<C(<<2, 14, 3, 15>>), C(<<13, 12, 11>>), P(<<16, 17>>)>>, 1, Nil)
Ladder == Built(<<C(<<11, 2, 12>>), C(<<13, 3>>), C(<<14, 4, 15>>), P(<<16, 17>>)>>, 1, Nil)
ThreeArms == Built(<<P(<<2, 3, 4>>), C(<<11, 12>>), P(<<13, 14>>), C(<<15, 16, 17>>)>>, 1, Nil)
Chained == Built(<<P(<<11, 2>>), C(<<3, 12, 13>>), P(<<14, 4>>), P(<<15, 16>>)>>, 17, 1)
WheelUp == Built(<<C(<<11, 12, 13, 14>>)>>, 15, 1)

SomeTrees == {TwoLeaves, TwoLeavesUp, Star, Wheel, Pair, RingOfNodes, Ladder,
              ThreeArms, Chained, WheelUp}

\* Inner nodes with ids between those of the leaves.
MixedIds == [x \in Node |-> IF x \in Inner THEN 3 * x ELSE 2 * (x - 10)]

Embedding == INSTANCE Embeddings WITH Index <- MixedIds

InitAll == Init /\ Embedding!Init

AskRestrictions == loop = "new" /\ Next /\ UNCHANGED walk

AskEmbeddings ==
  /\ fixed = Nil /\ left = LeavesOf(tree)
  /\ Embedding!Next
  /\ UNCHANGED <<fixed, left, ready, below, todo, central, restrictions, ok>>

NextAll == AskRestrictions \/ AskEmbeddings

SpecAll == InitAll /\ [][NextAll]_<<vars, walk>> /\ WF_<<vars, walk>>(NextAll)

\* The loop over all embeddings has each of them once.
Enumerates == Embedding!Enumerates

\* possibleOrders() is the number of orders there are.
CountExact == Embedding!CountExact

\* Neither the loop that appends to its own queue nor the loop over embeddings
\* goes on forever.
QueriesEnd == <>(Returned \/ loop = "ended")
=============================================================================
