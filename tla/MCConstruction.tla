---------------------------- MODULE MCConstruction ----------------------------
(***************************************************************************)
(* One or two trees in a forest: two leaves or more, P- and C-nodes, an    *)
(* inner node or a leaf as root; the second one is there to be inserted.   *)
(* Either may have a root of degree two, as destroyLeaf leaves it.         *)
(***************************************************************************)
EXTENDS Construction, MCTrees

CONSTANT MaxCalls  \* bound: calls of the user

FewCalls == calls < MaxCalls

\* The trees t and u beside each other.
Beside(t, u) ==
  [type   |-> [x \in Node |-> IF u.type[x] = "free" THEN t.type[x] ELSE u.type[x]],
   parent |-> [x \in Node |-> IF u.type[x] = "free" THEN t.parent[x] ELSE u.parent[x]],
   kids   |-> [x \in Node |-> IF u.type[x] = "free" THEN t.kids[x] ELSE u.kids[x]]]

Mixed     == Built(<<C(<<11, 2, 12, 19>>), P(<<13, 14>>)>>, 1, Nil)
FromALeaf == Built(<<P(<<2, 12>>), C(<<13, 14>>)>>, 11, 1)
Pair      == Built(<<P(<<11, 12>>)>>, 1, Nil)
LeafPair  == Built(<<C(<<12>>)>>, 11, 1)

Ring         == Built(3 :> C(<<15, 16, 17, 18>>), 3, Nil)
RingFromLeaf == Built(3 :> C(<<16, 17, 18>>), 15, 3)
OtherPair    == Built(3 :> P(<<16>>), 15, 3)

TwoTrees ==
  {[nodes |-> Beside(t, u), roots |-> [main |-> t.root, other |-> u.root]] :
     t \in {Mixed, FromALeaf, Pair, LeafPair}, u \in {Ring, RingFromLeaf, OtherPair}}

\* A root of degree two in the tree that is inserted into, or in the inserted one.
SmallRoot  == Built(<<P(<<11, 2>>), C(<<12, 13, 14, 19>>)>>, 1, Nil)
SmallOther == Built(2 :> P(<<15, 3>>) @@ 3 :> C(<<16, 17, 18>>), 2, Nil)

SmallRoots ==
  {[nodes |-> Beside(p[1], p[2]), roots |-> [main |-> p[1].root, other |-> p[2].root]] :
     p \in {<<SmallRoot, Ring>>, <<SmallRoot, RingFromLeaf>>, <<Pair, SmallOther>>, <<LeafPair, SmallOther>>}}

OneTree ==
  {[nodes |-> Beside(t, t), roots |-> [main |-> t.root, other |-> Nil]] :
     t \in {Mixed, FromALeaf, LeafPair, SmallRoot}}

Forests == TwoTrees \cup SmallRoots \cup OneTree
=============================================================================
