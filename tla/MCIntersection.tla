---------------------------- MODULE MCIntersection ----------------------------
(***************************************************************************)
(* One intersection of each of a few trees with each of a few others, the  *)
(* leaves of which are in several orders.                                  *)
(***************************************************************************)
EXTENDS Intersection, MCTrees

SixLeaves == <<11, 12, 13, 14, 15, 16>>
WithSpare == 11..22

Star == Built(<<P(<<11, 12, 13, 14, 15, 16>>)>>, 1, Nil)
Wheel == Built(<<C(<<11, 12, 13, 14, 15, 16>>)>>, 1, Nil)
Chain == Built(<<P(<<11, 2, 16>>), C(<<12, 3, 13>>), P(<<14, 15>>)>>, 1, Nil)
Ladder == Built(<<C(<<11, 2, 12>>), C(<<13, 3>>), P(<<14, 15>>)>>, 16, 1)
Fork == Built(<<C(<<2, 11, 3>>), C(<<12, 13>>), P(<<14, 15, 16>>)>>, 1, Nil)

Nested == Built(<<C(<<16, 15, 2>>), C(<<14, 3, 13>>), C(<<12, 11>>)>>, 1, Nil)

SomeTrees == {Star, Wheel, Chain, Ladder, Fork, Nested}

\* The leaves of t in another order.
Relabelled(t, f) ==
  LET to(x) == IF x \in DOMAIN f THEN f[x] ELSE x
      from(x) == CHOOSE y \in Node : to(y) = x
  IN  [type   |-> [x \in Node |-> t.type[from(x)]],
       parent |-> [x \in Node |-> IF t.parent[from(x)] = Nil THEN Nil ELSE to(t.parent[from(x)])],
       kids   |-> [x \in Node |-> [i \in DOMAIN t.kids[from(x)] |-> to(t.kids[from(x)][i])]],
       root   |-> to(t.root)]

Turn == [x \in 11..16 |-> IF x = 16 THEN 11 ELSE x + 1]
Swap == (11 :> 13) @@ (13 :> 11)
Exchange == (12 :> 15) @@ (15 :> 12)
Shuffle == (11 :> 14) @@ (14 :> 16) @@ (16 :> 12) @@ (12 :> 11)
Inward == (11 :> 16) @@ (16 :> 13) @@ (13 :> 11) @@ (14 :> 15) @@ (15 :> 14)
Same == 11 :> 11

OtherTrees == {Relabelled(t, f) : t \in SomeTrees, f \in {Same, Turn, Swap, Exchange, Shuffle, Inward}}

\* What a call leaves in the temporary data is not looked at any more.
WithoutLeftovers == <<tree, IF pc = "idle" THEN Nil ELSE temp, pc, work, client, own>>
=============================================================================
