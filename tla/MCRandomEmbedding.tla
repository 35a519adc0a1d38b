-------------------------- MODULE MCRandomEmbedding --------------------------
(* randomEmbedding() on two trees with C-nodes. *)
EXTENDS Embeddings, MCTrees

SixLeaves == 11..16

Wheel == Built(<<C(<<11, 12, 13, 14, 15, 16>>)>>, 1, Nil)
Hung  == Built(<<P(<<2, 14, 15, 16>>), C(<<11, 12, 13>>)>>, 1, Nil)

WithCNodes == {Wheel, Hung}

SameIds == [x \in Node |-> x]
=============================================================================
