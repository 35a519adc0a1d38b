------------------------------- MODULE MCTrees ------------------------------
(***************************************************************************)
(* Trees to start from, written as the list of their inner nodes.          *)
(***************************************************************************)
EXTENDS PCTreeShape

\* The tree with the given inner nodes, each a record [type, kids].
Built(nodes, root, below) ==
  LET kids == [x \in Node |-> IF x \in DOMAIN nodes THEN nodes[x].kids
                              ELSE IF x = root THEN <<below>> ELSE <<>>]
      has(x) == x = root \/ \E p \in Node : x \in ToSet(kids[p])
  IN  [type   |-> [x \in Node |-> IF ~has(x) THEN "free"
                                  ELSE IF x \in Leaves THEN "leaf" ELSE nodes[x].type],
       parent |-> [x \in Node |-> IF \E p \in Node : x \in ToSet(kids[p])
                                    THEN CHOOSE p \in Node : x \in ToSet(kids[p])
                                    ELSE Nil],
       kids   |-> kids,
       root   |-> root]

P(kids) == [type |-> "P", kids |-> kids]
C(kids) == [type |-> "C", kids |-> kids]
=============================================================================
