--------------------------- MODULE TreeRestrictions ---------------------------
(***************************************************************************)
(* PCTree::getRestrictions (src/src/PCTree_basic.cpp): sets of leaves that *)
(* make a tree of a fresh one again when they are made consecutive.        *)
(*                                                                         *)
(* The leaves are passed inwards.  A node is ready when all its neighbors  *)
(* but one have leaves to pass; it takes them over, and the neighbor that  *)
(* is left is the next to be told.  So the tree is contracted to the fixed *)
(* leaf or, without one, to a node that only the order of the queue        *)
(* decides.  Two of the last nodes may be ready for each other.            *)
(*                                                                         *)
(* A list of leaves is its set: makeConsecutive does not depend on the     *)
(* order.  The leaves come in the order of m_leaves, which is any.         *)
(***************************************************************************)
EXTENDS PCTreeOrders

CONSTANT Trees  \* the trees that are asked

VARIABLES
  tree,
  fixed,         \* fixedLeaf, Nil for none
  left,          \* leaves the first loop has still to pass
  ready,         \* readyChildren
  below,         \* subtreeLeaves
  todo,          \* the queue of ready nodes
  central,
  restrictions,  \* the result
  ok             \* no assertion has failed

vars == <<tree, fixed, left, ready, below, todo, central, restrictions, ok>>

LeavesOf(t) == {x \in Leaves : t.type[x] = "leaf"}

Init ==
  /\ tree \in Trees
  /\ fixed \in LeavesOf(tree) \cup {Nil}
  /\ left = LeavesOf(tree)
  /\ ready = [x \in Node |-> 0]
  /\ below = [x \in Node |-> {}]
  /\ todo = <<>>
  /\ central = Nil
  /\ restrictions = {}
  /\ ok = TRUE

\* Mutant of IsTrivial: a set that leaves two leaves out is dropped, too.
IsTrivial_OneMore(size) == size <= 1 \/ size >= Cardinality(LeavesOf(tree)) - 2

IsTrivial(size) == size <= 1 \/ size >= Cardinality(LeavesOf(tree)) - 1

\* Mutant of Tell: a node waits for all its neighbors.
Tell_WaitsForAll(next) ==
  /\ ready' = [ready EXCEPT ![next] = @ + 1]
  /\ LET rest == IF left # {} THEN todo ELSE Tail(todo)
     IN  todo' = IF ready'[next] = Degree(tree, next) THEN Append(rest, next) ELSE rest

\* One more neighbor of next has leaves to pass.
Tell(next) ==
  /\ ready' = [ready EXCEPT ![next] = @ + 1]
  /\ LET rest == IF left # {} THEN todo ELSE Tail(todo)
     IN  todo' = IF ready'[next] = Degree(tree, next) - 1 THEN Append(rest, next) ELSE rest

\* The fixed leaf is left for the end.
PassLeaf(l) ==
  /\ left' = left \ {l}
  /\ IF l = fixed THEN UNCHANGED <<below, ready, todo>>
     ELSE /\ below' = [below EXCEPT ![l] = {l}]
          /\ Tell(IF l = tree.root THEN Head(tree.kids[l]) ELSE tree.parent[l])
  /\ UNCHANGED <<tree, fixed, central, restrictions, ok>>

\* The neighbors of x from the neighbor first on, in either direction.
From(x, first) ==
  LET ring == Neighbors(tree, x)
      k    == PositionOf(ring, first)
      turn == [i \in DOMAIN ring |-> RingAt(ring, k + i - 1)]
  IN  {turn, <<first>> \o Reverse(Tail(turn))}

\* The restrictions that x stands for, when it is reached from its neighbors
\* givers, in the order of its ring.
Exported(x, givers) ==
  LET pair(i) == below[givers[i]] \cup below[givers[i + 1]]
      sets    == IF tree.type[x] = "C" THEN {pair(i) : i \in 1..Len(givers) - 1}
                 ELSE {UNION {below[y] : y \in ToSet(givers)}}
  IN  {S \in sets : ~IsTrivial(Cardinality(S))}

\* x has the leaves that its neighbors had.
Gathered(x, givers) ==
  [y \in Node |-> IF y = x THEN UNION {below[z] : z \in ToSet(givers)}
                  ELSE IF y \in ToSet(givers) THEN {} ELSE below[y]]

PassNode ==
  LET node == Head(todo)
      open == {y \in ToSet(Neighbors(tree, node)) : below[y] = {}}
  IN  \E next \in IF open = {} THEN {Nil} ELSE open :
      \E turn \in From(node, IF next # Nil THEN next ELSE Head(tree.kids[node])) :
        LET givers == Excluding(turn, {next})
        IN  /\ left = {}
            /\ ok' = (/\ ok
                      /\ node # fixed
                      /\ Cardinality(open) <= 1
                      /\ next = Nil => fixed = Nil /\ central = Nil /\ Len(todo) = 1)
            /\ central' = IF next = Nil THEN node ELSE central
            /\ restrictions' = restrictions \cup Exported(node, givers)
            /\ below' = Gathered(node, givers)
            /\ IF next = Nil THEN todo' = Tail(todo) /\ UNCHANGED ready ELSE Tell(next)
            /\ UNCHANGED <<tree, fixed, left>>

Returned == left = {} /\ todo = <<>>

Next == (\E l \in left : PassLeaf(l)) \/ (todo # <<>> /\ PassNode)

Spec == Init /\ [][Next]_vars
-----------------------------------------------------------------------------
TypeOK ==
  /\ tree \in TreeType
  /\ left \subseteq LeavesOf(tree)
  /\ \A x \in Node : ready[x] <= Degree(tree, x)
  /\ below \in [Node -> SUBSET LeavesOf(tree)]
  /\ todo \in Seq(Node)

\* The assertions on the way, and those at the end about the node that the
\* tree was contracted to.
AssertionsHold ==
  /\ ok
  /\ Returned =>
       LET count == Cardinality(LeavesOf(tree))
           last  == CASE fixed = Nil -> central
                      [] fixed # Nil /\ fixed = tree.root -> Head(tree.kids[fixed])
                      [] fixed # Nil /\ fixed # tree.root -> tree.parent[fixed]
       IN  IF fixed = Nil
           THEN /\ last # Nil /\ ready[last] = Degree(tree, last)
                /\ Cardinality(below[last]) = count
           ELSE /\ central = Nil /\ ready[last] = Degree(tree, last) - 1
                /\ Cardinality(below[last]) = count - 1

\* Types; a leaf that was passed is in one list, and every list has all leaves that
\* lie behind its node, seen from one of the node's neighbors.
ListsExact ==
  /\ TypeOK
  /\ \A l \in LeavesOf(tree) \ (left \cup {fixed}) : \E x \in Node : l \in below[x]
  /\ \A x, y \in Node : x # y => below[x] \cap below[y] = {}
  /\ \A x \in InUse(tree) : below[x] \notin {{}, LeavesOf(tree)} =>
       \E y \in ToSet(Neighbors(tree, x)) :
         LeavesThrough(tree, LeavesBelow(tree), y, x) = below[x]

\* "A list of all cyclic restrictions used to generate this tree": the orders
\* that satisfy all of them are those that the tree stands for.
RestrictionsExact ==
  Returned =>
    LET L == LeavesOf(tree)
        orders == CyclicOrders(L)
    IN  {order \in orders : \A S \in restrictions : Consecutive(order, S)}
          = Allowed(orders, L, tree)

\* "The restrictions will be linear with none of them containing fixedLeaf."
WithoutFixedLeaf == \A S \in restrictions : fixed \notin S

\* The lists on the way and the restrictions at the end are right, whichever
\* node is told last.
ExportExact == ListsExact /\ RestrictionsExact /\ WithoutFixedLeaf
=============================================================================
