---------------------------- MODULE PCTreeOrders ----------------------------
(***************************************************************************)
(* What a PC-tree stands for: the cyclic orders of its leaves.             *)
(***************************************************************************)
EXTENDS PCTreeShape

(***************************************************************************)
(* The cyclic orders of a set of leaves.  A cyclic order is the successor  *)
(* function of its ring.                                                   *)
(***************************************************************************)
CyclicOrders(L) ==
  LET first == CHOOSE l \in L : TRUE
      rest  == Listed(L \ {first})
      Successors(ring) == [l \in L |-> RingAt(ring, PositionOf(ring, l) + 1)]
  IN  {Successors(<<first>> \o [i \in DOMAIN rest |-> f[rest[i]]]) :
         f \in Permutations(L \ {first})}

\* The leaves of S follow each other without another leaf between them.
Consecutive(order, S) == Cardinality({l \in S : order[l] \notin S}) <= 1

\* The blocks of leaves around a node, in the order of its ring, without
\* those that are empty because only some leaves are looked at.
BlocksAround(t, below, x) ==
  SelectSeq([i \in 1..Degree(t, x) |-> LeavesThrough(t, below, x, Neighbors(t, x)[i])],
            LAMBDA B : B # {})

(***************************************************************************)
(* Of the given orders of some of its leaves, S, those that a tree allows: *)
(* the leaves beyond every edge are consecutive, and the order passes the  *)
(* neighbors of every C-node in the order of their ring, in either         *)
(* direction.                                                              *)
(***************************************************************************)
Allowed(orders, S, t) ==
  LET below  == [x \in InUse(t) |-> LeavesBelow(t)[x] \cap S]
      blocks == {below[x] : x \in InUse(t)}
      rings  == {BlocksAround(t, below, x) : x \in {y \in InUse(t) : t.type[y] = "C"}}
      Follows(order, B, D) == \E l \in B : order[l] \in D
      Along(order, ring) == \A i \in DOMAIN ring : Follows(order, ring[i], RingAt(ring, i + 1))
  IN  {order \in orders :
         /\ \A B \in blocks : Consecutive(order, B)
         /\ \A ring \in rings : Along(order, ring) \/ Along(order, Reverse(ring))}
=============================================================================
