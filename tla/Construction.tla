----------------------------- MODULE Construction -----------------------------
(***************************************************************************)
(* The calls by which a user builds, takes apart and joins trees           *)
(* (src/src/PCTree_construction.cpp, changeRoot in PCTree_basic.cpp), on   *)
(* trees that share a forest.  Every call returns before the next, so each *)
(* is one step.                                                            *)
(*                                                                         *)
(* Which nodes a tree has registered is not a variable of its own: it is   *)
(* what Whole compares with the nodes below the roots.                     *)
(***************************************************************************)
EXTENDS PCTreeOrders

CONSTANTS
  Trees,     \* the PCTree objects
  Starts,    \* the forests to start from, records [nodes, roots]
  MaxLeaves, \* bound: leaves added by one call
  MaxOrders  \* bound: larger sets of leaves are not compared by their orders

VARIABLES
  nodes,  \* type, parent and kids of all nodes of the forest
  roots,  \* the m_rootNode of every tree, Nil for one that does not exist
  calls   \* the calls so far, for instances that bound them

vars == <<nodes, roots, calls>>

\* The tree T of a forest.
TreeIn(n, r, T) == [type |-> n.type, parent |-> n.parent, kids |-> n.kids, root |-> r[T]]
At(T) == TreeIn(nodes, roots, T)

\* The nodes at or below a node.
NodesBelow(t) ==
  LET below[x \in Node] == {x} \cup UNION {below[t.kids[x][i]] : i \in DOMAIN t.kids[x]}
  IN  below

NodesOf(t) == NodesBelow(t)[t.root]
LeavesOf(t) == {x \in NodesOf(t) : t.type[x] = "leaf"}
InnerOf(t) == NodesOf(t) \ LeavesOf(t)
Exists(T) == roots[T] # Nil

(***************************************************************************)
(* A forest in order: parents and child lists agree, a leaf is at the end  *)
(* of a branch (checkValid), nodes that are not in use are detached and    *)
(* childless (what destroyNode asserts), and every node in use belongs to  *)
(* exactly one tree.                                                       *)
(***************************************************************************)
Linked(n) ==
  /\ n \in [type   : [Node -> {"free", "leaf", "P", "C"}],
            parent : [Node -> Node \cup {Nil}],
            kids   : [Node -> Seq(Node)]]
  /\ \A x \in Node :
       /\ IsInjective(n.kids[x])
       /\ \A c \in Node : n.parent[c] = x <=> c \in ToSet(n.kids[x])
       /\ n.type[x] = "free" => n.kids[x] = <<>> /\ n.parent[x] = Nil
       /\ n.type[x] = "leaf" => Len(n.kids[x]) <= (IF n.parent[x] = Nil THEN 1 ELSE 0)

Whole(n, r) ==
  /\ Linked(n)
  /\ r \in [Trees -> Node \cup {Nil}]
  /\ LET Existing == {T \in Trees : r[T] # Nil}
         of(T)    == NodesOf(TreeIn(n, r, T))
     IN  /\ \A T \in Existing : n.parent[r[T]] = Nil
         /\ \A T, U \in Existing : T # U => of(T) \cap of(U) = {}
         /\ UNION {of(T) : T \in Existing} = {x \in Node : n.type[x] # "free"}

ASSUME BoundsAssumption == MaxLeaves \in Nat /\ MaxOrders \in Nat
ASSUME StartsAssumption == \A s \in Starts : Whole(s.nodes, s.roots)

\* k leaves that are not in use, in some order.
Free(S) == {x \in S : nodes.type[x] = "free"}
NewLeaves(k) == CHOOSE s \in [1..k -> Free(Leaves)] : IsInjective(s)

\* One call of the user turns the tree T into t.
Call(T, t) ==
  /\ calls' = calls + 1
  /\ nodes' = [type |-> t.type, parent |-> t.parent, kids |-> t.kids]
  /\ roots' = [roots EXCEPT ![T] = t.root]

(***************************************************************************)
(* checkValid(), with its cases for trees of few leaves.  By default, and  *)
(* so in every assertion of the library, it allows small degrees: in a     *)
(* tree of more leaves every inner node is on the way from a leaf to the   *)
(* root.  checkValid(false) also asks for a degree of three.               *)
(***************************************************************************)
Childless(t) == {x \in InnerOf(t) : t.kids[x] = <<>>}
LowDegree(t) == {x \in InnerOf(t) : Degree(t, x) < 3}

Valid(t) ==
  LET n == Cardinality(LeavesOf(t))
      m == Cardinality(InnerOf(t))
  IN  /\ t.parent[t.root] = Nil
      /\ \A l \in LeavesOf(t) : Len(t.kids[l]) <= (IF l = t.root THEN 1 ELSE 0)
      /\ n = 0 => m = 1
      /\ n = 1 => IF t.type[t.root] = "leaf" THEN m = Len(t.kids[t.root])
                  ELSE ToSet(t.kids[t.root]) = LeavesOf(t)
      /\ n = 2 => m = 1
      /\ n > 2 => Childless(t) = {}

Proper(t) == Valid(t) /\ (Cardinality(LeavesOf(t)) > 2 => LowDegree(t) = {})

(***************************************************************************)
(* Leaves.                                                                 *)
(***************************************************************************)
AppendLeaves(t, new, p) ==
  [t EXCEPT !.type   = [x \in Node |-> IF x \in ToSet(new) THEN "leaf" ELSE @[x]],
            !.parent = [x \in Node |-> IF x \in ToSet(new) THEN p ELSE @[x]],
            !.kids[p] = @ \o new]

\* PCTree(leafNum): a P-node with at least three leaves.
NewTree(T, k) ==
  /\ ~Exists(T)
  /\ k > 2 /\ Free(Inner) # {} /\ Cardinality(Free(Leaves)) >= k
  /\ LET r == CHOOSE x \in Free(Inner) : TRUE
     IN  Call(T, AppendLeaves(NewNode([At(T) EXCEPT !.root = r], r, "P"), NewLeaves(k), r))

InsertLeaves(T, p, k) ==
  /\ Exists(T) /\ p \in InnerOf(At(T))
  /\ Cardinality(Free(Leaves)) >= k
  /\ Call(T, AppendLeaves(At(T), NewLeaves(k), p))

\* replaceLeaf: the leaf becomes a P-node; in a tree of at most two leaves its
\* parent is made a P-node and gets the new leaves instead.
ReplacedLeaf(t, leaf, new) ==
  LET p == t.parent[leaf]
  IN  IF Cardinality(LeavesOf(t)) <= 2
      THEN DestroyNode(Detach(AppendLeaves([t EXCEPT !.type[p] = "P"], new, p), leaf), leaf)
      ELSE AppendLeaves([t EXCEPT !.type[leaf] = "P"], new, leaf)

\* The code follows the parent in a small tree without asking for it.
ReplaceLeaf(T, leaf, k) ==
  /\ Exists(T) /\ leaf \in LeavesOf(At(T))
  /\ k > 1 /\ Cardinality(Free(Leaves)) >= k
  /\ Cardinality(LeavesOf(At(T))) <= 2 => nodes.parent[leaf] # Nil
  /\ Call(T, ReplacedLeaf(At(T), leaf, NewLeaves(k)))

\* The node p with the only child c is replaced by it.
GiveWay(t, p, c) == DestroyNode(ReplaceWith(Detach(t, c), p, c), p)

\* The only child c of the root becomes the root.
RootGivesWay(t, c) == DestroyNode([Detach(t, c) EXCEPT !.root = c], t.root)

\* Mutant of WithoutSmallNode: nodes above a leaf stay.
WithoutSmallNode_AboveInner(t, p) ==
  LET c == Head(t.kids[p])
  IN  CASE Len(t.kids[p]) # 1 \/ t.type[c] = "leaf" -> t
        [] Len(t.kids[p]) = 1 /\ t.type[c] # "leaf" /\ p # t.root -> GiveWay(t, p, c)
        [] OTHER -> RootGivesWay(t, c)

\* destroyLeaf after the leaf is gone: what becomes of its parent p.
WithoutSmallNode(t, p) ==
  LET c        == Head(t.kids[p])
      rootLeaf == t.type[t.root] = "leaf"
      twoLeft  == rootLeaf /\ t.type[c] = "leaf" /\ Head(t.kids[t.root]) = p
  IN  CASE Len(t.kids[p]) # 1 -> t
        [] Len(t.kids[p]) = 1 /\ p # t.root -> IF twoLeft THEN t ELSE GiveWay(t, p, c)
        [] OTHER -> IF t.type[c] = "leaf" THEN t ELSE RootGivesWay(t, c)

DestroyLeaf(T, leaf) ==
  /\ Exists(T) /\ leaf \in LeavesOf(At(T))
  /\ leaf # roots[T]
  /\ Call(T, WithoutSmallNode(DestroyNode(Detach(At(T), leaf), leaf), nodes.parent[leaf]))

(***************************************************************************)
(* Types and roots.                                                        *)
(***************************************************************************)
ChangeNodeType(T, x, newType) ==
  /\ Exists(T) /\ x \in InnerOf(At(T))
  /\ nodes.type[x] # newType
  /\ Call(T, [At(T) EXCEPT !.type[x] = newType])

\* changeRoot asserts a valid tree, and with its replaceSibling that no inner
\* node that it turns around has fewer than three neighbors.
ChangeRootOf(T, x) ==
  /\ Exists(T) /\ x \in NodesOf(At(T))
  /\ x # roots[T]
  /\ Valid(At(T))
  /\ (WayUp(At(T), x) \ {x}) \cap LowDegree(At(T)) = {}
  /\ \E mirrored \in SUBSET ((WayUp(At(T), x) \ {x}) \cap InnerOf(At(T))) :
       Call(T, ChangeRoot(At(T), x, mirrored))

(***************************************************************************)
(* insertTree.                                                             *)
(***************************************************************************)
\* The nodes with one child at the top of the inserted tree are destroyed.
TopOf(t, r) ==
  LET top[x \in Node] == IF Len(t.kids[x]) = 1 THEN top[t.kids[x][1]] ELSE x
  IN  top[r]

\* Mutant of WithoutTop: the nodes are dropped but not destroyed.
WithoutTop_Leaks(t, r) ==
  [t EXCEPT !.parent[TopOf(t, r)] = Nil]

WithoutTop(t, r) ==
  LET gone == NodesBelow(t)[r] \ NodesBelow(t)[TopOf(t, r)]
  IN  [t EXCEPT !.type   = [x \in Node |-> IF x \in gone THEN "free" ELSE @[x]],
                !.parent = [x \in Node |-> IF x \in gone \cup {TopOf(t, r)} THEN Nil ELSE @[x]],
                !.kids   = [x \in Node |-> IF x \in gone THEN <<>> ELSE @[x]]]

\* r takes the place of the leaf at; the node of degree two between two
\* leaves goes when the tree gets further leaves.
InsteadOf(t, at, r) ==
  LET p     == t.parent[at]
      u     == Detach(t, at)
      other == Head(u.kids[p])
  IN  CASE t.type[r] = "leaf" \/ Degree(t, p) # 2 -> DestroyNode(ReplaceWith(t, at, r), at)
        [] t.type[r] # "leaf" /\ Degree(t, p) = 2 /\ t.parent[p] = Nil ->
             [DestroyNode(DestroyNode(AppendChild(Detach(u, other), r, other, FALSE), p), at)
                EXCEPT !.root = r]
        [] OTHER -> DestroyNode(DestroyNode(ReplaceWith(u, p, r), p), at)

Inserted(t, at, r) ==
  IF t.type[at] = "leaf" THEN InsteadOf(t, at, r) ELSE AppendChild(t, at, r, FALSE)

InsertTree(T, at, U) ==
  /\ T # U /\ Exists(T) /\ Exists(U)
  /\ at \in NodesOf(At(T))
  /\ Valid(At(T)) /\ Valid(At(U))
  /\ LeavesOf(At(T)) # {} => LeavesOf(At(U)) # {}   \* IntrusiveLists' MaySplice
  /\ nodes.type[at] = "leaf" => nodes.parent[at] # Nil
  /\ LET t == Inserted(WithoutTop(At(T), roots[U]), at, TopOf(At(U), roots[U]))
     IN  /\ calls' = calls + 1
         /\ nodes' = [type |-> t.type, parent |-> t.parent, kids |-> t.kids]
         /\ roots' = [roots EXCEPT ![T] = t.root, ![U] = Nil]

Init ==
  /\ \E s \in Starts : nodes = s.nodes /\ roots = s.roots
  /\ calls = 0

Next ==
  \E T \in Trees :
    \/ \E k \in 1..MaxLeaves :
         \/ NewTree(T, k)
         \/ \E x \in Node : InsertLeaves(T, x, k) \/ ReplaceLeaf(T, x, k)
    \/ \E x \in Node :
         \/ DestroyLeaf(T, x)
         \/ ChangeRootOf(T, x)
         \/ \E newType \in {"P", "C"} : ChangeNodeType(T, x, newType)
         \/ \E U \in Trees : InsertTree(T, x, U)

Spec == Init /\ [][Next]_vars

(***************************************************************************)
(* Properties.                                                             *)
(***************************************************************************)
Existing == {T \in Trees : Exists(T)}

\* The forest is in order after every call: none leaks a node, leaves one
\* behind in two trees, or destroys one that is still linked.
NothingLost == Whole(nodes, roots) /\ calls \in Nat

\* No node of small degree but a root that has lost its third child.
ValidButRoot(t) ==
  \/ Proper(t)
  \/ /\ Valid(t) /\ Cardinality(LeavesOf(t)) > 2
     /\ LowDegree(t) = {t.root}
     /\ Degree(t, t.root) = 2

\* Trees of at least two leaves whose inner nodes have three neighbors, the
\* root perhaps two, stay such trees whatever call they are given to: a call
\* may leave a root with two children, and the next ones cope with it.
ValidityKept ==
  [][(\A T \in Existing : ValidButRoot(At(T)) /\ Cardinality(LeavesOf(At(T))) > 1)
       => (\A T \in Existing : ValidButRoot(At(T)))']_vars

\* The orders of some of its leaves that a tree allows.
OrdersOn(S, t) == Allowed(CyclicOrders(S), S, t)

\* A node keeps its kind, unless the user asked for another.
SomeRetyped ==
  \E x \in Node : <<nodes.type[x], nodes'.type[x]>> \in {<<"P", "C">>, <<"C", "P">>}

\* The leaves of T that U has after the call keep their orders among each
\* other, where U is T itself or the tree that T was inserted into.
SurvivorsKept(T, U) ==
  LET S == LeavesOf(At(T)) \cap LeavesOf(At(U))'
  IN  Cardinality(S) \in 4..MaxOrders => OrdersOn(S, At(T)) = OrdersOn(S, At(U)')

\* An order in which the leaf n stands for the leaf g.
InsteadOfNew(order, n, g) ==
  LET Swap(l) == IF l = g THEN n ELSE IF l = n THEN g ELSE l
  IN  [l \in (DOMAIN order \ {n}) \cup {g} |-> Swap(order[Swap(l)])]

\* Each of the leaves that replace a leaf stands where that one stood.
ReplacedInPlace(T) ==
  LET old  == LeavesOf(At(T))
      new  == LeavesOf(At(T))' \ old
      gone == old \ LeavesOf(At(T))'
  IN  Cardinality(old) \in 4..MaxOrders /\ Cardinality(gone) = 1 =>
        \A n \in new, g \in gone :
          {InsteadOfNew(order, n, g) : order \in OrdersOn((old \ {g}) \cup {n}, At(T)')}
            = OrdersOn(old, At(T))

\* Apart from changes of type, no call changes what a tree says of the leaves
\* that are still there, and what comes in for a leaf comes to its place.
OrdersKept ==
  [][~SomeRetyped =>
       \A T \in Existing :
         /\ \A U \in Trees : Exists(U)' => SurvivorsKept(T, U)
         /\ Exists(T)' => ReplacedInPlace(T)]_vars

\* "Remove a leaf and also any newly-introduced inner degree-2 or -1 nodes"
\* (PCTree.h, destroyLeaf).
NoSmallNodeLeft ==
  [][\A T \in Trees, x \in Node :
       DestroyLeaf(T, x) /\ Cardinality(LeavesOf(At(T)')) > 2
         => LowDegree(At(T)') \subseteq LowDegree(At(T))]_vars
=============================================================================
