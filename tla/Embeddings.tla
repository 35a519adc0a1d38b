------------------------------ MODULE Embeddings ------------------------------
(***************************************************************************)
(* The embeddings of a PC-tree (src/src/PCNode.cpp): firstEmbedding() and  *)
(* nextEmbedding() in the loop that the documentation shows, randomEmbed-  *)
(* ding(), and possibleOrders().                                           *)
(*                                                                         *)
(* Each call is a walk over allNodes(), whose stack gets the children of a *)
(* node after that node has been reordered.  The loop is a counter with    *)
(* one digit per node, and the walk that advances it takes the digits in   *)
(* an order that the digits themselves decide.                             *)
(*                                                                         *)
(* index() is Index; std::sort, std::shuffle and std::next_permutation are *)
(* what their documentation says.                                          *)
(***************************************************************************)
EXTENDS PCTreeOrders

CONSTANTS
  Trees,  \* the trees to be embedded
  Index   \* m_id of every node

VARIABLES
  tree,
  loop,     \* "new", "first", "show", "shown", "next", "ended"; "random", "crashed"
  pending,  \* m_pending of the walk, its top at the end
  shown,    \* history: the cyclic orders that the loop has had
  admissible  \* history: the cyclic orders that the tree stood for

walk == <<loop, pending, shown, admissible>>
vars == <<tree, walk>>

LeavesOf(t) == {x \in Leaves : t.type[x] = "leaf"}

\* All cyclic orders of the leaves of each tree.
AllOrders == [L \in {LeavesOf(t) : t \in Trees} |-> CyclicOrders(L)]
OrdersOf(t) == Allowed(AllOrders[LeavesOf(t)], LeavesOf(t), t)

Init ==
  /\ tree \in Trees
  /\ loop = "new"
  /\ pending = <<>>
  /\ shown = <<>>
  /\ admissible = OrdersOf(tree)

(***************************************************************************)
(* The methods of PCNode.                                                  *)
(***************************************************************************)
Before(s, r) ==
  \E i \in DOMAIN s : /\ Index[s[i]] < Index[r[i]]
                      /\ \A j \in 1..i - 1 : s[j] = r[j]

Sorted(S) == SetToSortSeq(S, LAMBDA x, y : Index[x] < Index[y])

\* std::next_permutation: the least arrangement after s, if there is one, or
\* the first of all.
NextPermutation(s) ==
  LET later == {r \in SetToSeqs(ToSet(s)) : Before(s, r)}
  IN  IF later = {} THEN Sorted(ToSet(s))
      ELSE CHOOSE r \in later : \A q \in later \ {r} : Before(r, q)

Upward(kids) == Index[Head(kids)] < Index[Last(kids)]

\* The children of x after firstEmbedding()
FirstOrder(t, x) ==
  LET kids == t.kids[x]
  IN  CASE Degree(t, x) < 3 -> kids
        [] Degree(t, x) >= 3 /\ t.type[x] = "C" ->
             IF Upward(kids) THEN kids ELSE Reverse(kids)
        [] OTHER -> Sorted(ToSet(kids))

\* Mutant of NextOrder: all children of the root change their places.
NextOrder_RootFree(t, x) ==
  LET kids == t.kids[x]
  IN  CASE Degree(t, x) < 3 -> kids
        [] Degree(t, x) >= 3 /\ t.type[x] = "C" -> Reverse(kids)
        [] OTHER -> NextPermutation(kids)

\* The children of x after nextEmbedding(); the first one of the root is fixed.
NextOrder(t, x) ==
  LET kids == t.kids[x]
  IN  CASE Degree(t, x) < 3 -> kids
        [] Degree(t, x) >= 3 /\ t.type[x] = "C" -> Reverse(kids)
        [] Degree(t, x) >= 3 /\ t.type[x] = "P" /\ t.parent[x] = Nil ->
             <<Head(kids)>> \o NextPermutation(Tail(kids))
        [] OTHER -> NextPermutation(kids)

\* What nextEmbedding() on x returns when x then has the children kids.
Advanced(t, x, kids) ==
  /\ Degree(t, x) >= 3
  /\ IF t.type[x] = "C" THEN ~Upward(kids) ELSE Before(t.kids[x], kids)

(***************************************************************************)
(* The walks of PCTree, and the loop around them.                          *)
(***************************************************************************)
\* Mutant of WalkOn: a node without children stays on the stack.
WalkOn_LeafStays(kids) ==
  /\ tree' = [tree EXCEPT !.kids[Last(pending)] = kids]
  /\ pending' = IF kids = <<>> THEN pending ELSE Front(pending) \o kids

\* The top of the stack gets the children kids and goes; they come on top.
WalkOn(kids) ==
  /\ tree' = [tree EXCEPT !.kids[Last(pending)] = kids]
  /\ pending' = Front(pending) \o kids

\* A call has begun.
Begin(from, to) ==
  /\ loop = from /\ loop' = to
  /\ pending' = <<tree.root>>
  /\ UNCHANGED <<tree, shown, admissible>>

FirstEmbedding ==
  /\ loop = "first" /\ pending # <<>>
  /\ WalkOn(FirstOrder(tree, Last(pending)))
  /\ UNCHANGED <<loop, shown, admissible>>

\* currentLeafOrder(): a walk that comes to the last child first.
LeafOrder(t) ==
  LET read[x \in Node] ==
        (IF t.type[x] = "leaf" THEN <<x>> ELSE <<>>)
          \o FlattenSeq([i \in DOMAIN t.kids[x] |-> read[Reverse(t.kids[x])[i]]])
  IN  read[t.root]

Show ==
  /\ loop = "show" \/ (loop = "first" /\ pending = <<>>)
  /\ LET order == LeafOrder(tree)
     IN  shown' = Append(shown, [l \in ToSet(order) |-> RingAt(order, PositionOf(order, l) + 1)])
  /\ loop' = "shown"
  /\ UNCHANGED <<tree, pending, admissible>>

\* nextEmbedding() returns at the first node that advances.
NextEmbedding ==
  /\ loop = "next"
  /\ IF pending = <<>> THEN loop' = "ended" /\ UNCHANGED <<tree, pending>>
     ELSE LET x    == Last(pending)
              kids == NextOrder(tree, x)
          IN  IF Advanced(tree, x, kids)
              THEN /\ loop' = "show" /\ pending' = <<>>
                   /\ tree' = [tree EXCEPT !.kids[x] = kids]
              ELSE WalkOn(kids) /\ UNCHANGED loop
  /\ UNCHANGED <<shown, admissible>>

Next ==
  \/ Begin("new", "first") \/ FirstEmbedding
  \/ Show
  \/ Begin("shown", "next") \/ NextEmbedding

Spec == Init /\ [][Next]_vars

(***************************************************************************)
(* randomEmbedding() instead of the loop.  It shuffles the children of     *)
(* every node.  For a leaf below another node, setChildOrder() goes on     *)
(* with no children and writes to a sibling pointer of the null pointer.   *)
(***************************************************************************)
RandomEmbedding ==
  /\ loop = "random" /\ pending # <<>>
  /\ LET kids == tree.kids[Last(pending)]
     IN  \/ /\ kids = <<>>
            /\ loop' = "crashed"
            /\ UNCHANGED <<tree, pending>>
         \/ /\ kids # <<>>
            /\ \E order \in SetToSeqs(ToSet(kids)) : WalkOn(order)
            /\ UNCHANGED loop
  /\ UNCHANGED <<shown, admissible>>

RandomNext == Begin("new", "random") \/ RandomEmbedding

RandomSpec == Init /\ [][RandomNext]_vars
-----------------------------------------------------------------------------
\* The loop has every admissible order once, from whatever embedding it starts
\* and although each step turns parts of the tree back, and then it ends.
Enumeration == INSTANCE OrderEnumeration WITH ended <- loop = "ended"

Enumerates == Enumeration!Spec

\* Mutant of PossibleOrders: the children of the root count like others.
PossibleOrders_Shifts(t) ==
  LET arrangements(x) == IF t.type[x] = "C" THEN 2 ELSE Cardinality(Permutations(1..Len(t.kids[x])))
  IN  FoldSet(LAMBDA x, n : n * arrangements(x), 1, InUse(t) \cap Inner)

\* possibleOrders()
PossibleOrders(t) ==
  LET turns(x) == Len(t.kids[x]) - (IF x = t.root THEN 1 ELSE 0)
      arrangements(x) == IF t.type[x] = "C" THEN 2
                         ELSE Cardinality(Permutations(1..turns(x)))
  IN  FoldSet(LAMBDA x, n : n * arrangements(x), 1, InUse(t) \cap Inner)

\* The number that possibleOrders() gets from the degrees of the nodes is the
\* number of cyclic orders there are, wherever the root is.
CountExact == PossibleOrders(tree) = Cardinality(admissible)

\* "Reorder all nodes' children such that currentLeafOrder() will represent a
\* random admissible order."
RandomAdmissible == loop = "random" => OrdersOf(tree) = admissible
=============================================================================
