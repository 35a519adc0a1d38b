----------------------------- MODULE Intersection -----------------------------
(***************************************************************************)
(* PCTree::intersect (src/src/PCTree_intersect.cpp): the restrictions of   *)
(* another tree are imposed on this one by calls of makeConsecutive, the   *)
(* nodes of the other tree being visited from the leaves to the last.      *)
(* What has been made consecutive for a node is taken out of this tree     *)
(* and a new leaf, or two, stand for it until the end; then, or when a     *)
(* call has failed, everything is put back.                                *)
(*                                                                         *)
(* makeConsecutive is the one of PCTreeRestriction, with all its steps.    *)
(* The merges of the other tree are not carried out: a node of it that has *)
(* been visited stands for the leaf that it was merged to.  The mapping    *)
(* between the leaves of the trees is the identity at the beginning.       *)
(***************************************************************************)
EXTENDS PCTreeRestriction, PCTreeOrders

CONSTANTS
  Others,     \* the trees to intersect with
  LeafOrder   \* m_leaves of both trees; the other members of Leaves are spare

ASSUME LeafOrderAssumption == LeafOrder \in Seq(Leaves) /\ LeafOrder # <<>>

VARIABLES
  stage,     \* how far intersect() has come
  other,     \* the other tree
  before,    \* a history variable: this tree before the call
  order,     \* the rest of fullNodeOrder
  requests,  \* the calls still to make for its first node
  mapping,   \* the leaf of this tree for each (merged) leaf of the other
  leafList,  \* m_leaves of this tree
  saved,     \* blockNodes, subtreeNodes, leafPartner and isFront
  walk       \* the locals of restoreSubtrees

own == <<stage, other, before, order, requests, mapping, leafList, saved, walk>>

allVars == <<vars, own>>

NothingSaved ==
  [block   |-> [x \in Node |-> <<>>],
   subtree |-> [x \in Node |-> {}],
   partner |-> [x \in Node |-> Nil],
   isFront |-> [x \in Node |-> FALSE]]

NoWalk == [queue |-> <<>>, visited |-> {}, node |-> Nil, previous |-> Nil,
           current |-> Nil, left |-> 0]

InitIntersection ==
  /\ Init
  /\ stage = "new"
  /\ other \in Others
  /\ before = tree
  /\ order = <<>> /\ requests = <<>>
  /\ mapping = [x \in Node |-> IF x \in Leaves THEN x ELSE Nil]
  /\ leafList = LeafOrder
  /\ saved = NothingSaved
  /\ walk = NoWalk

(***************************************************************************)
(* The beginning.                                                          *)
(***************************************************************************)
IsTrivial(t) == t.type[t.root] = "P" /\ Len(t.kids[t.root]) = Len(LeafOrder)

\* The tree with the neighbor of the leaf l as root.
RootedBeside(t, l) ==
  LET x == IF l = t.root THEN Head(t.kids[l]) ELSE t.parent[l]
  IN  IF x = t.root THEN {t}
      ELSE {ChangeRoot(t, x, mirrored) :
              mirrored \in SUBSET ((WayUp(t, x) \ {x}) \cap Inner)}

\* The order in which the inner nodes of t become full when all leaves but the
\* last, next to the root, are marked one by one.
FullNodeOrder(t) ==
  LET below   == LeavesBelow(t)
      late(x) == CHOOSE i \in 1..Len(LeafOrder) - 1 :
                   /\ LeafOrder[i] \in below[x]
                   /\ \A j \in i + 1..Len(LeafOrder) - 1 : LeafOrder[j] \notin below[x]
      sooner(x, y) == \/ late(x) < late(y)
                      \/ late(x) = late(y) /\ below[x] \subseteq below[y]
  IN  SetToSortSeq(InUse(t) \cap Inner, sooner)

ReturnAtOnce ==
  /\ stage = "new"
  /\ IsTrivial(other)
  /\ stage' = "returned"
  /\ UNCHANGED <<vars, other, before, order, requests, mapping, leafList, saved, walk>>

StartReading ==
  /\ stage = "new"
  /\ ~IsTrivial(other)
  /\ other' \in RootedBeside(other, Last(LeafOrder))
  /\ tree' \in RootedBeside(tree, mapping[Last(LeafOrder)])
  /\ order' = FullNodeOrder(other')
  /\ stage' = "reading"
  /\ UNCHANGED <<temp, pc, work, client, before, requests, mapping, leafList, saved, walk>>

(***************************************************************************)
(* The restrictions of one node of the other tree.                         *)
(***************************************************************************)
\* The one leaf, or the two, for the neighbor y.
Standing(y) ==
  LET l == mapping[y]
  IN  IF saved.partner[l] = Nil THEN <<l>> ELSE <<l, saved.partner[l]>>

\* For a C-node its neighbors are made consecutive in pairs, then, but for the
\* last node, all together.  The walk around x begins behind its parent, for
\* the last node behind its first child.
RequestsFor(x) ==
  LET last  == Len(order) = 1
      seen  == IF last THEN Tail(other.kids[x]) ELSE other.kids[x]
      pairs == IF other.type[x] = "C"
                 THEN [i \in 1..Len(seen) - 1 |-> Standing(seen[i]) \o Standing(seen[i + 1])]
                 ELSE <<>>
  IN  IF last THEN pairs
      ELSE Append(pairs, FlattenSeq([i \in DOMAIN seen |-> Standing(seen[i])]))

ReadNode ==
  /\ stage = "reading"
  /\ requests' = RequestsFor(Head(order))
  /\ stage' = "asking"
  /\ UNCHANGED <<vars, other, before, order, mapping, leafList, saved, walk>>

\* All calls so far have succeeded.
Going == stage = "asking" /\ pc = "idle" /\ client.answer

Ask ==
  /\ Going
  /\ requests # <<>>
  /\ MakeConsecutive(Head(requests))
  /\ requests' = Tail(requests)
  /\ UNCHANGED <<stage, other, before, order, mapping, leafList, saved, walk>>

Call == CallStep /\ UNCHANGED own

(***************************************************************************)
(* The leaves that have been made consecutive are taken out, with all      *)
(* nodes that are full when they are marked again.  The labels are read    *)
(* off the tree; the next call resets them before it uses them.            *)
(***************************************************************************)
Merged == UNION {ToSet(Standing(y)) : y \in ToSet(other.kids[Head(order)])}

FullNodes ==
  LET below == LeavesBelow(tree)
  IN  {x \in Node : below[x] # {} /\ below[x] \subseteq Merged}

PartialNodes == {tree.parent[x] : x \in FullNodes} \ FullNodes

\* The ring around x from a on, such that b comes next.
RingFrom(x, a, b) ==
  LET ring    == Neighbors(tree, x)
      k       == PositionOf(ring, a)
      turn    == [i \in DOMAIN ring |-> RingAt(ring, k + i - 1)]
  IN  IF turn[2] = b THEN turn ELSE <<a>> \o Reverse(Tail(turn))

\* findEndOfFullBlock: the full neighbors that follow the first in a ring.
FullBlock(ring) ==
  LET n == CHOOSE k \in 1..Len(ring) - 1 :
             /\ \A i \in 2..k : ring[i] \in FullNodes
             /\ ring[k + 1] \notin FullNodes
  IN  SubSeq(ring, 2, n)

NewLeaf(S) == CHOOSE x \in Leaves \ (S \cup ToSet(LeafOrder)) :
                tree.type[x] = "free" /\ saved.block[x] = <<>>

\* Mutant of StandIns: one leaf for a block of any length.
StandIns_One(block) == <<NewLeaf({})>>

\* Two leaves stand for a block of several nodes, so that it keeps its direction.
StandIns(block) ==
  LET first == NewLeaf({})
  IN  IF Len(block) >= 2 THEN <<first, NewLeaf({first})>> ELSE <<first>>

\* Detached, with all that is below them.
Without(t, nodes) ==
  [t EXCEPT !.parent = [x \in Node |-> IF x \in nodes THEN Nil ELSE @[x]],
            !.kids   = [x \in Node |-> SelectSeq(@[x], LAMBDA c : c \notin nodes)]]

\* The nodes, one insertBetween() after the other, take the place of y around
\* its parent, the first of them beside the neighbor side of y.
Exchanged(t, y, nodes, side) ==
  LET x    == t.parent[y]
      ring == Neighbors(t, x)
      i    == PositionOf(t.kids[x], y)
      run  == IF RingAt(ring, PositionOf(ring, y) + Len(ring) - 1) = side THEN nodes
              ELSE Reverse(nodes)
  IN  [t EXCEPT !.parent  = [c \in Node |-> IF c = y THEN Nil
                                           ELSE IF c \in ToSet(nodes) THEN x ELSE @[c]],
                !.kids[x] = SubSeq(@, 1, i - 1) \o run \o SubSeq(@, i + 1, Len(@))]

\* The full leaves are not registered any more, the new ones are.
Registered(t, new) ==
  [t EXCEPT !.type = [x \in Node |-> IF x \in new THEN "leaf"
                                    ELSE IF x \in Merged THEN "free" ELSE @[x]]]

Saved(block, new) ==
  [block   |-> [x \in Node |-> IF x \in ToSet(new) THEN block ELSE saved.block[x]],
   subtree |-> [x \in Node |-> IF x \in ToSet(new) THEN FullNodes ELSE saved.subtree[x]],
   partner |-> IF Len(new) = 1 THEN saved.partner
               ELSE [saved.partner EXCEPT ![new[1]] = new[2], ![new[2]] = new[1]],
   isFront |-> IF Len(new) = 1 THEN saved.isFront
               ELSE [saved.isFront EXCEPT ![new[1]] = TRUE]]

TakeOut ==
  /\ Going
  /\ requests = <<>>
  /\ Len(order) > 1
  /\ \E partial \in PartialNodes :
     \E end1 \in ToSet(Neighbors(tree, partial)) \cap FullNodes :
     \E empty1 \in ToSet(Neighbors(tree, partial)) \ FullNodes :
       /\ AreNeighborsAdjacent(tree, partial, end1, empty1)
       /\ LET block == FullBlock(RingFrom(partial, empty1, end1))
              new   == StandIns(block)
              apart == Without(tree, ToSet(Tail(block)))
          IN  /\ tree' = Registered(Exchanged(apart, end1, new, empty1), ToSet(new))
              /\ saved' = Saved(block, new)
              /\ mapping' = [mapping EXCEPT ![Head(order)] = new[1]]
              /\ leafList' = SelectSeq(leafList, LAMBDA l : l \notin Merged) \o new
  /\ order' = Tail(order)
  /\ stage' = "reading"
  /\ UNCHANGED <<temp, pc, work, client, other, before, requests, walk>>

(***************************************************************************)
(* restoreSubtrees: a walk from node to node, and around each of them,     *)
(* that replaces the leaves that stand for something as it meets them.     *)
(***************************************************************************)
StartRestoring ==
  /\ stage' = "restoring"
  /\ walk' = [NoWalk EXCEPT !.queue = <<tree.parent[Head(leafList)]>>]
  /\ UNCHANGED <<vars, other, before, order, requests, mapping, leafList, saved>>

AllAsked == Going /\ requests = <<>> /\ Len(order) = 1 /\ StartRestoring

GiveUp == stage = "asking" /\ pc = "idle" /\ ~client.answer /\ StartRestoring

\* getNextNeighbor(pred, curr)
NextNeighbor(x, pred, curr) ==
  LET ring == Neighbors(tree, x)
      i    == PositionOf(ring, curr)
  IN  IF RingAt(ring, i + 1) = pred THEN RingAt(ring, i + Len(ring) - 1) ELSE RingAt(ring, i + 1)

\* Mutant of Entered: the walk may begin in the middle of a pair.
Entered_MidPair(x) == [previous |-> tree.kids[x][1], current |-> tree.kids[x][2]]

\* The walk around x begins at its first two children, unless they are a pair.
Entered(x) ==
  LET a == tree.kids[x][1]
      b == tree.kids[x][2]
  IN  [previous |-> IF saved.partner[b] = a THEN NextNeighbor(x, a, b) ELSE a,
       current  |-> b]

EnterNode ==
  /\ stage = "restoring"
  /\ walk.left = 0
  /\ walk.queue # <<>>
  /\ LET x == Head(walk.queue)
     IN  walk' = Entered(x) @@ [walk EXCEPT !.queue = Tail(@), !.node = x,
                                            !.left = Degree(tree, x)]
  /\ UNCHANGED <<vars, stage, other, before, order, requests, mapping, leafList, saved>>

Stands(x) == saved.block[x] # <<>>

\* The neighbor of the node behind the one or two leaves.
Behind ==
  LET c == walk.current
  IN  IF saved.partner[c] = Nil THEN NextNeighbor(walk.node, walk.previous, c)
      ELSE NextNeighbor(walk.node, c, saved.partner[c])

PutBack ==
  LET c     == walk.current
      new   == IF saved.partner[c] = Nil THEN <<c>> ELSE <<c, saved.partner[c]>>
      block == IF saved.isFront[c] THEN saved.block[c] ELSE Reverse(saved.block[c])
      lone  == Without(tree, ToSet(Tail(new)))
      Type(x) == IF x \in ToSet(new) THEN "free"
                 ELSE IF x \in saved.subtree[c] \cap Leaves THEN "leaf" ELSE tree.type[x]
  IN  /\ stage = "restoring"
      /\ walk.left > 0
      /\ Stands(c)
      /\ tree' = [Exchanged(lone, c, block, walk.previous) EXCEPT
                    !.type = [x \in Node |-> Type(x)]]
      /\ leafList' = SelectSeq(leafList, LAMBDA l : l \notin ToSet(new))
                       \o SetToSeq(saved.subtree[c] \cap Leaves)
      /\ saved' = [saved EXCEPT !.block[c] = <<>>]
      /\ walk' = [walk EXCEPT !.visited = @ \cup {c}, !.current = block[1],
                              !.left = @ - 1 + Len(block)]
      /\ UNCHANGED <<temp, pc, work, client, stage, other, before, order, requests, mapping>>

PassBy ==
  LET c == walk.current
  IN  /\ stage = "restoring"
      /\ walk.left > 0
      /\ ~Stands(c)
      /\ walk' = [walk EXCEPT
                    !.queue = IF tree.type[c] # "leaf" /\ c \notin walk.visited
                                THEN Append(@, c) ELSE @,
                    !.visited = @ \cup {c},
                    !.current = NextNeighbor(walk.node, walk.previous, c),
                    !.previous = c,
                    !.left = @ - 1]
      /\ UNCHANGED <<vars, stage, other, before, order, requests, mapping, leafList, saved>>

ReturnRestored ==
  /\ stage = "restoring"
  /\ walk.left = 0
  /\ walk.queue = <<>>
  /\ stage' = "returned"
  /\ UNCHANGED <<vars, other, before, order, requests, mapping, leafList, saved, walk>>

Reducing == StartReading \/ ReadNode \/ Ask \/ Call \/ TakeOut
Restoring == AllAsked \/ GiveUp \/ EnterNode \/ PutBack \/ PassBy \/ ReturnRestored

Step == ReturnAtOnce \/ Reducing \/ Restoring

\* After the call nothing happens any more.
Rest == stage = "returned" /\ UNCHANGED allVars

NextIntersection == Step \/ Rest

\* intersect() is an ordinary function: once called it runs to its end.  The
\* second disjunct is WF_allVars(Step) with "not returned" for ENABLED Step: that
\* these are the same is what the check for deadlocks shows.
IntersectionSpec ==
  /\ InitIntersection
  /\ [][NextIntersection]_allVars
  /\ []<>(stage = "returned") \/ []<><<Step>>_allVars
-----------------------------------------------------------------------------
Orders == CyclicOrders(ToSet(LeafOrder))
OrdersOf(t) == Allowed(Orders, ToSet(LeafOrder), t)

(***************************************************************************)
(* "true if the intersection is non-empty and this now represented by this *)
(* tree. Otherwise, the intersection is empty" (intersect), although the   *)
(* tree was taken apart and put together again in between.                 *)
(***************************************************************************)
IntersectionExact ==
  stage = "returned" =>
    LET both == OrdersOf(before) \cap OrdersOf(other)
    IN  IF client.answer THEN both # {} /\ OrdersOf(tree) = both ELSE both = {}

\* What is attached to the root.
Attached == {x \in InUse(tree) : tree.root \in WayUp(tree, x)}

\* While the tree is taken apart: what is left is a valid tree of the leaves in
\* m_leaves, and as long as something may be taken out the root is beside the
\* leaf that is never marked, so that nothing is cut off above.
RestValid ==
  stage \in {"reading", "asking"} /\ pc = "idle" =>
    /\ CheckValid([tree EXCEPT !.type = [x \in Node |-> IF x \in Attached THEN @[x] ELSE "free"]])
    /\ ToSet(leafList) = Attached \cap Leaves
    /\ Len(order) > 1 => tree.parent[Last(LeafOrder)] = tree.root

\* The assertions about the full block that findNodeRestrictions looks for.
BlockFound ==
  Going /\ requests = <<>> /\ Len(order) > 1 =>
    /\ Cardinality(PartialNodes) = 1
    /\ \A p \in PartialNodes :
         LET ring == Neighbors(tree, p)
             full == ToSet(ring) \cap FullNodes
         IN  /\ Consecutive([x \in ToSet(ring) |-> RingAt(ring, PositionOf(ring, x) + 1)], full)
             /\ Len(ring) - Cardinality(full) >= 2
             /\ Cardinality(full) >= 2 => tree.type[p] = "C"

\* The assertions of restoreSubtrees at every step of its walk.
WalkHolds ==
  stage = "restoring" /\ walk.left > 0 =>
    /\ AreNeighborsAdjacent(tree, walk.node, walk.current, walk.previous)
    /\ Stands(walk.current) => Behind # walk.previous
    /\ \A x \in Attached : x \in Leaves => x \in ToSet(leafList)

(***************************************************************************)
(* Whether the intersection is empty or not, everything that was taken out *)
(* comes back: at the end the tree is valid, has its leaves and nothing    *)
(* else, and no order that it did not stand for; and on the way there what *)
(* is left is a valid tree in which the blocks are where they are sought.  *)
(***************************************************************************)
RestoredWhole ==
  /\ RestValid
  /\ BlockFound
  /\ WalkHolds
  /\ stage = "returned" =>
       /\ CheckValid(tree)
       /\ InUse(tree) \cap Leaves = ToSet(LeafOrder)
       /\ ToSet(leafList) = ToSet(LeafOrder) /\ Len(leafList) = Len(LeafOrder)
       /\ OrdersOf(tree) \subseteq OrdersOf(before)

\* The walk that restores the tree ends, and so does every call on the way.
IntersectReturns == <>(stage = "returned")
=============================================================================
