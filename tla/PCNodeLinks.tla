----------------------------- MODULE PCNodeLinks -----------------------------
(***************************************************************************)
(* The pointers of a PCNode and the methods that change them               *)
(* (src/src/PCNode.cpp), and changeRoot (src/src/PCTree_basic.cpp).        *)
(*                                                                         *)
(* The children of a node form a doubly linked list whose links have no    *)
(* direction: m_sibling1 may be the left or the right neighbor, so a list  *)
(* is flipped by swapping m_child1 and m_child2.  replaceSibling finds the *)
(* pointer to change by the value it has, and takes m_sibling1 when both   *)
(* have it.  The parent is the node getParent() returns, whether it is     *)
(* kept as a pointer or found through the union-find of CNodeParents.      *)
(*                                                                         *)
(* The assertions of a method clear links.ok where one fails.              *)
(***************************************************************************)
EXTENDS PCTreeShape

CONSTANT MinDegree  \* bound: changeRoot passes inner nodes of this degree

ASSUME MinDegreeAssumption == MinDegree \in Nat

VARIABLE links  \* the fields of every node, and whether assertions held

LinksType ==
  [parent : [Node -> Node \cup {Nil}],
   sib1   : [Node -> Node \cup {Nil}],
   sib2   : [Node -> Node \cup {Nil}],
   child1 : [Node -> Node \cup {Nil}],
   child2 : [Node -> Node \cup {Nil}],
   count  : [Node -> 0..Cardinality(Node)],
   ok     : BOOLEAN]

Nowhere == [x \in Node |-> Nil]

Init == links = [parent |-> Nowhere, sib1 |-> Nowhere, sib2 |-> Nowhere,
                 child1 |-> Nowhere, child2 |-> Nowhere,
                 count |-> [x \in Node |-> 0], ok |-> TRUE]

(***************************************************************************)
(* Reading the links.                                                      *)
(***************************************************************************)
IsDetached(L, x) == L.parent[x] = Nil
DegreeOf(L, x) == L.count[x] + (IF IsDetached(L, x) THEN 0 ELSE 1)
ChildOuter(L, p, c) == c \in {L.child1[p], L.child2[p]}
SiblingAdjacent(L, x, y) == y \in {L.sib1[x], L.sib2[x]}

Assert_(L, condition) == [L EXCEPT !.ok = @ /\ condition]

GetNextSibling(L, x, pred) == IF pred = L.sib1[x] THEN L.sib2[x] ELSE L.sib1[x]
GetOtherOuterChild(L, p, c) == IF c = L.child1[p] THEN L.child2[p] ELSE L.child1[p]

\* Mutant of GetNextNeighbor: the wrap around the parent is left out.
GetNextNeighbor_NoWrap(L, x, pred, curr) ==
  LET p    == L.parent[x]
      next == CASE curr = p -> IF pred = Nil THEN L.child1[x] ELSE GetOtherOuterChild(L, x, pred)
                [] curr # p /\ pred # Nil /\ L.parent[pred] = x -> GetNextSibling(L, curr, pred)
                [] curr # p /\ pred # Nil /\ pred = p           -> GetNextSibling(L, curr, Nil)
                [] OTHER -> IF L.sib1[curr] # Nil THEN L.sib1[curr] ELSE L.sib2[curr]
  IN  CASE next # Nil -> next
        [] next = Nil /\ p # Nil -> p
        [] next = Nil /\ p = Nil -> GetOtherOuterChild(L, x, curr)

\* The neighbor of x that follows curr when coming from pred, either of the
\* two when pred is null.
GetNextNeighbor(L, x, pred, curr) ==
  LET p      == L.parent[x]
      isKid  == pred # Nil /\ L.parent[pred] = x
      next   ==
        CASE curr = p -> IF pred = Nil THEN L.child1[x] ELSE GetOtherOuterChild(L, x, pred)
          [] curr # p /\ isKid ->
               GetNextSibling(L, curr, IF SiblingAdjacent(L, pred, curr) THEN pred ELSE Nil)
          [] curr # p /\ pred # Nil /\ pred = p -> GetNextSibling(L, curr, Nil)
          [] OTHER -> IF L.sib1[curr] # Nil THEN L.sib1[curr] ELSE L.sib2[curr]
  IN  CASE next # Nil -> next
        [] next = Nil /\ p # Nil -> p
        [] next = Nil /\ p = Nil -> GetOtherOuterChild(L, x, curr)

\* areNeighborsAdjacent(a, b)
NeighborsAdjacent(L, x, a, b) ==
  CASE L.parent[a] = x /\ L.parent[b] = x ->
         \/ SiblingAdjacent(L, a, b)
         \/ IsDetached(L, x) /\ ChildOuter(L, x, a) /\ ChildOuter(L, x, b)
    [] a = L.parent[x] -> ChildOuter(L, x, b)
    [] OTHER -> ChildOuter(L, x, a)

\* What an iterator of x yields that starts at (pred, curr) and stops at end.
Walk(L, x, start, end) ==
  LET step(at) == <<at[2], GetNextNeighbor(L, x, at[1], at[2])>>
      most     == Cardinality(Node) + 1
      from[n \in 0..most] ==  \* the states of the iterator, at most n of them
        IF n = 0 THEN <<start>>
        ELSE LET s == from[n - 1]
             IN  IF Last(s) = end THEN s ELSE Append(s, step(Last(s)))
      states == from[most]
  IN  [i \in 1..Len(states) - 1 |-> states[i][2]]

Children(L, x) ==
  Walk(L, x, <<Nil, L.child1[x]>>,
       <<L.child2[x], IF L.child1[x] # Nil /\ ~IsDetached(L, x)
                      THEN L.parent[x] ELSE L.child1[x]>>)

NeighborsFrom(L, x, first) ==
  LET second == GetNextNeighbor(L, x, Nil, first)
  IN  Walk(L, x, <<Nil, first>>, <<GetNextNeighbor(L, x, second, first), first>>)

(***************************************************************************)
(* The two private helpers.                                                *)
(***************************************************************************)
\* Nothing is called on a null pointer: the callers ask first.
ReplaceSibling(L, x, old, new) ==
  IF x = Nil THEN L
  ELSE [Assert_(L, new # x /\ SiblingAdjacent(L, x, old)) EXCEPT
          !.sib1[x] = IF @ = old THEN new ELSE @,
          !.sib2[x] = IF L.sib1[x] = old THEN @ ELSE new]

ReplaceOuterChild(L, p, old, new) ==
  [Assert_(L, new # p /\ ChildOuter(L, p, old)) EXCEPT
     !.child1[p] = IF @ = old THEN new ELSE @,
     !.child2[p] = IF L.child1[p] = old THEN @ ELSE new]

\* setParent and the count that goes with it.
Adopt(L, p, x) ==
  [Assert_(L, IsDetached(L, x)) EXCEPT !.parent[x] = p, !.count[p] = @ + 1]

(***************************************************************************)
(* The methods.                                                            *)
(***************************************************************************)
AppendChildLinks(L, p, c, begin) ==
  LET M     == Adopt(L, p, c)
      outer == IF begin THEN M.child1[p] ELSE M.child2[p]
      N     == ReplaceSibling(ReplaceSibling(M, outer, Nil, c), c, Nil, outer)
  IN  IF L.child1[p] = Nil THEN [M EXCEPT !.child1[p] = c, !.child2[p] = c]
      ELSE IF begin THEN [N EXCEPT !.child1[p] = c] ELSE [N EXCEPT !.child2[p] = c]

\* x beside the outer child sib of p, at the end of the list.
InsertBeside(L, x, p, sib) ==
  LET M == ReplaceSibling(Adopt(L, p, x), sib, Nil, x)
  IN  ReplaceSibling(ReplaceOuterChild(M, p, sib, x), x, Nil, sib)

InsertAmid(L, x, p, s1, s2) ==
  LET M == ReplaceSibling(ReplaceSibling(Adopt(L, p, x), s1, s2, x), s2, s1, x)
  IN  ReplaceSibling(ReplaceSibling(M, x, Nil, s1), x, Nil, s2)

\* insertBetween(s1, s2), both not null
InsertBetweenLinks(L, x, s1, s2) ==
  LET p == L.parent[s1]
      q == L.parent[s2]
  IN  CASE p = q /\ SiblingAdjacent(L, s1, s2) -> InsertAmid(L, x, p, s1, s2)
        [] p = q /\ ~SiblingAdjacent(L, s1, s2) ->
             InsertBeside(Assert_(L, /\ IsDetached(L, p)
                                     /\ ChildOuter(L, p, s1) /\ ChildOuter(L, p, s2)),
                          x, p, s1)
        [] p # q /\ p # Nil /\ L.parent[p] = s2 -> InsertBeside(L, x, p, s1)
        [] OTHER -> InsertBeside(Assert_(L, q # Nil /\ L.parent[q] = s1), x, q, s2)

\* One side of forceDetach: the sibling end of x, or else the parent, is given
\* the sibling at the other side instead.
Unlink(L, x, end, other) ==
  CASE end # Nil -> ReplaceSibling(L, end, x, other)
    [] end = Nil /\ L.parent[x] # Nil -> ReplaceOuterChild(L, L.parent[x], x, other)
    [] OTHER -> L

NoPlace(L, x) == [L EXCEPT !.parent[x] = Nil, !.sib1[x] = Nil, !.sib2[x] = Nil]

ForceDetach(L, x) ==
  LET p == L.parent[x]
      M == Unlink(Unlink(L, x, L.sib1[x], L.sib2[x]), x, L.sib2[x], L.sib1[x])
  IN  IF p = Nil THEN NoPlace(M, x)
      ELSE NoPlace([Assert_(M, ~ChildOuter(M, p, x)) EXCEPT !.count[p] = @ - 1], x)

\* Mutant of ReplaceOuter: an only child is replaced at one end.
ReplaceOuter_Once(L, p, x, r) ==
  IF p # Nil /\ ChildOuter(L, p, x) THEN ReplaceOuterChild(L, p, x, r) ELSE L

\* The loop that ends when x is no outer child of p any more.
ReplaceOuter(L, p, x, r) ==
  LET once(M) == IF p # Nil /\ ChildOuter(M, p, x) THEN ReplaceOuterChild(M, p, x, r) ELSE M
  IN  once(once(L))

ReplaceWithLinks(L, x, r) ==
  LET M == [Assert_(L, IsDetached(L, r)) EXCEPT
              !.parent[r] = L.parent[x], !.sib1[r] = L.sib1[x], !.sib2[r] = L.sib2[x]]
      N == ReplaceSibling(ReplaceSibling(M, L.sib1[x], x, r), L.sib2[x], x, r)
  IN  NoPlace(ReplaceOuter(N, L.parent[x], x, r), x)

\* Mutant of MergeEnd: the child does not learn of its new sibling.
MergeEnd_OneWay(L, x, sib, child) ==
  IF sib # Nil THEN ReplaceSibling(L, sib, x, child)
  ELSE ReplaceOuterChild(L, L.parent[x], x, child)

\* One side of mergeIntoParent: child becomes the neighbor of sib.
MergeEnd(L, x, sib, child) ==
  IF sib # Nil THEN ReplaceSibling(ReplaceSibling(L, sib, x, child), child, Nil, sib)
  ELSE ReplaceOuterChild(L, L.parent[x], x, child)

\* The children follow to the parent as the union-find joins its two sets.
MergeIntoParentLinks(L, x) ==
  LET p == L.parent[x]
      M == MergeEnd(MergeEnd(L, x, L.sib1[x], L.child1[x]), x, L.sib2[x], L.child2[x])
  IN  NoPlace([M EXCEPT !.parent    = [c \in Node |-> IF @[c] = x THEN p ELSE @[c]],
                        !.count[p]  = @ + L.count[x] - 1,
                        !.count[x]  = 0,
                        !.child1[x] = Nil,
                        !.child2[x] = Nil], x)

FlipLinks(L, p) == [L EXCEPT !.child1[p] = L.child2[p], !.child2[p] = L.child1[p]]

SetChildOrder(L, p, order) ==
  LET at(c)   == PositionOf(order, c)
      beside(i) == IF i \in DOMAIN order THEN order[i] ELSE Nil
  IN  [L EXCEPT
         !.sib1      = [c \in Node |-> IF L.parent[c] = p THEN beside(at(c) - 1) ELSE @[c]],
         !.sib2      = [c \in Node |-> IF L.parent[c] = p THEN beside(at(c) + 1) ELSE @[c]],
         !.child1[p] = Head(order),
         !.child2[p] = Last(order)]

IsRootLeaf(L, x) == IsDetached(L, x) /\ L.count[x] = 1

\* Mutant of OpenRing: the ring is not closed before it is cut.
OpenRing_NotClosed(L, old, sib1, sib2) ==
  LET C == [L EXCEPT !.child1[old] = sib1, !.child2[old] = sib2]
  IN  ReplaceSibling(ReplaceSibling(C, sib1, sib2, Nil), sib2, sib1, Nil)

\* The children of old are closed to a ring and cut between sib1 and sib2.
OpenRing(L, old, sib1, sib2) ==
  LET a == L.child1[old]
      b == L.child2[old]
      M == ReplaceSibling(ReplaceSibling(L, a, Nil, b), b, Nil, a)
      C == [M EXCEPT !.child1[old] = sib1, !.child2[old] = sib2]
  IN  ReplaceSibling(ReplaceSibling(C, sib1, sib2, Nil), sib2, sib1, Nil)

\* One edge of changeRoot: the root old becomes the last child of new.  A root
\* with one neighbor is a leaf, which has no list to rearrange.
TurnEdge(L, old, new) ==
  LET sib1 == GetNextNeighbor(L, old, Nil, new)
      sib2 == GetNextNeighbor(L, old, sib1, new)
      M    == ForceDetach(L, new)
  IN  AppendChildLinks(IF IsRootLeaf(L, old) THEN M ELSE OpenRing(M, old, sib1, sib2),
                       new, old, FALSE)

\* The way up from x to the root.
PathToRoot(L, x) ==
  LET path[y \in Node] == IF L.parent[y] = Nil THEN <<y>>
                          ELSE <<y>> \o path[L.parent[y]]
  IN  path[x]

ChangeRootLinks(L, x) ==
  LET path == PathToRoot(L, x)
      turned[k \in 1..Len(path)] ==
        IF k = Len(path) THEN L ELSE TurnEdge(turned[k + 1], path[k + 1], path[k])
  IN  turned[1]

(***************************************************************************)
(* One call at a time, in the states its preconditions allow.              *)
(***************************************************************************)
Attachable(p, c) == IsDetached(links, c) /\ c \notin WayUp(links, p)
KidsOf(p) == {c \in Node : links.parent[c] = p}

AppendChild_ == \E p, c \in Node, begin \in BOOLEAN :
  Attachable(p, c) /\ links' = AppendChildLinks(links, p, c, begin)

InsertBetween_ == \E x, p \in Node : \E a, b \in KidsOf(p) \cup ({links.parent[p]} \ {Nil}) :
  /\ Attachable(p, x) /\ a # b /\ NeighborsAdjacent(links, p, a, b)
  /\ links' = InsertBetweenLinks(links, x, a, b)

\* insertBetween(sib, nullptr) or insertBetween(nullptr, sib)
InsertAtEnd == \E x, p \in Node : \E sib \in KidsOf(p) :
  /\ Attachable(p, x) /\ ChildOuter(links, p, sib)
  /\ links' = InsertBeside(links, x, p, sib)

Detach_ == \E x \in Node : ~IsDetached(links, x) /\ links' = ForceDetach(links, x)

ReplaceWith_ == \E x, r \in Node :
  x # r /\ Attachable(x, r) /\ links' = ReplaceWithLinks(links, x, r)

\* C-nodes have a degree of three or more.
MergeIntoParent_ == \E x \in Node :
  /\ ~IsDetached(links, x) /\ links.count[x] > 0 /\ DegreeOf(links, links.parent[x]) >= 3
  /\ links' = MergeIntoParentLinks(links, x)

Flip == \E p \in Node : links' = FlipLinks(links, p)

Order == \E p \in Node : KidsOf(p) # {} /\ \E order \in SetToSeqs(KidsOf(p)) :
  links' = SetChildOrder(links, p, order)

\* The inner nodes that are turned around need a third neighbor: with two, the
\* assertion of replaceSibling fails.  checkValid() does not ask for it.
ChangeRoot_ == \E x \in Node :
  /\ \A y \in WayUp(links, x) \ {x} :
       IsRootLeaf(links, y) \/ DegreeOf(links, y) >= MinDegree
  /\ links' = ChangeRootLinks(links, x)

Next == \/ AppendChild_ \/ InsertBetween_ \/ InsertAtEnd \/ Detach_ \/ ReplaceWith_
        \/ MergeIntoParent_ \/ Flip \/ Order \/ ChangeRoot_

Spec == Init /\ [][Next]_links
-----------------------------------------------------------------------------
\* The children as the links list them, from m_child1 on.
KidsSeq(p) ==
  LET from[n \in 0..Cardinality(Node)] ==  \* <<pred, curr>> after n siblings
        IF n = 0 THEN <<Nil, links.child1[p]>>
        ELSE LET at == from[n - 1]
             IN  IF at[2] = Nil THEN at
                 ELSE <<at[2], GetNextSibling(links, at[2], at[1])>>
      passed == {n \in 0..Cardinality(Node) : from[n][2] # Nil}
  IN  [i \in 1..Cardinality(passed) |-> from[i - 1][2]]

TreeOf == [parent |-> links.parent, kids |-> [p \in Node |-> KidsSeq(p)]]

\* No method fails an assertion in a state its documentation allows; the
\* sibling or outer child that a method says it replaces is there.
AssertionsHold == links.ok

\* What isValidNode() asks, and all of it: the links of a node's children are
\* one list from m_child1 to m_child2 with every child once, whatever the
\* direction of the single links, and m_childCount is its length.
WellLinked ==
  /\ links \in LinksType
  /\ \A p \in Node :
     LET s == KidsSeq(p)
         beside(i) == IF i \in DOMAIN s THEN s[i] ELSE Nil
     IN /\ IsInjective(s) /\ ToSet(s) = KidsOf(p) /\ links.count[p] = Len(s)
        /\ links.child1[p] = beside(1) /\ links.child2[p] = beside(Len(s))
        /\ \A i \in DOMAIN s :
             \/ links.sib1[s[i]] = beside(i - 1) /\ links.sib2[s[i]] = beside(i + 1)
             \/ links.sib2[s[i]] = beside(i - 1) /\ links.sib1[s[i]] = beside(i + 1)

\* getNextNeighbor walks on around the ring that the parent closes, whichever
\* way it came, and areNeighborsAdjacent is adjacency in that ring.
QueriesExact ==
  \A x \in Node : Degree(TreeOf, x) >= 2 =>
    LET ring == Neighbors(TreeOf, x)
        n    == Len(ring)
    IN  \A k \in 1..n :
          LET before == RingAt(ring, k + n - 1)
              at     == ring[k]
              after  == RingAt(ring, k + 1)
          IN  /\ GetNextNeighbor(links, x, before, at) = after
              /\ GetNextNeighbor(links, x, after, at) = before
              /\ GetNextNeighbor(links, x, Nil, at) \in {before, after}
              /\ \A y \in ToSet(ring) \ {at} :
                   NeighborsAdjacent(links, x, at, y) <=> y \in {before, after}

\* The iterators of children() and neighbors() stop after every child and
\* every neighbor once, and never before: in rings of two, too, where both
\* directions lead to the same neighbor.
WalksExact ==
  \A x \in Node :
    /\ Children(links, x) = KidsSeq(x)
    /\ Degree(TreeOf, x) >= 2 =>
         \A first \in ToSet(Neighbors(TreeOf, x)) :
           LET s == NeighborsFrom(links, x, first)
           IN  /\ IsInjective(s) /\ ToSet(s) = ToSet(Neighbors(TreeOf, x))
               /\ Head(s) = first

\* Both, at every node, whatever calls have set its links.
IterationExact == QueriesExact /\ WalksExact

Rings == INSTANCE NodeRings WITH tree <- TreeOf

\* Read as lists of children, every method does what PCTreeShape says of it.
EditsTheList == Rings!Spec
=============================================================================
