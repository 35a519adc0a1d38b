----------------------------- MODULE PCTreeShape -----------------------------
(***************************************************************************)
(* The rooted, ordered tree that a PCTree keeps, and the operations of     *)
(* PCNode that restructure it (src/src/PCNode.cpp).                        *)
(*                                                                         *)
(* A tree is a record                                                      *)
(*   type    the m_nodeType of every node, "free" for a node that is not   *)
(*           in use;                                                       *)
(*   parent  getParent(), Nil for a root or a detached node;               *)
(*   kids    the children from m_child1 to m_child2;                       *)
(*   root    m_rootNode.                                                   *)
(*                                                                         *)
(* The sibling pointers are abstracted to the position in kids: m_child1   *)
(* is the head, m_child2 the last element.  What a sibling's sibling1 and  *)
(* sibling2 are is left open, as it is in the code: where an operation     *)
(* depends on it, the operator takes the choice as a parameter.            *)
(***************************************************************************)
EXTENDS Naturals, FiniteSets, SequencesExt

CONSTANTS
  Leaves,  \* the leaves of the tree
  Inner,   \* the identities that inner nodes are taken from
  Nil      \* the null pointer

ASSUME NodesAssumption ==
  /\ IsFiniteSet(Leaves) /\ IsFiniteSet(Inner)
  /\ Leaves \cap Inner = {}
  /\ Nil \notin Leaves \cup Inner

Node == Leaves \cup Inner

TreeType ==
  [type   : [Node -> {"free", "leaf", "P", "C"}],
   parent : [Node -> Node \cup {Nil}],
   kids   : [Node -> Seq(Node)],
   root   : Node]

(***************************************************************************)
(* Reading a tree.                                                         *)
(***************************************************************************)
\* The elements of a set in some order.
Listed(S) == FoldSet(LAMBDA x, s : Append(s, x), <<>>, S)

PositionOf(s, e) == CHOOSE i \in DOMAIN s : s[i] = e

\* The elements of s that are not in S, in their order.
Excluding(s, S) ==
  LET left    == {i \in DOMAIN s : s[i] \notin S}
      rank(i) == Cardinality({j \in left : j <= i})
  IN  [k \in 1..Cardinality(left) |-> s[CHOOSE i \in left : rank(i) = k]]

\* The element at position i of a sequence read as a ring.
RingAt(s, i) == s[((i - 1) % Len(s)) + 1]

\* neighbors(): the children and the parent as one ring, in which the parent
\* is adjacent to the two outer children.
Neighbors(t, x) ==
  IF t.parent[x] = Nil THEN t.kids[x] ELSE <<t.parent[x]>> \o t.kids[x]

Degree(t, x) == Len(t.kids[x]) + (IF t.parent[x] = Nil THEN 0 ELSE 1)

IsChildOuter(t, p, c) ==
  /\ t.parent[c] = p
  /\ c = Head(t.kids[p]) \/ c = Last(t.kids[p])

AreNeighborsAdjacent(t, x, a, b) ==
  LET ring == Neighbors(t, x)
      i    == PositionOf(ring, a)
  IN  /\ {a, b} \subseteq ToSet(ring)
      /\ a # b
      /\ b = RingAt(ring, i + 1) \/ b = RingAt(ring, i + Len(ring) - 1)

(***************************************************************************)
(* Changing a tree.                                                        *)
(***************************************************************************)
AppendChild(t, p, c, begin) ==
  [t EXCEPT !.parent[c] = p,
            !.kids[p]   = IF begin THEN <<c>> \o @ ELSE Append(@, c)]

Detach(t, c) ==
  IF t.parent[c] = Nil THEN t
  ELSE [t EXCEPT !.parent[c] = Nil, !.kids[t.parent[c]] = RemoveAt(@, PositionOf(@, c))]

\* insertBetween's second half: x becomes the outer child of p beside sib.
AppendBeside(t, p, x, sib) == AppendChild(t, p, x, sib = Head(t.kids[p]))

\* insertBetween(sib1, sib2) on x: between two siblings, or, where the ring
\* closes, at the end of the child list that sib1 (or else sib2) bounds.
InsertBetween(t, x, sib1, sib2) ==
  LET p == t.parent[sib1]
      i == PositionOf(t.kids[p], sib1)
      j == PositionOf(t.kids[p], sib2)
  IN  CASE p # Nil /\ t.parent[sib2] = p /\ (j = i + 1 \/ i = j + 1) ->
             [t EXCEPT !.parent[x] = p,
                       !.kids[p]   = InsertAt(@, IF i < j THEN j ELSE i, x)]
        [] p # Nil /\ t.parent[sib2] = p /\ ~(j = i + 1 \/ i = j + 1) ->
             AppendBeside(t, p, x, sib1)
        [] p # Nil /\ t.parent[sib2] # p /\ t.parent[p] = sib2 ->
             AppendBeside(t, p, x, sib1)
        [] OTHER -> AppendBeside(t, t.parent[sib2], x, sib2)

\* Mutant of ReplaceWith: r goes to the end of the children instead.
ReplaceWith_AtEnd(t, x, r) ==
  IF t.parent[x] = Nil THEN t
  ELSE [t EXCEPT !.parent[r] = t.parent[x], !.parent[x] = Nil,
                 !.kids[t.parent[x]] = Append(Remove(@, x), r)]

\* The detached node r takes the place of x.
ReplaceWith(t, x, r) ==
  LET p == t.parent[x]
  IN  IF p = Nil THEN t
      ELSE [t EXCEPT !.parent[r] = p, !.parent[x] = Nil,
                     !.kids[p]   = ReplaceAll(@, x, r)]

\* Mutant of MergeIntoParent: the children keep their direction.
MergeIntoParent_Straight(t, x, next2) ==
  LET p == t.parent[x]
      i == PositionOf(t.kids[p], x)
  IN  [t EXCEPT !.parent = [c \in Node |->
                              IF c = x THEN Nil
                              ELSE IF t.parent[c] = x THEN p ELSE @[c]],
                !.kids[p] = SubSeq(@, 1, i - 1) \o t.kids[x] \o SubSeq(@, i + 1, Len(@)),
                !.kids[x] = <<>>]

\* mergeIntoParent(): the children of x take the place of x, the m_child2 end
\* on the side of the neighbor next2 (x's sibling2, or the parent's parent or
\* the far outer child where x is outer itself).
MergeIntoParent(t, x, next2) ==
  LET p    == t.parent[x]
      i    == PositionOf(t.kids[p], x)
      ring == Neighbors(t, p)
      k    == PositionOf(ring, x)
      mid  == IF RingAt(ring, k + 1) = next2 THEN t.kids[x] ELSE Reverse(t.kids[x])
  IN  [t EXCEPT !.parent = [c \in Node |->
                              IF c = x THEN Nil
                              ELSE IF t.parent[c] = x THEN p ELSE @[c]],
                !.kids[p] = SubSeq(@, 1, i - 1) \o mid \o SubSeq(@, i + 1, Len(@)),
                !.kids[x] = <<>>]

FreeInner(t) == CHOOSE x \in Inner : t.type[x] = "free"

NewNode(t, x, type) ==
  [t EXCEPT !.type[x] = type, !.parent[x] = Nil, !.kids[x] = <<>>]

DestroyNode(t, x) == [t EXCEPT !.type[x] = "free"]

\* The nodes on the way up from x to the root.
WayUp(t, x) ==
  LET way[y \in Node] == {y} \cup (IF t.parent[y] = Nil THEN {} ELSE way[t.parent[y]])
  IN  way[x]

\* changeRoot(newRoot): the edges of the way up are turned around.  The old
\* parent of a node on the way becomes its last child, and the ring is cut
\* where the new parent was; for the nodes in mirrored it is read in the other
\* direction.
ChangeRoot(t, x, mirrored) ==
  LET way   == WayUp(t, x)
      up(y) == CHOOSE c \in way : t.parent[c] = y   \* the new parent of y
      ring(y) == IF t.parent[y] = Nil THEN t.kids[y] ELSE Append(t.kids[y], t.parent[y])
      Cut(s, i) == SubSeq(s, i + 1, Len(s)) \o SubSeq(s, 1, i - 1)
      turned(y) ==
        LET cut == Cut(ring(y), PositionOf(ring(y), up(y)))
        IN  IF y = x THEN ring(y) ELSE IF y \in mirrored THEN Reverse(cut) ELSE cut
  IN  [t EXCEPT !.kids   = [y \in Node |-> IF y \in way THEN turned(y) ELSE @[y]],
                !.parent = [y \in Node |-> IF y \notin way THEN @[y]
                                           ELSE IF y = x THEN Nil ELSE up(y)],
                !.root   = x]

(***************************************************************************)
(* What checkValid(false) asks of a tree with more than two leaves.  By    *)
(* default, as in the assertions of the library, checkValid() allows inner *)
(* nodes of a smaller degree; this is the stronger promise.                *)
(***************************************************************************)
InUse(t) == {x \in Node : t.type[x] # "free"}

\* The nodes that the walk down from the root has come to after k levels.
Levels(t) ==
  LET level[k \in Nat] ==
        IF k = 0 THEN {t.root}
        ELSE LET above == level[k - 1]
             IN  above \cup UNION {ToSet(t.kids[x]) : x \in above}
  IN  level

CheckValid(t) ==
  /\ t.root \in InUse(t) /\ t.parent[t.root] = Nil
  /\ InUse(t) \subseteq Levels(t)[Cardinality(Node)]
  /\ \A x \in InUse(t) :
       /\ x # t.root => /\ t.parent[x] \in InUse(t)
                        /\ x \in ToSet(t.kids[t.parent[x]])
       /\ t.type[x] = "leaf" <=> x \in Leaves
       /\ IsInjective(t.kids[x])
       /\ \A c \in ToSet(t.kids[x]) : c \in InUse(t) /\ t.parent[c] = x
       /\ t.type[x] = "leaf" => Len(t.kids[x]) = (IF x = t.root THEN 1 ELSE 0)
       /\ t.type[x] # "leaf" => Degree(t, x) >= 3

\* The leaves at or below a node.
LeavesBelow(t) ==
  LET below[x \in Node] ==
        (IF t.type[x] = "leaf" THEN {x} ELSE {})
          \cup UNION {below[t.kids[x][i]] : i \in DOMAIN t.kids[x]}
  IN  below

\* The leaves that x reaches through its neighbor y.
LeavesThrough(t, below, x, y) ==
  IF y = t.parent[x] THEN below[t.root] \ below[x] ELSE below[y]
=============================================================================
