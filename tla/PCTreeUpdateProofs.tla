-------------------------- MODULE PCTreeUpdateProofs -------------------------
(***************************************************************************)
(* The labels that markFull writes are exact whatever the order of a       *)
(* request, and the update of makeConsecutive, given a path that is one,   *)
(* takes a tree that CheckValid accepts to another: each merge of a node   *)
(* of the path, and the central node that is made or found at the end.     *)
(*                                                                         *)
(*  - Labelled is what holds of the labels l, the full neighbors f, the    *)
(*    list ps of partial nodes, the node fu that is about to be marked     *)
(*    full in turn and the set M of the marked leaves;                     *)
(*  - FoundRight is what the update is left by the search: an apex and the *)
(*    nodes Q of two paths that come up to it (PathSet);                   *)
(*  - MergeRight is the same between two merges, of what is left of Q.     *)
(*                                                                         *)
(* PCTreeCorrectnessProofs shows that the search ends with a PathSet.      *)
(***************************************************************************)
EXTENDS PCTreeCorrectness, PCTreeShapeProofs

LabelTypes(t, l, f, ps, fu, M) ==
  /\ l \in [Node -> {"Empty", "Partial", "Full"}]
  /\ f \in [Node -> Seq(Node)]
  /\ ps \in Seq(Node)
  /\ fu \in (InUse(t) \cap Inner) \cup {Nil}
  /\ M \subseteq Leaves

\* Whoever is listed as a full neighbor is one, and all leaves behind it are
\* marked.
ListedAreFull(t, l, f, M) ==
  \A x \in InUse(t) :
    /\ Distinct(f[x])
    /\ ToSet(f[x]) \subseteq Around(t, x)
    /\ \A y \in ToSet(f[x]) : l[y] = "Full" /\ Through(t, x, y) \subseteq M

\* A full node is listed by a neighbor that it does not list itself.
FullAreListed(t, l, f) ==
  \A y \in InUse(t) :
    l[y] = "Full" => \E x \in Around(t, y) : y \in ToSet(f[x]) /\ x \notin ToSet(f[y])

LeavesLabelled(l, f, M) ==
  \A x \in Leaves : f[x] = <<>> /\ l[x] # "Partial" /\ (l[x] = "Full" <=> x \in M)

\* An inner node is full once it has listed all neighbors but one, or is the
\* next to be marked so.
InnerLabelled(t, l, f, fu) ==
  /\ \A x \in InUse(t) \cap Inner :
       /\ Len(f[x]) <= Degree(t, x) - 1
       /\ l[x] = "Empty" <=> Len(f[x]) = 0
       /\ Len(f[x]) = Degree(t, x) - 1 <=> l[x] = "Full" \/ x = fu
  /\ fu # Nil => l[fu] = "Partial"

PartialsListed(t, l, ps) ==
  Distinct(ps) /\ ToSet(ps) = {x \in InUse(t) : l[x] = "Partial"}

Labelled(t, l, f, ps, fu, M) ==
  /\ LabelTypes(t, l, f, ps, fu, M)
  /\ ListedAreFull(t, l, f, M)
  /\ FullAreListed(t, l, f)
  /\ LeavesLabelled(l, f, M)
  /\ InnerLabelled(t, l, f, fu)
  /\ PartialsListed(t, l, ps)

LEMMA AroundFinite ==
  ASSUME NEW t, Tree(t), NEW x \in InUse(t)
  PROVE  IsFiniteSet(Around(t, x)) /\ Cardinality(Around(t, x)) = Degree(t, x)
<1>1. Neighbors(t, x) \in Seq(Node) /\ Distinct(Neighbors(t, x)) /\ Len(Neighbors(t, x)) = Degree(t, x)
  BY AroundIs DEF Distinct
<1> QED BY <1>1, DistinctLength DEF Around

\* A leaf has one neighbor.
LEMMA LeafAround ==
  ASSUME NEW t, Tree(t), NEW x \in InUse(t) \cap Leaves
  PROVE  \E w \in Around(t, x) : Around(t, x) = {w}
<1>1. Degree(t, x) = 1
  <2>1. t.type[x] = "leaf" /\ x \in Node
    BY OfTree
  <2>2. Len(t.kids[x]) = (IF x = t.root THEN 1 ELSE 0)
    BY <2>1 DEF Tree, CheckValid
  <2>3. t.parent[x] = Nil <=> x = t.root
    BY OfTree
  <2>4. Degree(t, x) = IF t.parent[x] = Nil THEN Len(t.kids[x]) ELSE Len(t.kids[x]) + 1
    BY <2>1, DegreeIs DEF Tree
  <2> QED BY <2>2, <2>3, <2>4
<1>2. Around(t, x) = {Neighbors(t, x)[1]}
  <2>1. Neighbors(t, x) \in Seq(Node) /\ Len(Neighbors(t, x)) = 1
    BY <1>1, AroundIs
  <2>2. DOMAIN Neighbors(t, x) = {1}
    BY <2>1
  <2> QED BY <2>2 DEF Around, ToSet
<1> QED BY <1>2

\* A leaf, a full node and the next full node have all neighbors but one in
\* their lists.
LEMMA ListsAllButOne ==
  ASSUME NEW t, Tree(t), NEW l, NEW f, NEW ps, NEW fu, NEW M, Labelled(t, l, f, ps, fu, M),
         NEW x \in InUse(t), x \in Leaves \/ l[x] = "Full" \/ x = fu
  PROVE  \E w \in Around(t, x) : ToSet(f[x]) = Around(t, x) \ {w}
<1>1. x \in Node
  BY OfTree
<1>2. CASE x \in Leaves
  <2>1. f[x] = <<>>
    BY <1>2 DEF Labelled, LeavesLabelled
  <2>2. ToSet(f[x]) = {}
    BY <2>1 DEF ToSet
  <2> QED BY <1>2, <2>2, LeafAround
<1>3. CASE x \notin Leaves
  <2>1. x \in Inner
    BY <1>1, <1>3 DEF Node
  <2>2. Len(f[x]) = Degree(t, x) - 1
    BY <1>3, <2>1 DEF Labelled, InnerLabelled
  <2>3. f[x] \in Seq(Node) /\ Distinct(f[x]) /\ ToSet(f[x]) \subseteq Around(t, x)
    BY <1>1 DEF Labelled, LabelTypes, ListedAreFull
  <2>4. IsFiniteSet(Around(t, x)) /\ Cardinality(Around(t, x)) = Degree(t, x)
    BY AroundFinite
  <2> QED BY <2>2, <2>3, <2>4, AllButOne
<1> QED BY <1>2, <1>3

\* A node that is not full lists all its full neighbors.
LEMMA NotFullListsFull ==
  ASSUME NEW t, Tree(t), NEW l, NEW f, NEW ps, NEW fu, NEW M, Labelled(t, l, f, ps, fu, M),
         NEW x \in InUse(t), l[x] # "Full", NEW y \in Around(t, x), l[y] = "Full"
  PROVE  y \in ToSet(f[x])
<1>1. y \in InUse(t) /\ x \in Around(t, y)
  BY AroundIsSymmetric, AroundIs
<1>2. PICK v \in Around(t, y) : y \in ToSet(f[v]) /\ v \notin ToSet(f[y])
  BY <1>1 DEF Labelled, FullAreListed
<1>3. PICK w \in Around(t, y) : ToSet(f[y]) = Around(t, y) \ {w}
  BY <1>1, ListsAllButOne
<1>4. x \notin ToSet(f[y])
  BY <1>1 DEF Labelled, ListedAreFull
<1> QED BY <1>1, <1>2, <1>3, <1>4

\* The neighbor that a leaf, or the next full node, does not list is not full.
LEMMA LeftOneNotFull ==
  ASSUME NEW t, Tree(t), NEW l, NEW f, NEW ps, NEW fu, NEW M, Labelled(t, l, f, ps, fu, M),
         NEW x \in InUse(t), l[x] # "Full", x \in Leaves \/ x = fu
  PROVE  \E w \in Around(t, x) : ToSet(f[x]) = Around(t, x) \ {w} /\ l[w] # "Full"
<1>1. PICK w \in Around(t, x) : ToSet(f[x]) = Around(t, x) \ {w}
  BY ListsAllButOne
<1>2. l[w] # "Full"
  BY <1>1, NotFullListsFull
<1> QED BY <1>1, <1>2

\* This is the neighbor that markFull tells.
LEMMA ToldNeighbor ==
  ASSUME NEW t, Tree(t), NEW l, NEW f, NEW ps, NEW fu, NEW M, Labelled(t, l, f, ps, fu, M),
         NEW x \in InUse(t), NEW w \in Around(t, x), ToSet(f[x]) = Around(t, x) \ {w},
         l[w] # "Full", NEW s, \A y \in Node : IsFull(s, y) <=> y = x \/ l[y] = "Full"
  PROVE  PartialNeighbor(t, s, x) = w
<1> DEFINE p == t.parent[x]
<1>1. /\ x \in Node /\ t.kids[x] \in Seq(Node) /\ (p = Nil <=> x = t.root)
      /\ Around(t, x) = Kids(t, x) \cup (IF x = t.root THEN {} ELSE {p})
      /\ x \notin Around(t, x) /\ Around(t, x) \subseteq Node
  <2>1. \A y \in Around(t, x) : y # x /\ y \in InUse(t)
    BY AroundIsSymmetric, AroundIs
  <2> QED BY <2>1, OfTree, AroundIs DEF InUse
<1> HIDE DEF p
<1>2. \A y \in Around(t, x) : IsFull(s, y) <=> y # w
  <2>1. \A y \in Around(t, x) : l[y] = "Full" <=> y # w
    BY DEF Labelled, ListedAreFull
  <2> QED BY <1>1, <2>1
<1>3. CASE p # Nil /\ ~IsFull(s, p)
  <2>1. PartialNeighbor(t, s, x) = p
    BY <1>3 DEF PartialNeighbor, p
  <2> QED BY <1>1, <1>2, <1>3, <2>1
<1>4. CASE ~(p # Nil /\ ~IsFull(s, p))
  <2>1. PartialNeighbor(t, s, x) = FirstOtherChild(t, s, x)
    BY <1>4 DEF PartialNeighbor, p
  <2> DEFINE ks == t.kids[x]
             OK(i) == ~IsFull(s, ks[i]) /\ \A j \in 1..(i - 1) : IsFull(s, ks[j])
             i0 == CHOOSE i \in DOMAIN ks : OK(i)
  <2>2. w \in Kids(t, x)
    BY <1>1, <1>2, <1>4
  <2>3. PICK k \in DOMAIN ks : ks[k] = w
    BY <2>2 DEF Kids, ToSet
  <2>4. \A j \in DOMAIN ks : ks[j] \in Around(t, x)
    BY <1>1 DEF Kids, ToSet
  <2>5. ks[k] = w /\ \A i, j \in DOMAIN ks : ks[i] = ks[j] => i = j
    BY <2>3, OfTree
  <2>6. k \in Nat /\ DOMAIN ks = 1..Len(ks) /\ Len(ks) \in Nat
    BY <1>1
  <2>7. OK(k)
    <3>1. ASSUME NEW j \in 1..(k - 1) PROVE IsFull(s, ks[j])
      <4>1. j \in DOMAIN ks /\ j # k
        BY <2>6
      <4> QED BY <1>2, <2>4, <2>5, <4>1
    <3> QED BY <1>2, <2>4, <2>5, <3>1
  <2> HIDE DEF ks
  <2>8. i0 \in DOMAIN ks /\ OK(i0)
    <3> HIDE DEF OK
    <3> QED BY <2>7
  <2> HIDE DEF i0
  <2>9. ks[i0] = w
    BY <1>2, <2>4, <2>8
  <2>10. FirstOtherChild(t, s, x) = ks[i0]
    BY DEF FirstOtherChild, ks, i0
  <2> QED BY <2>1, <2>9, <2>10
<1> QED BY <1>3, <1>4

\* With x marked, all leaves on its side of the edge to the neighbor told are.
LEMMA MarkedBehind ==
  ASSUME NEW t, Tree(t), NEW l, NEW f, NEW ps, NEW fu, NEW M, Labelled(t, l, f, ps, fu, M),
         NEW x \in InUse(t), NEW w \in Around(t, x), ToSet(f[x]) = Around(t, x) \ {w}
  PROVE  Through(t, w, x) \subseteq M \cup Own(t, x)
<1>1. w \in InUse(t) /\ x \in Around(t, w)
  BY AroundIsSymmetric, AroundIs
<1>2. Through(t, w, x) = Own(t, x) \cup UNION {Through(t, x, z) : z \in Around(t, x) \ {w}}
  BY <1>1, ThroughIs
<1>3. \A z \in Around(t, x) \ {w} : Through(t, x, z) \subseteq M
  BY DEF Labelled, ListedAreFull
<1> QED BY <1>2, <1>3

\* As long as two leaves are not asked for, no leaf is told.
LEMMA ToldIsInner ==
  ASSUME NEW t, Tree(t), NEW x \in InUse(t), NEW w \in Around(t, x), NEW M,
         Through(t, w, x) \subseteq M, Leaves \subseteq InUse(t),
         NEW a \in Leaves \ M, NEW b \in Leaves \ M, a # b
  PROVE  w \in InUse(t) \cap Inner
<1>1. w \in InUse(t) /\ w \in Node /\ x \in Around(t, w)
  BY AroundIsSymmetric, AroundIs, OfTree DEF InUse
<1>2. SUFFICES ASSUME w \in Leaves PROVE FALSE
  BY <1>1 DEF Node
<1>3. Around(t, w) \ {x} = {}
  BY <1>1, <1>2, LeafAround
<1>4. Through(t, x, w) = Own(t, w) \cup UNION {Through(t, w, z) : z \in Around(t, w) \ {x}}
  BY ThroughIs
<1>5. Through(t, x, w) \subseteq {w}
  BY <1>3, <1>4 DEF Own
<1>6. Through(t, x, w) \cup Through(t, w, x) = InUse(t) \cap Leaves
  BY ThroughParts
<1> QED BY <1>5, <1>6

(***************************************************************************)
(* Marking one node.                                                       *)
(***************************************************************************)
MarkedLabels(l, x, q, n) ==
  IF n = 1 THEN [[l EXCEPT ![x] = "Full"] EXCEPT ![q] = "Partial"] ELSE [l EXCEPT ![x] = "Full"]

MarkedPartials(ps, x, q, n) ==
  LET rest == IF x \in Leaves THEN ps ELSE RemoveAt(ps, PositionOf(ps, x))
  IN  IF n = 1 THEN Append(rest, q) ELSE rest

LEMMA MarkStep ==
  ASSUME NEW t, Tree(t), NEW l, NEW f, NEW ps, NEW fu, NEW M, Labelled(t, l, f, ps, fu, M),
         NEW x \in InUse(t), l[x] # "Full", (x \in Leaves /\ fu = Nil) \/ x = fu,
         NEW q \in Around(t, x), ToSet(f[x]) = Around(t, x) \ {q}, l[q] # "Full", q \in Inner,
         NEW n, n = Len(Append(f[q], x))
  PROVE  Labelled(t, MarkedLabels(l, x, q, n), [f EXCEPT ![q] = Append(@, x)],
                  MarkedPartials(ps, x, q, n), IF n = Degree(t, q) - 1 THEN q ELSE Nil,
                  M \cup Own(t, x))
<1> DEFINE g  == [f EXCEPT ![q] = Append(@, x)]
           k  == MarkedLabels(l, x, q, n)
           qs == MarkedPartials(ps, x, q, n)
           ne == IF n = Degree(t, q) - 1 THEN q ELSE Nil
           N  == M \cup Own(t, x)
<1>1. /\ x \in Node /\ q \in Node /\ q \in InUse(t) /\ x # q /\ x \in Around(t, q)
      /\ t.type[x] = "leaf" <=> x \in Leaves
  BY AroundIs, AroundIsSymmetric, OfTree
<1>2. LabelTypes(t, l, f, ps, fu, M)
  BY DEF Labelled
<1>3. x \notin ToSet(f[q]) /\ q \notin ToSet(f[x]) /\ f[q] \in Seq(Node) /\ Distinct(f[q])
  BY <1>1, <1>2 DEF Labelled, ListedAreFull, LabelTypes
<1>4. /\ Append(f[q], x) \in Seq(Node) /\ Distinct(Append(f[q], x))
      /\ ToSet(Append(f[q], x)) = ToSet(f[q]) \cup {x}
      /\ n = Len(f[q]) + 1 /\ Len(f[q]) \in Nat
  BY <1>1, <1>3, AppendDistinct
<1>5. /\ g \in [Node -> Seq(Node)] /\ g[q] = Append(f[q], x)
      /\ \A y \in Node \ {q} : g[y] = f[y]
  BY <1>1, <1>2, <1>4 DEF LabelTypes
<1>6. /\ k \in [Node -> {"Empty", "Partial", "Full"}]
      /\ k[x] = "Full" /\ k[q] = IF n = 1 THEN "Partial" ELSE l[q]
      /\ \A y \in Node \ {x, q} : k[y] = l[y]
  BY <1>1, <1>2 DEF LabelTypes, MarkedLabels
<1>7. Own(t, x) = IF x \in Leaves THEN {x} ELSE {}
  BY <1>1 DEF Own
<1>8. q \notin Leaves
  BY NodesAssumption
<1>9. InUse(t) \subseteq Node /\ Leaves \subseteq Node
  BY DEF InUse, Node
<1>10. /\ Degree(t, q) \in Nat /\ Degree(t, q) >= 3
  <2>1. t.type[q] # "leaf"
    BY <1>1, <1>8, OfTree
  <2> QED BY <1>1, <2>1, DegreeIs DEF Tree, CheckValid
<1> HIDE DEF g, k, qs, N
<1>11. Len(f[q]) <= Degree(t, q) - 1 /\ (l[q] = "Empty" <=> Len(f[q]) = 0)
       /\ (Len(f[q]) = Degree(t, q) - 1 <=> l[q] = "Full" \/ q = fu)
  BY <1>1 DEF Labelled, InnerLabelled
<1>12. q # fu /\ n <= Degree(t, q) - 1
  <2>1. q # fu
    BY <1>1, <1>8, NodesAssumption DEF Node
  <2> QED BY <1>4, <1>10, <1>11, <2>1
<1>13. k[q] = "Partial"
  BY <1>1, <1>2, <1>4, <1>6, <1>11 DEF LabelTypes
<1>14. LabelTypes(t, k, g, qs, ne, N)
  <2>1. qs \in Seq(Node)
    <3>1. x \notin Leaves => x \in ToSet(ps)
      <4>1. x \notin Leaves => x = fu /\ fu # Nil
        BY <1>1, NodesAssumption DEF Node
      <4> QED BY <1>1, <4>1 DEF Labelled, PartialsListed, InnerLabelled
    <3>2. Distinct(ps) /\ ps \in Seq(Node)
      BY <1>2 DEF Labelled, PartialsListed, LabelTypes
    <3>3. x \notin Leaves => RemoveAt(ps, PositionOf(ps, x)) \in Seq(Node)
      BY <3>1, <3>2, RemoveDistinct
    <3> QED BY <1>1, <3>2, <3>3 DEF MarkedPartials, qs
  <2> QED BY <1>1, <1>2, <1>5, <1>6, <1>7, <2>1 DEF LabelTypes, N
<1>15. ListedAreFull(t, k, g, N)
  <2> SUFFICES ASSUME NEW y \in InUse(t)
               PROVE  /\ Distinct(g[y]) /\ ToSet(g[y]) \subseteq Around(t, y)
                      /\ \A z \in ToSet(g[y]) : k[z] = "Full" /\ Through(t, y, z) \subseteq N
    BY DEF ListedAreFull
  <2>1. /\ Distinct(f[y]) /\ ToSet(f[y]) \subseteq Around(t, y) /\ Around(t, y) \subseteq Node
        /\ \A z \in ToSet(f[y]) : l[z] = "Full" /\ Through(t, y, z) \subseteq M
    BY <1>9, AroundIs DEF Labelled, ListedAreFull
  <2>2. \A z \in ToSet(f[y]) : k[z] = "Full" /\ Through(t, y, z) \subseteq N
    BY <1>6, <2>1 DEF N
  <2>3. CASE y = q
    <3>1. Through(t, q, x) \subseteq N
      BY MarkedBehind DEF N
    <3>2. g[y] = Append(f[q], x) /\ ToSet(g[y]) = ToSet(f[y]) \cup {x} /\ Distinct(g[y])
      BY <1>4, <1>5, <2>3
    <3>3. k[x] = "Full" /\ Through(t, y, x) \subseteq N /\ x \in Around(t, y)
      BY <1>1, <1>6, <2>3, <3>1
    <3> QED BY <2>1, <2>2, <3>2, <3>3
  <2>4. CASE y # q
    BY <1>5, <1>9, <2>1, <2>2, <2>4
  <2> QED BY <2>3, <2>4
<1>16. FullAreListed(t, k, g)
  <2> SUFFICES ASSUME NEW y \in InUse(t), k[y] = "Full"
               PROVE  \E v \in Around(t, y) : y \in ToSet(g[v]) /\ v \notin ToSet(g[y])
    BY DEF FullAreListed
  <2>1. y # q
    BY <1>13
  <2>2. g[y] = f[y]
    BY <1>5, <1>9, <2>1
  <2>3. CASE y = x
    BY <1>3, <1>4, <1>5, <2>2, <2>3
  <2>4. CASE y # x
    <3>1. l[y] = "Full"
      BY <1>6, <1>9, <2>1, <2>4
    <3>2. PICK v \in Around(t, y) : y \in ToSet(f[v]) /\ v \notin ToSet(f[y])
      BY <3>1 DEF Labelled, FullAreListed
    <3>3. v \in Node
      BY <1>9, AroundIs
    <3> QED BY <1>4, <1>5, <2>2, <3>2, <3>3
  <2> QED BY <2>3, <2>4
<1>17. LeavesLabelled(k, g, N)
  <2> SUFFICES ASSUME NEW y \in Leaves
               PROVE  g[y] = <<>> /\ k[y] # "Partial" /\ (k[y] = "Full" <=> y \in N)
    BY DEF LeavesLabelled
  <2>1. y # q /\ g[y] = f[y] /\ f[y] = <<>> /\ l[y] # "Partial" /\ (l[y] = "Full" <=> y \in M)
    BY <1>5, <1>8, <1>9 DEF Labelled, LeavesLabelled
  <2> QED BY <1>6, <1>7, <1>9, <2>1 DEF N
<1>18. InnerLabelled(t, k, g, ne)
  <2>1. ne # Nil => k[ne] = "Partial"
    BY <1>13
  <2> SUFFICES ASSUME NEW y \in InUse(t) \cap Inner
               PROVE  /\ Len(g[y]) <= Degree(t, y) - 1
                      /\ k[y] = "Empty" <=> Len(g[y]) = 0
                      /\ Len(g[y]) = Degree(t, y) - 1 <=> k[y] = "Full" \/ y = ne
    BY <2>1 DEF InnerLabelled
  <2>2. /\ Len(f[y]) <= Degree(t, y) - 1
        /\ l[y] = "Empty" <=> Len(f[y]) = 0
        /\ Len(f[y]) = Degree(t, y) - 1 <=> l[y] = "Full" \/ y = fu
        /\ l[fu] = "Partial" \/ fu = Nil
    BY DEF Labelled, InnerLabelled
  <2>3. CASE y = q
    <3>1. g[y] = Append(f[q], x) /\ Len(g[y]) = n
      BY <1>5, <2>3
    <3> QED BY <1>1, <1>4, <1>12, <1>13, <2>3, <3>1, NodesAssumption DEF Node
  <2>4. CASE y # q
    <3>1. g[y] = f[y] /\ y # ne /\ y # Nil
      BY <1>5, <1>9, <2>4, NodesAssumption DEF Node
    <3>2. CASE y = x
      <4>1. x = fu
        BY <3>2, NodesAssumption
      <4> QED BY <1>6, <2>2, <3>1, <3>2, <4>1
    <3>3. CASE y # x
      <4>1. k[y] = l[y] /\ y # fu
        <5>1. y # fu
          BY <3>1, <3>3
        <5> QED BY <1>6, <1>9, <2>4, <3>3, <5>1
      <4> QED BY <2>2, <3>1, <4>1
    <3> QED BY <3>2, <3>3
  <2> QED BY <2>3, <2>4
<1>19. PartialsListed(t, k, qs)
  <2> DEFINE rest == IF x \in Leaves THEN ps ELSE RemoveAt(ps, PositionOf(ps, x))
             P == {y \in InUse(t) : l[y] = "Partial"}
  <2>1. Distinct(ps) /\ ps \in Seq(Node) /\ ToSet(ps) = P
    BY <1>2 DEF Labelled, PartialsListed, LabelTypes
  <2>2. rest \in Seq(Node) /\ Distinct(rest) /\ ToSet(rest) = P \ {x}
    <3>1. CASE x \in Leaves
      <4>1. x \notin P
        BY <3>1 DEF Labelled, LeavesLabelled
      <4> QED BY <2>1, <3>1, <4>1
    <3>2. CASE x \notin Leaves
      <4>1. x \in P
        BY <1>1, <3>2, NodesAssumption DEF Labelled, InnerLabelled, Node
      <4> QED BY <2>1, <3>2, <4>1, RemoveDistinct
    <3> QED BY <3>1, <3>2
  <2>3. qs = IF n = 1 THEN Append(rest, q) ELSE rest
    BY DEF MarkedPartials, qs
  <2> HIDE DEF rest
  <2>4. {y \in InUse(t) : k[y] = "Partial"} = (P \ {x}) \cup {q}
    BY <1>1, <1>6, <1>9, <1>13
  <2>5. CASE n = 1
    <3>1. q \notin P
      BY <1>4, <1>11, <2>5
    <3> QED BY <1>1, <2>2, <2>3, <2>4, <2>5, <3>1, AppendDistinct DEF PartialsListed
  <2>6. CASE n # 1
    <3>1. q \in P
      BY <1>1, <1>4, <1>6, <1>13, <2>6
    <3> QED BY <1>1, <2>2, <2>3, <2>4, <2>6, <3>1 DEF PartialsListed
  <2> QED BY <2>5, <2>6
<1>20. Labelled(t, k, g, qs, ne, N)
  BY <1>14, <1>15, <1>16, <1>17, <1>18, <1>19 DEF Labelled
<1> QED BY <1>20 DEF g, k, qs, N

(***************************************************************************)
(* Between the markings of two leaves the lists are complete.              *)
(***************************************************************************)
LEMMA ListsComplete ==
  ASSUME NEW t, Tree(t), NEW l, NEW f, NEW ps, NEW M, Labelled(t, l, f, ps, Nil, M),
         Leaves \subseteq InUse(t), NEW a \in Leaves \ M, NEW b \in Leaves \ M, a # b
  PROVE  \A x \in InUse(t) : \A y \in Around(t, x) :
           Through(t, x, y) \subseteq M /\ x \in Inner => y \in ToSet(f[x])
<1> DEFINE S == {p \in Node \X Node :
                   Through(t, p[1], p[2]) \subseteq M /\ p[1] \in Inner => p[2] \in ToSet(f[p[1]])}
<1>1. ASSUME NEW x \in InUse(t), NEW y \in Around(t, x),
             \A z \in Around(t, y) \ {x} : <<y, z>> \in S
      PROVE  <<x, y>> \in S
  <2>1. x \in Node /\ y \in Node /\ y \in InUse(t) /\ x \in Around(t, y)
    BY AroundIs, AroundIsSymmetric, OfTree DEF InUse
  <2>2. SUFFICES ASSUME Through(t, x, y) \subseteq M, x \in Inner PROVE y \in ToSet(f[x])
    BY <2>1
  <2>3. SUFFICES l[y] = "Full" /\ Around(t, y) \ {x} \subseteq ToSet(f[y])
    <3>1. SUFFICES ASSUME l[y] = "Full", Around(t, y) \ {x} \subseteq ToSet(f[y])
                   PROVE  y \in ToSet(f[x])
      OBVIOUS
    <3>2. PICK v \in Around(t, y) : y \in ToSet(f[v]) /\ v \notin ToSet(f[y])
      BY <2>1, <3>1 DEF Labelled, FullAreListed
    <3> QED BY <3>1, <3>2
  <2>4. Through(t, x, y) = Own(t, y) \cup UNION {Through(t, y, z) : z \in Around(t, y) \ {x}}
    BY ThroughIs
  <2>5. CASE y \in Leaves
    <3>1. y \in M
      BY <2>1, <2>2, <2>4, <2>5, OfTree DEF Own
    <3>2. Around(t, y) \ {x} = {}
      BY <2>1, <2>5, LeafAround
    <3> QED BY <2>5, <3>1, <3>2 DEF Labelled, LeavesLabelled
  <2>6. CASE y \notin Leaves
    <3>1. y \in Inner
      BY <2>1, <2>6 DEF Node
    <3>2. ASSUME NEW z \in Around(t, y) \ {x} PROVE z \in ToSet(f[y])
      <4>1. z \in Node
        BY <2>1, AroundIs DEF InUse
      <4> QED BY <1>1, <2>1, <2>2, <2>4, <3>1, <4>1
    <3>3. /\ IsFiniteSet(Around(t, y)) /\ Cardinality(Around(t, y)) = Degree(t, y)
          /\ f[y] \in Seq(Node) /\ Distinct(f[y]) /\ ToSet(f[y]) \subseteq Around(t, y)
      BY <2>1, AroundFinite DEF Labelled, LabelTypes, ListedAreFull
    <3>4. Len(f[y]) >= Degree(t, y) - 1
      BY <2>1, <3>2, <3>3, AllButOne
    <3>5. Degree(t, y) \in Nat /\ Len(f[y]) \in Nat /\ Len(f[y]) <= Degree(t, y) - 1
      BY <2>1, <3>1, <3>3, DegreeIs DEF Tree, Labelled, InnerLabelled
    <3>6. Len(f[y]) = Degree(t, y) - 1 /\ y # Nil
      BY <2>1, <3>4, <3>5, NodesAssumption DEF Node
    <3>7. l[y] = "Full"
      BY <2>1, <3>1, <3>6 DEF Labelled, InnerLabelled
    <3> QED BY <3>2, <3>7
  <2> QED BY <2>5, <2>6
<1>2. \A x \in InUse(t) : \A y \in Around(t, x) : <<x, y>> \in S
  <2> HIDE DEF S
  <2> QED BY <1>1, FromBehind
<1> QED BY <1>2

\* What the labels are is what LabelsExact says.
LEMMA LabelledIsExact ==
  ASSUME Tree(tree), Leaves \subseteq InUse(tree),
         Labelled(tree, temp.label, temp.fullNeighbors, temp.partials, Nil, Marked),
         NEW a \in Leaves \ Marked, NEW b \in Leaves \ Marked, a # b
  PROVE  LabelsExact
<1> DEFINE t == tree
           l == temp.label
           f == temp.fullNeighbors
           ps == temp.partials
           below == LeavesBelow(tree)
           FullAround(x) == {y \in ToSet(Neighbors(tree, x)) :
                               LeavesThrough(tree, below, x, y) \subseteq Marked}
<1>1. ASSUME NEW x \in InUse(t), x \in Inner
      PROVE  /\ ToSet(f[x]) = FullAround(x)
             /\ IsInjective(f[x])
             /\ l[x] = CASE FullAround(x) = {} -> "Empty"
                         [] Cardinality(FullAround(x)) = Degree(tree, x) - 1 -> "Full"
                         [] OTHER -> "Partial"
  <2>1. /\ x \in Node /\ f[x] \in Seq(Node) /\ Distinct(f[x]) /\ ToSet(f[x]) \subseteq Around(t, x)
        /\ \A y \in ToSet(f[x]) : Through(t, x, y) \subseteq Marked
        /\ l[x] \in {"Empty", "Partial", "Full"} /\ x # Nil
    BY OfTree, NodesAssumption DEF Labelled, LabelTypes, ListedAreFull, Node
  <2>2. \A y \in Around(t, x) : Through(t, x, y) \subseteq Marked => y \in ToSet(f[x])
    BY <1>1, ListsComplete
  <2>3. ToSet(f[x]) = FullAround(x)
    BY <2>1, <2>2 DEF Around, Through
  <2>4. Cardinality(FullAround(x)) = Len(f[x]) /\ IsFiniteSet(FullAround(x)) /\ Len(f[x]) \in Nat
    BY <2>1, <2>3, DistinctLength
  <2>5. FullAround(x) = {} <=> Len(f[x]) = 0
    <3> HIDE DEF FullAround
    <3> QED BY <2>4, FS_EmptySet
  <2>6. /\ Len(f[x]) = Degree(t, x) - 1 <=> l[x] = "Full"
        /\ l[x] = "Empty" <=> Len(f[x]) = 0
    BY <1>1, <2>1 DEF Labelled, InnerLabelled
  <2> HIDE DEF FullAround
  <2> QED BY <2>1, <2>3, <2>4, <2>5, <2>6, DistinctIsInjective
<1>2. ASSUME NEW x \in InUse(t), x \in Leaves
      PROVE  (IsFull(temp, x) <=> x \in Marked) /\ f[x] = <<>>
  BY <1>2 DEF Labelled, LeavesLabelled, IsFull
<1>3. ASSUME NEW x \in InUse(t)
      PROVE  Cardinality({i \in DOMAIN ps : ps[i] = x}) = IF l[x] = "Partial" THEN 1 ELSE 0
  <2> DEFINE I == {i \in DOMAIN ps : ps[i] = x}
  <2>1. Distinct(ps) /\ ToSet(ps) = {y \in InUse(t) : l[y] = "Partial"}
    BY DEF Labelled, PartialsListed
  <2>2. CASE l[x] = "Partial"
    <3>1. PICK i \in DOMAIN ps : ps[i] = x
      BY <2>1, <2>2 DEF ToSet
    <3>2. I = {i}
      BY <2>1, <3>1 DEF Distinct
    <3> HIDE DEF I
    <3>3. Cardinality(I) = 1
      BY <3>2, FS_Singleton
    <3> QED BY <2>2, <3>3 DEF I
  <2>3. CASE l[x] # "Partial"
    <3>1. I = {}
      BY <2>1, <2>3 DEF ToSet
    <3> HIDE DEF I
    <3>2. Cardinality(I) = 0
      BY <3>1, FS_EmptySet
    <3> QED BY <2>3, <3>2 DEF I
  <2> QED BY <2>2, <2>3
<1> HIDE DEF FullAround
<1>4. \A x \in InUse(t) :
        /\ x \in Leaves => (IsFull(temp, x) <=> x \in Marked) /\ f[x] = <<>>
        /\ x \in Inner => /\ ToSet(f[x]) = FullAround(x)
                          /\ IsInjective(f[x])
                          /\ l[x] = CASE FullAround(x) = {} -> "Empty"
                                      [] Cardinality(FullAround(x)) = Degree(tree, x) - 1 -> "Full"
                                      [] OTHER -> "Partial"
        /\ Cardinality({i \in DOMAIN ps : ps[i] = x}) = IF l[x] = "Partial" THEN 1 ELSE 0
  BY <1>1, <1>2, <1>3
<1> QED BY Zenon, <1>4 DEF LabelsExact, FullAround

(***************************************************************************)
(* The invariant of the calls.                                             *)
(***************************************************************************)
UsableTree == Tree(tree) /\ Leaves \subseteq InUse(tree)

\* The request is a list of distinct leaves, of which todo is what is left.
RequestRight ==
  /\ client.request \subseteq Leaves
  /\ work.todo \in Seq(Leaves) /\ Distinct(work.todo)
  /\ ToSet(work.todo) \subseteq client.request
  /\ {"full", "todo"} \subseteq DOMAIN work

\* The labels are those of the leaves marked so far, and two leaves are not
\* asked for.
MarkingRight ==
  /\ {"label", "fullNeighbors", "partials"} \subseteq DOMAIN temp
  /\ Labelled(tree, temp.label, temp.fullNeighbors, temp.partials, work.full, Marked)
  /\ \E a, b \in Leaves \ client.request : a # b

LabelInv ==
  /\ pc = "idle" => work = NoWork /\ client = [request |-> Nil, answer |-> client.answer, before |-> Nil]
  /\ pc \in {"called", "marking"} => UsableTree /\ RequestRight
  /\ pc = "called" => work.full = Nil /\ client.request = ToSet(work.todo)
  /\ pc = "marking" => MarkingRight

LEMMA InvImpliesExact == LabelInv => LabelsExact
<1>1. CASE pc = "marking" /\ work.full = Nil
  <2> SUFFICES ASSUME LabelInv PROVE LabelsExact
    OBVIOUS
  <2>1. PICK a \in Leaves \ client.request, b \in Leaves \ client.request : a # b
    BY <1>1 DEF LabelInv, MarkingRight
  <2>2. a \in Leaves \ Marked /\ b \in Leaves \ Marked
    BY DEF Marked
  <2>3. /\ Tree(tree) /\ Leaves \subseteq InUse(tree)
        /\ Labelled(tree, temp.label, temp.fullNeighbors, temp.partials, Nil, Marked)
    BY <1>1 DEF LabelInv, MarkingRight, UsableTree
  <2> QED BY <2>1, <2>2, <2>3, LabelledIsExact
<1>2. CASE ~(pc = "marking" /\ work.full = Nil)
  BY <1>2 DEF LabelsExact
<1> QED BY <1>1, <1>2

LEMMA StartMarkingInv ==
  ASSUME LabelInv, StartMarking
  PROVE  LabelInv'
<1>1. /\ pc = "called" /\ pc' = "marking" /\ temp' = ClearedTemp
      /\ ~IsTrivialRestriction(Len(work.todo))
      /\ tree' = tree /\ work' = work /\ client' = client
  BY DEF StartMarking
<1>2. /\ Tree(tree) /\ Leaves \subseteq InUse(tree) /\ client.request = ToSet(work.todo)
      /\ work.todo \in Seq(Leaves) /\ Distinct(work.todo) /\ work.full = Nil
      /\ client.request \subseteq Leaves
  BY <1>1 DEF LabelInv, UsableTree, RequestRight
<1> DEFINE t == tree
           l == [x \in Node |-> "Empty"]
           f == [x \in Node |-> <<>>]
<1>3. \E a, b \in Leaves \ client.request : a # b
  <2> DEFINE L == {x \in Leaves : t.type[x] = "leaf"}
             R == client.request
  <2>1. L = Leaves
    BY <1>2, OfTree
  <2>2. ~(Len(work.todo) >= Cardinality(L) - 1)
    BY <1>1 DEF IsTrivialRestriction
  <2> HIDE DEF L
  <2>3. IsFiniteSet(R) /\ Cardinality(R) = Len(work.todo) /\ Len(work.todo) \in Nat
    BY <1>2, DistinctLength
  <2> HIDE DEF R
  <2>4. IsFiniteSet(Leaves) /\ Cardinality(Leaves) \in Nat /\ R \subseteq Leaves
    BY <1>2, NodesAssumption, FS_CardinalityType DEF R
  <2>5. R # Leaves
    BY <2>1, <2>2, <2>3, <2>4
  <2>6. PICK a \in Leaves : a \notin R
    BY <2>4, <2>5
  <2>7. IsFiniteSet(R \cup {a}) /\ Cardinality(R \cup {a}) = Cardinality(R) + 1
    BY <2>3, <2>6, FS_AddElement
  <2>8. R \cup {a} # Leaves
    <3>1. SUFFICES ASSUME R \cup {a} = Leaves PROVE FALSE
      OBVIOUS
    <3>2. Cardinality(Leaves) = Cardinality(R) + 1
      BY <2>7, <3>1
    <3> QED BY <2>1, <2>2, <2>3, <3>2
  <2>9. PICK b \in Leaves : b \notin R \cup {a}
    BY <2>4, <2>6, <2>8
  <2> QED BY <2>6, <2>9 DEF R
<1>4. Labelled(t, l, f, <<>>, Nil, {})
  <2>1. \A x \in Node : Len(f[x]) = 0 /\ ToSet(f[x]) = {} /\ Distinct(f[x])
    BY DEF ToSet, Distinct
  <2>2. ToSet(<<>>) = {} /\ Distinct(<<>>)
    BY DEF ToSet, Distinct
  <2>3. \A x \in InUse(t) : x \in Node
    BY DEF InUse
  <2>4. \A x \in InUse(t) \cap Inner : Degree(t, x) >= 3 /\ Degree(t, x) \in Nat
    <3> TAKE x \in InUse(t) \cap Inner
    <3>1. x \in Node /\ x \notin Leaves
      BY <2>3, NodesAssumption
    <3>2. t.type[x] # "leaf"
      BY <1>2, <3>1, OfTree
    <3> QED BY <1>2, <3>1, <3>2, DegreeIs DEF Tree, CheckValid
  <2>5. LabelTypes(t, l, f, <<>>, Nil, {})
    BY DEF LabelTypes
  <2>6. ListedAreFull(t, l, f, {}) /\ FullAreListed(t, l, f)
    BY <2>1, <2>3 DEF ListedAreFull, FullAreListed
  <2>7. LeavesLabelled(l, f, {})
    BY DEF LeavesLabelled, Node
  <2>8. InnerLabelled(t, l, f, Nil)
    <3> SUFFICES ASSUME NEW x \in InUse(t) \cap Inner
                 PROVE  /\ Len(f[x]) <= Degree(t, x) - 1
                        /\ l[x] = "Empty" <=> Len(f[x]) = 0
                        /\ Len(f[x]) = Degree(t, x) - 1 <=> l[x] = "Full" \/ x = Nil
      BY DEF InnerLabelled
    <3>1. x \in Node /\ x # Nil
      BY <2>3, NodesAssumption DEF Node
    <3>2. Len(f[x]) = 0 /\ l[x] = "Empty"
      BY <2>1, <3>1
    <3> HIDE DEF f, l
    <3> QED BY <2>4, <3>1, <3>2
  <2>9. PartialsListed(t, l, <<>>)
    BY <2>2, <2>3 DEF PartialsListed
  <2> QED BY <2>5, <2>6, <2>7, <2>8, <2>9 DEF Labelled
<1>5. Marked' = {}
  BY <1>1, <1>2 DEF Marked
<1>6. /\ temp'.label = l /\ temp'.fullNeighbors = f /\ temp'.partials = <<>>
      /\ {"label", "fullNeighbors", "partials"} \subseteq DOMAIN temp'
  BY <1>1 DEF ClearedTemp
<1>7. MarkingRight'
  BY <1>1, <1>2, <1>3, <1>4, <1>5, <1>6 DEF MarkingRight
<1>8. UsableTree' /\ RequestRight'
  BY <1>1 DEF LabelInv, UsableTree, RequestRight
<1> QED BY <1>1, <1>7, <1>8 DEF LabelInv

\* One call of markFull.
LEMMA MarkFullInv ==
  ASSUME LabelInv, pc = "marking", NEW x \in InUse(tree), MarkFull(x),
         \/ x \in Leaves /\ work.full = Nil /\ work.todo # <<>> /\ x = Head(work.todo)
         \/ x \in Inner /\ x = work.full
  PROVE  LabelInv'
<1> DEFINE t  == tree
           l  == temp.label
           f  == temp.fullNeighbors
           ps == temp.partials
           M  == Marked
           S  == client.request
<1>1. /\ Tree(t) /\ Leaves \subseteq InUse(t)
      /\ Labelled(t, l, f, ps, work.full, M)
      /\ {"label", "fullNeighbors", "partials"} \subseteq DOMAIN temp
      /\ {"full", "todo"} \subseteq DOMAIN work
      /\ S \subseteq Leaves /\ work.todo \in Seq(Leaves) /\ Distinct(work.todo)
      /\ ToSet(work.todo) \subseteq S
  BY DEF LabelInv, UsableTree, RequestRight, MarkingRight
<1>2. PICK a \in Leaves \ S, b \in Leaves \ S : a # b
  BY DEF LabelInv, MarkingRight
<1>3. x \in Node /\ (t.type[x] = "leaf" <=> x \in Leaves) /\ Leaves \cap Inner = {} /\ Nil \notin Node
  BY <1>1, OfTree, NodesAssumption DEF Node
<1>4. /\ x \in Leaves => /\ work.todo # <<>> /\ x = Head(work.todo) /\ work.full = Nil
                         /\ x \in ToSet(work.todo) /\ Tail(work.todo) \in Seq(Leaves)
                         /\ Distinct(Tail(work.todo))
                         /\ ToSet(Tail(work.todo)) = ToSet(work.todo) \ {x}
      /\ x \notin Leaves => x = work.full
  <2>1. x \notin Leaves => x = work.full
    OBVIOUS
  <2>2. ASSUME x \in Leaves PROVE work.todo # <<>> /\ x = Head(work.todo) /\ work.full = Nil
    BY <1>3, <2>2
  <2>3. ASSUME x \in Leaves
        PROVE  /\ x \in ToSet(work.todo) /\ Tail(work.todo) \in Seq(Leaves)
               /\ Distinct(Tail(work.todo)) /\ ToSet(Tail(work.todo)) = ToSet(work.todo) \ {x}
    BY <1>1, <2>2, <2>3, TailDistinct
  <2> QED BY <2>1, <2>2, <2>3
<1>5. l[x] # "Full" /\ ((x \in Leaves /\ work.full = Nil) \/ x = work.full)
  <2>1. CASE x \in Leaves
    <3>1. x \notin M
      BY <1>4, <2>1 DEF Marked
    <3> QED BY <1>1, <1>4, <2>1, <3>1 DEF Labelled, LeavesLabelled
  <2>2. CASE x \notin Leaves
    BY <1>1, <1>3, <1>4, <2>2 DEF Labelled, InnerLabelled
  <2> QED BY <2>1, <2>2
<1>6. PICK q \in Around(t, x) : ToSet(f[x]) = Around(t, x) \ {q} /\ l[q] # "Full"
  BY <1>1, <1>5, LeftOneNotFull
<1>7. Own(t, x) = (IF x \in Leaves THEN {x} ELSE {}) /\ M \cup Own(t, x) \subseteq S
  <2>1. M \subseteq S
    BY DEF Marked
  <2> QED BY <1>1, <1>3, <1>4, <2>1 DEF Own
<1>8. q \in InUse(t) \cap Inner
  <2>1. Through(t, q, x) \subseteq M \cup Own(t, x)
    BY <1>1, <1>6, MarkedBehind
  <2> QED BY <1>1, <1>2, <1>7, <2>1, ToldIsInner
<1> DEFINE rest == IF x \in Leaves THEN ps ELSE RemoveAt(ps, PositionOf(ps, x))
           s1 == [temp EXCEPT !.label[x] = "Full",
                              !.partials = IF x \in Leaves THEN @ ELSE RemoveAt(@, PositionOf(@, x))]
           s2 == [s1 EXCEPT !.fullNeighbors[q] = Append(@, x)]
           n  == Len(Append(f[q], x))
<1>9. /\ s1.label = [l EXCEPT ![x] = "Full"] /\ s1.fullNeighbors = f /\ s1.partials = rest
      /\ DOMAIN s1 = DOMAIN temp
  BY <1>1
<1>10. PartialNeighbor(t, s1, x) = q
  <2> DEFINE fu == work.full
  <2>1. Tree(t) /\ Labelled(t, l, f, ps, fu, M) /\ x \in InUse(t) /\ q \in Around(t, x)
    BY <1>1, <1>6
  <2>2. ToSet(f[x]) = Around(t, x) \ {q} /\ l[q] # "Full"
    BY <1>6
  <2>3. \A y \in Node : IsFull(s1, y) <=> y = x \/ l[y] = "Full"
    <3>1. l \in [Node -> {"Empty", "Partial", "Full"}]
      BY <1>1 DEF Labelled, LabelTypes
    <3> HIDE DEF s1, l
    <3> QED BY <1>3, <1>9, <3>1 DEF IsFull
  <2> HIDE DEF s1, t, l, f, ps, M, fu
  <2> QED BY <2>1, <2>2, <2>3, ToldNeighbor
<1>11. /\ s2.label = s1.label /\ s2.fullNeighbors = [f EXCEPT ![q] = Append(@, x)]
       /\ s2.partials = rest /\ DOMAIN s2 = DOMAIN temp
  <2> HIDE DEF s1, rest
  <2> QED BY <1>1, <1>9
<1>12. Len(s2.fullNeighbors[q]) = n
  <2>1. f \in [Node -> Seq(Node)] /\ q \in Node
    BY <1>1, <1>8 DEF Labelled, LabelTypes, InUse
  <2> HIDE DEF s2
  <2> QED BY <1>11, <2>1
<1>13. /\ temp' = IF n = 1
                    THEN [s2 EXCEPT !.label[q] = "Partial", !.partials = Append(@, q)]
                    ELSE s2
       /\ work' = [work EXCEPT !.full = IF n = Degree(t, q) - 1 THEN q ELSE Nil,
                               !.todo = IF x \in Leaves THEN Tail(@) ELSE @]
       /\ tree' = tree /\ pc' = pc /\ client' = client
  BY Zenon, <1>10, <1>12 DEF MarkFull, s1, s2
<1> HIDE DEF s1, s2, n, rest
<1>14. /\ temp'.label = MarkedLabels(l, x, q, n)
       /\ temp'.fullNeighbors = [f EXCEPT ![q] = Append(@, x)]
       /\ temp'.partials = MarkedPartials(ps, x, q, n)
       /\ {"label", "fullNeighbors", "partials"} \subseteq DOMAIN temp'
  <2>1. CASE n = 1
    <3>1. temp' = [s2 EXCEPT !.label[q] = "Partial", !.partials = Append(@, q)]
      BY <1>13, <2>1
    <3>2. temp'.label = [s2.label EXCEPT ![q] = "Partial"] /\ temp'.partials = Append(s2.partials, q)
          /\ temp'.fullNeighbors = s2.fullNeighbors /\ DOMAIN temp' = DOMAIN s2
      BY <1>1, <1>11, <3>1
    <3> QED BY <1>1, <1>9, <1>11, <2>1, <3>2 DEF MarkedLabels, MarkedPartials, rest
  <2>2. CASE n # 1
    BY <1>1, <1>9, <1>11, <1>13, <2>2 DEF MarkedLabels, MarkedPartials, rest
  <2> QED BY <2>1, <2>2
<1>15. /\ work'.full = IF n = Degree(t, q) - 1 THEN q ELSE Nil
       /\ work'.todo = IF x \in Leaves THEN Tail(work.todo) ELSE work.todo
       /\ {"full", "todo"} \subseteq DOMAIN work'
  BY <1>1, <1>13
<1>16. Marked' = M \cup Own(t, x)
  <2>1. CASE x \in Leaves
    BY <1>1, <1>4, <1>7, <1>13, <1>15, <2>1 DEF Marked
  <2>2. CASE x \notin Leaves
    BY <1>7, <1>13, <1>15, <2>2 DEF Marked
  <2> QED BY <2>1, <2>2
<1>17. Labelled(t, MarkedLabels(l, x, q, n), [f EXCEPT ![q] = Append(@, x)],
                MarkedPartials(ps, x, q, n), IF n = Degree(t, q) - 1 THEN q ELSE Nil,
                M \cup Own(t, x))
  <2> DEFINE fu == work.full
  <2>1. n = Len(Append(f[q], x)) /\ q \in Inner
    BY <1>8 DEF n
  <2>2. Labelled(t, l, f, ps, fu, M) /\ x \in InUse(t) /\ ((x \in Leaves /\ fu = Nil) \/ x = fu)
    BY <1>1, <1>5
  <2> HIDE DEF M, f, l, ps, t, fu
  <2> QED BY <1>1, <1>5, <1>6, <2>1, <2>2, MarkStep
<1>18. MarkingRight'
  BY <1>2, <1>13, <1>14, <1>15, <1>16, <1>17 DEF MarkingRight
<1>19. RequestRight' /\ UsableTree'
  BY <1>1, <1>4, <1>13, <1>15 DEF RequestRight, UsableTree
<1> QED BY <1>13, <1>18, <1>19 DEF LabelInv

SplitTemp(s, n, moved) ==
  [ClearedFor(s, n) EXCEPT !.label[n] = "Full", !.fullNeighbors[n] = moved]

\* What splitOffFullPNode moves.
MovedOff(t, s, x, skip) ==
  IF Len(s.fullNeighbors[x]) = 1 \/ ~skip THEN ToSet(s.fullNeighbors[x])
  ELSE ToSet(s.fullNeighbors[x]) \ {t.parent[x]}

SplitOff(t, s, x, skip, f, r) ==
  /\ SplitFrom(t, r.t, x, r.node, MovedOff(t, s, x, skip))
  /\ \/ Len(f) = 1 /\ r.s = s /\ MovedOff(t, s, x, skip) = {r.node}
     \/ /\ Len(f) # 1 /\ r.node \in Inner /\ t.type[r.node] = "free"
        /\ \E moved \in Seq(Node) : /\ r.s = SplitTemp(s, r.node, moved) /\ Distinct(moved)
                                    /\ ToSet(moved) = MovedOff(t, s, x, skip)

LEMMA SplitOffIs ==
  ASSUME NEW t, Forest(t), NEW x \in InUse(t), t.type[x] # "leaf", NEW s, NEW skip \in BOOLEAN,
         NEW f \in Seq(Node), f = s.fullNeighbors[x], Distinct(f), f # <<>>,
         MovedOff(t, s, x, skip) \subseteq Kids(t, x), \E y \in Inner : t.type[y] = "free",
         NEW r, r = SplitOffFullPNode(t, s, x, skip)
  PROVE  SplitOff(t, s, x, skip, f, r)
<1> DEFINE M == MovedOff(t, s, x, skip)
           moved == IF skip THEN Excluding(f, {t.parent[x]}) ELSE f
           n == FreeInner(t)
           u == NewNode(t, n, "P")
           rest == Excluding(t.kids[x], ToSet(moved))
<1>1. CASE Len(f) = 1
  <2>1. r = [t |-> Detach(t, f[1]), s |-> s, node |-> f[1]]
    BY <1>1 DEF SplitOffFullPNode
  <2>2. r.t = Detach(t, f[1]) /\ r.s = s /\ r.node = f[1]
    BY <2>1
  <2>3. ToSet(f) = {f[1]}
    BY <1>1 DEF ToSet
  <2>4. MovedOff(t, s, x, skip) = {f[1]}
    BY <1>1, <2>3 DEF MovedOff
  <2>5. f[1] \in Kids(t, x)
    BY <2>4
  <2>6. SplitFrom(t, r.t, x, r.node, {r.node})
    BY <2>2, <2>5, TakenOne
  <2> QED BY <1>1, <2>2, <2>4, <2>6 DEF SplitOff
<1>2. CASE Len(f) # 1
  <2>1. n \in Inner /\ t.type[n] = "free"
    BY FreeInnerIs
  <2>2. /\ moved \in Seq(Node) /\ Distinct(moved)
        /\ ToSet(moved) = IF skip THEN ToSet(f) \ {t.parent[x]} ELSE ToSet(f)
    <3>1. CASE skip
      <4>1. moved = Excluding(f, {t.parent[x]})
        BY <3>1
      <4> QED BY <3>1, <4>1, ExcludingIs
    <3>2. CASE ~skip
      BY <3>2
    <3> QED BY <3>1, <3>2
  <2>3. ToSet(moved) = M
    BY <1>2, <2>2 DEF MovedOff
  <2>4. x \in Node /\ n \in Node /\ n # x /\ t \in ForestType
    BY <2>1 DEF InUse, Node, Forest
  <2>5. u.kids[x] = t.kids[x] /\ u.kids \in [Node -> Seq(Node)]
    BY <2>4 DEF NewNode, ForestType
  <2>6. r = [t |-> Moved(u, x, n, moved, rest), s |-> SplitTemp(s, n, moved), node |-> n]
    BY <1>2 DEF SplitOffFullPNode, SplitTemp, Moved
  <2>7. u = NewNode(t, n, "P") /\ rest = Excluding(t.kids[x], ToSet(moved))
    OBVIOUS
  <2> HIDE DEF u, rest, moved, n, M
  <2>8. SplitFrom(t, Moved(u, x, n, moved, rest), x, n, ToSet(moved))
    <3>1. ToSet(moved) \subseteq Kids(t, x)
      BY <2>3 DEF M
    <3> QED BY <2>1, <2>2, <2>7, <3>1, TakenSeveral
  <2>9. r.t = Moved(u, x, n, moved, rest) /\ r.s = SplitTemp(s, n, moved) /\ r.node = n
    BY <2>6
  <2> QED BY <1>2, <2>1, <2>2, <2>3, <2>8, <2>9 DEF M, SplitOff
<1> QED BY <1>1, <1>2

\* What is left of a node on the path.
LEMMA DissolveIs ==
  ASSUME NEW t, Forest(t), NEW x \in Node, NEW c, c = t.parent[x], c # Nil,
         NEW u, u = Dissolve(t, x)
  PROVE  \/ HasTwoKids(t, x) /\ u = t
         \/ /\ ~HasTwoKids(t, x)
            /\ Forest(u) /\ u.root = t.root /\ Tops(u) = Tops(t)
            /\ u.type[x] = "free" /\ u.parent[x] = Nil
            /\ \A y \in Node : y # x =>
                 /\ u.type[y] = t.type[y]
                 /\ u.parent[y] = IF t.parent[y] = x THEN c ELSE t.parent[y]
<1>1. /\ Len(t.kids[x]) \in Nat /\ Kids(t, x) = {y \in Node : t.parent[y] = x}
      /\ HasTwoKids(t, x) <=> Len(t.kids[x]) >= 2
      /\ HasKid(t, x) <=> Len(t.kids[x]) >= 1
      /\ ~HasKid(t, x) <=> t.kids[x] = <<>>
  BY KidsCounted
<1>2. CASE HasTwoKids(t, x)
  <2>0. Len(t.kids[x]) >= 2 /\ Len(t.kids[x]) \in Nat
    BY ONLY <1>1, <1>2
  <2>1. t.kids[x] # <<>> /\ Len(t.kids[x]) # 1
    <3>1. HasKid(t, x)
      BY ONLY <1>2 DEF HasTwoKids, HasKid
    <3>2. t.kids[x] # <<>>
      BY ONLY <1>1, <3>1
    <3>3. Len(t.kids[x]) # 1
      <4>1. \A n \in Nat : n >= 2 => n # 1
        OBVIOUS
      <4> QED BY ONLY <2>0, <4>1
    <3> QED BY ONLY <3>2, <3>3
  <2> QED BY <1>2, <2>1 DEF Dissolve
<1>3. CASE ~HasKid(t, x)
  <2>1. t.kids[x] = <<>> /\ ~HasTwoKids(t, x)
    BY <1>1, <1>3
  <2>2. u = DestroyNode(Detach(t, x), x)
    BY <2>1 DEF Dissolve
  <2>3. /\ Forest(u) /\ u.root = t.root /\ Tops(u) = Tops(t)
        /\ u.type[x] = "free" /\ u.parent[x] = Nil
        /\ \A y \in Node : y # x => u.type[y] = t.type[y] /\ u.parent[y] = t.parent[y]
    BY <2>1, <2>2, LeafTakenOut
  <2> QED BY <1>3, <2>1, <2>3 DEF HasKid
<1>4. CASE HasKid(t, x) /\ ~HasTwoKids(t, x)
  <2>0. Len(t.kids[x]) >= 1 /\ ~(Len(t.kids[x]) >= 2) /\ Len(t.kids[x]) \in Nat
    BY ONLY <1>1, <1>4
  <2>1. Len(t.kids[x]) = 1
    <3>1. \A n \in Nat : n >= 1 /\ ~(n >= 2) => n = 1
      OBVIOUS
    <3> QED BY ONLY <2>0, <3>1
  <2>2. PICK l \in Node : l = t.kids[x][1] /\ Kids(t, x) = {l}
    BY <2>1, KidsCounted
  <2> DEFINE w == Detach(t, l)
             v == ReplaceWith(w, x, l)
  <2>3. /\ u = DestroyNode(v, x) /\ v = ReplaceWith(w, x, l) /\ w = Detach(t, l)
    BY <1>1, <1>4, <2>1, <2>2 DEF Dissolve
  <2> HIDE DEF w, v
  <2>4. /\ l \in Node /\ t.parent[l] = x /\ l # x /\ x # Nil
        /\ Forest(w) /\ w.root = t.root /\ w.type = t.type /\ w.parent[l] = Nil
        /\ \A y \in Node : y # l => w.parent[y] = t.parent[y]
        /\ w.kids[x] = <<>> /\ w.kids[l] = t.kids[l]
        /\ Tops(w) = Tops(t) \cup {l} /\ l \notin Tops(t)
    BY <2>1, <2>2, <2>3, OnlyChildOut
  <2>5. w.parent[x] = c /\ w.parent \in Parents /\ t.parent \in Parents /\ Acyclic(t.parent) /\ c \in Node
        /\ Acyclic(w.parent)
    BY <2>4 DEF Forest, ForestType, Parents
  <2>6. l \notin Up(w.parent, w.parent[x])
    <3>1. l \notin Up(t.parent, x)
      BY <2>4, <2>5, NotAboveItself
    <3>2. c \in Up(t.parent, x)
      BY <2>5, UpIs DEF UpClosed
    <3>3. Up(t.parent, c) \subseteq Up(t.parent, x)
      BY <2>5, <3>2, UpTransitive
    <3>4. Up(w.parent, c) \subseteq Up(t.parent, c)
      <4>1. \A y \in Node : w.parent[y] \in {t.parent[y], Nil}
        BY <2>4
      <4> QED BY <2>5, <4>1, FewerEdges
    <3> QED BY <2>5, <3>1, <3>3, <3>4
  <2>7. w.type[l] = "leaf" => w.kids[l] = <<>>
    <3>1. t.type[l] = "leaf" => Len(t.kids[l]) <= 0
      BY <2>4 DEF Forest, Arranged
    <3>2. t \in ForestType
      BY DEF Forest
    <3> QED BY <2>4, <3>1, <3>2, ForestKids
  <2>8. l \in Tops(w) /\ w.parent[x] # Nil
    BY <2>4, <2>5
  <2>9. /\ Forest(v) /\ v.root = w.root /\ v.type = w.type /\ Tops(v) = (Tops(w) \ {l}) \cup {x}
        /\ \A y \in Node : y # w.parent[x] => v.kids[y] = w.kids[y]
        /\ v.parent[x] = Nil /\ v.parent[l] = w.parent[x]
        /\ \A y \in Node : y # x /\ y # l => v.parent[y] = w.parent[y]
    BY <2>3, <2>4, <2>6, <2>7, <2>8, ReplaceWithIs
  <2>10. x \in Tops(v) /\ v.kids[x] = <<>> /\ x \notin Tops(t)
    <3>1. x # c
      BY <2>5, InUseFacts
    <3> QED BY <2>4, <2>5, <2>9, <3>1 DEF Tops
  <2>11. /\ Forest(u) /\ u.root = v.root /\ u.parent = v.parent /\ u.kids = v.kids
         /\ u.type[x] = "free" /\ \A y \in Node : y # x => u.type[y] = v.type[y]
         /\ Tops(u) = Tops(v) \ {x}
    BY <2>3, <2>9, <2>10, DestroyNodeIs
  <2>12. Tops(u) = Tops(t)
    BY <2>4, <2>9, <2>10, <2>11
  <2>13. ASSUME NEW y \in Node, y # x
         PROVE  u.type[y] = t.type[y] /\ u.parent[y] = IF t.parent[y] = x THEN c ELSE t.parent[y]
    <3>1. u.type[y] = t.type[y]
      BY <2>4, <2>9, <2>11, <2>13
    <3>2. t.parent[y] = x <=> y = l
      BY <1>1, <2>2
    <3>3. u.parent[l] = c
      BY <2>5, <2>9, <2>11
    <3>4. y # l => u.parent[y] = t.parent[y]
      BY <2>4, <2>9, <2>11, <2>13
    <3> QED BY <3>1, <3>2, <3>3, <3>4
  <2> QED BY <1>4, <2>4, <2>9, <2>11, <2>12, <2>13
<1> QED BY <1>2, <1>3, <1>4

LEMMA NodeMergedIs ==
  ASSUME NEW t, NEW x, NEW c, NEW fn, NEW M, NEW next, OnTheWay(t, x, c, fn, M, next),
         NEW n, NEW v, MovedOut(t, v, x, c, n, next, M),
         NEW u, u = Dissolve(v, x)
  PROVE  NodeMerged(t, u, x, c, n, next, M)
<1>1. /\ Forest(t) /\ x \in Node /\ c \in Node
      /\ x \in InUse(t) /\ c \in InUse(t) /\ c # x /\ x # Nil
      /\ t.parent[x] = c /\ c # Nil /\ t.parent[c] # x
      /\ \A y \in Kids(t, x) : y \in Node /\ t.parent[y] = x /\ y # x /\ y # c /\ y \in InUse(t)
      /\ M \subseteq Kids(t, x)
      /\ (next # Nil => next \in Kids(t, x) /\ next \notin M)
  BY WayFacts
<1>2. n # x /\ n # c /\ (next # Nil => n # next) /\ (n \in Kids(t, x) => n \in M)
  BY NewNeighbor
<1>3. /\ Forest(v) /\ v.root = t.root /\ Tops(v) = Tops(t) /\ v.parent[x] = c
      /\ \A y \in Node : y # n => v.type[y] = t.type[y]
      /\ \A y \in Node : y \notin M /\ y # n /\ y # next => v.parent[y] = t.parent[y]
      /\ next \in Node => v.parent[next] = c
      /\ GroupedUnder(t, v, c, n, M)
  BY DEF MovedOut
<1>4. Nil \notin Node
  BY NodesAssumption DEF Node
<1>5. \A y \in Node : t.parent[y] = x <=> y \in Kids(t, x)
  BY <1>1 DEF Forest, Arranged
<1>6. /\ n \in Node => v.parent[n] = c
      /\ \A y \in M : v.parent[y] = n \/ v.parent[y] = c
  <2>1. CASE M = {} /\ n = Nil
    BY <1>4, <2>1
  <2>2. CASE M = {n} /\ v.parent[n] = c
    BY <2>2
  <2>3. CASE v.parent[n] = c /\ \A y \in M : v.parent[y] = n
    BY <2>3
  <2> QED BY <1>3, <2>1, <2>2, <2>3 DEF GroupedUnder
<1>7. \A y \in Node : v.parent[y] = x <=> y \in Kids(t, x) /\ y \notin M /\ y # next
  <2> SUFFICES ASSUME NEW y \in Node
      PROVE  v.parent[y] = x <=> y \in Kids(t, x) /\ y \notin M /\ y # next
    OBVIOUS
  <2>1. CASE y \in M
    BY <1>1, <1>2, <1>6, <2>1
  <2>2. CASE y = next
    BY <1>1, <1>3, <2>2
  <2>3. CASE y = n /\ y \notin M
    BY <1>1, <1>2, <1>6, <2>3
  <2>4. CASE y \notin M /\ y # n /\ y # next
    BY <1>3, <1>5, <2>4
  <2> QED BY <2>1, <2>2, <2>3, <2>4
<1>8. \A y \in Node : y # n /\ y # x /\ t.parent[y] # x => v.parent[y] = t.parent[y]
  <2> SUFFICES ASSUME NEW y \in Node, y # n, t.parent[y] # x PROVE v.parent[y] = t.parent[y]
    OBVIOUS
  <2>1. y \notin M
    BY <1>1
  <2>2. y # next
    BY <1>1, <1>4
  <2> QED BY <1>3, <2>1, <2>2
<1>9. CASE HasTwoKids(v, x) /\ u = v
  <2>1. \E a, b \in Kids(t, x) : a # b /\ a \notin M /\ b \notin M /\ a # next /\ b # next
    BY <1>7, <1>9 DEF HasTwoKids
  <2>2. \A y \in Kids(t, x) : y \notin M /\ y # next => u.parent[y] = x
    BY <1>1, <1>7, <1>9
  <2>3. u.type[x] = t.type[x] /\ u.parent[x] = c
    BY <1>1, <1>2, <1>3, <1>9
  <2>4. /\ \A y \in Node : y # n /\ y # x => u.type[y] = t.type[y]
        /\ \A y \in Node : y # n /\ y # x /\ t.parent[y] # x => u.parent[y] = t.parent[y]
    BY <1>3, <1>8, <1>9
  <2>5. /\ Forest(u) /\ u.root = t.root /\ Tops(u) = Tops(t)
        /\ next \in Node => u.parent[next] = c
        /\ GroupedUnder(t, u, c, n, M)
    BY <1>3, <1>9
  <2> QED BY <2>1, <2>2, <2>3, <2>4, <2>5 DEF NodeMerged
<1>10. ASSUME /\ ~HasTwoKids(v, x)
              /\ Forest(u) /\ u.root = v.root /\ Tops(u) = Tops(v)
              /\ u.type[x] = "free" /\ u.parent[x] = Nil
              /\ \A y \in Node : y # x =>
                   /\ u.type[y] = v.type[y]
                   /\ u.parent[y] = IF v.parent[y] = x THEN c ELSE v.parent[y]
       PROVE  NodeMerged(t, u, x, c, n, next, M)
  <2>1. \A y \in Node : y # n /\ y # x => u.type[y] = t.type[y]
    BY <1>3, <1>10
  <2>2. \A y \in Node : y # n /\ y # x /\ t.parent[y] # x => u.parent[y] = t.parent[y]
    BY <1>5, <1>7, <1>8, <1>10
  <2>3. next \in Node => u.parent[next] = c
    BY <1>1, <1>3, <1>4, <1>10
  <2>4. \A y \in Kids(t, x) : y \notin M /\ y # next => u.parent[y] = c
    BY <1>1, <1>7, <1>10
  <2>5. GroupedUnder(t, u, c, n, M)
    <3>1. \A y \in M : y \in Node /\ y # x /\ u.parent[y] = v.parent[y]
      BY <1>1, <1>7, <1>10
    <3>2. n \in Node => u.parent[n] = v.parent[n] /\ u.type[n] = v.type[n]
      BY <1>1, <1>2, <1>6, <1>10
    <3>3. n \in Inner => n \in Node
      BY DEF Node
    <3> QED BY <1>3, <3>1, <3>2, <3>3 DEF GroupedUnder
  <2>6. Forest(u) /\ u.root = t.root /\ Tops(u) = Tops(t)
    BY <1>3, <1>10
  <2> QED BY <1>10, <2>1, <2>2, <2>3, <2>4, <2>5, <2>6 DEF NodeMerged
<1> QED BY <1>1, <1>3, <1>9, <1>10, DissolveIs

\* A node of Q, the paths that end below c.
Passed(t, s, y, c, Q) ==
  /\ y \in InUse(t) /\ y \in Inner /\ t.parent[y] \in Q \cup {c}
  /\ s.tpPred[t.parent[y]] # y => t.parent[y] = c /\ y = s.apexTPPred2
  /\ s.tpPred[y] # Nil => s.tpPred[y] \in Q /\ t.parent[s.tpPred[y]] = y
  /\ s.tpPred[y] = Nil => s.label[y] = "Partial"
  /\ s.label[y] = "Partial" =>
       /\ s.fullNeighbors[y] \in Seq(Node) /\ s.fullNeighbors[y] # <<>> /\ Distinct(s.fullNeighbors[y])
       /\ ToSet(s.fullNeighbors[y]) \subseteq Kids(t, y) \ Q
       /\ t.type[y] = "C" => {s.fbEnd1[y], s.fbEnd2[y]} \subseteq ToSet(s.fullNeighbors[y])

PathSet(t, s, c, Q) ==
  /\ Q \subseteq Node /\ c \in Node /\ c \notin Q
  /\ s.tpPred[c] # Nil => s.tpPred[c] \in Q /\ t.parent[s.tpPred[c]] = c
  /\ s.apexTPPred2 # Nil => /\ s.apexTPPred2 \in Q /\ t.parent[s.apexTPPred2] = c
                            /\ s.apexTPPred2 # s.tpPred[c]
  /\ \A y \in Q : Passed(t, s, y, c, Q)

\* The temporary data of the nodes of the paths stays.
DataKept(t, s, s2, R) ==
  \A y \in R :
    /\ s2.tpPred[y] = s.tpPred[y] /\ s2.label[y] = s.label[y]
    /\ s2.fullNeighbors[y] = s.fullNeighbors[y]
    /\ t.type[y] = "C" /\ s.label[y] = "Partial" =>
         s2.fbEnd1[y] = s.fbEnd1[y] /\ s2.fbEnd2[y] = s.fbEnd2[y]

Advanced(s, s2, c, x) ==
  \/ x = s.tpPred[c] /\ s2.tpPred[c] = s.tpPred[x] /\ s2.apexTPPred2 = s.apexTPPred2
  \/ /\ x = s.apexTPPred2 /\ s.tpPred[c] = Nil
     /\ s2.tpPred[c] = Nil /\ s2.apexTPPred2 = s.tpPred[x]

LEMMA PathKept ==
  ASSUME NEW t, Forest(t), NEW s, NEW c, NEW Q, PathSet(t, s, c, Q), NEW x \in Q, t.parent[x] = c,
         NEW u, Forest(u), NEW n, LeavesAlone(t, u, x, n), n \notin InUse(t) \/ n \in Kids(t, x) \ Q,
         s.tpPred[x] # Nil => u.parent[s.tpPred[x]] = c,
         NEW s2, DataKept(t, s, s2, Q \ {x}), Advanced(s, s2, c, x)
  PROVE  PathSet(u, s2, c, Q \ {x})
<1> DEFINE next == s.tpPred[x]
           R == Q \ {x}
<1>1. /\ Q \subseteq Node /\ c \in Node /\ c \notin Q /\ x # c /\ x \in Node
      /\ s.tpPred[c] # Nil => s.tpPred[c] \in Q /\ t.parent[s.tpPred[c]] = c
      /\ s.apexTPPred2 # Nil => /\ s.apexTPPred2 \in Q /\ t.parent[s.apexTPPred2] = c
                                /\ s.apexTPPred2 # s.tpPred[c]
      /\ \A y \in Q : Passed(t, s, y, c, Q)
  BY DEF PathSet
<1>2. \A y \in Q : y \in InUse(t) /\ y # n /\ y \in Node /\ y # Nil
  <2>1. \A y \in Q : y \in InUse(t)
    BY <1>1 DEF Passed
  <2> QED BY <1>1, <2>1, NodesAssumption DEF Node
<1>3. ASSUME next # Nil
      PROVE  next \in R /\ t.parent[next] = x /\ u.parent[next] = c
  <2>1. next \in Q /\ t.parent[next] = x
    BY <1>1, <1>3 DEF Passed
  <2> QED BY <1>1, <1>3, <2>1
<1>4. \A y \in Node : t.parent[y] # x /\ y # n /\ y # x => u.parent[y] = t.parent[y]
  BY DEF LeavesAlone
<1>5. \A y \in Q : t.parent[y] = x => y = next
  BY <1>1 DEF Passed
<1>6. \A y \in R : u.parent[y] = IF y = next THEN c ELSE t.parent[y]
  BY <1>1, <1>2, <1>3, <1>4, <1>5
<1>7. \A y \in Node : t.parent[y] \in R => u.parent[y] = t.parent[y] /\ y # x
  <2> SUFFICES ASSUME NEW y \in Node, t.parent[y] \in R PROVE u.parent[y] = t.parent[y] /\ y # x
    OBVIOUS
  <2>1. y # x /\ t.parent[y] # x
    BY <1>1
  <2>2. y \in InUse(t)
    BY <1>2, InUseFacts
  <2>3. y # n
    <3>1. \A z \in Kids(t, x) : t.parent[z] = x
      BY <1>1, ForestFacts
    <3> QED BY <2>1, <2>2, <3>1
  <2> QED BY <1>4, <2>1, <2>3
<1>8. /\ \A y \in R : s2.tpPred[y] = s.tpPred[y]
      /\ c \notin R /\ \A y \in Q : y = x \/ y \in R
  BY <1>1 DEF DataKept
<1>9. /\ s2.tpPred[c] # Nil => s2.tpPred[c] \in R /\ u.parent[s2.tpPred[c]] = c
      /\ s2.apexTPPred2 # Nil => /\ s2.apexTPPred2 \in R /\ u.parent[s2.apexTPPred2] = c
                                 /\ s2.apexTPPred2 # s2.tpPred[c]
  <2>1. CASE x = s.tpPred[c] /\ s2.tpPred[c] = next /\ s2.apexTPPred2 = s.apexTPPred2
    <3>1. s2.apexTPPred2 # Nil => /\ s2.apexTPPred2 \in R /\ u.parent[s2.apexTPPred2] = c
                                  /\ s2.apexTPPred2 # s2.tpPred[c]
      BY <1>1, <1>2, <1>4, <1>3, <2>1
    <3> QED BY <1>3, <2>1, <3>1
  <2>2. CASE s2.tpPred[c] = Nil /\ s2.apexTPPred2 = next
    BY <1>3, <2>2
  <2> QED BY <2>1, <2>2 DEF Advanced
<1>10. ASSUME NEW y \in R PROVE Passed(u, s2, y, c, R)
  <2>1. Passed(t, s, y, c, Q) /\ y \in Q /\ y # x /\ y \in Node /\ y # n
    BY <1>1, <1>2
  <2>2. u.type[y] = t.type[y] /\ y \in InUse(u) /\ y \in Inner
    BY <2>1 DEF LeavesAlone, Passed, InUse
  <2>3. u.parent[y] \in R \cup {c}
    BY <1>1, <1>5, <1>6, <2>1 DEF Passed
  <2>4. s2.tpPred[u.parent[y]] # y => u.parent[y] = c /\ y = s2.apexTPPred2
    <3>1. CASE y = next
      <4>1. u.parent[y] = c /\ (s2.tpPred[c] = y \/ s2.apexTPPred2 = y)
        BY <1>6, <3>1 DEF Advanced
      <4> QED BY <4>1
    <3>2. CASE y # next
      <4>1. u.parent[y] = t.parent[y] /\ t.parent[y] # x
        BY <1>5, <1>6, <2>1, <3>2
      <4>2. CASE t.parent[y] = c
        <5>1. s.tpPred[c] = y \/ s.apexTPPred2 = y
          BY <2>1, <4>2 DEF Passed
        <5>2. s2.tpPred[c] = y \/ s2.apexTPPred2 = y
          BY <1>2, <2>1, <5>1 DEF Advanced
        <5> QED BY <4>1, <4>2, <5>2
      <4>3. CASE t.parent[y] # c
        <5>1. t.parent[y] \in R /\ s.tpPred[t.parent[y]] = y
          BY <1>8, <2>1, <4>1, <4>3 DEF Passed
        <5> QED BY <1>8, <4>1, <5>1
      <4> QED BY <4>2, <4>3
    <3> QED BY <3>1, <3>2
  <2>5. s2.tpPred[y] = s.tpPred[y] /\ s2.label[y] = s.label[y] /\ s2.fullNeighbors[y] = s.fullNeighbors[y]
        /\ (t.type[y] = "C" /\ s.label[y] = "Partial" =>
              s2.fbEnd1[y] = s.fbEnd1[y] /\ s2.fbEnd2[y] = s.fbEnd2[y])
    BY DEF DataKept
  <2>6. s2.tpPred[y] # Nil => s2.tpPred[y] \in R /\ u.parent[s2.tpPred[y]] = y
    <3> SUFFICES ASSUME s.tpPred[y] # Nil PROVE s.tpPred[y] \in R /\ u.parent[s.tpPred[y]] = y
      BY <2>5
    <3>1. s.tpPred[y] \in Q /\ t.parent[s.tpPred[y]] = y
      BY <2>1 DEF Passed
    <3> QED BY <1>1, <1>7, <3>1
  <2>7. s2.tpPred[y] = Nil => s2.label[y] = "Partial"
    BY <2>1, <2>5 DEF Passed
  <2>8. s2.label[y] = "Partial" =>
          /\ s2.fullNeighbors[y] \in Seq(Node) /\ s2.fullNeighbors[y] # <<>>
          /\ Distinct(s2.fullNeighbors[y])
          /\ ToSet(s2.fullNeighbors[y]) \subseteq Kids(u, y) \ R
          /\ u.type[y] = "C" => {s2.fbEnd1[y], s2.fbEnd2[y]} \subseteq ToSet(s2.fullNeighbors[y])
    <3> SUFFICES ASSUME s.label[y] = "Partial"
        PROVE  /\ s.fullNeighbors[y] \in Seq(Node) /\ s.fullNeighbors[y] # <<>>
               /\ Distinct(s.fullNeighbors[y])
               /\ ToSet(s.fullNeighbors[y]) \subseteq Kids(u, y) \ R
               /\ t.type[y] = "C" => {s.fbEnd1[y], s.fbEnd2[y]} \subseteq ToSet(s.fullNeighbors[y])
      BY <2>2, <2>5
    <3>1. /\ s.fullNeighbors[y] \in Seq(Node) /\ s.fullNeighbors[y] # <<>> /\ Distinct(s.fullNeighbors[y])
          /\ ToSet(s.fullNeighbors[y]) \subseteq Kids(t, y) \ Q
          /\ t.type[y] = "C" => {s.fbEnd1[y], s.fbEnd2[y]} \subseteq ToSet(s.fullNeighbors[y])
      BY <2>1 DEF Passed
    <3>2. \A e \in Kids(t, y) : e \in Kids(u, y)
      <4> SUFFICES ASSUME NEW e \in Kids(t, y) PROVE e \in Kids(u, y)
        OBVIOUS
      <4>1. e \in Node /\ t.parent[e] = y
        BY <2>1, ForestFacts, ForestKids DEF Forest
      <4>2. u.parent[e] = y
        BY <1>7, <4>1
      <4> QED BY <2>1, <4>1, <4>2 DEF Forest, Arranged
    <3> QED BY <3>1, <3>2
  <2> HIDE DEF R, next
  <2> QED BY <2>2, <2>3, <2>4, <2>6, <2>7, <2>8 DEF Passed
<1> HIDE DEF next
<1> QED BY <1>1, <1>8, <1>9, <1>10 DEF PathSet

TempType ==
  [label : [Node -> {"Empty", "Partial", "Full"}], fullNeighbors : [Node -> Seq(Node)],
   tpPred : [Node -> Ref], tpPartialPred : [Node -> Ref], tpPartialHeight : [Node -> Nat],
   tpSucc : [Node -> Ref], ebEnd1 : [Node -> Ref], fbEnd1 : [Node -> Ref],
   fbEnd2 : [Node -> Ref], ebEnd2 : [Node -> Ref], partials : Seq(Node),
   apexCandidate : Ref, apexCandidateIsFix : BOOLEAN, apexTPPred2 : Ref,
   terminalPathLength : Nat, failed : BOOLEAN]

\* What the search has counted and the partial nodes stay.
CountKept(s, r) == r.partials = s.partials /\ r.terminalPathLength = s.terminalPathLength
                   /\ r.apexCandidate = s.apexCandidate

\* The temporary data of all nodes but x stays.
DataElsewhere(s, r, x) ==
  \A y \in Node : y # x => /\ r.label[y] = s.label[y] /\ r.fullNeighbors[y] = s.fullNeighbors[y]
                           /\ r.tpPred[y] = s.tpPred[y] /\ r.ebEnd1[y] = s.ebEnd1[y]
                           /\ r.fbEnd1[y] = s.fbEnd1[y] /\ r.fbEnd2[y] = s.fbEnd2[y]
                           /\ r.ebEnd2[y] = s.ebEnd2[y]

LEMMA ReplaceNeighborIs ==
  ASSUME NEW s \in TempType, NEW x \in Node, NEW old, NEW new \in Ref,
         NEW r, r = ReplaceNeighbor(s, x, old, new)
  PROVE  /\ r \in TempType /\ CountKept(s, r)
         /\ r.label = s.label /\ r.fullNeighbors = s.fullNeighbors /\ r.apexTPPred2 = s.apexTPPred2
         /\ \A y \in Node : y # x => /\ r.tpPred[y] = s.tpPred[y] /\ r.ebEnd1[y] = s.ebEnd1[y]
                                     /\ r.fbEnd1[y] = s.fbEnd1[y] /\ r.fbEnd2[y] = s.fbEnd2[y]
                                     /\ r.ebEnd2[y] = s.ebEnd2[y]
         /\ s.tpPred[x] # old => r.tpPred[x] = s.tpPred[x]
         /\ s.fbEnd1[x] # old => r.fbEnd1[x] = s.fbEnd1[x]
         /\ s.fbEnd2[x] # old => r.fbEnd2[x] = s.fbEnd2[x]
<1> DEFINE swap(f) == [f EXCEPT ![x] = IF f[x] = old THEN new ELSE f[x]]
<1>1. /\ r.tpPred = swap(s.tpPred) /\ r.tpPartialPred = swap(s.tpPartialPred)
      /\ r.tpSucc = swap(s.tpSucc) /\ r.ebEnd1 = swap(s.ebEnd1) /\ r.fbEnd1 = swap(s.fbEnd1)
      /\ r.fbEnd2 = swap(s.fbEnd2) /\ r.ebEnd2 = swap(s.ebEnd2)
      /\ r.label = s.label /\ r.fullNeighbors = s.fullNeighbors
      /\ r.tpPartialHeight = s.tpPartialHeight /\ r.partials = s.partials
      /\ r.apexCandidate = s.apexCandidate /\ r.apexCandidateIsFix = s.apexCandidateIsFix
      /\ r.apexTPPred2 = s.apexTPPred2 /\ r.terminalPathLength = s.terminalPathLength
      /\ r.failed = s.failed
  BY DEF TempType, ReplaceNeighbor
<1>2. r = [label |-> r.label, fullNeighbors |-> r.fullNeighbors, tpPred |-> r.tpPred,
           tpPartialPred |-> r.tpPartialPred, tpPartialHeight |-> r.tpPartialHeight,
           tpSucc |-> r.tpSucc, ebEnd1 |-> r.ebEnd1, fbEnd1 |-> r.fbEnd1, fbEnd2 |-> r.fbEnd2,
           ebEnd2 |-> r.ebEnd2, partials |-> r.partials, apexCandidate |-> r.apexCandidate,
           apexCandidateIsFix |-> r.apexCandidateIsFix, apexTPPred2 |-> r.apexTPPred2,
           terminalPathLength |-> r.terminalPathLength, failed |-> r.failed]
  BY DEF TempType, ReplaceNeighbor
<1>3. \A f \in [Node -> Ref] :
        /\ swap(f) \in [Node -> Ref]
        /\ \A y \in Node : y # x => swap(f)[y] = f[y]
        /\ f[x] # old => swap(f)[x] = f[x]
  OBVIOUS
<1>4. /\ s.tpPred \in [Node -> Ref] /\ s.tpPartialPred \in [Node -> Ref] /\ s.tpSucc \in [Node -> Ref]
      /\ s.ebEnd1 \in [Node -> Ref] /\ s.fbEnd1 \in [Node -> Ref] /\ s.fbEnd2 \in [Node -> Ref]
      /\ s.ebEnd2 \in [Node -> Ref]
  BY DEF TempType
<1>31. \A f \in {s.tpPred, s.ebEnd1, s.fbEnd1, s.fbEnd2, s.ebEnd2} :
         /\ \A y \in Node : y # x => swap(f)[y] = f[y]
         /\ f[x] # old => swap(f)[x] = f[x]
  BY ONLY <1>3, <1>4
<1> HIDE DEF swap
<1>5. /\ r.tpPred \in [Node -> Ref] /\ r.tpPartialPred \in [Node -> Ref] /\ r.tpSucc \in [Node -> Ref]
      /\ r.ebEnd1 \in [Node -> Ref] /\ r.fbEnd1 \in [Node -> Ref] /\ r.fbEnd2 \in [Node -> Ref]
      /\ r.ebEnd2 \in [Node -> Ref]
  BY ONLY <1>1, <1>3, <1>4
<1>6. /\ s.label \in [Node -> {"Empty", "Partial", "Full"}] /\ s.fullNeighbors \in [Node -> Seq(Node)]
      /\ s.tpPartialHeight \in [Node -> Nat] /\ s.partials \in Seq(Node) /\ s.apexCandidate \in Ref
      /\ s.apexCandidateIsFix \in BOOLEAN /\ s.apexTPPred2 \in Ref
      /\ s.terminalPathLength \in Nat /\ s.failed \in BOOLEAN
  BY DEF TempType
<1>7. r \in TempType
  BY <1>1, <1>2, <1>5, <1>6 DEF TempType
<1>8. CountKept(s, r)
  BY <1>1 DEF CountKept
<1>9. /\ \A y \in Node : y # x => /\ r.tpPred[y] = s.tpPred[y] /\ r.ebEnd1[y] = s.ebEnd1[y]
                                /\ r.fbEnd1[y] = s.fbEnd1[y] /\ r.fbEnd2[y] = s.fbEnd2[y]
                                /\ r.ebEnd2[y] = s.ebEnd2[y]
      /\ s.tpPred[x] # old => r.tpPred[x] = s.tpPred[x]
      /\ s.fbEnd1[x] # old => r.fbEnd1[x] = s.fbEnd1[x]
      /\ s.fbEnd2[x] # old => r.fbEnd2[x] = s.fbEnd2[x]
  BY ONLY <1>1, <1>31
<1> QED BY ONLY <1>1, <1>9, <1>7, <1>8

LEMMA ClearedForIs ==
  ASSUME NEW s \in TempType, NEW n \in Node, NEW r, r = ClearedFor(s, n)
  PROVE  /\ r \in TempType /\ CountKept(s, r) /\ r.apexTPPred2 = s.apexTPPred2
         /\ \A y \in Node : y # n => /\ r.label[y] = s.label[y] /\ r.fullNeighbors[y] = s.fullNeighbors[y]
                                     /\ r.tpPred[y] = s.tpPred[y] /\ r.ebEnd1[y] = s.ebEnd1[y]
                                     /\ r.fbEnd1[y] = s.fbEnd1[y] /\ r.fbEnd2[y] = s.fbEnd2[y]
                                     /\ r.ebEnd2[y] = s.ebEnd2[y]
<1>1. /\ r.tpPred = [s.tpPred EXCEPT ![n] = Nil] /\ r.tpPartialPred = [s.tpPartialPred EXCEPT ![n] = Nil]
      /\ r.tpSucc = [s.tpSucc EXCEPT ![n] = Nil] /\ r.ebEnd1 = [s.ebEnd1 EXCEPT ![n] = Nil]
      /\ r.fbEnd1 = [s.fbEnd1 EXCEPT ![n] = Nil] /\ r.fbEnd2 = [s.fbEnd2 EXCEPT ![n] = Nil]
      /\ r.ebEnd2 = [s.ebEnd2 EXCEPT ![n] = Nil]
      /\ r.label = [s.label EXCEPT ![n] = "Empty"]
      /\ r.fullNeighbors = [s.fullNeighbors EXCEPT ![n] = <<>>]
      /\ r.tpPartialHeight = [s.tpPartialHeight EXCEPT ![n] = 0] /\ r.partials = s.partials
      /\ r.apexCandidate = s.apexCandidate /\ r.apexCandidateIsFix = s.apexCandidateIsFix
      /\ r.apexTPPred2 = s.apexTPPred2 /\ r.terminalPathLength = s.terminalPathLength
      /\ r.failed = s.failed
  BY DEF TempType, ClearedFor
<1>2. r = [label |-> r.label, fullNeighbors |-> r.fullNeighbors, tpPred |-> r.tpPred,
           tpPartialPred |-> r.tpPartialPred, tpPartialHeight |-> r.tpPartialHeight,
           tpSucc |-> r.tpSucc, ebEnd1 |-> r.ebEnd1, fbEnd1 |-> r.fbEnd1, fbEnd2 |-> r.fbEnd2,
           ebEnd2 |-> r.ebEnd2, partials |-> r.partials, apexCandidate |-> r.apexCandidate,
           apexCandidateIsFix |-> r.apexCandidateIsFix, apexTPPred2 |-> r.apexTPPred2,
           terminalPathLength |-> r.terminalPathLength, failed |-> r.failed]
  BY DEF TempType, ClearedFor
<1>4. /\ s.tpPred \in [Node -> Ref] /\ s.tpPartialPred \in [Node -> Ref] /\ s.tpSucc \in [Node -> Ref]
      /\ s.ebEnd1 \in [Node -> Ref] /\ s.fbEnd1 \in [Node -> Ref] /\ s.fbEnd2 \in [Node -> Ref]
      /\ s.ebEnd2 \in [Node -> Ref]
      /\ s.label \in [Node -> {"Empty", "Partial", "Full"}] /\ s.fullNeighbors \in [Node -> Seq(Node)]
      /\ s.tpPartialHeight \in [Node -> Nat] /\ s.partials \in Seq(Node) /\ s.apexCandidate \in Ref
      /\ s.apexCandidateIsFix \in BOOLEAN /\ s.apexTPPred2 \in Ref
      /\ s.terminalPathLength \in Nat /\ s.failed \in BOOLEAN
  BY DEF TempType
<1>5. /\ r.tpPred \in [Node -> Ref] /\ r.tpPartialPred \in [Node -> Ref] /\ r.tpSucc \in [Node -> Ref]
      /\ r.ebEnd1 \in [Node -> Ref] /\ r.fbEnd1 \in [Node -> Ref] /\ r.fbEnd2 \in [Node -> Ref]
      /\ r.ebEnd2 \in [Node -> Ref]
      /\ r.label \in [Node -> {"Empty", "Partial", "Full"}] /\ r.fullNeighbors \in [Node -> Seq(Node)]
      /\ r.tpPartialHeight \in [Node -> Nat]
  BY ONLY SMTT(40), <1>1, <1>4, Nil \in Ref DEF Ref
<1>7. r \in TempType
  BY <1>1, <1>2, <1>4, <1>5 DEF TempType
<1>8. CountKept(s, r)
  BY <1>1 DEF CountKept
<1> QED BY ONLY <1>1, <1>4, <1>7, <1>8

FullWith(v, n, moved) == [v EXCEPT !.label[n] = "Full", !.fullNeighbors[n] = moved]

LEMMA FullWithIs ==
  ASSUME NEW v \in TempType, NEW n \in Node, NEW moved \in Seq(Node),
         NEW r, r = FullWith(v, n, moved)
  PROVE  /\ r \in TempType /\ CountKept(v, r) /\ r.apexTPPred2 = v.apexTPPred2
         /\ r.label[n] = "Full" /\ r.fullNeighbors[n] = moved
         /\ \A y \in Node : y # n => r.label[y] = v.label[y] /\ r.fullNeighbors[y] = v.fullNeighbors[y]
         /\ r.tpPred = v.tpPred /\ r.ebEnd1 = v.ebEnd1 /\ r.fbEnd1 = v.fbEnd1 /\ r.fbEnd2 = v.fbEnd2
         /\ r.ebEnd2 = v.ebEnd2
BY DEF TempType, CountKept, FullWith

LEMMA SplitTempIs ==
  ASSUME NEW s \in TempType, NEW n \in Node, NEW moved \in Seq(Node),
         NEW r, r = SplitTemp(s, n, moved)
  PROVE  /\ r \in TempType /\ CountKept(s, r) /\ r.apexTPPred2 = s.apexTPPred2
         /\ r.label[n] = "Full" /\ r.fullNeighbors[n] = moved
         /\ DataElsewhere(s, r, n)
<1> DEFINE v == ClearedFor(s, n)
<1>1. /\ v \in TempType /\ CountKept(s, v) /\ v.apexTPPred2 = s.apexTPPred2
      /\ \A y \in Node : y # n => /\ v.label[y] = s.label[y] /\ v.fullNeighbors[y] = s.fullNeighbors[y]
                                  /\ v.tpPred[y] = s.tpPred[y] /\ v.ebEnd1[y] = s.ebEnd1[y]
                                  /\ v.fbEnd1[y] = s.fbEnd1[y] /\ v.fbEnd2[y] = s.fbEnd2[y]
                                  /\ v.ebEnd2[y] = s.ebEnd2[y]
  BY ClearedForIs
<1>2. r = FullWith(v, n, moved)
  BY DEF SplitTemp, FullWith
<1> HIDE DEF v
<1>3. /\ r \in TempType /\ CountKept(v, r) /\ r.apexTPPred2 = v.apexTPPred2
      /\ r.label[n] = "Full" /\ r.fullNeighbors[n] = moved
      /\ \A y \in Node : y # n => r.label[y] = v.label[y] /\ r.fullNeighbors[y] = v.fullNeighbors[y]
      /\ r.tpPred = v.tpPred /\ r.ebEnd1 = v.ebEnd1 /\ r.fbEnd1 = v.fbEnd1 /\ r.fbEnd2 = v.fbEnd2
      /\ r.ebEnd2 = v.ebEnd2
  BY ONLY <1>1, <1>2, n \in Node, moved \in Seq(Node), FullWithIs
<1>5. CountKept(s, r)
  BY <1>1, <1>3 DEF CountKept
<1> QED BY ONLY <1>1, <1>3, <1>5, n \in Node DEF DataElsewhere

EndsSwapped(s, r, x) ==
  /\ r \in TempType /\ CountKept(s, r) /\ r.apexTPPred2 = s.apexTPPred2
  /\ r.label = s.label /\ r.fullNeighbors = s.fullNeighbors /\ r.tpPred = s.tpPred
  /\ r.fbEnd1[x] = s.fbEnd2[x] /\ r.fbEnd2[x] = s.fbEnd1[x]
  /\ r.ebEnd1[x] = s.ebEnd2[x] /\ r.ebEnd2[x] = s.ebEnd1[x]
  /\ DataElsewhere(s, r, x)

LEMMA SwapEndsIs ==
  ASSUME NEW s \in TempType, NEW x \in Node, NEW r, r = SwapEnds(s, x)
  PROVE  EndsSwapped(s, r, x)
BY ZenonT(40) DEF TempType, SwapEnds, CountKept, EndsSwapped, DataElsewhere

LEMMA SetFullNeighIs ==
  ASSUME NEW s \in TempType, NEW w, NEW c \in Node, w.central = c, NEW y \in Ref,
         NEW r, r = SetFullNeigh(s, w, y)
  PROVE  /\ r \in TempType /\ CountKept(s, r) /\ r.apexTPPred2 = s.apexTPPred2
         /\ r.label = s.label /\ r.fullNeighbors = s.fullNeighbors /\ r.tpPred = s.tpPred
         /\ r.ebEnd1 = s.ebEnd1 /\ r.ebEnd2 = s.ebEnd2
         /\ w.slot = 1 => r.fbEnd2 = s.fbEnd2
         /\ \A z \in Node : z # c => r.fbEnd1[z] = s.fbEnd1[z] /\ r.fbEnd2[z] = s.fbEnd2[z]
<1>1. CASE w.slot = 1
  BY <1>1 DEF TempType, SetFullNeigh, CountKept
<1>2. CASE w.slot # 1
  BY <1>2 DEF TempType, SetFullNeigh, CountKept
<1> QED BY <1>1, <1>2

TPNeighReplaced(s, r, c, old, new, newFull, otherEnd) ==
  /\ r \in TempType /\ CountKept(s, r)
  /\ r.label = s.label /\ r.fullNeighbors = s.fullNeighbors
  /\ \A z \in Node : z # c => /\ r.tpPred[z] = s.tpPred[z] /\ r.fbEnd1[z] = s.fbEnd1[z]
                              /\ r.fbEnd2[z] = s.fbEnd2[z] /\ r.ebEnd1[z] = s.ebEnd1[z]
                              /\ r.ebEnd2[z] = s.ebEnd2[z]
  /\ old = s.tpPred[c] =>
       /\ r.tpPred[c] = new /\ r.ebEnd1[c] = new /\ r.fbEnd1[c] = newFull
       /\ r.apexTPPred2 = s.apexTPPred2
       /\ s.fbEnd2[c] # old => r.fbEnd2[c] = s.fbEnd2[c]
       /\ s.fbEnd2[c] = old /\ otherEnd # Nil => r.fbEnd2[c] = otherEnd
       /\ s.fbEnd2[c] = old /\ otherEnd = Nil => r.fbEnd2[c] = new
  /\ old # s.tpPred[c] =>
       /\ r.tpPred[c] = s.tpPred[c] /\ r.apexTPPred2 = new /\ r.fbEnd2[c] = newFull
       /\ r.ebEnd1[c] = s.ebEnd1[c]

LEMMA ReplaceTPNeighIs ==
  ASSUME NEW s \in TempType, NEW c \in Node, NEW old \in Node, NEW new \in Ref, NEW newFull \in Ref,
         NEW otherEnd \in Ref, NEW r, r = ReplaceTPNeigh(s, c, old, new, newFull, otherEnd)
  PROVE  TPNeighReplaced(s, r, c, old, new, newFull, otherEnd)
<1>1. CASE old = s.tpPred[c]
  <2>1. /\ r \in TempType /\ CountKept(s, r)
        /\ r.label = s.label /\ r.fullNeighbors = s.fullNeighbors /\ r.apexTPPred2 = s.apexTPPred2
        /\ r.tpPred = [s.tpPred EXCEPT ![c] = new] /\ r.ebEnd1 = [s.ebEnd1 EXCEPT ![c] = new]
        /\ r.fbEnd1 = [s.fbEnd1 EXCEPT ![c] = newFull] /\ r.ebEnd2 = s.ebEnd2
        /\ r.fbEnd2 = [s.fbEnd2 EXCEPT ![c] = IF @ # old THEN @
                                              ELSE IF otherEnd # Nil THEN otherEnd ELSE new]
    BY <1>1 DEF TempType, ReplaceTPNeigh, CountKept
  <2>2. /\ s.tpPred \in [Node -> Ref] /\ s.ebEnd1 \in [Node -> Ref] /\ s.fbEnd1 \in [Node -> Ref]
        /\ s.fbEnd2 \in [Node -> Ref] /\ s.ebEnd2 \in [Node -> Ref]
    BY DEF TempType
  <2> QED BY ONLY <1>1, <2>1, <2>2, c \in Node DEF TPNeighReplaced
<1>2. CASE old # s.tpPred[c]
  <2>1. /\ r \in TempType /\ CountKept(s, r)
        /\ r.label = s.label /\ r.fullNeighbors = s.fullNeighbors /\ r.apexTPPred2 = new
        /\ r.tpPred = s.tpPred /\ r.ebEnd1 = s.ebEnd1
        /\ r.fbEnd2 = [s.fbEnd2 EXCEPT ![c] = newFull] /\ r.ebEnd2 = [s.ebEnd2 EXCEPT ![c] = new]
        /\ r.fbEnd1 = [s.fbEnd1 EXCEPT ![c] = IF @ # old THEN @
                                              ELSE IF otherEnd # Nil THEN otherEnd ELSE newFull]
    BY <1>2 DEF TempType, ReplaceTPNeigh, CountKept
  <2>2. /\ s.tpPred \in [Node -> Ref] /\ s.ebEnd1 \in [Node -> Ref] /\ s.fbEnd1 \in [Node -> Ref]
        /\ s.fbEnd2 \in [Node -> Ref] /\ s.ebEnd2 \in [Node -> Ref]
    BY DEF TempType
  <2> QED BY ONLY <1>2, <2>1, <2>2, c \in Node DEF TPNeighReplaced
<1> QED BY <1>1, <1>2

\* What MergeDone makes of the temporary data.
MergedTemp(s, w, x, next, newFull, otherEnd) ==
  LET s1 == ReplaceTPNeigh(SetFullNeigh(s, w, newFull), w.central, x, next, newFull, otherEnd)
  IN  IF next = Nil THEN s1 ELSE ReplaceNeighbor(s1, next, x, w.central)

MergedTempFacts(s, r, w, c, x, next, newFull, otherEnd) ==
  /\ r \in TempType /\ CountKept(s, r)
  /\ r.label = s.label /\ r.fullNeighbors = s.fullNeighbors
  /\ \A y \in Node : y # c =>
       /\ y # next \/ s.tpPred[y] # x => r.tpPred[y] = s.tpPred[y]
       /\ y # next \/ s.fbEnd1[y] # x => r.fbEnd1[y] = s.fbEnd1[y]
       /\ y # next \/ s.fbEnd2[y] # x => r.fbEnd2[y] = s.fbEnd2[y]
  /\ x = s.tpPred[c] =>
       /\ r.tpPred[c] = next /\ r.ebEnd1[c] = next /\ r.fbEnd1[c] = newFull
       /\ r.apexTPPred2 = s.apexTPPred2
       /\ w.slot = 1 /\ s.fbEnd2[c] # x => r.fbEnd2[c] = s.fbEnd2[c]
       /\ w.slot = 1 /\ s.fbEnd2[c] = x /\ otherEnd # Nil => r.fbEnd2[c] = otherEnd
       /\ w.slot = 1 /\ s.fbEnd2[c] = x /\ otherEnd = Nil => r.fbEnd2[c] = next
  /\ x # s.tpPred[c] =>
       /\ r.tpPred[c] = s.tpPred[c] /\ r.apexTPPred2 = next /\ r.fbEnd2[c] = newFull
       /\ r.ebEnd1[c] = s.ebEnd1[c]

LEMMA MergedTempIs ==
  ASSUME NEW s \in TempType, NEW w, NEW c \in Node, w.central = c, NEW x \in Node, NEW next \in Ref,
         next # c, NEW newFull \in Ref, NEW otherEnd \in Ref,
         NEW r, r = MergedTemp(s, w, x, next, newFull, otherEnd)
  PROVE  MergedTempFacts(s, r, w, c, x, next, newFull, otherEnd)
<1> DEFINE s0 == SetFullNeigh(s, w, newFull)
           s1 == ReplaceTPNeigh(s0, c, x, next, newFull, otherEnd)
<1>1. /\ s0 \in TempType /\ CountKept(s, s0) /\ s0.apexTPPred2 = s.apexTPPred2
      /\ s0.label = s.label /\ s0.fullNeighbors = s.fullNeighbors /\ s0.tpPred = s.tpPred
      /\ s0.ebEnd1 = s.ebEnd1 /\ s0.ebEnd2 = s.ebEnd2
      /\ w.slot = 1 => s0.fbEnd2 = s.fbEnd2
      /\ \A z \in Node : z # c => s0.fbEnd1[z] = s.fbEnd1[z] /\ s0.fbEnd2[z] = s.fbEnd2[z]
  BY SetFullNeighIs
<1> HIDE DEF s0
<1>a. s1 = ReplaceTPNeigh(s0, c, x, next, newFull, otherEnd)
  OBVIOUS
<1> HIDE DEF s1
<1>2. /\ s1 \in TempType /\ CountKept(s0, s1)
      /\ s1.label = s0.label /\ s1.fullNeighbors = s0.fullNeighbors
      /\ \A z \in Node : z # c => /\ s1.tpPred[z] = s0.tpPred[z] /\ s1.fbEnd1[z] = s0.fbEnd1[z]
                                  /\ s1.fbEnd2[z] = s0.fbEnd2[z] /\ s1.ebEnd1[z] = s0.ebEnd1[z]
                                  /\ s1.ebEnd2[z] = s0.ebEnd2[z]
      /\ x = s0.tpPred[c] =>
           /\ s1.tpPred[c] = next /\ s1.ebEnd1[c] = next /\ s1.fbEnd1[c] = newFull
           /\ s1.apexTPPred2 = s0.apexTPPred2
           /\ s0.fbEnd2[c] # x => s1.fbEnd2[c] = s0.fbEnd2[c]
           /\ s0.fbEnd2[c] = x /\ otherEnd # Nil => s1.fbEnd2[c] = otherEnd
           /\ s0.fbEnd2[c] = x /\ otherEnd = Nil => s1.fbEnd2[c] = next
      /\ x # s0.tpPred[c] =>
           /\ s1.tpPred[c] = s0.tpPred[c] /\ s1.apexTPPred2 = next /\ s1.fbEnd2[c] = newFull
           /\ s1.ebEnd1[c] = s0.ebEnd1[c]
  <2>1. TPNeighReplaced(s0, s1, c, x, next, newFull, otherEnd)
    BY <1>1, <1>a, ReplaceTPNeighIs
  <2> QED BY ONLY <2>1 DEF TPNeighReplaced
<1>3. r = IF next = Nil THEN s1 ELSE ReplaceNeighbor(s1, next, x, c)
  BY DEF MergedTemp, s0, s1
<1>4. CASE next = Nil
  <2>1. r = s1
    BY <1>3, <1>4
  <2> QED BY <1>1, <1>2, <2>1 DEF CountKept, MergedTempFacts
<1>5. CASE next # Nil
  <2>1. r = ReplaceNeighbor(s1, next, x, c) /\ next \in Node
    BY <1>3, <1>5 DEF Ref
  <2>2. c \in Ref
    BY DEF Ref
  <2>3. /\ r \in TempType /\ CountKept(s1, r)
        /\ r.label = s1.label /\ r.fullNeighbors = s1.fullNeighbors /\ r.apexTPPred2 = s1.apexTPPred2
        /\ \A y \in Node : y # next => /\ r.tpPred[y] = s1.tpPred[y] /\ r.ebEnd1[y] = s1.ebEnd1[y]
                                     /\ r.fbEnd1[y] = s1.fbEnd1[y] /\ r.fbEnd2[y] = s1.fbEnd2[y]
                                     /\ r.ebEnd2[y] = s1.ebEnd2[y]
        /\ s1.tpPred[next] # x => r.tpPred[next] = s1.tpPred[next]
        /\ s1.fbEnd1[next] # x => r.fbEnd1[next] = s1.fbEnd1[next]
        /\ s1.fbEnd2[next] # x => r.fbEnd2[next] = s1.fbEnd2[next]
    BY <1>2, <2>1, <2>2, ReplaceNeighborIs
  <2>4. CountKept(s, r)
    BY <1>1, <1>2, <2>3 DEF CountKept
  <2>5. \A y \in Node : y # c =>
              /\ y # next \/ s.tpPred[y] # x => r.tpPred[y] = s.tpPred[y]
              /\ y # next \/ s.fbEnd1[y] # x => r.fbEnd1[y] = s.fbEnd1[y]
              /\ y # next \/ s.fbEnd2[y] # x => r.fbEnd2[y] = s.fbEnd2[y]
    BY ONLY <1>1, <1>2, <2>3, <2>1, next # c
  <2>6. /\ r.tpPred[c] = s1.tpPred[c] /\ r.ebEnd1[c] = s1.ebEnd1[c] /\ r.fbEnd1[c] = s1.fbEnd1[c]
        /\ r.fbEnd2[c] = s1.fbEnd2[c] /\ r.apexTPPred2 = s1.apexTPPred2
    BY ONLY <2>3, next # c, c \in Node
  <2>7. /\ r.label = s.label /\ r.fullNeighbors = s.fullNeighbors /\ r \in TempType
    BY ONLY <1>1, <1>2, <2>3
  <2> QED BY ONLY <2>4, <2>5, <2>6, <2>7, <1>1, <1>2 DEF MergedTempFacts
<1> QED BY <1>4, <1>5

\* The invariant of the merges.
ArmRight(t, s, w) ==
  LET c == w.central
  IN  \/ w.tpNeigh = s.tpPred[c] /\ w.tpNeigh # Nil /\ w.slot = 1
      \/ w.tpNeigh = Nil /\ s.tpPred[c] = Nil /\ (s.apexTPPred2 # Nil => s.ebEnd1[c] = Nil)
      \/ w.tpNeigh = s.apexTPPred2 /\ w.tpNeigh # Nil /\ s.tpPred[c] = Nil /\ w.slot = 2

EndsRight(t, s, c) ==
  /\ s.tpPred[c] # Nil => /\ s.fbEnd1[c] \in Node /\ Adjacent(t, c, s.fbEnd1[c])
                          /\ s.fbEnd1[c] # s.tpPred[c] /\ s.ebEnd1[c] = s.tpPred[c]
  /\ s.apexTPPred2 # Nil => /\ s.fbEnd2[c] \in Node /\ Adjacent(t, c, s.fbEnd2[c])
                            /\ s.fbEnd2[c] # s.apexTPPred2

MergeRight(t, s, w) ==
  LET c == w.central
  IN  /\ Sturdy(t) /\ s \in TempType
      /\ c \in InUse(t) /\ t.type[c] = "C"
      /\ \E Q : PathSet(t, s, c, Q) /\ s.terminalPathLength = 1 + w.merged + Cardinality(Q)
      /\ ArmRight(t, s, w) /\ EndsRight(t, s, c)

\* The merge of x, the first node of the arm that w has taken up.
Merging(t, s, w, c, x, fn, next, Q) ==
  /\ Forest(t) /\ s \in TempType /\ PathSet(t, s, c, Q) /\ s.terminalPathLength = 1 + w.merged + Cardinality(Q)
  /\ w.central = c /\ c \in Node /\ c \in Inner /\ c \in InUse(t) /\ t.type[c] = "C"
  /\ x \in Q /\ t.parent[x] = c /\ x \in Node /\ x \in Inner /\ x \in InUse(t) /\ t.type[x] \in {"P", "C"}
  /\ fn \in Node /\ fn # x /\ Adjacent(t, c, fn)
  /\ next = s.tpPred[x] /\ next \in Ref /\ next # c
  /\ next # Nil => next \in Q /\ t.parent[next] = x /\ next # fn /\ next \in InUse(t)
  /\ next = Nil => s.label[x] = "Partial"
  /\ \/ x = s.tpPred[c] /\ w.slot = 1
     \/ x = s.apexTPPred2 /\ s.tpPred[c] = Nil /\ w.slot = 2
  /\ EndsRight(t, s, c)
  /\ s.label[x] = "Partial" =>
       /\ s.fullNeighbors[x] \in Seq(Node) /\ s.fullNeighbors[x] # <<>> /\ Distinct(s.fullNeighbors[x])
       /\ ToSet(s.fullNeighbors[x]) \subseteq Kids(t, x) \ Q
       /\ t.type[x] = "C" => {s.fbEnd1[x], s.fbEnd2[x]} \subseteq ToSet(s.fullNeighbors[x])

LEMMA MergingIs ==
  ASSUME NEW t, NEW s, NEW w, MergeRight(t, s, w), NEW c, c = w.central, NEW x, x = w.tpNeigh, x # Nil,
         NEW fn, fn = FullNeigh(s, w), NEW next, next = s.tpPred[x]
  PROVE  \E Q : Merging(t, s, w, c, x, fn, next, Q)
<1>1. /\ Sturdy(t) /\ s \in TempType /\ c \in InUse(t) /\ t.type[c] = "C"
      /\ ArmRight(t, s, w) /\ EndsRight(t, s, c)
  BY DEF MergeRight
<1>2. PICK Q : PathSet(t, s, c, Q) /\ s.terminalPathLength = 1 + w.merged + Cardinality(Q)
  BY DEF MergeRight
<1>3. Forest(t)
  BY <1>1 DEF Sturdy
<1>4. c \in Node /\ c \in Inner
  BY <1>1, SturdyInner, "C" \in {"P", "C"}
<1>5. /\ x \in Q /\ t.parent[x] = c /\ fn \in Node /\ fn # x /\ Adjacent(t, c, fn)
      /\ \/ x = s.tpPred[c] /\ w.slot = 1
         \/ x = s.apexTPPred2 /\ s.tpPred[c] = Nil /\ w.slot = 2
  BY <1>1, <1>2 DEF ArmRight, EndsRight, PathSet, FullNeigh
<1>6. Passed(t, s, x, c, Q) /\ Q \subseteq Node /\ c \notin Q
  BY <1>2, <1>5 DEF PathSet
<1>7. x \in Node /\ x \in Inner /\ x \in InUse(t)
  BY <1>6, <1>5 DEF Passed
<1>8. t.type[x] \in {"P", "C"}
  BY <1>1, <1>7, SturdyInner
<1>9. next \in Ref
  BY <1>1, <1>7 DEF TempType
<1>10. next # Nil => next \in Q /\ t.parent[next] = x /\ next # fn /\ next \in InUse(t)
  <2> SUFFICES ASSUME next # Nil PROVE next \in Q /\ t.parent[next] = x /\ next # fn /\ next \in InUse(t)
    OBVIOUS
  <2>1. next \in Q /\ t.parent[next] = x
    BY <1>6 DEF Passed
  <2>2. next \in InUse(t)
    BY <2>1, <1>2 DEF PathSet, Passed
  <2>3. next # fn
    <3>1. c # Nil /\ x \in Node /\ next \in Node /\ t.type[x] # "leaf" /\ t.type[c] # "leaf"
      BY <1>2, <1>4, <1>7, <1>8, <1>1, <2>1, NodesAssumption DEF PathSet, Node
    <3>2. next \in Kids(t, x)
      BY <2>1, <3>1, <1>3 DEF Forest, Arranged
    <3>3. OnTheWay(t, x, c, fn, {}, next)
      BY <1>3, <1>7, <1>5, <3>1, <3>2 DEF OnTheWay
    <3> QED BY <3>2, <3>3, WayFacts
  <2> QED BY <2>1, <2>2, <2>3
<1>11. next # c
  BY <1>9, <1>4, <1>6, <1>10, NodesAssumption DEF Node
<1>12. /\ next = Nil => s.label[x] = "Partial"
       /\ s.label[x] = "Partial" =>
            /\ s.fullNeighbors[x] \in Seq(Node) /\ s.fullNeighbors[x] # <<>> /\ Distinct(s.fullNeighbors[x])
            /\ ToSet(s.fullNeighbors[x]) \subseteq Kids(t, x) \ Q
            /\ t.type[x] = "C" => {s.fbEnd1[x], s.fbEnd2[x]} \subseteq ToSet(s.fullNeighbors[x])
  BY <1>6 DEF Passed
<1> QED BY <1>1, <1>2, <1>3, <1>4, <1>5, <1>7, <1>8, <1>9, <1>10, <1>11, <1>12 DEF Merging

\* The tree u and the temporary data s1 between the two halves of a merge.
HalfMerged(t, s, c, x, next, Q, u, n, s1) ==
  /\ Sturdy(u) /\ LeavesAlone(t, u, x, n) /\ (n \notin InUse(t) \/ n \in Kids(t, x) \ Q)
  /\ next # Nil => u.parent[next] = c
  /\ s1 \in TempType /\ s1.tpPred[c] = s.tpPred[c] /\ s1.apexTPPred2 = s.apexTPPred2
  /\ s1.ebEnd1[c] = s.ebEnd1[c] /\ s1.fbEnd1[c] = s.fbEnd1[c] /\ s1.fbEnd2[c] = s.fbEnd2[c]
  /\ DataKept(t, s, s1, Q \ {x})

NewEnds(t, s, c, x, next, u, newFull, otherEnd) ==
  /\ newFull \in Node /\ Adjacent(u, c, newFull) /\ newFull # next
  /\ otherEnd \in Ref /\ (otherEnd = Nil <=> s.label[x] # "Partial")
  /\ otherEnd # Nil => Adjacent(u, c, otherEnd) /\ otherEnd # s.apexTPPred2

LEMMA MergingFacts ==
  ASSUME NEW t, NEW s, NEW w, NEW c, NEW x, NEW fn, NEW next, NEW Q,
         Merging(t, s, w, c, x, fn, next, Q)
  PROVE  /\ c # x /\ c # Nil /\ x # Nil /\ t.parent[c] # x /\ fn \notin Kids(t, x)
         /\ next # Nil => next \in Kids(t, x)
         /\ \A y \in Kids(t, x) : y \in Node /\ t.parent[y] = x /\ y \in InUse(t)
         /\ \A y \in Node : t.parent[y] = x => y \in Kids(t, x)
<1>1. /\ Forest(t) /\ c \in Node /\ x \in Node /\ t.parent[x] = c /\ next \in Ref
      /\ next # Nil => t.parent[next] = x
      /\ x \in InUse(t) /\ t.type[x] \in {"P", "C"} /\ t.type[c] = "C"
      /\ fn \in Node /\ fn # x /\ Adjacent(t, c, fn)
  BY DEF Merging
<1>2. c # x /\ c # Nil /\ x # Nil /\ t.parent[c] # x
  BY <1>1, InUseFacts
<1>3. \A y \in Node : t.parent[y] = x <=> y \in Kids(t, x)
  BY <1>1 DEF Forest, Arranged
<1>4. \A y \in Kids(t, x) : y \in Node /\ t.parent[y] = x /\ y \in InUse(t)
  BY <1>1, <1>2, <1>3, ForestFacts DEF InUse
<1>5. next # Nil => next \in Kids(t, x)
  BY <1>1, <1>3 DEF Ref
<1>6. fn \notin Kids(t, x)
  <2>1. SUFFICES ASSUME fn \in Kids(t, x) PROVE FALSE
    OBVIOUS
  <2>2. t.parent[fn] = x
    BY <2>1, <1>4
  <2>3. t.parent[c] = fn
    BY <2>2, <1>1, <1>2 DEF Adjacent
  <2>4. t.parent \in Parents /\ Acyclic(t.parent)
    BY <1>1 DEF Forest, ForestType
  <2>5. PICK y \in {c, fn, x} : t.parent[y] \notin {c, fn, x}
    BY <2>4, <1>1 DEF Acyclic
  <2> QED BY <2>2, <2>3, <2>5, <1>1
<1> QED BY <1>2, <1>3, <1>4, <1>5, <1>6

\* The locals after a merge.
Advances(w, w2, c, next) ==
  /\ w2.central = c /\ w2.tpNeigh = next /\ w2.slot = w.slot
  /\ w2.merged = w.merged + 1 /\ w.merged \in Nat

LEMMA ArmAdvanced ==
  ASSUME NEW t, NEW s, NEW w, NEW c, NEW x, NEW fn, NEW next, NEW Q,
         Merging(t, s, w, c, x, fn, next, Q),
         NEW u, NEW n, NEW s1, HalfMerged(t, s, c, x, next, Q, u, n, s1),
         NEW newFull, NEW otherEnd, NewEnds(t, s, c, x, next, u, newFull, otherEnd),
         NEW r, r = MergedTemp(s1, w, x, next, newFull, otherEnd),
         CountKept(s, s1), NEW w2, Advances(w, w2, c, next)
  PROVE  MergeRight(u, r, w2) /\ CountKept(s1, r)
<1>1. /\ c # x /\ c # Nil /\ x # Nil /\ t.parent[c] # x
      /\ next # Nil => next \in Kids(t, x)
      /\ \A y \in Kids(t, x) : y \in Node /\ t.parent[y] = x /\ y \in InUse(t)
      /\ \A y \in Node : t.parent[y] = x => y \in Kids(t, x)
  BY MergingFacts
<1>2. /\ Forest(t) /\ PathSet(t, s, c, Q) /\ w.central = c /\ c \in Node /\ c \in InUse(t) /\ t.type[c] = "C"
      /\ x \in Q /\ t.parent[x] = c /\ x \in Node
      /\ next = s.tpPred[x] /\ next \in Ref /\ next # c
      /\ next # Nil => next \in Q /\ t.parent[next] = x
      /\ next = Nil => s.label[x] = "Partial"
      /\ \/ x = s.tpPred[c] /\ w.slot = 1
         \/ x = s.apexTPPred2 /\ s.tpPred[c] = Nil /\ w.slot = 2
      /\ EndsRight(t, s, c)
  BY DEF Merging
<1>3. /\ Sturdy(u) /\ LeavesAlone(t, u, x, n) /\ (n \notin InUse(t) \/ n \in Kids(t, x) \ Q)
      /\ next # Nil => u.parent[next] = c
      /\ s1 \in TempType /\ s1.tpPred[c] = s.tpPred[c] /\ s1.apexTPPred2 = s.apexTPPred2
      /\ s1.ebEnd1[c] = s.ebEnd1[c] /\ s1.fbEnd1[c] = s.fbEnd1[c] /\ s1.fbEnd2[c] = s.fbEnd2[c]
      /\ DataKept(t, s, s1, Q \ {x})
  BY DEF HalfMerged
<1>4. /\ newFull \in Node /\ Adjacent(u, c, newFull) /\ newFull # next
      /\ otherEnd \in Ref /\ (otherEnd = Nil <=> s.label[x] # "Partial")
      /\ otherEnd # Nil => Adjacent(u, c, otherEnd) /\ otherEnd # s.apexTPPred2
  BY DEF NewEnds
<1>5. newFull \in Ref
  BY <1>4 DEF Ref
<1>6. /\ r \in TempType /\ CountKept(s1, r)
      /\ r.label = s1.label /\ r.fullNeighbors = s1.fullNeighbors
      /\ \A y \in Node : y # c =>
           /\ y # next \/ s1.tpPred[y] # x => r.tpPred[y] = s1.tpPred[y]
           /\ y # next \/ s1.fbEnd1[y] # x => r.fbEnd1[y] = s1.fbEnd1[y]
           /\ y # next \/ s1.fbEnd2[y] # x => r.fbEnd2[y] = s1.fbEnd2[y]
      /\ x = s1.tpPred[c] =>
           /\ r.tpPred[c] = next /\ r.ebEnd1[c] = next /\ r.fbEnd1[c] = newFull
           /\ r.apexTPPred2 = s1.apexTPPred2
           /\ w.slot = 1 /\ s1.fbEnd2[c] # x => r.fbEnd2[c] = s1.fbEnd2[c]
           /\ w.slot = 1 /\ s1.fbEnd2[c] = x /\ otherEnd # Nil => r.fbEnd2[c] = otherEnd
           /\ w.slot = 1 /\ s1.fbEnd2[c] = x /\ otherEnd = Nil => r.fbEnd2[c] = next
      /\ x # s1.tpPred[c] =>
           /\ r.tpPred[c] = s1.tpPred[c] /\ r.apexTPPred2 = next /\ r.fbEnd2[c] = newFull
           /\ r.ebEnd1[c] = s1.ebEnd1[c]
  <2>1. MergedTempFacts(s1, r, w, c, x, next, newFull, otherEnd)
    BY <1>2, <1>3, <1>4, <1>5, MergedTempIs
  <2> QED BY ONLY <2>1 DEF MergedTempFacts
<1>7. \A y \in Q : y \in Node /\ y # c
  BY <1>2 DEF PathSet
<1>8. next # Nil => s.tpPred[next] # x
  <2> SUFFICES ASSUME next # Nil, s.tpPred[next] = x PROVE FALSE
    OBVIOUS
  <2>1. t.parent[x] = next
    BY <1>2, <1>1 DEF PathSet, Passed
  <2> QED BY <2>1, <1>2
<1>9. next # Nil /\ t.type[next] = "C" /\ s.label[next] = "Partial" => s.fbEnd1[next] # x /\ s.fbEnd2[next] # x
  <2> SUFFICES ASSUME next # Nil, t.type[next] = "C", s.label[next] = "Partial", x \in {s.fbEnd1[next], s.fbEnd2[next]}
               PROVE  FALSE
    OBVIOUS
  <2>1. x \in Kids(t, next) /\ next \in Node
    BY <1>2, <1>7 DEF PathSet, Passed
  <2>2. t.parent[x] = next
    BY <2>1, <1>2, ForestFacts
  <2> QED BY <2>2, <1>2
<1>10. DataKept(t, s, r, Q \ {x})
  <2> SUFFICES ASSUME NEW y \in Q \ {x}
               PROVE  /\ r.tpPred[y] = s.tpPred[y] /\ r.label[y] = s.label[y]
                      /\ r.fullNeighbors[y] = s.fullNeighbors[y]
                      /\ t.type[y] = "C" /\ s.label[y] = "Partial" =>
                           r.fbEnd1[y] = s.fbEnd1[y] /\ r.fbEnd2[y] = s.fbEnd2[y]
    BY DEF DataKept
  <2>1. /\ s1.tpPred[y] = s.tpPred[y] /\ s1.label[y] = s.label[y]
        /\ s1.fullNeighbors[y] = s.fullNeighbors[y]
        /\ t.type[y] = "C" /\ s.label[y] = "Partial" =>
             s1.fbEnd1[y] = s.fbEnd1[y] /\ s1.fbEnd2[y] = s.fbEnd2[y]
    BY <1>3 DEF DataKept
  <2>2. y \in Node /\ y # c /\ y # Nil
    BY <1>7, NodesAssumption DEF Node
  <2> QED BY ONLY <2>1, <2>2, <1>6, <1>8, <1>9
<1>11. Advanced(s, r, c, x)
  BY <1>2, <1>3, <1>6, <1>1 DEF Advanced
<1>12. PathSet(u, r, c, Q \ {x})
  <2>1. Forest(u)
    BY <1>3 DEF Sturdy
  <2>2. s.tpPred[x] # Nil => u.parent[s.tpPred[x]] = c
    BY <1>2, <1>3
  <2> QED BY ONLY <1>2, <1>3, <1>10, <1>11, <2>1, <2>2, PathKept
<1>13. \A e \in Node : e # x /\ Adjacent(t, c, e) => Adjacent(u, c, e)
  <2>1. \A y \in Node : y # x /\ y # n /\ t.parent[y] # x => u.parent[y] = t.parent[y]
    BY <1>3 DEF LeavesAlone
  <2>2. n \in Node => t.parent[n] # c /\ n # c
    <3>1. n \in Node /\ n \notin InUse(t) => t.parent[n] = Nil
      BY <1>2, ForestFacts
    <3> QED BY <3>1, <1>1, <1>2, <1>3
  <2> QED BY <2>1, <2>2, <1>1, <1>2 DEF Adjacent
<1>14. c \in InUse(u) /\ u.type[c] = "C"
  <2>1. c # n
    BY <1>3, <1>1, <1>2
  <2>2. u.type[c] = t.type[c]
    BY <2>1, <1>1, <1>2, <1>3 DEF LeavesAlone
  <2> QED BY <2>2, <1>2 DEF InUse
<1>18. /\ w2.central = c /\ w2.tpNeigh = next /\ w2.slot = w.slot
       /\ w2.merged = w.merged + 1 /\ w.merged \in Nat
  BY DEF Advances
<1>15. ArmRight(u, r, w2)
  BY <1>18, <1>6, <1>3, <1>2, <1>1 DEF ArmRight
<1>16. EndsRight(u, r, c)
  <2>1. ASSUME r.tpPred[c] # Nil
        PROVE  /\ r.fbEnd1[c] \in Node /\ Adjacent(u, c, r.fbEnd1[c])
               /\ r.fbEnd1[c] # r.tpPred[c] /\ r.ebEnd1[c] = r.tpPred[c]
    <3>1. x = s1.tpPred[c]
      BY <2>1, <1>6, <1>3, <1>2, <1>1
    <3> QED BY <3>1, <1>6, <1>4
  <2>2. ASSUME r.apexTPPred2 # Nil
        PROVE  /\ r.fbEnd2[c] \in Node /\ Adjacent(u, c, r.fbEnd2[c]) /\ r.fbEnd2[c] # r.apexTPPred2
    <3>1. CASE x # s1.tpPred[c]
      BY <3>1, <1>6, <1>4
    <3>2. CASE x = s1.tpPred[c]
      <4>1. w.slot = 1 /\ r.apexTPPred2 = s.apexTPPred2
        BY ZenonT(40), <3>2, <1>6, <1>3, <1>2, <1>1
      <4>2. CASE s.fbEnd2[c] # x
        <5>1. r.fbEnd2[c] = s.fbEnd2[c]
          BY <4>1, <4>2, <3>2, <1>6, <1>3
        <5>2. /\ s.fbEnd2[c] \in Node /\ Adjacent(t, c, s.fbEnd2[c]) /\ s.fbEnd2[c] # s.apexTPPred2
          BY <1>2, <2>2, <4>1 DEF EndsRight
        <5> QED BY <5>1, <5>2, <4>1, <4>2, <1>13
      <4>3. CASE s.fbEnd2[c] = x /\ otherEnd # Nil
        <5>1. r.fbEnd2[c] = otherEnd
          BY <4>1, <4>3, <3>2, <1>6, <1>3
        <5> QED BY <5>1, <4>1, <4>3, <1>4 DEF Ref
      <4>4. CASE s.fbEnd2[c] = x /\ otherEnd = Nil
        <5>1. r.fbEnd2[c] = next /\ next # Nil
          BY ZenonT(40), <4>1, <4>4, <3>2, <1>6, <1>3, <1>4, <1>2
        <5>2. u.parent[next] = c /\ next \in Node /\ t.parent[next] = x
          BY <5>1, <1>3, <1>1
        <5>3. t.parent[s.apexTPPred2] = c
          BY <1>2, <2>2, <4>1 DEF PathSet
        <5> QED BY SMTT(40), <5>1, <5>2, <5>3, <4>1, <1>1 DEF Adjacent
      <4> QED BY SMTT(40), <4>2, <4>3, <4>4
    <3> QED BY <3>1, <3>2
  <2> QED BY <2>1, <2>2 DEF EndsRight
<1>17. r.terminalPathLength = 1 + w2.merged + Cardinality(Q \ {x})
  <2>1. s.terminalPathLength = 1 + w.merged + Cardinality(Q) /\ Q \subseteq Node
    BY DEF Merging, PathSet
  <2>2. r.terminalPathLength = s.terminalPathLength
    BY <1>6 DEF CountKept
  <2>3. IsFiniteSet(Q) /\ Cardinality(Q) \in Nat
    BY <2>1, NodeIsFinite, FS_Subset, FS_CardinalityType
  <2>4. Cardinality(Q \ {x}) = Cardinality(Q) - 1
    BY <1>2, <2>3, FS_RemoveElement
  <2> QED BY <2>1, <2>2, <2>3, <2>4, <1>18
<1> QED BY <1>3, <1>6, <1>12, <1>14, <1>15, <1>16, <1>17, <1>18 DEF MergeRight

\* A C-node on the path.
LEMMA CNodeHalfMerged ==
  ASSUME NEW t, NEW s, NEW w, NEW c, NEW x, NEW fn, NEW next, NEW Q,
         Merging(t, s, w, c, x, fn, next, Q), Sturdy(t), t.type[x] = "C", NEW reverse,
         NEW v, v = IF reverse THEN [t EXCEPT !.kids[x] = Reverse(@)] ELSE t,
         NEW u, u = DestroyNode(MergeIntoParent(v, x, fn), x),
         NEW s1, s1 \in {s, SwapEnds(s, x)},
         NEW newFull, newFull = IF s.label[x] = "Partial" THEN s1.fbEnd2[x] ELSE fn,
         NEW otherEnd, otherEnd = IF s.label[x] = "Partial" THEN s1.fbEnd1[x] ELSE Nil
  PROVE  /\ HalfMerged(t, s, c, x, next, Q, u, Nil, s1) /\ CountKept(s, s1)
         /\ NewEnds(t, s, c, x, next, u, newFull, otherEnd)
<1>1. /\ c # x /\ c # Nil /\ x # Nil /\ t.parent[c] # x /\ fn \notin Kids(t, x)
      /\ next # Nil => next \in Kids(t, x)
      /\ \A y \in Kids(t, x) : y \in Node /\ t.parent[y] = x /\ y \in InUse(t)
      /\ \A y \in Node : t.parent[y] = x => y \in Kids(t, x)
  BY MergingFacts
<1>2. /\ Forest(t) /\ s \in TempType /\ PathSet(t, s, c, Q) /\ c \in Node /\ c \in Inner /\ t.type[c] = "C"
      /\ x \in Q /\ t.parent[x] = c /\ x \in Node /\ x \in Inner /\ x \in InUse(t)
      /\ fn \in Node /\ fn # x /\ Adjacent(t, c, fn) /\ next \in Ref
      /\ next # Nil => next \in Q /\ t.parent[next] = x /\ next # fn
      /\ s.label[x] = "Partial" =>
           /\ ToSet(s.fullNeighbors[x]) \subseteq Kids(t, x) \ Q
           /\ {s.fbEnd1[x], s.fbEnd2[x]} \subseteq ToSet(s.fullNeighbors[x])
  BY DEF Merging
<1>3. Flattened(t, u, x, c) /\ Forest(u) /\ Tops(u) = Tops(t)
  BY <1>1, <1>2, FlattenedIs
<1>4. Sturdy(u)
  BY <1>2, <1>3, FlattenedSturdy
<1>5. \A y \in Node : y # x => /\ u.type[y] = t.type[y]
                               /\ u.parent[y] = IF t.parent[y] = x THEN c ELSE t.parent[y]
  BY <1>3 DEF Flattened
<1>6. LeavesAlone(t, u, x, Nil) /\ Nil \notin InUse(t)
  BY <1>5, NodesAssumption DEF LeavesAlone, InUse, Node
<1>7. \A y \in Kids(t, x) : u.parent[y] = c /\ y # x
  BY <1>5, <1>1, <1>2
<1>8. /\ s1 \in TempType /\ CountKept(s, s1) /\ s1.apexTPPred2 = s.apexTPPred2
      /\ s1.label = s.label /\ s1.fullNeighbors = s.fullNeighbors /\ s1.tpPred = s.tpPred
      /\ \A y \in Node : y # x => /\ s1.ebEnd1[y] = s.ebEnd1[y] /\ s1.fbEnd1[y] = s.fbEnd1[y]
                                  /\ s1.fbEnd2[y] = s.fbEnd2[y]
      /\ {s1.fbEnd1[x], s1.fbEnd2[x]} = {s.fbEnd1[x], s.fbEnd2[x]}
  <2>1. CASE s1 = s
    BY <2>1, <1>2 DEF CountKept
  <2>2. CASE s1 = SwapEnds(s, x)
    <3>1. EndsSwapped(s, s1, x)
      BY ONLY <2>2, <1>2, SwapEndsIs
    <3> QED BY ONLY <3>1 DEF EndsSwapped, DataElsewhere
  <2> QED BY <2>1, <2>2
<1>9. DataKept(t, s, s1, Q \ {x})
  BY <1>8, <1>2 DEF DataKept, PathSet
<1>10. HalfMerged(t, s, c, x, next, Q, u, Nil, s1)
  BY <1>1, <1>2, <1>4, <1>6, <1>7, <1>8, <1>9 DEF HalfMerged
<1>11. NewEnds(t, s, c, x, next, u, newFull, otherEnd)
  <2>1. CASE s.label[x] = "Partial"
    <3>1. newFull \in Kids(t, x) \ Q /\ otherEnd \in Kids(t, x) \ Q
      BY <2>1, <1>2, <1>8
    <3>2. s.apexTPPred2 # otherEnd
      <4>1. s.apexTPPred2 # Nil => t.parent[s.apexTPPred2] = c
        BY ONLY <1>2 DEF PathSet
      <4>2. otherEnd \in Node /\ t.parent[otherEnd] = x
        BY ONLY <3>1, <1>1
      <4> QED BY ONLY <4>1, <4>2, <1>1, NodesAssumption DEF Node
    <3>3. newFull # next /\ otherEnd # Nil /\ newFull # Nil
      BY <3>1, <1>1, <1>2, NodesAssumption DEF Node
    <3> QED BY <2>1, <3>1, <3>2, <3>3, <1>1, <1>7 DEF NewEnds, Adjacent, Ref
  <2>2. CASE s.label[x] # "Partial"
    <3>1. newFull = fn /\ otherEnd = Nil
      BY <2>2
    <3>2. Adjacent(u, c, fn)
      BY <1>5, <1>2, <1>1 DEF Adjacent
    <3>3. fn # next
      BY <1>2, NodesAssumption DEF Node
    <3> QED BY <2>2, <3>1, <3>2, <3>3, <1>2 DEF NewEnds, Ref
  <2> QED BY <2>1, <2>2
<1> QED BY <1>8, <1>10, <1>11

\* A P-node on the path.
FullOf(s, x) == IF s.label[x] = "Partial" THEN ToSet(s.fullNeighbors[x]) ELSE {}

\* Its full neighbors have moved out.
FullOut(t, s, x, c, fn, Q, v, n, s1) ==
  /\ MovedOut(t, v, x, c, n, Nil, FullOf(s, x))
  /\ n # Nil => n \in Node /\ Adjacent(v, c, n) /\ (n \notin InUse(t) \/ FullOf(s, x) = {n})
  /\ n = Nil <=> s.label[x] # "Partial"
  /\ n = Nil => Adjacent(v, c, fn)
  /\ s1 \in TempType /\ CountKept(s, s1) /\ s1.apexTPPred2 = s.apexTPPred2
  /\ \A y \in Node : y \in InUse(t) =>
       /\ s1.label[y] = s.label[y] /\ s1.fullNeighbors[y] = s.fullNeighbors[y]
       /\ s1.tpPred[y] = s.tpPred[y] /\ s1.ebEnd1[y] = s.ebEnd1[y]
       /\ s1.fbEnd1[y] = s.fbEnd1[y] /\ s1.fbEnd2[y] = s.fbEnd2[y]

LEMMA MergingOnTheWay ==
  ASSUME NEW t, NEW s, NEW w, NEW c, NEW x, NEW fn, NEW next, NEW Q,
         Merging(t, s, w, c, x, fn, next, Q)
  PROVE  OnTheWay(t, x, c, fn, FullOf(s, x), next)
<1>1. /\ c # x /\ c # Nil /\ next # Nil => next \in Kids(t, x)
  BY MergingFacts
<1>2. /\ Forest(t) /\ x \in InUse(t) /\ t.type[x] # "leaf" /\ c = t.parent[x] /\ t.type[c] # "leaf"
      /\ fn \in Node /\ fn # x /\ Adjacent(t, c, fn)
      /\ next # Nil => next \in Q
      /\ next = Nil => s.label[x] = "Partial"
      /\ s.label[x] = "Partial" =>
           /\ s.fullNeighbors[x] \in Seq(Node) /\ s.fullNeighbors[x] # <<>>
           /\ ToSet(s.fullNeighbors[x]) \subseteq Kids(t, x) \ Q
  BY DEF Merging
<1>3. s.label[x] = "Partial" => ToSet(s.fullNeighbors[x]) # {}
  <2> SUFFICES ASSUME s.label[x] = "Partial" PROVE ToSet(s.fullNeighbors[x]) # {}
    OBVIOUS
  <2>1. s.fullNeighbors[x] \in Seq(Node) /\ s.fullNeighbors[x] # <<>>
    BY <1>2
  <2>2. 1 \in DOMAIN s.fullNeighbors[x]
    BY <2>1
  <2> QED BY <2>2 DEF ToSet
<1>4. c # Nil /\ (next # Nil => next \in Kids(t, x))
  BY MergingFacts
<1> QED BY <1>2, <1>3, <1>4 DEF OnTheWay, FullOf

LEMMA FullMovesOut ==
  ASSUME NEW t, NEW s, NEW w, NEW c, NEW x, NEW fn, NEW next, NEW Q,
         Merging(t, s, w, c, x, fn, next, Q), s.label[x] = "Partial",
         \E y \in Inner : t.type[y] = "free",
         NEW skip, skip = FALSE, NEW r, r = SplitOffFullPNode(t, s, x, skip),
         NEW v, v = InsertBetween(r.t, r.node, x, fn)
  PROVE  FullOut(t, s, x, c, fn, Q, v, r.node, r.s)
<1> DEFINE f == s.fullNeighbors[x]
           M == ToSet(f)
<1>1. OnTheWay(t, x, c, fn, FullOf(s, x), next) /\ FullOf(s, x) = M
  BY MergingOnTheWay DEF FullOf
<1>2. /\ Forest(t) /\ s \in TempType /\ x \in InUse(t) /\ t.type[x] # "leaf" /\ c \in InUse(t)
      /\ f \in Seq(Node) /\ f # <<>> /\ Distinct(f) /\ ToSet(f) \subseteq Kids(t, x) \ Q
  BY DEF Merging
<1>3. MovedOff(t, s, x, skip) = M
  BY DEF MovedOff
<1> HIDE DEF f, M
<1>4. /\ SplitFrom(t, r.t, x, r.node, M)
      /\ \/ Len(f) = 1 /\ r.s = s /\ M = {r.node}
         \/ /\ Len(f) # 1 /\ r.node \in Inner /\ t.type[r.node] = "free"
            /\ \E moved \in Seq(Node) : /\ r.s = SplitTemp(s, r.node, moved) /\ Distinct(moved)
                                         /\ ToSet(moved) = M
  <2>1. skip \in BOOLEAN /\ MovedOff(t, s, x, skip) \subseteq Kids(t, x)
    BY <1>3, <1>2 DEF M
  <2>2. f = s.fullNeighbors[x]
    BY DEF f
  <2>3. SplitOff(t, s, x, skip, f, r)
    BY <1>2, <2>1, <2>2, SplitOffIs
  <2> QED BY <2>3, <1>3 DEF SplitOff
<1>5. M = {r.node} \/ \E a, b \in M : a # b
  <2>1. CASE Len(f) # 1
    <3>1. IsFiniteSet(M) /\ Cardinality(M) = Len(f) /\ Len(f) \in Nat /\ Len(f) # 0
      BY <1>2, DistinctLength DEF M
    <3>2. \A k \in Nat : k # 0 /\ k # 1 => k >= 2
      OBVIOUS
    <3>3. Cardinality(M) # 0 /\ Cardinality(M) # 1
      BY <2>1, <3>1
    <3>4. PICK a \in M : TRUE
      BY <3>1, <3>3, ThreeElements
    <3>5. M # {a}
      BY <3>1, <3>3, ThreeElements
    <3> QED BY <3>4, <3>5
  <2> QED BY <1>4, <2>1
<1>6. MovedOut(t, v, x, c, r.node, Nil, M) /\ Adjacent(v, c, r.node) /\ r.node \in Node
  <2>1. OnTheWay(t, x, c, fn, M, next) /\ SplitFrom(t, r.t, x, r.node, M)
    BY <1>1, <1>4
  <2> QED BY ONLY <2>1, <1>5, v = InsertBetween(r.t, r.node, x, fn), FullMovedOut
<1>7. r.node # Nil
  BY <1>6, NodesAssumption DEF Node
<1>8. r.node \notin InUse(t) \/ M = {r.node}
  BY <1>4 DEF InUse
<1>9. /\ r.s \in TempType /\ CountKept(s, r.s) /\ r.s.apexTPPred2 = s.apexTPPred2
      /\ \A y \in Node : y \in InUse(t) =>
           /\ r.s.label[y] = s.label[y] /\ r.s.fullNeighbors[y] = s.fullNeighbors[y]
           /\ r.s.tpPred[y] = s.tpPred[y] /\ r.s.ebEnd1[y] = s.ebEnd1[y]
           /\ r.s.fbEnd1[y] = s.fbEnd1[y] /\ r.s.fbEnd2[y] = s.fbEnd2[y]
  <2>1. CASE r.s = s
    BY <2>1, <1>2 DEF CountKept
  <2>2. CASE r.s # s
    <3>1. PICK moved \in Seq(Node) : r.s = SplitTemp(s, r.node, moved)
      BY <1>4, <2>2
    <3>2. r.node \notin InUse(t)
      BY <1>4, <2>2 DEF InUse
    <3>4. /\ r.s \in TempType /\ CountKept(s, r.s) /\ r.s.apexTPPred2 = s.apexTPPred2
          /\ DataElsewhere(s, r.s, r.node)
      BY ONLY <3>1, <1>2, <1>6, SplitTempIs
    <3> QED BY <3>2, <3>4 DEF DataElsewhere
  <2> QED BY <2>1, <2>2
<1> QED BY <1>1, <1>6, <1>7, <1>8, <1>9 DEF FullOut

LEMMA NothingMovesOut ==
  ASSUME NEW t, NEW s, NEW w, NEW c, NEW x, NEW fn, NEW next, NEW Q,
         Merging(t, s, w, c, x, fn, next, Q), s.label[x] # "Partial"
  PROVE  FullOut(t, s, x, c, fn, Q, t, Nil, s)
<1>1. OnTheWay(t, x, c, fn, {}, next) /\ FullOf(s, x) = {}
  BY MergingOnTheWay DEF FullOf
<1>2. s \in TempType /\ Adjacent(t, c, fn)
  BY DEF Merging
<1>3. MovedOut(t, t, x, c, Nil, Nil, {})
  BY <1>1, NothingMovedOut
<1> QED BY <1>1, <1>2, <1>3 DEF FullOut, CountKept

LEMMA PNodeHalfMerged ==
  ASSUME NEW t, NEW s, NEW w, NEW c, NEW x, NEW fn, NEW next, NEW Q,
         Merging(t, s, w, c, x, fn, next, Q), Sturdy(t),
         NEW v, NEW n, NEW s1, FullOut(t, s, x, c, fn, Q, v, n, s1),
         NEW newFull, newFull = IF n # Nil THEN n ELSE fn,
         NEW v2, v2 = IF next = Nil THEN v ELSE InsertBetween(Detach(v, next), next, newFull, x),
         NEW u, u = Dissolve(v2, x)
  PROVE  /\ HalfMerged(t, s, c, x, next, Q, u, n, s1) /\ CountKept(s, s1)
         /\ NewEnds(t, s, c, x, next, u, newFull, n)
<1> DEFINE M == FullOf(s, x)
<1>1. /\ c # x /\ c # Nil /\ x # Nil /\ t.parent[c] # x /\ fn \notin Kids(t, x)
      /\ next # Nil => next \in Kids(t, x)
      /\ \A y \in Kids(t, x) : y \in Node /\ t.parent[y] = x /\ y \in InUse(t)
      /\ \A y \in Node : t.parent[y] = x => y \in Kids(t, x)
  BY MergingFacts
<1>2. /\ Forest(t) /\ s \in TempType /\ PathSet(t, s, c, Q) /\ c \in Node /\ c \in Inner /\ t.type[c] = "C"
      /\ x \in Q /\ t.parent[x] = c /\ x \in Node /\ x \in Inner /\ x \in InUse(t) /\ c \in InUse(t)
      /\ fn \in Node /\ fn # x /\ Adjacent(t, c, fn) /\ next \in Ref
      /\ next # Nil => next \in Q /\ t.parent[next] = x /\ next # fn
      /\ s.label[x] = "Partial" => ToSet(s.fullNeighbors[x]) \subseteq Kids(t, x) \ Q
  BY DEF Merging
<1>3. OnTheWay(t, x, c, fn, M, next)
  BY MergingOnTheWay
<1>4. M \subseteq Kids(t, x) \ Q
  BY <1>2 DEF FullOf
<1>5. /\ MovedOut(t, v, x, c, n, Nil, M)
      /\ n # Nil => n \in Node /\ Adjacent(v, c, n) /\ (n \notin InUse(t) \/ M = {n})
      /\ n = Nil <=> s.label[x] # "Partial"
      /\ n = Nil => Adjacent(v, c, fn)
      /\ s1 \in TempType /\ CountKept(s, s1) /\ s1.apexTPPred2 = s.apexTPPred2
      /\ \A y \in Node : y \in InUse(t) =>
           /\ s1.label[y] = s.label[y] /\ s1.fullNeighbors[y] = s.fullNeighbors[y]
           /\ s1.tpPred[y] = s.tpPred[y] /\ s1.ebEnd1[y] = s.ebEnd1[y]
           /\ s1.fbEnd1[y] = s.fbEnd1[y] /\ s1.fbEnd2[y] = s.fbEnd2[y]
  BY DEF FullOut
<1> HIDE DEF M
<1>6. /\ n # x /\ n # c /\ (next # Nil => n # next) /\ (n \in Kids(t, x) => n \in M)
      /\ (n \in InUse(t) => M = {n})
  BY <1>3, <1>5, NewNeighbor
<1>7. newFull \in Node /\ Adjacent(v, c, newFull) /\ newFull # next
  <2>1. n # Nil => newFull = n
    OBVIOUS
  <2>2. n = Nil => newFull = fn
    OBVIOUS
  <2> QED BY ONLY <2>1, <2>2, <1>2, <1>5, <1>6, NodesAssumption DEF Node
<1>8. MovedOut(t, v2, x, c, n, next, M)
  <2>1. CASE next = Nil
    <3>1. v2 = v
      BY <2>1
    <3> QED BY <2>1, <3>1, <1>5
  <2>2. CASE next # Nil
    <3>1. v2 = InsertBetween(Detach(v, next), next, newFull, x)
      BY <2>2
    <3> QED BY ONLY <2>2, <3>1, <1>3, <1>5, <1>7, NextMovedOut
  <2> QED BY <2>1, <2>2
<1>9. NodeMerged(t, u, x, c, n, next, M)
  BY <1>3, <1>8, NodeMergedIs
<1>10. Sturdy(u)
  BY <1>2, <1>3, <1>9, NodeMergedSturdy
<1>11. /\ \A y \in Node : y # n /\ y # x => u.type[y] = t.type[y]
       /\ \A y \in Node : y # n /\ y # x /\ t.parent[y] # x => u.parent[y] = t.parent[y]
       /\ next \in Node => u.parent[next] = c
       /\ GroupedUnder(t, u, c, n, M)
  BY <1>9 DEF NodeMerged
<1>12. LeavesAlone(t, u, x, n)
  BY <1>11 DEF LeavesAlone
<1>13. n \notin InUse(t) \/ n \in Kids(t, x) \ Q
  BY <1>4, <1>6
<1>14. next # Nil => u.parent[next] = c
  BY <1>11, <1>2 DEF Ref
<1>15. DataKept(t, s, s1, Q \ {x})
  <2>1. \A y \in Q : y \in Node /\ y \in InUse(t)
    BY <1>2 DEF PathSet, Passed
  <2> QED BY <2>1, <1>5 DEF DataKept
<1>16. HalfMerged(t, s, c, x, next, Q, u, n, s1)
  BY <1>2, <1>5, <1>10, <1>12, <1>13, <1>14, <1>15 DEF HalfMerged
<1>17. NewEnds(t, s, c, x, next, u, newFull, n)
  <2>1. CASE n # Nil
    <3>1. newFull = n
      BY <2>1
    <3>2. u.parent[n] = c
      BY <1>11, <2>1 DEF GroupedUnder
    <3>3. n # s.apexTPPred2
      <4>1. s.apexTPPred2 # Nil => s.apexTPPred2 \in Q
        BY <1>2 DEF PathSet
      <4>2. s.apexTPPred2 # Nil => s.apexTPPred2 \in InUse(t)
        BY <4>1, <1>2 DEF PathSet, Passed
      <4> QED BY ONLY <4>1, <4>2, <1>13, <2>1
    <3> QED BY ONLY <2>1, <3>1, <3>2, <3>3, <1>5, <1>7 DEF NewEnds, Adjacent, Ref
  <2>2. CASE n = Nil
    <3>1. newFull = fn
      BY <2>2
    <3>2. Adjacent(u, c, fn)
      BY ONLY <1>11, <1>2, <1>1, <2>2, NodesAssumption DEF Adjacent, Node
    <3> QED BY ONLY <2>2, <3>1, <3>2, <1>5, <1>7 DEF NewEnds, Ref
  <2> QED BY <2>1, <2>2
<1> QED BY <1>5, <1>16, <1>17

WorkType == [todo : Seq(Leaves), full : Ref, central : Ref, tpNeigh : Ref, slot : {1, 2}, merged : Nat]

WorkAfter(w, next) == [w EXCEPT !.tpNeigh = next, !.merged = @ + 1]

LEMMA WorkAdvanced ==
  ASSUME NEW w \in WorkType, NEW next \in Ref, NEW w2, w2 = WorkAfter(w, next)
  PROVE  /\ w2.central = w.central /\ w2.tpNeigh = next /\ w2.slot = w.slot /\ w2 \in WorkType
         /\ w2.merged = w.merged + 1 /\ w.merged \in Nat
<1> DEFINE m == w.merged + 1
<1>1. m \in Nat
  BY DEF WorkType
<1>2. w2 = [w EXCEPT !.tpNeigh = next, !.merged = m]
  BY DEF WorkAfter
<1>3. w2.merged = m
  BY <1>2 DEF WorkType
<1>4. w2.merged = w.merged + 1 /\ w.merged \in Nat
  BY <1>3 DEF WorkType
<1> HIDE DEF m
<1> QED BY <1>1, <1>2, <1>4 DEF WorkType

LEMMA MergeCNodeStep ==
  ASSUME work \in WorkType, MergeRight(tree, temp, work), MergeCNode
  PROVE  MergeRight(tree', temp', work') /\ CountKept(temp, temp') /\ work' \in WorkType
<1> DEFINE c == work.central
           x == work.tpNeigh
           fn == FullNeigh(temp, work)
           next == temp.tpPred[x]
           fullFirst == Head(tree.kids[x]) \in {temp.fbEnd1[x], temp.fbEnd2[x]}
           t1 == IF fullFirst THEN [tree EXCEPT !.kids[x] = Reverse(@)] ELSE tree
           s1 == IF Last(t1.kids[x]) = temp.fbEnd2[x] THEN SwapEnds(temp, x) ELSE temp
           newFull == IF temp.label[x] = "Partial" THEN s1.fbEnd2[x] ELSE fn
           otherEnd == IF temp.label[x] = "Partial" THEN s1.fbEnd1[x] ELSE Nil
           u == DestroyNode(MergeIntoParent(t1, x, fn), x)
<1>1. /\ x # Nil /\ tree.type[x] = "C"
      /\ tree' = u /\ temp' = MergedTemp(s1, work, x, next, newFull, otherEnd)
      /\ work' = [work EXCEPT !.tpNeigh = next, !.merged = @ + 1]
  BY ZenonT(40) DEF MergeCNode, MergeDone, MergedTemp
<1>2. s1 \in {temp, SwapEnds(temp, x)}
  OBVIOUS
<1>3. /\ t1 = IF fullFirst THEN [tree EXCEPT !.kids[x] = Reverse(@)] ELSE tree
      /\ newFull = IF temp.label[x] = "Partial" THEN s1.fbEnd2[x] ELSE fn
      /\ otherEnd = IF temp.label[x] = "Partial" THEN s1.fbEnd1[x] ELSE Nil
      /\ u = DestroyNode(MergeIntoParent(t1, x, fn), x)
      /\ c = work.central /\ x = work.tpNeigh /\ fn = FullNeigh(temp, work) /\ next = temp.tpPred[x]
  OBVIOUS
<1> HIDE DEF c, x, fn, next, fullFirst, t1, s1, newFull, otherEnd, u
<1>4. PICK Q : Merging(tree, temp, work, c, x, fn, next, Q)
  BY ONLY <1>1, <1>3, MergeRight(tree, temp, work), MergingIs
<1>5. Sturdy(tree)
  BY DEF MergeRight
<1>6. /\ HalfMerged(tree, temp, c, x, next, Q, u, Nil, s1) /\ CountKept(temp, s1)
      /\ NewEnds(tree, temp, c, x, next, u, newFull, otherEnd)
  BY ONLY <1>1, <1>2, <1>3, <1>4, <1>5, CNodeHalfMerged
<1>7. next \in Ref /\ c \in Ref
  BY <1>4 DEF Merging, Ref
<1>8. Advances(work, work', c, next) /\ work' \in WorkType
  <2>1. work' = WorkAfter(work, next)
    BY <1>1 DEF WorkAfter
  <2> QED BY ONLY <2>1, <1>3, <1>7, work \in WorkType, WorkAdvanced DEF Advances
<1>9. MergeRight(u, temp', work') /\ CountKept(s1, temp')
  BY ONLY <1>1, <1>4, <1>6, <1>8, ArmAdvanced
<1> QED BY SMTT(40), <1>1, <1>6, <1>8, <1>9 DEF CountKept

LEMMA MergePNodeStep ==
  ASSUME work \in WorkType, MergeRight(tree, temp, work), MergePNode
  PROVE  MergeRight(tree', temp', work') /\ CountKept(temp, temp') /\ work' \in WorkType
<1> DEFINE c == work.central
           x == work.tpNeigh
           fn == FullNeigh(temp, work)
           next == temp.tpPred[x]
           split == SplitOffFullPNode(tree, temp, x, FALSE)
           partial == temp.label[x] = "Partial"
           v == IF partial THEN InsertBetween(split.t, split.node, x, fn) ELSE tree
           n == IF partial THEN split.node ELSE Nil
           s1 == IF partial THEN split.s ELSE temp
           newFull == IF n # Nil THEN n ELSE fn
           v2 == IF next = Nil THEN v ELSE InsertBetween(Detach(v, next), next, newFull, x)
           u == Dissolve(v2, x)
<1>1. /\ x # Nil
      /\ tree' = u /\ temp' = MergedTemp(s1, work, x, next, newFull, n)
      /\ work' = [work EXCEPT !.tpNeigh = next, !.merged = @ + 1]
  <2>1. split = [t |-> split.t, s |-> split.s, node |-> split.node]
    BY DEF SplitOffFullPNode
  <2>2. CASE partial
    <3> DEFINE r1 == [split EXCEPT !.t = InsertBetween(@, split.node, x, fn)]
               Full(m) == IF m # Nil THEN m ELSE fn
               Tr(t, m) == Dissolve(IF next = Nil THEN t ELSE InsertBetween(Detach(t, next), next, Full(m), x), x)
               Te(s, m) == MergedTemp(s, work, x, next, Full(m), m)
    <3>1. r1.t = v /\ r1.s = s1 /\ r1.node = n
      BY <2>1, <2>2
    <3>2. /\ x # Nil /\ tree' = Tr(r1.t, r1.node) /\ temp' = Te(r1.s, r1.node)
          /\ work' = [work EXCEPT !.tpNeigh = next, !.merged = @ + 1]
      BY <2>2 DEF MergePNode, MergeDone, MergedTemp
    <3>3. u = Tr(v, n) /\ MergedTemp(s1, work, x, next, newFull, n) = Te(s1, n)
      OBVIOUS
    <3> HIDE DEF Tr, Te, r1, v, s1, n, newFull, u
    <3> QED BY ONLY <3>1, <3>2, <3>3
  <2>3. CASE ~partial
    BY <2>3 DEF MergePNode, MergeDone, MergedTemp
  <2> QED BY <2>2, <2>3
<1>3. /\ newFull = IF n # Nil THEN n ELSE fn
      /\ v2 = IF next = Nil THEN v ELSE InsertBetween(Detach(v, next), next, newFull, x)
      /\ u = Dissolve(v2, x)
      /\ c = work.central /\ x = work.tpNeigh /\ fn = FullNeigh(temp, work) /\ next = temp.tpPred[x]
      /\ temp.label[x] = "Partial" => v = InsertBetween(split.t, split.node, x, fn) /\ n = split.node /\ s1 = split.s
      /\ temp.label[x] # "Partial" => v = tree /\ n = Nil /\ s1 = temp
  OBVIOUS
<1>31. \E skip : skip = FALSE /\ split = SplitOffFullPNode(tree, temp, x, skip)
  OBVIOUS
<1> HIDE DEF c, x, fn, next, split, v, n, s1, newFull, v2, u, partial
<1>4. PICK Q : Merging(tree, temp, work, c, x, fn, next, Q)
  BY ONLY <1>1, <1>3, MergeRight(tree, temp, work), MergingIs
<1>5. Sturdy(tree)
  BY DEF MergeRight
<1>6. \E y \in Inner : tree.type[y] = "free"
  BY <1>5, RoomAssumption, TwoFreeNodes
<1>7. FullOut(tree, temp, x, c, fn, Q, v, n, s1)
  <2>1. CASE temp.label[x] = "Partial"
    BY ONLY ZenonT(40), <2>1, <1>3, <1>31, <1>4, <1>6, FullMovesOut
  <2>2. CASE temp.label[x] # "Partial"
    BY ONLY <2>2, <1>3, <1>4, NothingMovesOut
  <2> QED BY <2>1, <2>2
<1>8. /\ HalfMerged(tree, temp, c, x, next, Q, u, n, s1) /\ CountKept(temp, s1)
      /\ NewEnds(tree, temp, c, x, next, u, newFull, n)
  BY ONLY <1>3, <1>4, <1>5, <1>7, PNodeHalfMerged
<1>9. next \in Ref /\ c \in Ref
  BY <1>4 DEF Merging, Ref
<1>10. Advances(work, work', c, next) /\ work' \in WorkType
  <2>1. work' = WorkAfter(work, next)
    BY <1>1 DEF WorkAfter
  <2> QED BY ONLY <2>1, <1>3, <1>9, work \in WorkType, WorkAdvanced DEF Advances
<1>11. MergeRight(u, temp', work') /\ CountKept(s1, temp')
  BY ONLY <1>1, <1>4, <1>8, <1>10, ArmAdvanced
<1> QED BY <1>1, <1>8, <1>10, <1>11 DEF CountKept

LEMMA StartSecondArmStep ==
  ASSUME work \in WorkType, MergeRight(tree, temp, work), StartSecondArm
  PROVE  MergeRight(tree', temp', work') /\ CountKept(temp, temp') /\ work' \in WorkType
<1> DEFINE c == work.central
<1>1. /\ work.tpNeigh = Nil /\ temp.apexTPPred2 # Nil /\ tree' = tree /\ temp' = temp
      /\ work' = [work EXCEPT !.central = c, !.tpNeigh = temp.apexTPPred2,
                              !.slot = IF temp.ebEnd1[c] = temp.apexTPPred2 THEN 1 ELSE 2]
  BY DEF StartSecondArm, StartArm
<1>2. temp.apexTPPred2 \in Ref
  BY DEF MergeRight, TempType
<1>3. /\ work' \in WorkType /\ work'.central = c /\ work'.tpNeigh = temp.apexTPPred2 /\ work'.merged = work.merged
      /\ work'.slot = IF temp.ebEnd1[c] = temp.apexTPPred2 THEN 1 ELSE 2
  BY <1>1, <1>2 DEF WorkType
<1>4. temp.tpPred[c] = Nil /\ temp.ebEnd1[c] = Nil
  BY <1>1 DEF MergeRight, ArmRight
<1>5. ArmRight(tree, temp, work')
  BY <1>1, <1>3, <1>4 DEF ArmRight
<1> QED BY <1>1, <1>3, <1>5 DEF MergeRight, CountKept

\* The temporary data of the nodes of t stays, but that one link to a may have
\* changed.
ApexData(t, s, a, r) ==
  /\ r \in TempType /\ CountKept(s, r) /\ r.apexTPPred2 = s.apexTPPred2
  /\ \A y \in Node : y \in InUse(t) =>
       /\ r.label[y] = s.label[y] /\ r.fullNeighbors[y] = s.fullNeighbors[y]
       /\ s.tpPred[y] # a => r.tpPred[y] = s.tpPred[y]
       /\ s.fbEnd1[y] # a => r.fbEnd1[y] = s.fbEnd1[y]
       /\ s.fbEnd2[y] # a => r.fbEnd2[y] = s.fbEnd2[y]

LEMMA ApexDataSame ==
  ASSUME NEW t, NEW s \in TempType, NEW a
  PROVE  ApexData(t, s, a, s)
BY DEF ApexData, CountKept

LEMMA ApexDataReplace ==
  ASSUME NEW t, NEW s, NEW a, NEW r, ApexData(t, s, a, r), NEW x \in Node, NEW c \in Node,
         NEW q, q = ReplaceNeighbor(r, x, a, c)
  PROVE  ApexData(t, s, a, q)
<1> DEFINE Same(y) == /\ q.label[y] = r.label[y] /\ q.fullNeighbors[y] = r.fullNeighbors[y]
                      /\ r.tpPred[y] # a => q.tpPred[y] = r.tpPred[y]
                      /\ r.fbEnd1[y] # a => q.fbEnd1[y] = r.fbEnd1[y]
                      /\ r.fbEnd2[y] # a => q.fbEnd2[y] = r.fbEnd2[y]
<1>1. r \in TempType /\ c \in Ref
  BY DEF ApexData, Ref
<1>2. /\ q \in TempType /\ CountKept(r, q)
      /\ q.label = r.label /\ q.fullNeighbors = r.fullNeighbors /\ q.apexTPPred2 = r.apexTPPred2
      /\ \A y \in Node : y # x => /\ q.tpPred[y] = r.tpPred[y] /\ q.ebEnd1[y] = r.ebEnd1[y]
                                  /\ q.fbEnd1[y] = r.fbEnd1[y] /\ q.fbEnd2[y] = r.fbEnd2[y]
                                  /\ q.ebEnd2[y] = r.ebEnd2[y]
      /\ r.tpPred[x] # a => q.tpPred[x] = r.tpPred[x]
      /\ r.fbEnd1[x] # a => q.fbEnd1[x] = r.fbEnd1[x]
      /\ r.fbEnd2[x] # a => q.fbEnd2[x] = r.fbEnd2[x]
  BY <1>1, ReplaceNeighborIs
<1>3. \A y \in Node : Same(y)
  BY <1>2
<1> QED BY <1>2, <1>3 DEF ApexData, CountKept

LEMMA ApexDataElsewhere ==
  ASSUME NEW t, NEW s, NEW a, NEW r, ApexData(t, s, a, r), NEW x \in Node, x \notin InUse(t),
         NEW q \in TempType, CountKept(r, q), q.apexTPPred2 = r.apexTPPred2, DataElsewhere(r, q, x)
  PROVE  ApexData(t, s, a, q)
BY DEF ApexData, DataElsewhere, CountKept

\* What the update starts from: the apex a, and the nodes Q of its paths.
ApexRight(t, s, a) ==
  /\ a \in InUse(t) /\ a \in Inner /\ s.label[a] # "Full"
  /\ s.fullNeighbors[a] \in Seq(Node) /\ Distinct(s.fullNeighbors[a])
  /\ \A y \in ToSet(s.fullNeighbors[a]) : y \in Node /\ Adjacent(t, a, y) /\ s.label[y] = "Full"
  /\ \A y \in Node : Adjacent(t, a, y) /\ s.label[y] = "Full" => y \in ToSet(s.fullNeighbors[a])
  /\ Len(s.fullNeighbors[a]) + 2 <= Degree(t, a)
  /\ s.label[a] = "Empty" <=> s.fullNeighbors[a] = <<>>

FoundRight(t, s) ==
  LET a == s.apexCandidate
  IN  /\ Sturdy(t) /\ s \in TempType /\ ApexRight(t, s, a)
      /\ \E Q : /\ PathSet(t, s, a, Q) /\ \A y \in Q : s.label[y] # "Full"
                /\ s.terminalPathLength = 1 + Cardinality(Q)
                /\ \A x \in InUse(t) : s.label[x] = "Partial" => x \in Q \cup {a}
      /\ s.terminalPathLength # 0
      /\ s.terminalPathLength # 1 => s.tpPred[a] # Nil
      /\ s.apexTPPred2 # Nil => s.tpPred[a] # Nil
      /\ s.label[a] = "Empty" => s.apexTPPred2 # Nil
      /\ t.type[a] = "C" /\ s.label[a] = "Partial" /\ s.tpPred[a] # Nil =>
           /\ {s.fbEnd1[a], s.fbEnd2[a]} \subseteq ToSet(s.fullNeighbors[a])
           /\ s.tpPred[a] \in {s.ebEnd1[a], s.ebEnd2[a]}

LEMMA NotFullApex ==
  ASSUME NEW t, NEW s \in TempType, NEW a, ApexRight(t, s, a)
  PROVE  a \in Node /\ s.label[a] \in {"Empty", "Partial"}
<1>1. a \in Node
  BY DEF ApexRight, InUse
<1>2. s.label[a] \in {"Empty", "Partial", "Full"} /\ s.label[a] # "Full"
  BY <1>1 DEF TempType, ApexRight
<1> QED BY <1>1, <1>2

\* A C-node at the apex is the central node itself.
LEMMA CNodeCentral ==
  ASSUME NEW t, NEW s, FoundRight(t, s), NEW a, a = s.apexCandidate, t.type[a] = "C",
         s.terminalPathLength # 1,
         NEW r, r = CentralOfCNode(t, s), NEW w \in WorkType, w.merged = 0,
         NEW w2, w2 = StartArm(r.s, w, r.node, r.s.tpPred[r.node])
  PROVE  MergeRight(r.t, r.s, w2) /\ CountKept(s, r.s) /\ w2 \in WorkType
<1> DEFINE stub1 == s.tpPred[a]
           stub2 == s.apexTPPred2
<1>1. /\ Sturdy(t) /\ s \in TempType /\ ApexRight(t, s, a) /\ stub1 # Nil
      /\ s.label[a] = "Empty" => stub2 # Nil
      /\ s.label[a] = "Partial" =>
           /\ {s.fbEnd1[a], s.fbEnd2[a]} \subseteq ToSet(s.fullNeighbors[a])
           /\ stub1 \in {s.ebEnd1[a], s.ebEnd2[a]}
  BY DEF FoundRight
<1>2. PICK Q : /\ PathSet(t, s, a, Q) /\ \A y \in Q : s.label[y] # "Full"
               /\ s.terminalPathLength = 1 + Cardinality(Q)
  BY DEF FoundRight
<1>3. a \in Node /\ s.label[a] \in {"Empty", "Partial"} /\ a \in InUse(t)
  BY <1>1, NotFullApex DEF ApexRight
<1>4. /\ stub1 \in Q /\ stub1 \in Node /\ t.parent[stub1] = a
      /\ stub2 # Nil => stub2 \in Q /\ stub2 \in Node /\ t.parent[stub2] = a /\ stub2 # stub1
      /\ Q \subseteq Node /\ a \notin Q
  BY <1>1, <1>2 DEF PathSet
<1>5. r.t = t /\ r.node = a
  BY DEF CentralOfCNode
<1> DEFINE z == r.s
<1>6. /\ z \in TempType /\ CountKept(s, z) /\ z.apexTPPred2 = stub2
      /\ z.label = s.label /\ z.fullNeighbors = s.fullNeighbors /\ z.tpPred = s.tpPred
      /\ \A y \in Node : y # a => z.fbEnd1[y] = s.fbEnd1[y] /\ z.fbEnd2[y] = s.fbEnd2[y]
      /\ z.ebEnd1[a] = stub1
      /\ s.label[a] = "Partial" => {z.fbEnd1[a], z.fbEnd2[a]} \subseteq ToSet(s.fullNeighbors[a])
      /\ s.label[a] = "Empty" => z.fbEnd1[a] = stub2 /\ z.fbEnd2[a] = stub1
  <2>1. CASE s.label[a] = "Empty"
    <3>1. z = [s EXCEPT !.ebEnd1[a] = stub1, !.fbEnd1[a] = stub2,
                        !.fbEnd2[a] = stub1, !.ebEnd2[a] = stub2]
      BY <2>1 DEF CentralOfCNode
    <3>2. stub1 \in Ref /\ stub2 \in Ref
      BY <1>1, <1>3 DEF TempType
    <3> HIDE DEF z, stub1, stub2
    <3>3. /\ z \in TempType /\ CountKept(s, z) /\ z.apexTPPred2 = s.apexTPPred2
          /\ z.label = s.label /\ z.fullNeighbors = s.fullNeighbors /\ z.tpPred = s.tpPred
          /\ z.ebEnd1 = [s.ebEnd1 EXCEPT ![a] = stub1] /\ z.fbEnd1 = [s.fbEnd1 EXCEPT ![a] = stub2]
          /\ z.fbEnd2 = [s.fbEnd2 EXCEPT ![a] = stub1]
      BY ONLY <3>1, <3>2, <1>3, <1>1 DEF TempType, CountKept
    <3>4. s.ebEnd1 \in [Node -> Ref] /\ s.fbEnd1 \in [Node -> Ref] /\ s.fbEnd2 \in [Node -> Ref]
      BY <1>1 DEF TempType
    <3>5. z.apexTPPred2 = stub2
      BY <3>3 DEF stub2
    <3> QED BY ONLY <2>1, <3>3, <3>4, <3>5, <1>3
  <2>2. CASE s.label[a] = "Partial" /\ s.ebEnd2[a] = stub1
    <3>1. z = SwapEnds(s, a)
      BY <2>2 DEF CentralOfCNode
    <3> HIDE DEF z
    <3>2. EndsSwapped(s, z, a)
      BY <3>1, <1>1, <1>3, SwapEndsIs
    <3> QED BY <3>2, <2>2, <1>1 DEF EndsSwapped, DataElsewhere
  <2>3. CASE s.label[a] = "Partial" /\ s.ebEnd2[a] # stub1
    <3>1. z = s
      BY <2>3 DEF CentralOfCNode
    <3> HIDE DEF z
    <3> QED BY <3>1, <2>3, <1>1 DEF CountKept
  <2> QED BY <1>3, <2>1, <2>2, <2>3
<1>7. w2 = [w EXCEPT !.central = a, !.tpNeigh = stub1, !.slot = 1]
  <2>1. r.s.tpPred[r.node] = stub1 /\ r.s.ebEnd1[r.node] = stub1
    BY <1>5, <1>6
  <2>2. w2 = [w EXCEPT !.central = r.node, !.tpNeigh = r.s.tpPred[r.node],
                       !.slot = IF r.s.ebEnd1[r.node] = r.s.tpPred[r.node] THEN 1 ELSE 2]
    BY DEF StartArm
  <2> QED BY ONLY <2>1, <2>2, <1>5
<1> HIDE DEF z, stub1, stub2
<1>8. w2 \in WorkType /\ w2.central = a /\ w2.tpNeigh = stub1 /\ w2.slot = 1 /\ w2.merged = 0
  BY <1>7, <1>3, <1>4 DEF WorkType, Ref
<1>9. PathSet(t, z, a, Q)
  <2>1. s.tpPred[a] = stub1 /\ s.apexTPPred2 = stub2
    BY DEF stub1, stub2
  <2>2. \A y \in Q : Passed(t, z, y, a, Q)
    <3> SUFFICES ASSUME NEW y \in Q PROVE Passed(t, z, y, a, Q)
      OBVIOUS
    <3>1. Passed(t, s, y, a, Q) /\ y # a /\ y \in Node
      BY <1>2, <1>4 DEF PathSet
    <3>2. z.fbEnd1[y] = s.fbEnd1[y] /\ z.fbEnd2[y] = s.fbEnd2[y]
      BY <3>1, <1>6
    <3> QED BY ONLY <3>1, <3>2, <1>6, <2>1 DEF Passed
  <2> QED BY ONLY <2>2, <2>1, <1>6, <1>4, <1>3, <1>2 DEF PathSet
<1>10. EndsRight(t, z, a)
  <2>1. s.tpPred[a] = stub1 /\ s.apexTPPred2 = stub2
    BY DEF stub1, stub2
  <2>2. CASE s.label[a] = "Partial"
    <3>1. \A y \in {z.fbEnd1[a], z.fbEnd2[a]} : y \in Node /\ Adjacent(t, a, y) /\ y # stub1 /\ y # stub2
      <4>1. \A y \in {z.fbEnd1[a], z.fbEnd2[a]} : y \in Node /\ Adjacent(t, a, y) /\ s.label[y] = "Full"
        BY <1>6, <1>1, <2>2 DEF ApexRight
      <4>2. s.label[stub1] # "Full" /\ (stub2 # Nil => s.label[stub2] # "Full")
        BY <1>2, <1>4
      <4> QED BY <4>1, <4>2, NodesAssumption DEF Node
    <3> QED BY <3>1, <1>6, <2>1 DEF EndsRight
  <2>3. CASE s.label[a] = "Empty"
    BY ONLY <2>3, <2>1, <1>6, <1>4, <1>1 DEF EndsRight, Adjacent
  <2> QED BY <2>2, <2>3, <1>3
<1>11. ArmRight(t, z, w2)
  BY <1>8, <1>6, <1>1 DEF ArmRight, stub1
<1>13. z.terminalPathLength = 1 + w2.merged + Cardinality(Q)
  <2>1. Cardinality(Q) \in Nat
    BY <1>4, NodeIsFinite, FS_Subset, FS_CardinalityType
  <2> QED BY <2>1, <1>2, <1>6, <1>8 DEF CountKept
<1>12. MergeRight(t, z, w2)
  BY <1>13, <1>1, <1>3, <1>6, <1>8, <1>9, <1>10, <1>11 DEF MergeRight
<1> QED BY <1>5, <1>6, <1>8, <1>12 DEF z

\* The update begins at a P-node a.
Central(t, s, a, p, c, f, S, stub1, stub2, pf) ==
  /\ FoundRight(t, s) /\ a = s.apexCandidate /\ s.terminalPathLength # 1 /\ t.type[a] = "P"
  /\ p = t.parent[a] /\ c = FreeInner(t) /\ f = s.fullNeighbors[a]
  /\ stub1 = s.tpPred[a] /\ stub2 = s.apexTPPred2 /\ S = {stub1, stub2} \ {Nil}
  /\ pf = ParentFull(s, p)

CentralPlace(t, s, a, p, c, f, S, stub1, stub2, pf) ==
  /\ Sturdy(t) /\ Forest(t) /\ s \in TempType /\ pf \in BOOLEAN
  /\ AtApex(t, a, p, f, S, pf)
  /\ c \in Inner /\ c \in Node /\ t.type[c] = "free" /\ c \notin InUse(t) /\ stub1 # Nil /\ stub1 # stub2
  /\ \E b \in Inner : b # c /\ t.type[b] = "free"
  /\ f \in Seq(Node) /\ Distinct(f)
  /\ \A y \in ToSet(f) : s.label[y] = "Full" /\ y \in Node /\ Adjacent(t, a, y)
  /\ Len(f) + 2 <= Degree(t, a)
  /\ f = <<>> => stub2 # Nil
  /\ \A y \in S : y \in Node /\ t.parent[y] = a /\ y \notin ToSet(f)

LEMMA CentralFacts ==
  ASSUME NEW t, NEW s, NEW a, NEW p, NEW c, NEW f, NEW S, NEW stub1, NEW stub2, NEW pf,
         Central(t, s, a, p, c, f, S, stub1, stub2, pf)
  PROVE  CentralPlace(t, s, a, p, c, f, S, stub1, stub2, pf)
<1>1. /\ Sturdy(t) /\ s \in TempType /\ ApexRight(t, s, a)
      /\ \E Q : PathSet(t, s, a, Q) /\ \A y \in Q : s.label[y] # "Full"
      /\ s.tpPred[a] # Nil
      /\ s.label[a] = "Empty" => s.apexTPPred2 # Nil
  BY DEF Central, FoundRight
<1>2. Forest(t) /\ Tops(t) = {t.root} /\ t.root \in InUse(t)
  BY <1>1, SturdyFacts DEF Sturdy
<1>3. /\ a \in InUse(t) /\ a \in Inner /\ a \in Node
      /\ f \in Seq(Node) /\ Distinct(f)
      /\ \A y \in ToSet(f) : y \in Node /\ Adjacent(t, a, y) /\ s.label[y] = "Full"
      /\ \A y \in Node : Adjacent(t, a, y) /\ s.label[y] = "Full" => y \in ToSet(f)
      /\ Len(f) + 2 <= Degree(t, a)
      /\ s.label[a] = "Empty" <=> f = <<>>
  BY <1>1 DEF ApexRight, Central, InUse
<1>4. PICK Q : PathSet(t, s, a, Q) /\ \A y \in Q : s.label[y] # "Full"
  BY <1>1
<1>5. /\ Q \subseteq Node /\ stub1 \in Q /\ t.parent[stub1] = a /\ stub1 # Nil
      /\ stub2 # Nil => stub2 \in Q /\ t.parent[stub2] = a
      /\ stub2 # stub1
      /\ \A y \in Q : y \in InUse(t) /\ y \in Inner
  BY <1>1, <1>4 DEF PathSet, Passed, Central
<1>6. \A y \in S : y \in Q /\ t.parent[y] = a
  BY <1>5 DEF Central
<1>7. \A y \in S : y \in Node /\ t.parent[y] = a /\ y \notin ToSet(f) /\ t.type[y] # "leaf"
  BY <1>1, <1>3, <1>4, <1>5, <1>6, SturdyInner
<1>8. PICK b1, b2 \in Inner : b1 # b2 /\ t.type[b1] = "free" /\ t.type[b2] = "free"
  BY <1>1, TwoFreeNodes, RoomAssumption
<1>9. c \in Inner /\ t.type[c] = "free" /\ c \in Node /\ c \notin InUse(t)
  BY <1>8, FreeInnerIs DEF Central, Node, InUse
<1>10. \E b \in Inner : b # c /\ t.type[b] = "free"
  BY <1>8
<1>11. p # Nil => p \in Node /\ Adjacent(t, a, p)
  BY <1>2, <1>3, InUseFacts DEF Central, Adjacent
<1>12. pf <=> p # Nil /\ p \in ToSet(f)
  BY <1>3, <1>11 DEF Central, ParentFull, IsFull
<1>13. pf \in BOOLEAN
  BY DEF Central, ParentFull
<1>14. t.root \in Node
  BY <1>2 DEF InUse
<1>15. AtApex(t, a, p, f, S, pf)
  BY <1>2, <1>3, <1>7, <1>12, <1>14 DEF AtApex, Central
<1>16. f = <<>> => stub2 # Nil
  BY <1>1, <1>3 DEF Central
<1> QED BY <1>1, <1>2, <1>3, <1>5, <1>7, <1>9, <1>10, <1>13, <1>15, <1>16 DEF CentralPlace

IsStage(r) == \E b, d, e : r = [t |-> b, s |-> d, node |-> e]

\* How far createCentralNode has come: the tree, the data, the full node.
Staged(t, s, a, p, c, S, W, f, pf, r) ==
  /\ ApexData(t, s, a, r.s)
  /\ \E New : Grouped(t, r.t, a, p, c, r.node, New, S, W, f, pf)
  /\ r.node = Nil <=> f = <<>>
  /\ IsStage(r)

Begun(t, s, a, c, stub1, stub2, r) ==
  /\ ApexData(t, s, a, r.s) /\ Opened(t, r.t, c, stub1, stub2) /\ r.node = Nil /\ IsStage(r)

LEMMA FirstStubStep ==
  ASSUME NEW t, NEW s, NEW a, NEW p, NEW c, NEW f, NEW S, NEW stub1, NEW stub2, NEW pf,
         Central(t, s, a, p, c, f, S, stub1, stub2, pf),
         NEW r, r = WithFirstStub(t, s, c)
  PROVE  Begun(t, s, a, c, stub1, stub2, r)
<1>1. CentralPlace(t, s, a, p, c, f, S, stub1, stub2, pf)
  BY CentralFacts
<1>2. /\ s \in TempType /\ AtApex(t, a, p, f, S, pf)
      /\ c \in Inner /\ c \in Node /\ t.type[c] = "free" /\ c \notin InUse(t) /\ stub1 # Nil /\ stub1 # stub2
      /\ \A y \in S : y \in Node
      /\ S = {stub1, stub2} \ {Nil}
  BY <1>1 DEF CentralPlace, Central
<1>3. stub1 \in Node
  BY <1>2
<1> DEFINE apart == Detach(IF stub2 = Nil THEN t ELSE Detach(t, stub2), stub1)
           v == AppendChild(NewNode(apart, c, "C"), c, stub1, FALSE)
           s1 == ClearedFor(s, c)
           s2 == ReplaceNeighbor(s1, stub1, a, c)
<1>4. r = [t |-> v, s |-> s2, node |-> Nil]
  BY DEF WithFirstStub, Central
<1>5. r.t = v /\ r.s = s2 /\ r.node = Nil
  BY <1>4
<1>6. Opened(t, v, c, stub1, stub2)
  <2>1. /\ apart = Detach(IF stub2 = Nil THEN t ELSE Detach(t, stub2), stub1)
        /\ v = AppendChild(NewNode(apart, c, "C"), c, stub1, FALSE)
    OBVIOUS
  <2> HIDE DEF apart, v
  <2> QED BY ONLY <2>1, <1>2, FirstStubIs
<1>7. ApexData(t, s, a, s)
  BY <1>2, ApexDataSame
<1>8. s1 \in TempType /\ CountKept(s, s1) /\ s1.apexTPPred2 = s.apexTPPred2 /\ DataElsewhere(s, s1, c)
  BY <1>2, ClearedForIs DEF DataElsewhere
<1>9. ApexData(t, s, a, s1)
  <2> HIDE DEF s1
  <2> QED BY <1>2, <1>7, <1>8, ApexDataElsewhere
<1>10. ApexData(t, s, a, s2)
  <2>1. s2 = ReplaceNeighbor(s1, stub1, a, c)
    OBVIOUS
  <2> HIDE DEF s1, s2
  <2> QED BY <2>1, <1>2, <1>3, <1>9, ApexDataReplace
<1>11. IsStage(r)
  BY <1>4 DEF IsStage
<1> QED BY <1>5, <1>6, <1>10, <1>11 DEF Begun

ApexReadings(s, q, a, p, f, stub1, stub2, pf) ==
  /\ q.apexCandidate = a /\ q.fullNeighbors[a] = f /\ q.apexTPPred2 = stub2
  /\ q.tpPred[a] = stub1 /\ q.label[a] = s.label[a]
  /\ ParentFull(q, p) = pf

\* What the following stages read off the data.
LEMMA ApexRead ==
  ASSUME NEW t, NEW s, NEW a, NEW p, NEW c, NEW f, NEW S, NEW stub1, NEW stub2, NEW pf,
         Central(t, s, a, p, c, f, S, stub1, stub2, pf), NEW q, ApexData(t, s, a, q)
  PROVE  ApexReadings(s, q, a, p, f, stub1, stub2, pf)
<1>1. CentralPlace(t, s, a, p, c, f, S, stub1, stub2, pf)
  BY CentralFacts
<1>2. AtApex(t, a, p, f, S, pf) /\ pf \in BOOLEAN
  BY <1>1 DEF CentralPlace
<1>3. ApexPlace(t, a, p, f)
  BY <1>2, AtApexFacts
<1>4. a \in Node /\ a \in InUse(t) /\ (p # Nil => p \in Node /\ p \in InUse(t))
  BY <1>2, <1>3 DEF ApexPlace, AtApex
<1>5. s.tpPred[a] # a
  <2>1. stub1 # a
    BY <1>1, <1>3 DEF CentralPlace, ApexPlace, Central
  <2> QED BY <2>1 DEF Central
<1>6. q.apexCandidate = a /\ q.fullNeighbors[a] = f /\ q.apexTPPred2 = stub2 /\ q.tpPred[a] = stub1
      /\ q.label[a] = s.label[a]
  BY <1>4, <1>5 DEF ApexData, CountKept, Central
<1>7. p # Nil => q.label[p] = s.label[p]
  BY <1>4 DEF ApexData
<1>8. ParentFull(q, p) = ParentFull(s, p)
  BY <1>7 DEF ParentFull, IsFull
<1>9. ParentFull(q, p) = pf
  BY <1>8 DEF Central
<1> QED BY ONLY <1>6, <1>9 DEF ApexReadings

LEMMA SplitShape ==
  ASSUME NEW t, NEW s, NEW x, NEW skip
  PROVE  IsStage(SplitOffFullPNode(t, s, x, skip))
<1>1. CASE Len(s.fullNeighbors[x]) = 1
  BY <1>1 DEF SplitOffFullPNode, IsStage
<1>2. CASE Len(s.fullNeighbors[x]) # 1
  BY <1>2 DEF SplitOffFullPNode, IsStage
<1> QED BY <1>1, <1>2

BesideShape(split, a, p, c, r) ==
  /\ IsStage(r) /\ r.s = split.s /\ r.node = split.node
  /\ ParentFull(split.s, p) =>
        r.t = AppendChild(ReplaceWith(split.t, a, split.node), split.node, c, FALSE)
  /\ ~ParentFull(split.s, p) => r.t = AppendChild(split.t, c, split.node, FALSE)

LEMMA BesideTree ==
  ASSUME NEW split, IsStage(split),
         NEW a, NEW p, NEW c, NEW r, r = Beside(split, a, p, c)
  PROVE  BesideShape(split, a, p, c, r)
<1> DEFINE g == IF ParentFull(split.s, p)
                THEN AppendChild(ReplaceWith(split.t, a, split.node), split.node, c, FALSE)
                ELSE AppendChild(split.t, c, split.node, FALSE)
<1>1. r = [split EXCEPT !.t = g]
  BY DEF Beside
<1>2. /\ ParentFull(split.s, p) => g = AppendChild(ReplaceWith(split.t, a, split.node), split.node, c, FALSE)
      /\ ~ParentFull(split.s, p) => g = AppendChild(split.t, c, split.node, FALSE)
  OBVIOUS
<1> HIDE DEF g
<1>3. PICK b, d, e : split = [t |-> b, s |-> d, node |-> e]
  BY DEF IsStage
<1>4. r = [t |-> g, s |-> d, node |-> e]
  BY <1>1, <1>3
<1>5. split.s = d /\ split.node = e
  BY <1>3
<1>6. IsStage(r)
  BY <1>4 DEF IsStage
<1>7. r.s = d /\ r.node = e /\ r.t = g
  BY <1>4
<1> QED BY <1>2, <1>5, <1>6, <1>7 DEF BesideShape

ApexSplitInto(t, s, v, a, p, f, pf, x) ==
  /\ pf => SplitFrom(v, x.t, a, x.node, ToSet(f) \ {p}) /\ x.node \notin InUse(t)
  /\ ~pf => /\ SplitFrom(v, x.t, a, x.node, ToSet(f))
            /\ ToSet(f) = {x.node} \/ TwoIn(ToSet(f))
  /\ ApexData(t, s, a, x.s) /\ x.node # Nil

\* The full neighbors of a that move: all of them, or all but the parent.
LEMMA ApexSplit ==
  ASSUME NEW t, NEW s, NEW a, NEW p, NEW c, NEW f, NEW S, NEW stub1, NEW stub2, NEW pf,
         Central(t, s, a, p, c, f, S, stub1, stub2, pf),
         NEW r, Begun(t, s, a, c, stub1, stub2, r), f # <<>>, ~(Len(f) = 1 /\ pf),
         NEW x, x = SplitOffFullPNode(r.t, r.s, a, pf)
  PROVE  ApexSplitInto(t, s, r.t, a, p, f, pf, x)
<1>1. CentralPlace(t, s, a, p, c, f, S, stub1, stub2, pf)
  BY CentralFacts
<1>2. /\ s \in TempType /\ AtApex(t, a, p, f, S, pf) /\ pf \in BOOLEAN /\ Forest(t)
      /\ c \in Inner /\ c \in Node /\ t.type[c] = "free" /\ c \notin InUse(t) /\ stub1 # Nil /\ stub1 # stub2
      /\ \A y \in S : y \in Node /\ t.parent[y] = a /\ y \notin ToSet(f)
      /\ S = {stub1, stub2} \ {Nil}
      /\ f \in Seq(Node) /\ Distinct(f)
      /\ \E b \in Inner : b # c /\ t.type[b] = "free"
  BY <1>1 DEF CentralPlace, Central
<1>3. ApexPlace(t, a, p, f)
  BY <1>2, AtApexFacts
<1>4. Opened(t, r.t, c, stub1, stub2) /\ ApexData(t, s, a, r.s) /\ r.node = Nil
  BY DEF Begun
<1>5. OpenPlace(t, r.t, a, p, c, S, f, stub2)
  BY <1>2, <1>4, OpenedFacts
<1>6. r.s.fullNeighbors[a] = f
  <2>1. ApexReadings(s, r.s, a, p, f, stub1, stub2, pf)
    BY <1>4, ApexRead
  <2> QED BY ONLY <2>1 DEF ApexReadings
<1>7. Forest(r.t) /\ r.t.type[c] = "C" /\ \A y \in Node : y # c => r.t.type[y] = t.type[y]
  BY <1>4 DEF Opened
<1>8. r.t.parent[a] = p /\ a \in InUse(r.t) /\ r.t.type[a] = "P" /\ a \in Node
  BY <1>3, <1>5 DEF OpenPlace, ApexPlace
<1>9. \A y \in ToSet(f) : y # p => t.parent[y] = a /\ r.t.parent[y] = a /\ y \in Node /\ y \in Kids(r.t, a)
  <2> SUFFICES ASSUME NEW y \in ToSet(f), y # p
               PROVE t.parent[y] = a /\ r.t.parent[y] = a /\ y \in Node /\ y \in Kids(r.t, a)
    OBVIOUS
  <2>1. y \in Node /\ t.parent[y] = a
    BY <1>3 DEF ApexPlace
  <2>2. y \notin S
    BY <1>2
  <2>3. r.t.parent[y] = a
    BY <2>1, <2>2, <1>5 DEF OpenPlace
  <2> QED BY <2>1, <2>3, <1>7, <1>8 DEF Forest, Arranged
<1>10. ~pf => p \notin ToSet(f)
  <2>1. ~pf => p = Nil \/ p \notin ToSet(f)
    BY <1>2 DEF AtApex
  <2>2. \A y \in ToSet(f) : y # Nil
    BY <1>2, <1>3, NodesAssumption DEF ApexPlace, Node
  <2> QED BY <2>1, <2>2
<1> DEFINE M == MovedOff(r.t, r.s, a, pf)
<1>11. (pf => M = ToSet(f) \ {p} /\ Len(f) # 1) /\ (~pf => M = ToSet(f))
  BY <1>6, <1>8 DEF MovedOff
<1>12. M \subseteq Kids(r.t, a)
  BY <1>9, <1>10, <1>11
<1>13. \E y \in Inner : r.t.type[y] = "free"
  BY <1>2, <1>7 DEF Node
<1>14. SplitOff(r.t, r.s, a, pf, f, x)
  <2>1. r.t.type[a] # "leaf"
    BY <1>8
  <2> QED BY ONLY <2>1, <1>2, <1>6, <1>7, <1>8, <1>12, <1>13, f # <<>>, x = SplitOffFullPNode(r.t, r.s, a, pf), SplitOffIs
<1>15. SplitFrom(r.t, x.t, a, x.node, M)
  BY <1>14 DEF SplitOff
<1>16. \/ Len(f) = 1 /\ x.s = r.s /\ M = {x.node}
       \/ /\ Len(f) # 1 /\ x.node \in Inner /\ r.t.type[x.node] = "free"
          /\ \E moved \in Seq(Node) : x.s = SplitTemp(r.s, x.node, moved)
  BY <1>14 DEF SplitOff
<1>17. Len(f) # 1 => x.node \notin InUse(t)
  BY <1>2, <1>7, <1>16 DEF InUse
<1>18. x.node # Nil
  <2>1. x.node \in Node
    BY <1>15 DEF SplitFrom
  <2> QED BY <2>1, NodesAssumption DEF Node
<1>19. ApexData(t, s, a, x.s)
  <2>1. CASE Len(f) = 1
    BY <2>1, <1>4, <1>16
  <2>2. CASE Len(f) # 1
    <3>1. PICK moved \in Seq(Node) : x.s = SplitTemp(r.s, x.node, moved)
      BY <2>2, <1>16
    <3>2. r.s \in TempType
      BY <1>4 DEF ApexData
    <3>3. x.node \in Node /\ x.node \notin InUse(t)
      BY <2>2, <1>16, <1>17 DEF Node
    <3>4. /\ x.s \in TempType /\ CountKept(r.s, x.s) /\ x.s.apexTPPred2 = r.s.apexTPPred2
          /\ DataElsewhere(r.s, x.s, x.node)
      BY <3>1, <3>2, <3>3, SplitTempIs
    <3> QED BY ONLY <3>3, <3>4, <1>4, ApexDataElsewhere
  <2> QED BY <2>1, <2>2
<1>20. Len(f) # 1 => TwoIn(ToSet(f))
  BY <1>2, SeveralElements
<1> HIDE DEF M
<1> QED BY ONLY <1>11, <1>15, <1>16, <1>17, <1>18, <1>19, <1>20 DEF ApexSplitInto

LEMMA FullNodeStep ==
  ASSUME NEW t, NEW s, NEW a, NEW p, NEW c, NEW f, NEW S, NEW stub1, NEW stub2, NEW pf,
         Central(t, s, a, p, c, f, S, stub1, stub2, pf),
         NEW r, Begun(t, s, a, c, stub1, stub2, r), NEW q, q = WithFullNode(r, p, c)
  PROVE  Staged(t, s, a, p, c, {stub1}, {stub2} \ {Nil}, f, pf, q)
<1>1. CentralPlace(t, s, a, p, c, f, S, stub1, stub2, pf)
  BY CentralFacts
<1>2. /\ AtApex(t, a, p, f, S, pf) /\ pf \in BOOLEAN
      /\ c \in Inner /\ t.type[c] = "free" /\ stub1 # Nil /\ stub1 # stub2
      /\ S = {stub1, stub2} \ {Nil}
      /\ f \in Seq(Node) /\ Distinct(f)
  BY <1>1 DEF CentralPlace, Central
<1>3. Opened(t, r.t, c, stub1, stub2) /\ ApexData(t, s, a, r.s) /\ r.node = Nil
  BY DEF Begun
<1>4. r.s.apexCandidate = a /\ r.s.fullNeighbors[a] = f /\ ParentFull(r.s, p) = pf
  <2>1. ApexReadings(s, r.s, a, p, f, stub1, stub2, pf)
    BY <1>3, ApexRead
  <2> QED BY ONLY <2>1 DEF ApexReadings
<1>5. f = <<>> <=> Len(f) = 0
  BY <1>2
<1>6. CASE f = <<>>
  <2>1. q = r
    BY <1>4, <1>5, <1>6 DEF WithFullNode
  <2>2. Grouped(t, r.t, a, p, c, Nil, {c}, {stub1}, {stub2} \ {Nil}, f, pf)
    BY ONLY <1>2, <1>3, <1>6, NoFullNode
  <2>3. q.node = Nil /\ ApexData(t, s, a, q.s) /\ IsStage(q)
    BY <2>1, <1>3 DEF Begun
  <2>4. \E New : Grouped(t, q.t, a, p, c, q.node, New, {stub1}, {stub2} \ {Nil}, f, pf)
    BY <2>1, <2>2, <2>3
  <2> QED BY ONLY <2>3, <2>4, <1>6 DEF Staged
<1>0. IsStage(r)
  BY DEF Begun
<1>7. CASE Len(f) = 1 /\ pf
  <2>1. q = [r EXCEPT !.t = ReplaceWith(@, a, c), !.node = p]
    BY <1>4, <1>7 DEF WithFullNode
  <2>2. q.t = ReplaceWith(r.t, a, c) /\ q.s = r.s /\ q.node = p /\ IsStage(q)
    BY <1>0, <2>1 DEF IsStage
  <2>3. Grouped(t, q.t, a, p, c, p, {c}, {stub1}, {stub2} \ {Nil}, f, pf)
    BY ONLY <1>2, <1>3, <1>7, <2>2, FullParentOnly
  <2>4. p # Nil
    BY <1>2, <1>7 DEF AtApex
  <2>5. f # <<>>
    BY <1>5, <1>7
  <2> QED BY <2>2, <2>3, <2>4, <2>5, <1>3 DEF Staged
<1>8. CASE f # <<>> /\ ~(Len(f) = 1 /\ pf)
  <2> DEFINE x == SplitOffFullPNode(r.t, r.s, a, pf)
  <2>1. q = Beside(x, a, p, c)
    <3>1. Len(f) # 0
      BY <1>5, <1>8
    <3>2. ~(Len(f) = 1 /\ ParentFull(r.s, p))
      BY <1>4, <1>8
    <3>3. q = Beside(SplitOffFullPNode(r.t, r.s, a, ParentFull(r.s, p)), a, p, c)
      BY ONLY <1>4, <3>1, <3>2, q = WithFullNode(r, p, c) DEF WithFullNode
    <3> QED BY <3>3, <1>4
  <2>0. ApexSplitInto(t, s, r.t, a, p, f, pf, x)
    <3> HIDE DEF x
    <3>1. x = SplitOffFullPNode(r.t, r.s, a, pf)
      BY DEF x
    <3> QED BY ONLY <3>1, <1>8, Central(t, s, a, p, c, f, S, stub1, stub2, pf),
               Begun(t, s, a, c, stub1, stub2, r), ApexSplit
  <2>2. /\ pf => SplitFrom(r.t, x.t, a, x.node, ToSet(f) \ {p}) /\ x.node \notin InUse(t)
        /\ ~pf => /\ SplitFrom(r.t, x.t, a, x.node, ToSet(f))
                  /\ ToSet(f) = {x.node} \/ TwoIn(ToSet(f))
        /\ ApexData(t, s, a, x.s) /\ x.node # Nil
    <3> HIDE DEF x
    <3> QED BY ONLY <2>0 DEF ApexSplitInto
  <2>3. IsStage(x)
    BY SplitShape
  <2>4. ParentFull(x.s, p) = pf
    <3> HIDE DEF x
    <3>1. ApexReadings(s, x.s, a, p, f, stub1, stub2, pf)
      BY <2>2, ApexRead
    <3> QED BY ONLY <3>1 DEF ApexReadings
  <2> HIDE DEF x
  <2>5. /\ IsStage(q) /\ q.s = x.s /\ q.node = x.node
        /\ pf => q.t = AppendChild(ReplaceWith(x.t, a, x.node), x.node, c, FALSE)
        /\ ~pf => q.t = AppendChild(x.t, c, x.node, FALSE)
    <3>1. BesideShape(x, a, p, c, q)
      BY <2>1, <2>3, BesideTree
    <3> QED BY ONLY <3>1, <2>4 DEF BesideShape
  <2>6. CASE pf
    <3>1. q.t = AppendChild(ReplaceWith(x.t, a, x.node), x.node, c, FALSE)
      BY <2>5, <2>6
    <3>2. ToSet(f) \ {p} # {}
      BY <1>2, <1>8, <2>6, SeveralElements
    <3>3. SplitFrom(r.t, x.t, a, x.node, ToSet(f) \ {p}) /\ x.node \notin InUse(t)
      BY <2>2, <2>6
    <3>4. \E New : Grouped(t, q.t, a, p, c, x.node, New, {stub1}, {stub2} \ {Nil}, f, pf)
      BY ONLY <1>2, <1>3, <2>6, <3>1, <3>2, <3>3, FullNodeAbove
    <3> QED BY <3>4, <2>2, <2>5, <1>8 DEF Staged
  <2>7. CASE ~pf
    <3>1. q.t = AppendChild(x.t, c, x.node, FALSE)
      BY <2>5, <2>7
    <3>2. SplitFrom(r.t, x.t, a, x.node, ToSet(f))
      BY <2>2, <2>7
    <3>3. ToSet(f) = {x.node} \/ \E y, z \in ToSet(f) : y # z
      BY <2>2, <2>7 DEF TwoIn
    <3>4. \E New : Grouped(t, q.t, a, p, c, x.node, New, {stub1}, {stub2} \ {Nil}, f, pf)
      BY ONLY <1>2, <1>3, <1>8, <2>7, <3>1, <3>2, <3>3, FullNodeBelow
    <3> QED BY <3>4, <2>2, <2>5, <1>8 DEF Staged
  <2> QED BY <2>6, <2>7
<1> QED BY <1>6, <1>7, <1>8

LEMMA SecondStubStep ==
  ASSUME NEW t, NEW s, NEW a, NEW p, NEW c, NEW f, NEW S, NEW stub1, NEW stub2, NEW pf,
         Central(t, s, a, p, c, f, S, stub1, stub2, pf),
         NEW r, Staged(t, s, a, p, c, {stub1}, {stub2} \ {Nil}, f, pf, r),
         NEW q, q = WithSecondStub(r, p, c)
  PROVE  Staged(t, s, a, p, c, S, {}, f, pf, q)
<1>1. CentralPlace(t, s, a, p, c, f, S, stub1, stub2, pf)
  BY CentralFacts
<1>2. /\ AtApex(t, a, p, f, S, pf) /\ pf \in BOOLEAN
      /\ stub1 # Nil /\ stub1 # stub2 /\ c \in Node
      /\ S = {stub1, stub2} \ {Nil} /\ \A y \in S : y \in Node
  BY <1>1 DEF CentralPlace, Central
<1>3. /\ ApexData(t, s, a, r.s) /\ (r.node = Nil <=> f = <<>>)
      /\ \E New : Grouped(t, r.t, a, p, c, r.node, New, {stub1}, {stub2} \ {Nil}, f, pf)
      /\ IsStage(r)
  BY DEF Staged
<1>4. r.s.apexCandidate = a /\ r.s.apexTPPred2 = stub2 /\ ParentFull(r.s, p) = pf
  <2>1. ApexReadings(s, r.s, a, p, f, stub1, stub2, pf)
    BY <1>3, ApexRead
  <2> QED BY ONLY <2>1 DEF ApexReadings
<1>5. CASE stub2 = Nil
  <2>1. q = r
    BY <1>4, <1>5 DEF WithSecondStub
  <2>2. {stub2} \ {Nil} = {} /\ S = {stub1}
    BY <1>2, <1>5
  <2> QED BY <2>1, <2>2
<1>6. CASE stub2 # Nil
  <2>1. q = [r EXCEPT !.t = AppendChild(@, c, stub2, pf), !.s = ReplaceNeighbor(@, stub2, a, c)]
    BY <1>4, <1>6 DEF WithSecondStub
  <2>2. /\ q.t = AppendChild(r.t, c, stub2, pf) /\ q.s = ReplaceNeighbor(r.s, stub2, a, c)
        /\ q.node = r.node /\ IsStage(q)
    BY <1>3, <2>1 DEF IsStage
  <2>3. PICK New : Grouped(t, r.t, a, p, c, r.node, New, {stub1}, {stub2} \ {Nil}, f, pf)
    BY <1>3
  <2>4. Grouped(t, q.t, a, p, c, r.node, New, S, {}, f, pf)
    BY ONLY <1>2, <1>6, <2>2, <2>3, SecondStubIs
  <2>5. stub2 \in Node
    BY <1>2, <1>6
  <2>6. ApexData(t, s, a, q.s)
    <3>1. q.s = ReplaceNeighbor(r.s, stub2, a, c)
      BY <2>2
    <3> QED BY ONLY <1>2, <1>3, <3>1, <2>5, ApexDataReplace
  <2> QED BY <2>2, <2>4, <2>6, <1>3 DEF Staged
<1> QED BY <1>5, <1>6

\* x becomes a child of c, wherever among the others.
LEMMA AttachIs ==
  ASSUME NEW v, Forest(v), NEW r, NEW a, NEW p, NEW c, NEW stub1, NEW stub2, NEW x,
         r.s.apexCandidate = a, r.s.tpPred[a] = stub1, r.s.apexTPPred2 = stub2,
         stub1 \in Node, v.parent[stub1] = c, stub2 # Nil => stub2 \in Node /\ v.parent[stub2] = c,
         c # Nil, MayHang(v, c, x), NEW w, w = Attach(v, r, x, p, c)
  PROVE  Hangs(v, w, c, x)
<1>1. CASE r.node # Nil /\ stub2 # Nil
  <2>1. w = InsertBetween(v, x, stub2, stub1)
    BY <1>1 DEF Attach
  <2>2. BetweenBelow(v, stub2, stub1) = c
    BY <1>1 DEF BetweenBelow
  <2>3. stub2 \in Node
    BY <1>1
  <2> QED BY <2>1, <2>2, <2>3, InsertBetweenIs
<1>2. CASE ~(r.node # Nil /\ stub2 # Nil)
  <2>1. w = AppendChild(v, c, x, ParentFull(r.s, p))
    BY <1>2 DEF Attach
  <2> QED BY <2>1, AppendEndIs
<1> QED BY <1>1, <1>2

LEMMA SizeCases ==
  ASSUME NEW E, IsFiniteSet(E), NEW k \in Nat, k = Cardinality(E)
  PROVE  /\ k = 0 <=> E = {}
         /\ k = 1 => \E e : E = {e}
         /\ k > 1 => TwoIn(E)
<1>1. k = 0 <=> E = {}
  BY ThreeElements
<1>2. k = 1 => \E e : E = {e}
  BY OneElement
<1>3. ASSUME k > 1 PROVE TwoIn(E)
  <2>1. PICK y \in E : TRUE
    BY <1>1, <1>3
  <2>2. E # {y}
    BY <1>3, ThreeElements
  <2>3. PICK z \in E : z # y
    BY <2>1, <2>2
  <2> QED BY <2>1, <2>3 DEF TwoIn
<1> QED BY <1>1, <1>2, <1>3

\* How many neighbors of a are empty.
EmptyCount(t, s, a, f, stub2) == Degree(t, a) - Len(f) - (IF stub2 = Nil THEN 1 ELSE 2)

EmptySize(t, a, f, S, stub2, k) ==
  /\ IsFiniteSet(EmptyAround(t, a, f, S)) /\ k \in Nat /\ k = Cardinality(EmptyAround(t, a, f, S))
  /\ f = <<>> => stub2 # Nil /\ EmptyAround(t, a, f, S) # {}
  /\ stub2 = Nil => f # <<>> /\ EmptyAround(t, a, f, S) # {}

LEMMA EmptySizeIs ==
  ASSUME NEW t, NEW s, NEW a, NEW p, NEW c, NEW f, NEW S, NEW stub1, NEW stub2, NEW pf,
         Central(t, s, a, p, c, f, S, stub1, stub2, pf),
         NEW k, k = EmptyCount(t, s, a, f, stub2)
  PROVE  EmptySize(t, a, f, S, stub2, k)
<1>1. CentralPlace(t, s, a, p, c, f, S, stub1, stub2, pf)
  BY CentralFacts
<1>2. /\ Sturdy(t) /\ Forest(t) /\ AtApex(t, a, p, f, S, pf)
      /\ stub1 # Nil /\ stub1 # stub2
      /\ f \in Seq(Node) /\ Distinct(f)
      /\ \A y \in ToSet(f) : y \in Node /\ Adjacent(t, a, y)
      /\ Len(f) + 2 <= Degree(t, a)
      /\ f = <<>> => stub2 # Nil
      /\ \A y \in S : y \in Node /\ t.parent[y] = a /\ y \notin ToSet(f)
      /\ S = {stub1, stub2} \ {Nil}
  BY <1>1 DEF CentralPlace, Central
<1>3. a \in InUse(t) /\ a \in Inner /\ a \in Node
  BY <1>2 DEF AtApex, InUse
<1> DEFINE E == EmptyAround(t, a, f, S)
<1>4. S \subseteq Node /\ IsFiniteSet(S) /\ \A y \in S : Adjacent(t, a, y) /\ y \notin ToSet(f)
  <2>1. S \subseteq Node
    BY <1>2
  <2>2. IsFiniteSet(S)
    BY <2>1, NodeIsFinite, FS_Subset
  <2> QED BY <2>1, <2>2, <1>2 DEF Adjacent
<1>5. IsFiniteSet(E) /\ Cardinality(E) \in Nat /\ Degree(t, a) = Cardinality(E) + Len(f) + Cardinality(S)
  <2>1. E = EmptyAround(t, a, f, S)
    OBVIOUS
  <2> HIDE DEF E
  <2> QED BY ONLY <2>1, <1>2, <1>3, <1>4, EmptyCounted
<1>6. Cardinality(S) = IF stub2 = Nil THEN 1 ELSE 2
  <2>1. CASE stub2 = Nil
    <3>1. S = {stub1}
      BY <2>1, <1>2
    <3> QED BY <2>1, <3>1, <1>4, ThreeElements
  <2>2. CASE stub2 # Nil
    <3>1. S = {stub1, stub2}
      BY <2>2, <1>2
    <3> QED BY <2>2, <3>1, <1>2, <1>4, ThreeElements
  <2> QED BY <2>1, <2>2
<1>7. Branches(t, a)
  BY <1>2, <1>3 DEF Sturdy
<1>8. Degree(t, a) >= 3
  BY <1>2, <1>3, <1>7, DegreeThree
<1>9. E = {} => Cardinality(E) = 0
  BY <1>5, ThreeElements
<1>10. Len(f) \in Nat /\ (f = <<>> => Len(f) = 0)
  BY <1>2
<1> HIDE DEF E
<1>11. k = Cardinality(E)
  <2>1. \A m, n, d \in Nat : (d = m + n + 1 => d - n - 1 = m) /\ (d = m + n + 2 => d - n - 2 = m)
    OBVIOUS
  <2>2. Degree(t, a) \in Nat
    BY <1>5, <1>6, <1>10
  <2> QED BY <2>1, <2>2, <1>5, <1>6, <1>10 DEF EmptyCount
<1>12. f = <<>> => E # {}
  BY <1>2, <1>5, <1>6, <1>8, <1>9, <1>10
<1>13. stub2 = Nil => E # {}
  BY <1>2, <1>5, <1>6, <1>9, <1>10
<1> QED BY ONLY <1>2, <1>5, <1>11, <1>12, <1>13 DEF EmptySize, E

\* What the last stage finds: the view, its data, the stubs below c.
LastStage(t, s, a, p, c, f, S, E, stub1, stub2, pf, r, New) ==
  /\ GroupedView(t, r.t, a, p, c, r.node, New, S, E, f, pf)
  /\ Grouped(t, r.t, a, p, c, r.node, New, S, {}, f, pf)
  /\ ApexReadings(s, r.s, a, p, f, stub1, stub2, pf)
  /\ stub1 \in Node /\ r.t.parent[stub1] = c /\ stub1 \notin E
  /\ stub2 # Nil => stub2 \in Node /\ r.t.parent[stub2] = c /\ stub2 \notin E
  /\ c # Nil /\ stub1 # a /\ stub2 # a

LEMMA LastStageIs ==
  ASSUME NEW t, NEW s, NEW a, NEW p, NEW c, NEW f, NEW S, NEW stub1, NEW stub2, NEW pf,
         Central(t, s, a, p, c, f, S, stub1, stub2, pf),
         NEW r, Staged(t, s, a, p, c, S, {}, f, pf, r), NEW E, E = EmptyAround(t, a, f, S)
  PROVE  \E New : LastStage(t, s, a, p, c, f, S, E, stub1, stub2, pf, r, New)
<1>1. CentralPlace(t, s, a, p, c, f, S, stub1, stub2, pf)
  BY CentralFacts
<1>2. /\ AtApex(t, a, p, f, S, pf) /\ stub1 # Nil /\ c \in Node
      /\ \A y \in S : y \in Node /\ t.parent[y] = a
      /\ S = {stub1, stub2} \ {Nil}
  BY <1>1 DEF CentralPlace, Central
<1>3. PICK New : Grouped(t, r.t, a, p, c, r.node, New, S, {}, f, pf)
  BY DEF Staged
<1>4. GroupedView(t, r.t, a, p, c, r.node, New, S, E, f, pf)
  BY ONLY <1>2, <1>3, E = EmptyAround(t, a, f, S), GroupedViewIs
<1>5. ApexReadings(s, r.s, a, p, f, stub1, stub2, pf)
  BY ApexRead DEF Staged
<1>6. \A y \in S : y \in Node /\ r.t.parent[y] = c /\ y \notin E /\ y # a
  <2>1. \A y \in S : r.t.parent[y] = c
    BY <1>3 DEF Grouped, GroupedFrame
  <2>2. \A y \in Node : t.parent[y] = a => y # a
    <3>1. ApexPlace(t, a, p, f)
      BY <1>2, AtApexFacts
    <3> QED BY <3>1 DEF ApexPlace
  <2> QED BY <2>1, <2>2, <1>2 DEF EmptyAround
<1>7. c # Nil
  BY <1>2, NodesAssumption DEF Node
<1>8. a # Nil
  BY ONLY <1>4 DEF GroupedView
<1>9. LastStage(t, s, a, p, c, f, S, E, stub1, stub2, pf, r, New)
  BY ONLY <1>2, <1>3, <1>4, <1>5, <1>6, <1>7, <1>8 DEF LastStage
<1> QED BY <1>9

\* Several empty neighbors.
LEMMA LastSeveral ==
  ASSUME NEW t, NEW s, NEW a, NEW p, NEW c, NEW f, NEW S, NEW E, NEW stub1, NEW stub2, NEW pf, NEW r, NEW New,
         LastStage(t, s, a, p, c, f, S, E, stub1, stub2, pf, r, New), TwoIn(E), NEW k \in Nat, k > 1,
         NEW e, NEW u, u = WithEmptyNode(r, e, p, c, k)
  PROVE  Closed(t, r.t, u, a, p, c, r.node, New, E, f)
<1>1. GroupedView(t, r.t, a, p, c, r.node, New, S, E, f, pf)
  BY DEF LastStage
<1>2. PICK y1 \in E, y2 \in E : y1 # y2
  BY DEF TwoIn
<1>3. r.s.apexCandidate = a /\ r.s.tpPred[a] = stub1 /\ r.s.apexTPPred2 = stub2 /\ ParentFull(r.s, p) = pf
  BY DEF LastStage, ApexReadings
<1>4. /\ Forest(r.t) /\ a \in InUse(r.t) /\ c \in InUse(r.t) /\ r.t.type[c] = "C" /\ r.t.type[a] = "P"
      /\ a \notin Up(r.t.parent, c)
      /\ pf => r.t.parent[a] = Nil
      /\ ~pf => r.t.parent[c] = Nil /\ c \notin Up(r.t.parent, a)
  BY <1>1 DEF GroupedView
<1>5. CASE pf
  <2>1. u = Attach(r.t, r, a, p, c)
    BY <1>3, <1>5 DEF WithEmptyNode
  <2>2. MayHang(r.t, c, a)
    BY <1>4, <1>5 DEF MayHang, Tops
  <2>3. Hangs(r.t, u, c, a)
    BY ONLY <1>3, <1>4, <2>1, <2>2, LastStage(t, s, a, p, c, f, S, E, stub1, stub2, pf, r, New), AttachIs
       DEF LastStage
  <2> QED BY ONLY <1>1, <1>2, <1>5, <2>3, ClosedBelow
<1>6. CASE ~pf
  <2>1. u = AppendChild(r.t, a, c, FALSE)
    BY <1>3, <1>6 DEF WithEmptyNode
  <2>2. MayHang(r.t, a, c)
    BY <1>4, <1>6 DEF MayHang, Tops
  <2>3. Hangs(r.t, u, a, c)
    BY ONLY <1>4, <2>1, <2>2, AppendEndIs
  <2> QED BY ONLY <1>1, <1>2, <1>6, <2>3, ClosedAbove
<1> QED BY <1>5, <1>6

\* No empty neighbor.
LEMMA LastNone ==
  ASSUME NEW t, NEW s, NEW a, NEW p, NEW c, NEW f, NEW S, NEW E, NEW stub1, NEW stub2, NEW pf, NEW r, NEW New,
         LastStage(t, s, a, p, c, f, S, E, stub1, stub2, pf, r, New), E = {},
         NEW e, NEW u, u = WithEmptyNode(r, e, p, c, 0)
  PROVE  Closed(t, r.t, u, a, p, c, r.node, New, E, f)
<1>1. GroupedView(t, r.t, a, p, c, r.node, New, S, E, f, pf)
  BY DEF LastStage
<1>2. r.s.apexCandidate = a
  BY DEF LastStage, ApexReadings
<1>3. u = Dropped(r.t, a, c)
  BY <1>2 DEF WithEmptyNode, Dropped
<1> QED BY <1>1, <1>3, ClosedAlone

\* One empty neighbor.
LEMMA LastOne ==
  ASSUME NEW t, NEW s, NEW a, NEW p, NEW c, NEW f, NEW S, NEW E, NEW stub1, NEW stub2, NEW pf, NEW r, NEW New,
         LastStage(t, s, a, p, c, f, S, E, stub1, stub2, pf, r, New), NEW e0, E = {e0},
         NEW e, e = EmptyNode(r, p, 1), NEW u, u = WithEmptyNode(r, e, p, c, 1)
  PROVE  Closed(t, r.t, u, a, p, c, r.node, New, E, f) /\ e = e0
<1>1. GroupedView(t, r.t, a, p, c, r.node, New, S, E, f, pf)
  BY DEF LastStage
<1>2. r.s.apexCandidate = a /\ r.s.tpPred[a] = stub1 /\ r.s.apexTPPred2 = stub2 /\ ParentFull(r.s, p) = pf
  BY DEF LastStage, ApexReadings
<1>3. /\ Forest(r.t) /\ c \in InUse(r.t) /\ r.t.type[c] = "C" /\ a \in Node /\ a # Nil
      /\ e0 \in Node /\ (e0 = p \/ (t.parent[e0] = a /\ r.t.parent[e0] = a))
      /\ pf => p # e0
      /\ ~pf /\ p # Nil => p = e0
      /\ \A y \in Node : r.t.parent[y] = a => y = e0
      /\ e0 \notin Up(r.t.parent, c) \/ t.parent[e0] # a
  BY <1>1 DEF GroupedView
<1>4. IsOnlyChild(r, p) <=> pf \/ p = Nil
  BY <1>2 DEF IsOnlyChild
<1>5. CASE pf \/ p = Nil
  <2>1. e = r.t.kids[a][1]
    BY <1>2, <1>4, <1>5 DEF EmptyNode
  <2>2. p # e0
    BY <1>3, <1>5, NodesAssumption DEF Node
  <2>3. t.parent[e0] = a /\ r.t.parent[e0] = a
    BY <1>3, <2>2
  <2>4. Kids(r.t, a) = {e0}
    BY <1>3, <2>3, KidsCounted
  <2>5. e = e0
    <3>1. /\ r.t.kids[a] # <<>> /\ 1 \in DOMAIN r.t.kids[a] /\ Kids(r.t, a) = {r.t.kids[a][i] : i \in DOMAIN r.t.kids[a]}
      <4>1. /\ Len(r.t.kids[a]) \in Nat /\ DOMAIN r.t.kids[a] = 1..Len(r.t.kids[a])
            /\ Kids(r.t, a) = {r.t.kids[a][i] : i \in DOMAIN r.t.kids[a]}
            /\ Kids(r.t, a) = {} <=> r.t.kids[a] = <<>>
            /\ r.t.kids[a] = <<>> <=> Len(r.t.kids[a]) = 0
        BY <1>3, ForestKids DEF Forest
      <4> QED BY <4>1, <2>4
    <3> QED BY <2>1, <2>4, <3>1
  <2> DEFINE v1 == Detach(r.t, e)
             v2 == Attach(v1, r, e, p, c)
  <2>6. u = Dropped(v2, a, c)
    <3>1. IsOnlyChild(r, p)
      BY <1>4, <1>5
    <3>2. u = DestroyNode([v2 EXCEPT !.root = IF a = @ THEN c ELSE @], a)
      BY <1>2, <3>1 DEF WithEmptyNode
    <3> QED BY <3>2 DEF Dropped
  <2>7. MayHang(v1, c, e)
    <3>1. r.t.parent[e] # Nil /\ e \in Node
      BY <2>3, <2>5, <1>3
    <3>2. e \notin Up(r.t.parent, c) /\ r.t.type[c] # "leaf"
      BY <1>3, <2>3, <2>5
    <3> QED BY ONLY <3>1, <3>2, <1>3, LooseMayHang
  <2>8. /\ Forest(v1) /\ \A x \in Node : x # e => v1.parent[x] = r.t.parent[x]
    <3>1. r.t.parent[e] # Nil /\ e \in Node
      BY <2>3, <2>5, <1>3
    <3> QED BY <3>1, <1>3, DetachIs
  <2>9. /\ stub1 \in Node /\ v1.parent[stub1] = c /\ (stub2 # Nil => stub2 \in Node /\ v1.parent[stub2] = c)
        /\ c # Nil
    <3> HIDE DEF v1
    <3>1. /\ stub1 \in Node /\ r.t.parent[stub1] = c /\ stub1 \notin E
          /\ stub2 # Nil => stub2 \in Node /\ r.t.parent[stub2] = c /\ stub2 \notin E
          /\ c # Nil
      BY DEF LastStage
    <3> QED BY <3>1, <2>5, <2>8
  <2>10. v2 = Attach(v1, r, e, p, c) /\ v1 = Detach(r.t, e)
    OBVIOUS
  <2> HIDE DEF v1, v2
  <2>11. Hangs(v1, v2, c, e)
    BY ONLY <2>7, <2>8, <2>9, <2>10, <1>2, AttachIs
  <2>12. E = {e} /\ v1 = Detach(r.t, e)
    BY <2>5, <2>10
  <2>13. Closed(t, r.t, u, a, p, c, r.node, New, E, f)
    BY ONLY <1>1, <1>5, <2>12, <2>11, <2>6, ClosedChild
  <2> QED BY <2>5, <2>13
<1>6. CASE ~(pf \/ p = Nil)
  <2>1. e = p /\ e = e0
    BY <1>2, <1>3, <1>4, <1>6 DEF EmptyNode
  <2>2. u = Dropped(ReplaceWith(r.t, a, c), a, c)
    <3>1. ~IsOnlyChild(r, p)
      BY <1>4, <1>6
    <3>2. u = DestroyNode([ReplaceWith(r.t, a, c) EXCEPT !.root = IF a = @ THEN c ELSE @], a)
      BY <1>2, <3>1 DEF WithEmptyNode
    <3> QED BY <3>2 DEF Dropped
  <2>3. ~pf /\ p # Nil
    BY <1>6
  <2>4. Closed(t, r.t, u, a, p, c, r.node, New, E, f)
    BY ONLY <1>1, <2>2, <2>3, E = {e0}, ClosedParent
  <2> QED BY <2>1, <2>4
<1> QED BY <1>5, <1>6

\* The data with which the new central node starts.
NamedFacts(q, r, c, n, e, stub1, stub2) ==
  /\ r \in TempType /\ CountKept(q, r) /\ r.apexTPPred2 = stub2
  /\ DataElsewhere(q, r, c)
  /\ r.tpPred[c] = stub1 /\ r.ebEnd1[c] = stub1
  /\ n # Nil => r.fbEnd1[c] = n /\ r.fbEnd2[c] = n
  /\ n = Nil => r.fbEnd1[c] = stub2 /\ r.fbEnd2[c] = stub1

LEMMA EndsNamedIs ==
  ASSUME NEW q \in TempType, NEW c \in Node, NEW n \in Ref, NEW e \in Ref,
         NEW stub1 \in Ref, NEW stub2 \in Ref,
         q.apexTPPred2 = stub2, q.tpPred[q.apexCandidate] = stub1, NEW r, r = EndsNamed(q, c, n, e)
  PROVE  NamedFacts(q, r, c, n, e, stub1, stub2)
<1> DEFINE lab == IF n # Nil THEN "Partial" ELSE "Empty"
           fn  == IF n # Nil THEN <<n>> ELSE <<>>
           f1  == IF n # Nil THEN n ELSE stub2
           f2  == IF n # Nil THEN n ELSE stub1
           e2  == IF stub2 # Nil THEN stub2 ELSE e
<1>1. r = [q EXCEPT !.label[c] = lab, !.fullNeighbors[c] = fn, !.tpPred[c] = stub1, !.ebEnd1[c] = stub1,
                    !.fbEnd1[c] = f1, !.fbEnd2[c] = f2, !.ebEnd2[c] = e2]
  BY DEF EndsNamed
<1>2. lab \in {"Empty", "Partial", "Full"} /\ fn \in Seq(Node) /\ f1 \in Ref /\ f2 \in Ref /\ e2 \in Ref
  BY DEF Ref
<1>3. /\ n # Nil => f1 = n /\ f2 = n
      /\ n = Nil => f1 = stub2 /\ f2 = stub1
  OBVIOUS
<1> HIDE DEF lab, fn, f1, f2, e2
<1>4. r \in TempType
  <2> DEFINE q1 == [q EXCEPT !.label[c] = lab, !.fullNeighbors[c] = fn, !.tpPred[c] = stub1]
  <2>1. q1 \in TempType
    BY ONLY <1>2, q \in TempType, c \in Node, stub1 \in Ref DEF TempType
  <2>2. r = [q1 EXCEPT !.ebEnd1[c] = stub1, !.fbEnd1[c] = f1, !.fbEnd2[c] = f2, !.ebEnd2[c] = e2]
    BY <1>1 DEF TempType
  <2> HIDE DEF q1
  <2> QED BY ONLY <1>2, <2>1, <2>2, c \in Node, stub1 \in Ref DEF TempType
<1>5. CountKept(q, r) /\ r.apexTPPred2 = q.apexTPPred2
  BY <1>1 DEF CountKept, TempType
<1>6. DataElsewhere(q, r, c)
  BY <1>1 DEF DataElsewhere, TempType
<1>7. r.tpPred[c] = stub1 /\ r.ebEnd1[c] = stub1 /\ r.fbEnd1[c] = f1 /\ r.fbEnd2[c] = f2
  BY <1>1 DEF TempType
<1> QED BY <1>3, <1>4, <1>5, <1>6, <1>7 DEF NamedFacts

\* The data of the nodes of the path, past both changes.
LEMMA PathData ==
  ASSUME NEW t, NEW s, NEW a, NEW c, NEW q, ApexData(t, s, a, q), NEW r, DataElsewhere(q, r, c)
  PROVE  \A y \in Node : y \in InUse(t) /\ y # c =>
           /\ r.label[y] = s.label[y] /\ r.fullNeighbors[y] = s.fullNeighbors[y]
           /\ s.tpPred[y] # a => r.tpPred[y] = s.tpPred[y]
           /\ s.fbEnd1[y] # a => r.fbEnd1[y] = s.fbEnd1[y]
           /\ s.fbEnd2[y] # a => r.fbEnd2[y] = s.fbEnd2[y]
BY DEF ApexData, DataElsewhere

LEMMA PathMoved ==
  ASSUME NEW t, Forest(t), NEW s, NEW a \in Node, NEW Q, PathSet(t, s, a, Q),
         NEW c \in Inner, c \notin InUse(t), NEW New, New \cap InUse(t) = {}, c \in New,
         NEW u, \A y \in Node : y \notin New /\ y # a => u.type[y] = t.type[y], Forest(u),
         OutsideKept(t, u, a, New),
         NEW stub1, NEW stub2, stub1 = s.tpPred[a], stub2 = s.apexTPPred2,
         stub1 # Nil, stub1 # stub2, u.parent[stub1] = c, stub2 # Nil => u.parent[stub2] = c,
         NEW r, r.tpPred[c] = stub1, r.apexTPPred2 = stub2,
         \A y \in Node : y \in InUse(t) /\ y # c =>
           /\ r.label[y] = s.label[y] /\ r.fullNeighbors[y] = s.fullNeighbors[y]
           /\ s.tpPred[y] # a => r.tpPred[y] = s.tpPred[y]
           /\ s.fbEnd1[y] # a => r.fbEnd1[y] = s.fbEnd1[y]
           /\ s.fbEnd2[y] # a => r.fbEnd2[y] = s.fbEnd2[y]
  PROVE  PathSet(u, r, c, Q)
<1>1. /\ Q \subseteq Node /\ a \notin Q /\ stub1 \in Q /\ t.parent[stub1] = a
      /\ stub2 # Nil => stub2 \in Q /\ t.parent[stub2] = a
      /\ \A y \in Q : Passed(t, s, y, a, Q)
  BY DEF PathSet
<1>2. \A y \in Q : y \in InUse(t) /\ y \in Inner /\ t.parent[y] \in Q \cup {a} /\ y \in Node
  BY <1>1 DEF Passed
<1>3. /\ \A y \in Q : y # c /\ y # a /\ y \notin New
      /\ c \in Node /\ a # Nil
  BY <1>1, <1>2, NodesAssumption DEF Node
<1>4. t.parent[a] \notin Q
  <2> SUFFICES ASSUME t.parent[a] \in Q PROVE FALSE
    OBVIOUS
  <2>1. Q \cup {a} \in SUBSET Node /\ Q \cup {a} # {}
    BY <1>1
  <2>2. \A y \in Q \cup {a} : t.parent[y] \in Q \cup {a}
    BY <1>2
  <2> QED BY <2>1, <2>2 DEF Forest, Acyclic
<1>5. \A y \in Q : t.parent[y] # a => u.parent[y] = t.parent[y] /\ t.parent[y] \in Q
  BY <1>2, <1>3 DEF OutsideKept
<1>6. \A y \in Q : t.parent[y] = a => y \in {stub1, stub2} /\ u.parent[y] = c
  <2> SUFFICES ASSUME NEW y \in Q, t.parent[y] = a PROVE y \in {stub1, stub2} /\ u.parent[y] = c
    OBVIOUS
  <2>1. y \in {stub1, stub2}
    BY <1>1 DEF Passed
  <2>2. y # Nil
    BY <1>2, NodesAssumption DEF Node
  <2> QED BY <2>1, <2>2
<1>7. \A y \in Q : s.tpPred[y] # a /\ r.tpPred[y] = s.tpPred[y] /\ r.label[y] = s.label[y]
                   /\ r.fullNeighbors[y] = s.fullNeighbors[y]
  <2>1. \A y \in Q : s.tpPred[y] # a
    BY <1>1, <1>3 DEF Passed
  <2> QED BY <2>1, <1>2, <1>3
<1>8. \A y \in Q : u.type[y] = t.type[y] /\ y \in InUse(u)
  BY <1>2, <1>3 DEF InUse
<1>9. ASSUME NEW y \in Q PROVE Passed(u, r, y, c, Q)
  <2>1. y \in InUse(u) /\ y \in Inner /\ u.parent[y] \in Q \cup {c}
    BY <1>2, <1>5, <1>6, <1>8
  <2>2. r.tpPred[u.parent[y]] # y => u.parent[y] = c /\ y = r.apexTPPred2
    <3>1. CASE t.parent[y] = a
      BY <3>1, <1>6
    <3>2. CASE t.parent[y] # a
      <4>1. s.tpPred[t.parent[y]] = y
        BY <3>2, <1>1 DEF Passed
      <4> QED BY <4>1, <3>2, <1>5, <1>7
    <3> QED BY <3>1, <3>2
  <2>3. r.tpPred[y] # Nil => r.tpPred[y] \in Q /\ u.parent[r.tpPred[y]] = y
    <3>1. s.tpPred[y] # Nil => s.tpPred[y] \in Q /\ t.parent[s.tpPred[y]] = y
      BY <1>1 DEF Passed
    <3> QED BY <3>1, <1>3, <1>5, <1>7
  <2>4. r.tpPred[y] = Nil => r.label[y] = "Partial"
    BY <1>1, <1>7 DEF Passed
  <2>5. ASSUME r.label[y] = "Partial"
        PROVE  /\ r.fullNeighbors[y] \in Seq(Node) /\ r.fullNeighbors[y] # <<>> /\ Distinct(r.fullNeighbors[y])
               /\ ToSet(r.fullNeighbors[y]) \subseteq Kids(u, y) \ Q
               /\ u.type[y] = "C" => {r.fbEnd1[y], r.fbEnd2[y]} \subseteq ToSet(r.fullNeighbors[y])
    <3>1. /\ s.fullNeighbors[y] \in Seq(Node) /\ s.fullNeighbors[y] # <<>> /\ Distinct(s.fullNeighbors[y])
          /\ ToSet(s.fullNeighbors[y]) \subseteq Kids(t, y) \ Q
          /\ t.type[y] = "C" => {s.fbEnd1[y], s.fbEnd2[y]} \subseteq ToSet(s.fullNeighbors[y])
      BY <2>5, <1>1, <1>7 DEF Passed
    <3>2. \A z \in Kids(t, y) : z \in Node /\ t.parent[z] = y /\ z \in InUse(t) /\ z # a
      BY <1>2, <1>4, ForestFacts DEF InUse
    <3>3. \A z \in Kids(t, y) : u.parent[z] = y
      BY <3>2, <1>3 DEF OutsideKept
    <3>4. \A z \in Kids(t, y) : z \in Kids(u, y)
      BY <3>2, <3>3, <1>2 DEF Forest, Arranged
    <3>5. t.type[y] = "C" => s.fbEnd1[y] # a /\ s.fbEnd2[y] # a
      BY <3>1, <3>2
    <3>6. t.type[y] = "C" => r.fbEnd1[y] = s.fbEnd1[y] /\ r.fbEnd2[y] = s.fbEnd2[y]
      BY <3>5, <1>2, <1>3
    <3> QED BY <3>1, <3>4, <3>6, <1>7, <1>8
  <2> QED BY <2>1, <2>2, <2>3, <2>4, <2>5 DEF Passed
<1> QED BY <1>1, <1>3, <1>6, <1>9 DEF PathSet

LEMMA FinishIs ==
  ASSUME NEW t, NEW s, NEW a, NEW p, NEW c, NEW f, NEW S, NEW stub1, NEW stub2, NEW pf,
         Central(t, s, a, p, c, f, S, stub1, stub2, pf),
         NEW r, Staged(t, s, a, p, c, S, {}, f, pf, r),
         NEW k, k = EmptyCount(t, s, a, f, stub2), NEW e, e = EmptyNode(r, p, k),
         NEW u, u = WithEmptyNode(r, e, p, c, k)
  PROVE  (\E New : Renewed(t, u, a, c, r.node, New, S, f)) /\ e \in Ref
<1> DEFINE E == EmptyAround(t, a, f, S)
<1>1. CentralPlace(t, s, a, p, c, f, S, stub1, stub2, pf)
  BY CentralFacts
<1>2. /\ Sturdy(t) /\ AtApex(t, a, p, f, S, pf) /\ stub1 # Nil /\ stub1 # stub2
      /\ S = {stub1, stub2} \ {Nil}
  BY <1>1 DEF CentralPlace, Central
<1>3. /\ IsFiniteSet(E) /\ k \in Nat /\ k = Cardinality(E)
      /\ f = <<>> => stub2 # Nil /\ E # {}
      /\ stub2 = Nil => f # <<>> /\ E # {}
  <2>1. EmptySize(t, a, f, S, stub2, k)
    BY EmptySizeIs
  <2> QED BY ONLY <2>1 DEF EmptySize
<1>4. PICK New : LastStage(t, s, a, p, c, f, S, E, stub1, stub2, pf, r, New)
  BY LastStageIs
<1>5. Grouped(t, r.t, a, p, c, r.node, New, S, {}, f, pf) /\ r.s.apexCandidate = a
  BY <1>4 DEF LastStage, ApexReadings
<1>6. E = EmptyAround(t, a, f, S)
  OBVIOUS
<1>7. E \subseteq Node /\ a \in Node
  BY <1>2 DEF EmptyAround, AtApex, Node
<1> HIDE DEF E
<1>8. Closed(t, r.t, u, a, p, c, r.node, New, E, f) /\ e \in Ref
  <2>1. CASE k = 0
    <3>1. E = {}
      BY <1>3, <2>1, SizeCases
    <3>2. u = WithEmptyNode(r, e, p, c, 0)
      BY <2>1
    <3>3. e = Nil
      BY <2>1 DEF EmptyNode
    <3> QED BY <1>4, <3>1, <3>2, <3>3, LastNone DEF Ref
  <2>2. CASE k = 1
    <3>1. PICK e0 : E = {e0}
      BY <1>3, <2>2, SizeCases
    <3>2. u = WithEmptyNode(r, e, p, c, 1) /\ e = EmptyNode(r, p, 1)
      BY <2>2
    <3>3. Closed(t, r.t, u, a, p, c, r.node, New, E, f) /\ e = e0
      BY ONLY <1>4, <3>1, <3>2, LastOne
    <3> QED BY <3>1, <3>3, <1>7 DEF Ref
  <2>3. CASE k > 1
    <3>1. TwoIn(E)
      BY <1>3, <2>3, SizeCases
    <3>2. k # 0 /\ k # 1
      BY <1>3, <2>3
    <3>3. e = a
      BY <1>5, <2>3, <3>2 DEF EmptyNode
    <3>4. Closed(t, r.t, u, a, p, c, r.node, New, E, f)
      BY ONLY <1>3, <1>4, <2>3, <3>1, u = WithEmptyNode(r, e, p, c, k), LastSeveral
    <3> QED BY <3>3, <3>4, <1>7 DEF Ref
  <2> QED BY <1>3, <2>1, <2>2, <2>3
<1>9. Renewed(t, u, a, c, r.node, New, S, f)
  BY ONLY <1>2, <1>3, <1>5, <1>6, <1>8, ClosedSturdy
<1> QED BY <1>8, <1>9

LEMMA PNodeCentral ==
  ASSUME NEW t, NEW s, FoundRight(t, s), NEW a, a = s.apexCandidate, t.type[a] = "P",
         s.terminalPathLength # 1,
         NEW r, r = CentralOfPNode(t, s), NEW w \in WorkType, w.merged = 0,
         NEW w2, w2 = StartArm(r.s, w, r.node, r.s.tpPred[r.node])
  PROVE  MergeRight(r.t, r.s, w2) /\ CountKept(s, r.s) /\ w2 \in WorkType
<1> DEFINE p == t.parent[a]
           c == FreeInner(t)
           f == s.fullNeighbors[a]
           stub1 == s.tpPred[a]
           stub2 == s.apexTPPred2
           S == {stub1, stub2} \ {Nil}
           pf == ParentFull(s, p)
           k == EmptyCount(t, s, a, f, stub2)
           r1 == WithFirstStub(t, s, c)
           r2 == WithFullNode(r1, p, c)
           r3 == WithSecondStub(r2, p, c)
           e == EmptyNode(r3, p, k)
<1>1. Central(t, s, a, p, c, f, S, stub1, stub2, pf)
  BY SMTT(40) DEF Central
<1>2. r = Surrounded(r3, e, p, c, k)
  BY ZenonT(40) DEF CentralOfPNode, FinishCentral, EmptyCount
<1>4. /\ r1 = WithFirstStub(t, s, c) /\ r2 = WithFullNode(r1, p, c) /\ r3 = WithSecondStub(r2, p, c)
      /\ k = EmptyCount(t, s, a, f, stub2) /\ e = EmptyNode(r3, p, k)
      /\ stub1 = s.tpPred[a] /\ stub2 = s.apexTPPred2 /\ S = {stub1, stub2} \ {Nil}
      /\ f = s.fullNeighbors[a]
  OBVIOUS
<1> HIDE DEF r1, r2, r3, k, e, p, c, f, stub1, stub2, S, pf
<1>3. r.t = WithEmptyNode(r3, e, p, c, k) /\ r.s = EndsNamed(r3.s, c, r3.node, e) /\ r.node = c
  BY ONLY <1>2 DEF Surrounded
<1>5. Begun(t, s, a, c, stub1, stub2, r1)
  BY ONLY <1>1, <1>4, FirstStubStep
<1>6. Staged(t, s, a, p, c, {stub1}, {stub2} \ {Nil}, f, pf, r2)
  BY ONLY <1>1, <1>4, <1>5, FullNodeStep
<1>7. Staged(t, s, a, p, c, S, {}, f, pf, r3)
  BY ONLY <1>1, <1>4, <1>6, SecondStubStep
<1>8. (\E New : Renewed(t, r.t, a, c, r3.node, New, S, f)) /\ e \in Ref
  BY ONLY <1>1, <1>3, <1>4, <1>7, FinishIs
<1>9. CentralPlace(t, s, a, p, c, f, S, stub1, stub2, pf)
  BY <1>1, CentralFacts
<1>10. /\ s \in TempType /\ Forest(t) /\ AtApex(t, a, p, f, S, pf)
       /\ c \in Inner /\ c \in Node /\ c \notin InUse(t) /\ stub1 # Nil /\ stub1 # stub2
       /\ \A y \in S : y \in Node
       /\ f = <<>> => stub2 # Nil
  BY <1>9 DEF CentralPlace
<1>11. ApexData(t, s, a, r3.s) /\ (r3.node = Nil <=> f = <<>>) /\ r3.s \in TempType
  BY <1>7 DEF Staged, ApexData
<1>12. PICK New : Renewed(t, r.t, a, c, r3.node, New, S, f)
  BY <1>8
<1>13. /\ Sturdy(r.t) /\ c \in New /\ New \subseteq Inner /\ New \cap InUse(t) = {} /\ r.t.type[c] = "C"
       /\ \A y \in Node : y \notin New /\ y # a => r.t.type[y] = t.type[y]
       /\ OutsideKept(t, r.t, a, New)
       /\ \A y \in S : r.t.parent[y] = c
       /\ f # <<>> => r3.node \in Node /\ r3.node \notin S /\ Adjacent(r.t, c, r3.node)
  BY <1>12 DEF Renewed
<1>14. stub1 \in Node /\ (stub2 # Nil => stub2 \in Node)
  BY <1>4, <1>10
<1>15. stub1 \in Ref /\ stub2 \in Ref /\ r3.node \in Ref
  BY <1>10, <1>11, <1>13, <1>14 DEF Ref
<1>16. ApexReadings(s, r3.s, a, p, f, stub1, stub2, pf)
  BY <1>1, <1>11, ApexRead
<1>17. NamedFacts(r3.s, r.s, c, r3.node, e, stub1, stub2)
  <2>1. r3.s.apexTPPred2 = stub2 /\ r3.s.tpPred[r3.s.apexCandidate] = stub1
    BY ONLY <1>16 DEF ApexReadings
  <2> QED BY ONLY <2>1, <1>3, <1>8, <1>10, <1>11, <1>15, EndsNamedIs
<1>18. PICK Q : PathSet(t, s, a, Q) /\ s.terminalPathLength = 1 + Cardinality(Q)
  BY DEF FoundRight
<1>19. a \in Node /\ Forest(r.t)
  BY <1>10, <1>13 DEF AtApex, Node, Sturdy
<1>20. r.t.parent[stub1] = c /\ (stub2 # Nil => r.t.parent[stub2] = c)
  BY <1>4, <1>10, <1>13
<1>21. /\ r.s \in TempType /\ CountKept(r3.s, r.s) /\ r.s.apexTPPred2 = stub2
       /\ r.s.tpPred[c] = stub1 /\ r.s.ebEnd1[c] = stub1
       /\ r3.node # Nil => r.s.fbEnd1[c] = r3.node /\ r.s.fbEnd2[c] = r3.node
       /\ r3.node = Nil => r.s.fbEnd1[c] = stub2 /\ r.s.fbEnd2[c] = stub1
       /\ DataElsewhere(r3.s, r.s, c)
  BY ONLY <1>17 DEF NamedFacts
<1>22. PathSet(r.t, r.s, c, Q)
  <2>1. \A y \in Node : y \in InUse(t) /\ y # c =>
           /\ r.s.label[y] = s.label[y] /\ r.s.fullNeighbors[y] = s.fullNeighbors[y]
           /\ s.tpPred[y] # a => r.s.tpPred[y] = s.tpPred[y]
           /\ s.fbEnd1[y] # a => r.s.fbEnd1[y] = s.fbEnd1[y]
           /\ s.fbEnd2[y] # a => r.s.fbEnd2[y] = s.fbEnd2[y]
    BY <1>11, <1>21, PathData
  <2> QED BY ONLY SMTT(40), <2>1, <1>4, <1>10, <1>13, <1>18, <1>19, <1>20, <1>21, PathMoved
<1>23. EndsRight(r.t, r.s, c)
  <2>1. stub1 \in S /\ (stub2 # Nil => stub2 \in S)
    BY <1>4, <1>10
  <2>2. CASE r3.node # Nil
    BY <2>1, <2>2, <1>11, <1>13, <1>21 DEF EndsRight
  <2>3. CASE r3.node = Nil
    <3>1. stub2 # Nil
      BY <2>3, <1>10, <1>11
    <3>2. Adjacent(r.t, c, stub1) /\ Adjacent(r.t, c, stub2)
      BY <3>1, <1>20 DEF Adjacent
    <3> QED BY <3>1, <3>2, <2>3, <1>10, <1>14, <1>21 DEF EndsRight
  <2> QED BY <2>2, <2>3
<1>24. w2 = [w EXCEPT !.central = c, !.tpNeigh = stub1, !.slot = 1]
  BY <1>3, <1>21 DEF StartArm
<1>25. w2.central = c /\ w2.tpNeigh = stub1 /\ w2.slot = 1 /\ w2 \in WorkType /\ w2.merged = 0
  BY <1>10, <1>15, <1>24 DEF WorkType, Ref
<1>26. ArmRight(r.t, r.s, w2)
  BY <1>10, <1>21, <1>25 DEF ArmRight
<1>27. c \in InUse(r.t)
  BY <1>10, <1>13 DEF InUse
<1>30. r.s.terminalPathLength = 1 + w2.merged + Cardinality(Q)
  <2>1. Cardinality(Q) \in Nat
    BY <1>18, NodeIsFinite, FS_Subset, FS_CardinalityType DEF PathSet
  <2>2. r.s.terminalPathLength = s.terminalPathLength
    BY <1>11, <1>21 DEF ApexData, CountKept
  <2> QED BY <2>1, <2>2, <1>18, <1>25
<1>28. MergeRight(r.t, r.s, w2)
  BY ONLY <1>30, <1>13, <1>21, <1>22, <1>23, <1>25, <1>26, <1>27 DEF MergeRight
<1>29. CountKept(s, r.s)
  BY <1>11, <1>21 DEF ApexData, CountKept
<1> QED BY <1>25, <1>28, <1>29

\* What updateSingletonTerminalPath makes of the tree.
SingletonJoined(t, s, a, split) ==
  LET p == t.parent[a]
  IN  IF p # Nil /\ IsFull(s, p)
        THEN AppendChild(ReplaceWith(split.t, a, split.node), split.node, a, FALSE)
        ELSE AppendChild(split.t, a, split.node, FALSE)

LEMMA SingletonSturdy ==
  ASSUME NEW t, NEW s, FoundRight(t, s), NEW a, a = s.apexCandidate, t.type[a] = "P",
         Len(s.fullNeighbors[a]) > 1, Degree(t, a) - Len(s.fullNeighbors[a]) > 1,
         NEW skip, skip = TRUE, NEW split, split = SplitOffFullPNode(t, s, a, skip),
         NEW u, u = SingletonJoined(t, s, a, split)
  PROVE  Sturdy(u) /\ split.s \in TempType
<1> DEFINE p == t.parent[a]
           f == s.fullNeighbors[a]
           pf == ParentFull(s, p)
           n == split.node
           v == split.t
<1>1. Sturdy(t) /\ s \in TempType /\ ApexRight(t, s, a) /\ Forest(t) /\ Tops(t) = {t.root}
      /\ t.root \in Node
  BY SturdyFacts DEF FoundRight, Sturdy
<1>2. /\ a \in InUse(t) /\ a \in Inner /\ a \in Node
      /\ f \in Seq(Node) /\ Distinct(f)
      /\ \A y \in ToSet(f) : y \in Node /\ Adjacent(t, a, y) /\ s.label[y] = "Full"
      /\ \A y \in Node : Adjacent(t, a, y) /\ s.label[y] = "Full" => y \in ToSet(f)
  BY <1>1 DEF ApexRight, InUse
<1>3. p # Nil => p \in Node /\ Adjacent(t, a, p)
  BY <1>1, <1>2, InUseFacts DEF Adjacent
<1>4. (pf <=> p # Nil /\ p \in ToSet(f)) /\ pf \in BOOLEAN
  BY <1>2, <1>3 DEF ParentFull, IsFull
<1>5. AtApex(t, a, p, f, {}, pf)
  BY <1>1, <1>2, <1>4 DEF AtApex
<1>6. Len(f) # 1 /\ Len(f) > 1 /\ Degree(t, a) - Len(f) > 1 /\ f # <<>>
  <2>1. Len(f) > 1 /\ Degree(t, a) - Len(f) > 1
    OBVIOUS
  <2> HIDE DEF f
  <2>2. Len(f) \in Nat /\ (f = <<>> => Len(f) = 0)
    BY <1>2
  <2>3. \A k \in Nat : k > 1 => k # 1 /\ k # 0
    OBVIOUS
  <2>4. Len(f) # 1 /\ Len(f) # 0
    BY ONLY <2>1, <2>2, <2>3
  <2>5. f # <<>>
    BY ONLY <2>2, <2>4
  <2> QED BY ONLY <2>1, <2>4, <2>5
<1> DEFINE M == ToSet(f) \ {p}
<1>7. MovedOff(t, s, a, skip) = M
  BY <1>6 DEF MovedOff
<1>8. ApexPlace(t, a, p, f)
  BY <1>5, AtApexFacts
<1>9. \A y \in M : t.parent[y] = a /\ y \in Node /\ y \in Kids(t, a)
  BY <1>8 DEF ApexPlace
<1>10. \E y \in Inner : t.type[y] = "free"
  BY <1>1, TwoFreeNodes, RoomAssumption
<1>11. SplitOff(t, s, a, skip, f, split)
  <2>1. /\ t.type[a] # "leaf" /\ skip \in BOOLEAN /\ MovedOff(t, s, a, skip) \subseteq Kids(t, a)
        /\ f = s.fullNeighbors[a]
    BY <1>7, <1>9
  <2> HIDE DEF f, M
  <2> QED BY ONLY <2>1, <1>1, <1>2, <1>6, <1>10, split = SplitOffFullPNode(t, s, a, skip), SplitOffIs
<1>12. /\ SplitFrom(t, v, a, n, M) /\ n \in Inner /\ t.type[n] = "free"
       /\ \E moved \in Seq(Node) : split.s = SplitTemp(s, n, moved)
  BY <1>6, <1>7, <1>11 DEF SplitOff
<1>13. n \notin InUse(t) /\ n \in Node
  BY <1>12 DEF InUse, Node
<1>14. split.s \in TempType
  <2>1. PICK moved \in Seq(Node) : split.s = SplitTemp(s, n, moved)
    BY <1>12
  <2> HIDE DEF n
  <2> QED BY ONLY <2>1, <1>1, <1>13, SplitTempIs
<1>15. TwoIn(ToSet(f)) /\ M # {}
  BY <1>2, <1>6, SeveralElements
<1>16. ~pf => TwoIn(M)
  <2>1. ~pf => p \notin ToSet(f)
    BY <1>2, <1>4, NodesAssumption DEF Node
  <2>2. p \notin ToSet(f) => M = ToSet(f)
    OBVIOUS
  <2> QED BY <2>1, <2>2, <1>15
<1>17. TwoIn(EmptyAround(t, a, f, {}))
  <2> DEFINE E == EmptyAround(t, a, f, {})
  <2>0. E = EmptyAround(t, a, f, {})
    OBVIOUS
  <2> HIDE DEF E
  <2>1. IsFiniteSet({}) /\ Cardinality({}) = 0 /\ {} \subseteq Node
    BY FS_EmptySet
  <2>2. \A y \in {} : Adjacent(t, a, y) /\ y \notin ToSet(f)
    OBVIOUS
  <2>3. \A y \in ToSet(f) : Adjacent(t, a, y)
    BY <1>2
  <2>4. /\ IsFiniteSet(E) /\ Cardinality(E) \in Nat
        /\ Degree(t, a) = Cardinality(E) + Len(f) + Cardinality({})
    <3> HIDE DEF f
    <3> QED BY ONLY <2>0, <2>1, <2>2, <2>3, <1>1, <1>2, EmptyCounted
  <2>5. Cardinality(E) > 1
    <3>1. Len(f) \in Nat
      BY <1>2
    <3>2. \A m, k, d \in Nat : d = m + k + 0 /\ d - k > 1 => m > 1
      OBVIOUS
    <3>3. Degree(t, a) \in Nat
      BY <2>1, <2>4, <3>1
    <3> QED BY <2>1, <2>4, <1>6, <3>1, <3>2, <3>3
  <2>6. TwoIn(E)
    BY <2>4, <2>5, SizeCases
  <2> QED BY <2>0, <2>6
<1> HIDE DEF M
<1>18. \A y \in M : t.parent[y] = a /\ y \in Node
  BY <1>9
<1>19. M # {a}
  BY <1>8, <1>18 DEF ApexPlace
<1>20. M = ToSet(f) \ {p}
  BY DEF M
<1>21. Halved(t, u, a, p, n, M, pf)
  <2>1. CASE pf
    <3>1. u = AppendChild(ReplaceWith(v, a, n), n, a, FALSE)
      BY <2>1 DEF SingletonJoined, ParentFull
    <3> HIDE DEF p, f, n, v, pf
    <3> QED BY ONLY <2>1, <3>1, <1>5, <1>12, <1>13, <1>15, <1>18, <1>19, HalvedAbove
  <2>2. CASE ~pf
    <3>1. u = AppendChild(v, a, n, FALSE)
      BY <2>2 DEF SingletonJoined, ParentFull
    <3> HIDE DEF p, f, n, v, pf
    <3> QED BY ONLY <2>2, <3>1, <1>5, <1>12, <1>13, <1>15, <1>18, HalvedBelow
  <2> QED BY <2>1, <2>2
<1> HIDE DEF p, f, n, v, pf
<1>22. Sturdy(u)
  BY ONLY <1>1, <1>5, <1>15, <1>16, <1>17, <1>20, <1>21, HalvedSturdy
<1> QED BY <1>14, <1>22

==============================================================================
