------------------------ MODULE TreeRestrictionsProofs -------------------------
(***************************************************************************)
(* Theorems about getRestrictions: on every tree that CheckValid accepts   *)
(* and that has more than two leaves, its assertions hold and its lists of *)
(* leaves are right, whichever leaf is fixed and in whatever order the     *)
(* leaves and the nodes are passed.                                        *)
(*                                                                         *)
(* The invariant is about who has told whom that it has leaves to pass, a  *)
(* relation T the code does not keep: the counters readyChildren are its   *)
(* in-degrees, the queue is who could tell and has not, and a list is the  *)
(* set of leaves behind its node, seen from the neighbor that it told.     *)
(***************************************************************************)
EXTENDS TreeRestrictions, PCTreeShapeProofs

(***************************************************************************)
(* Neighbors and the leaves behind them.                                   *)
(***************************************************************************)
LEMMA AroundFinite ==
  ASSUME NEW t, Tree(t), NEW x \in InUse(t)
  PROVE  IsFiniteSet(Around(t, x)) /\ Cardinality(Around(t, x)) = Degree(t, x)
<1>1. Neighbors(t, x) \in Seq(Node) /\ Distinct(Neighbors(t, x)) /\ Len(Neighbors(t, x)) = Degree(t, x)
  BY AroundIs DEF Distinct
<1> QED BY <1>1, DistinctLength DEF Around

LEMMA LeafAround ==
  ASSUME NEW t, Tree(t), NEW x \in InUse(t) \cap Leaves
  PROVE  \E w \in Around(t, x) : Around(t, x) = {w}
<1>1. Degree(t, x) = 1
  <2>1. t.type[x] = "leaf" /\ x \in Node
    BY OfTree
  <2>2. Len(t.kids[x]) = (IF x = t.root THEN 1 ELSE 0)
    BY <2>1 DEF Tree, CheckValid
  <2>3. t.parent[x] = Nil <=> x = t.root
    BY OfTree
  <2>4. Degree(t, x) = IF t.parent[x] = Nil THEN Len(t.kids[x]) ELSE Len(t.kids[x]) + 1
    BY <2>1, DegreeIs DEF Tree
  <2> QED BY <2>2, <2>3, <2>4
<1>2. Around(t, x) = {Neighbors(t, x)[1]}
  <2>1. Neighbors(t, x) \in Seq(Node) /\ Len(Neighbors(t, x)) = 1
    BY <1>1, AroundIs
  <2>2. DOMAIN Neighbors(t, x) = {1}
    BY <2>1
  <2> QED BY <2>2 DEF Around, ToSet
<1> QED BY <1>2

\* There are leaves beyond every edge.
LEMMA SomeLeafBehind ==
  ASSUME NEW t, Tree(t)
  PROVE  \A x \in InUse(t) : \A y \in Around(t, x) : Through(t, x, y) # {}
<1>1. Tree(t) /\ \A x \in InUse(t) : x \in Node
  BY DEF InUse
<1> DEFINE E == {p \in Node \X Node : Through(t, p[1], p[2]) # {}}
<1>2. ASSUME NEW x \in InUse(t), NEW y \in Around(t, x), \A z \in Around(t, y) \ {x} : <<y, z>> \in E
      PROVE  <<x, y>> \in E
  <2>1. y \in InUse(t) /\ x \in Node /\ y \in Node
    BY <1>1, AroundIs
  <2>2. Through(t, x, y) = Own(t, y) \cup UNION {Through(t, y, z) : z \in Around(t, y) \ {x}}
    BY <1>1, ThroughIs
  <2>3. CASE t.type[y] = "leaf"
    <3>1. y \in Through(t, x, y)
      BY <2>2, <2>3 DEF Own
    <3> QED BY <2>1, <3>1
  <2>4. CASE t.type[y] # "leaf"
    <3>1. Degree(t, y) >= 3 /\ Degree(t, y) \in Nat
      BY <1>1, <2>1, <2>4, DegreeIs DEF Tree, CheckValid
    <3>2. IsFiniteSet(Around(t, y)) /\ Cardinality(Around(t, y)) = Degree(t, y)
      BY <1>1, <2>1, AroundFinite
    <3>3. PICK z \in Around(t, y) : z # x
      <4> SUFFICES ASSUME Around(t, y) \subseteq {x} PROVE FALSE
        OBVIOUS
      <4>1. IsFiniteSet({x}) /\ Cardinality({x}) = 1
        BY FS_Singleton
      <4>2. Cardinality(Around(t, y)) <= Cardinality({x})
        BY <4>1, FS_Subset
      <4> QED BY <3>1, <3>2, <4>1, <4>2
    <3>4. <<y, z>> \in E
      BY <1>2, <3>3
    <3>5. Through(t, y, z) # {} /\ Through(t, y, z) \subseteq Through(t, x, y)
      BY <2>2, <3>3, <3>4
    <3> QED BY <2>1, <3>5
  <2> QED BY <2>3, <2>4
<1>3. \A x \in InUse(t) : \A y \in Around(t, x) : <<x, y>> \in E
  <2> HIDE DEF E
  <2> QED BY <1>1, <1>2, FromBehind
<1> QED BY <1>3

(***************************************************************************)
(* Walking around a node.                                                  *)
(***************************************************************************)
\* A ring read from its position k on.
LEMMA TurnIs ==
  ASSUME NEW ring \in Seq(Node), Distinct(ring), NEW k \in DOMAIN ring,
         NEW turn, turn = [i \in DOMAIN ring |-> RingAt(ring, k + i - 1)]
  PROVE  /\ turn \in Seq(Node) /\ Distinct(turn) /\ ToSet(turn) = ToSet(ring) /\ Len(turn) = Len(ring)
         /\ turn[1] = ring[k] /\ turn # <<>>
<1> DEFINE n == Len(ring)
           At(i) == IF k + i - 1 <= n THEN k + i - 1 ELSE k + i - 1 - n
<1>1. n \in Nat /\ n > 0 /\ DOMAIN ring = 1..n /\ k \in 1..n
  OBVIOUS
<1>2. ASSUME NEW i \in 1..n PROVE At(i) \in 1..n /\ turn[i] = ring[At(i)]
  <2>1. At(i) \in 1..n
    BY <1>1
  <2>2. turn[i] = ring[((k + i - 1 - 1) % n) + 1]
    BY <1>1 DEF RingAt
  <2>3. CASE k + i - 1 <= n
    <3>1. k + i - 1 - 1 \in 0..(n - 1)
      BY <1>1, <2>3
    <3>2. (k + i - 1 - 1) % n = k + i - 1 - 1
      BY ONLY <1>1, <3>1, ModSmall
    <3>3. ((k + i - 1 - 1) % n) + 1 = At(i)
      BY <1>1, <2>3, <3>2
    <3> QED BY <2>1, <2>2, <3>3
  <2>4. CASE ~(k + i - 1 <= n)
    <3>1. k + i - 1 - 1 - n \in 0..(n - 1) /\ (k + i - 1 - 1 - n) + n = k + i - 1 - 1
      BY <1>1, <2>4
    <3>2. ((k + i - 1 - 1 - n) + n) % n = k + i - 1 - 1 - n
      BY ONLY <1>1, <3>1, ModSmall
    <3>3. ((k + i - 1 - 1) % n) + 1 = At(i)
      BY <1>1, <2>4, <3>1, <3>2
    <3> QED BY <2>1, <2>2, <3>3
  <2> QED BY <2>3, <2>4
<1>3. \A i, j \in 1..n : At(i) = At(j) => i = j
  BY <1>1
<1>4. \A m \in 1..n : \E i \in 1..n : At(i) = m
  <2> TAKE m \in 1..n
  <2>1. CASE m >= k
    <3>1. m - k + 1 \in 1..n /\ At(m - k + 1) = m
      BY <1>1, <2>1
    <3> QED BY <3>1
  <2>2. CASE ~(m >= k)
    <3>1. m - k + 1 + n \in 1..n /\ At(m - k + 1 + n) = m
      BY <1>1, <2>2
    <3> QED BY <3>1
  <2> QED BY <2>1, <2>2
<1>5. 1 \in 1..n /\ At(1) = k
  BY <1>1
<1>12. DOMAIN turn = 1..n /\ \A m \in 1..n : ring[m] \in Node
  BY <1>1
<1> HIDE DEF n, At
<1>6. DOMAIN turn = 1..n /\ \A i \in 1..n : turn[i] \in Node
  BY ONLY <1>2, <1>12
<1>7. turn \in Seq(Node) /\ Len(turn) = n
  <2>1. turn \in [1..n -> Node]
    BY <1>1, <1>6
  <2> QED BY <1>1, <2>1
<1>8. Distinct(turn)
  <2> SUFFICES ASSUME NEW i \in DOMAIN turn, NEW j \in DOMAIN turn, turn[i] = turn[j] PROVE i = j
    BY DEF Distinct
  <2>3. i \in 1..n /\ j \in 1..n
    BY ONLY <1>6
  <2>1. At(i) \in 1..n /\ At(j) \in 1..n /\ ring[At(i)] = ring[At(j)]
    BY <1>2, <2>3
  <2>2. At(i) = At(j)
    BY <1>1, <2>1 DEF Distinct
  <2> QED BY ONLY <1>3, <2>2, <2>3
<1>9. ToSet(turn) = ToSet(ring)
  <2>1. ToSet(turn) = {turn[i] : i \in 1..n} /\ ToSet(ring) = {ring[i] : i \in 1..n}
    BY <1>1, <1>6 DEF ToSet
  <2>2. \A i \in 1..n : turn[i] \in {ring[m] : m \in 1..n}
    BY <1>2
  <2>3. \A m \in 1..n : ring[m] \in {turn[i] : i \in 1..n}
    BY <1>2, <1>4
  <2> QED BY <2>1, <2>2, <2>3
<1>10. turn[1] = ring[k]
  BY <1>2, <1>5
<1>11. turn # <<>>
  BY ONLY <1>1, <1>7
<1> QED BY <1>7, <1>8, <1>9, <1>10, <1>11 DEF n

\* From has every neighbor once.
LEMMA FromIs ==
  ASSUME Tree(tree), NEW x \in InUse(tree), NEW first \in Around(tree, x), NEW turn \in From(x, first)
  PROVE  turn \in Seq(Node) /\ Distinct(turn) /\ ToSet(turn) = Around(tree, x)
<1> DEFINE ring == Neighbors(tree, x)
           k == PositionOf(ring, first)
           one == [i \in DOMAIN ring |-> RingAt(ring, k + i - 1)]
           other == <<first>> \o Reverse(Tail(one))
<1>1. ring \in Seq(Node) /\ Distinct(ring) /\ Around(tree, x) = ToSet(ring)
  BY AroundIs DEF Distinct, Around
<1>2. k \in DOMAIN ring /\ ring[k] = first
  BY <1>1, PositionIs
<1>3. From(x, first) = {one, other}
  BY DEF From
<1>4. one = [i \in DOMAIN ring |-> RingAt(ring, k + i - 1)] /\ other = <<first>> \o Reverse(Tail(one))
  OBVIOUS
<1> HIDE DEF ring, k, one, other
<1>5. /\ one \in Seq(Node) /\ Distinct(one) /\ ToSet(one) = ToSet(ring) /\ one[1] = first /\ one # <<>>
  BY <1>1, <1>2, <1>4, TurnIs
<1>6. other \in Seq(Node) /\ Distinct(other) /\ ToSet(other) = ToSet(ring)
  <2>1. Tail(one) \in Seq(Node) /\ Distinct(Tail(one)) /\ ToSet(Tail(one)) = ToSet(one) \ {Head(one)} /\ Head(one) \in ToSet(one)
    BY ONLY <1>5, TailDistinct
  <2>2. Head(one) = first /\ first \in Node
    BY <1>5
  <2>3. Reverse(Tail(one)) \in Seq(Node) /\ Distinct(Reverse(Tail(one))) /\ ToSet(Reverse(Tail(one))) = ToSet(Tail(one))
    BY ONLY <2>1, ReverseDistinct
  <2>4. <<first>> \in Seq(Node) /\ Distinct(<<first>>) /\ ToSet(<<first>>) = {first}
    BY <2>2 DEF Distinct, ToSet
  <2>5. ToSet(<<first>>) \cap ToSet(Reverse(Tail(one))) = {}
    BY <2>1, <2>2, <2>3, <2>4
  <2> DEFINE r == Reverse(Tail(one))
             f == <<first>>
  <2>6. other = f \o r
    BY <1>4
  <2>7. r \in Seq(Node) /\ Distinct(r) /\ f \in Seq(Node) /\ Distinct(f) /\ ToSet(f) \cap ToSet(r) = {}
    BY <2>3, <2>4, <2>5
  <2> HIDE DEF r, f
  <2>8. f \o r \in Seq(Node) /\ Distinct(f \o r) /\ ToSet(f \o r) = ToSet(f) \cup ToSet(r)
    BY ONLY <2>7, ConcatDistinct
  <2>9. ToSet(f) \cup ToSet(r) = ToSet(one)
    BY <2>1, <2>2, <2>3, <2>4 DEF r, f
  <2> QED BY <1>5, <2>6, <2>8, <2>9
<1> QED BY <1>1, <1>3, <1>5, <1>6

(***************************************************************************)
(* Who has told whom.  T has the pair <<x, y>> when x has told y that it   *)
(* has leaves to pass.                                                     *)
(***************************************************************************)
Tellers(T, x) == {y \in Node : <<y, x>> \in T}
Done(T, x) == \E y \in Node : <<x, y>> \in T

\* All neighbors of x but one have told it.
Ripe(t, T, x) == \E w \in Node : Around(t, x) \ {w} \subseteq Tellers(T, x)

Telling(t, T) ==
  /\ T \subseteq InUse(t) \X InUse(t)
  /\ \A x, y \in Node : <<x, y>> \in T =>
       /\ y \in Around(t, x) /\ <<y, x>> \notin T
       /\ Around(t, x) \ {y} \subseteq Tellers(T, x)

LEMMA TellersFinite ==
  ASSUME NEW T, NEW x
  PROVE  /\ IsFiniteSet(Tellers(T, x)) /\ Cardinality(Tellers(T, x)) \in Nat
         /\ Tellers(T, x) \subseteq Node
<1>1. Tellers(T, x) \subseteq Node
  BY DEF Tellers
<1> QED BY <1>1, NodeIsFinite, FS_Subset, FS_CardinalityType

\* Nobody tells two neighbors, and who is told by a neighbor does not tell it.
LEMMA ToldOnce ==
  ASSUME NEW t, Tree(t), NEW T, Telling(t, T)
  PROVE  /\ \A x, y, z \in Node : <<x, y>> \in T /\ <<x, z>> \in T => y = z
         /\ \A x \in Node : Tellers(T, x) \subseteq Around(t, x) /\ Tellers(T, x) \subseteq InUse(t)
         /\ \A x \in Node : Done(T, x) => x \in InUse(t) /\ Ripe(t, T, x)
         /\ \A x, y \in Node : <<x, y>> \in T => x \in InUse(t) /\ y \in InUse(t) /\ x # y
<1>1. ASSUME NEW x \in Node, NEW y \in Node, <<x, y>> \in T
      PROVE  /\ x \in InUse(t) /\ y \in InUse(t) /\ y \in Around(t, x) /\ x \in Around(t, y) /\ x # y
             /\ Around(t, x) \ {y} \subseteq Tellers(T, x)
  <2>1. x \in InUse(t) /\ y \in InUse(t)
    BY <1>1 DEF Telling
  <2>2. y \in Around(t, x) /\ Around(t, x) \ {y} \subseteq Tellers(T, x)
    BY <1>1 DEF Telling
  <2> QED BY <2>1, <2>2, AroundIsSymmetric
<1>2. ASSUME NEW x \in Node, NEW y \in Node, NEW z \in Node, <<x, y>> \in T, <<x, z>> \in T
      PROVE  y = z
  <2> SUFFICES ASSUME y # z PROVE FALSE
    OBVIOUS
  <2>1. z \in Around(t, x) /\ Around(t, x) \ {y} \subseteq Tellers(T, x)
    BY <1>1, <1>2
  <2>2. <<z, x>> \in T
    BY <2>1 DEF Tellers
  <2> QED BY <1>2, <2>2 DEF Telling
<1>3. ASSUME NEW x \in Node
      PROVE  Tellers(T, x) \subseteq Around(t, x) /\ Tellers(T, x) \subseteq InUse(t)
  BY <1>1 DEF Tellers
<1>4. ASSUME NEW x \in Node, Done(T, x)
      PROVE  x \in InUse(t) /\ Ripe(t, T, x)
  BY <1>1, <1>4 DEF Done, Ripe
<1> QED BY <1>1, <1>2, <1>3, <1>4

\* Whether a node is ripe can be read off the number of those that told it.
LEMMA RipeIsCounted ==
  ASSUME NEW t, Tree(t), NEW T, Telling(t, T), NEW x \in InUse(t)
  PROVE  /\ Ripe(t, T, x) <=> Cardinality(Tellers(T, x)) >= Degree(t, x) - 1
         /\ Cardinality(Tellers(T, x)) <= Degree(t, x)
         /\ Cardinality(Tellers(T, x)) = Degree(t, x) <=> Tellers(T, x) = Around(t, x)
         /\ Degree(t, x) \in Nat
<1>1. x \in Node /\ Tellers(T, x) \subseteq Around(t, x) /\ Around(t, x) \subseteq Node
  BY ToldOnce, AroundIs DEF InUse
<1>2. /\ IsFiniteSet(Around(t, x)) /\ Cardinality(Around(t, x)) = Degree(t, x)
      /\ IsFiniteSet(Tellers(T, x)) /\ Cardinality(Tellers(T, x)) \in Nat
  BY AroundFinite, TellersFinite
<1>3. Degree(t, x) \in Nat
  BY <1>2, FS_CardinalityType
<1> DEFINE A == Around(t, x)
           B == Tellers(T, x)
           R == A \ B
<1>4. /\ IsFiniteSet(R) /\ Cardinality(R) = Cardinality(A) - Cardinality(B) /\ Cardinality(R) \in Nat
      /\ Cardinality(B) <= Cardinality(A)
  <2>1. A \cap B = B
    BY <1>1
  <2>2. IsFiniteSet(R) /\ Cardinality(R) = Cardinality(A) - Cardinality(A \cap B)
    BY <1>2, FS_Difference
  <2> QED BY <1>1, <1>2, <2>1, <2>2, FS_CardinalityType, FS_Subset
<1>5. Ripe(t, T, x) <=> Cardinality(R) <= 1
  <2>1. ASSUME Ripe(t, T, x) PROVE Cardinality(R) <= 1
    <3>1. PICK w \in Node : R \subseteq {w}
      BY <2>1 DEF Ripe
    <3>2. IsFiniteSet({w}) /\ Cardinality({w}) = 1
      BY FS_Singleton
    <3> QED BY <3>1, <3>2, FS_Subset
  <2>2. ASSUME Cardinality(R) <= 1 PROVE Ripe(t, T, x)
    <3>1. CASE R = {}
      <4>1. A \ {x} \subseteq B
        BY <3>1
      <4> QED BY <1>1, <4>1 DEF Ripe
    <3>2. CASE R # {}
      <4>1. Cardinality(R) = 1
        BY <1>4, <2>2, <3>2, FS_EmptySet
      <4>2. PICK w : R = {w}
        BY <1>4, <4>1, OneElement
      <4>3. w \in Node /\ A \ {w} \subseteq B
        BY <1>1, <4>2
      <4> QED BY <4>3 DEF Ripe
    <3> QED BY <3>1, <3>2
  <2> QED BY <2>1, <2>2
<1>6. Cardinality(B) = Cardinality(A) <=> B = A
  <2>1. Cardinality(B) = Cardinality(A) => Cardinality(R) = 0
    BY <1>2, <1>4
  <2>2. Cardinality(R) = 0 => R = {}
    BY <1>4, FS_EmptySet
  <2>3. R = {} => B = A
    BY <1>1
  <2> QED BY <2>1, <2>2, <2>3
<1> HIDE DEF A, B, R
<1>7. /\ Cardinality(R) <= 1 <=> Cardinality(B) >= Cardinality(A) - 1
  BY <1>2, <1>3, <1>4 DEF A, B
<1> QED BY <1>2, <1>3, <1>4, <1>5, <1>6, <1>7 DEF A, B

(***************************************************************************)
(* One more node x tells its last neighbor w.                              *)
(***************************************************************************)
MayTell(t, T, x, w) ==
  /\ x \in InUse(t) /\ w \in Around(t, x) /\ ~Done(T, x)
  /\ w \notin Tellers(T, x) /\ Around(t, x) \ {w} \subseteq Tellers(T, x)

HasTold(t, T, x, w, V) ==
  /\ Telling(t, V) /\ x \in Node /\ w \in InUse(t) /\ w \in Node /\ w # x
  /\ ~Done(V, w) /\ \A y \in Node : Done(V, y) <=> Done(T, y) \/ y = x
  /\ \A y \in Node : y # w => Tellers(V, y) = Tellers(T, y)
  /\ Tellers(V, w) = Tellers(T, w) \cup {x} /\ x \notin Tellers(T, w)
  /\ Cardinality(Tellers(V, w)) = Cardinality(Tellers(T, w)) + 1

LEMMA OneMoreTells ==
  ASSUME NEW t, Tree(t), NEW T, Telling(t, T), NEW x, NEW w, MayTell(t, T, x, w),
         NEW V, V = T \cup {<<x, w>>}
  PROVE  HasTold(t, T, x, w, V)
<1>1. x \in InUse(t) /\ x \in Node /\ w \in InUse(t) /\ w \in Node /\ x \in Around(t, w) /\ w # x
  BY AroundIsSymmetric DEF MayTell, InUse
<1>2. ~Done(T, w)
  <2> SUFFICES ASSUME NEW v \in Node, <<w, v>> \in T PROVE FALSE
    BY DEF Done
  <2>1. v # x
    BY <1>1 DEF MayTell, Tellers
  <2>2. x \in Tellers(T, w)
    BY <1>1, <2>1 DEF Telling
  <2> QED BY <1>1, <2>2 DEF Tellers, Done, MayTell
<1>3. \A y \in Node : Done(V, y) <=> Done(T, y) \/ y = x
  BY <1>1 DEF Done
<1>4. \A y \in Node : y # w => Tellers(V, y) = Tellers(T, y)
  BY DEF Tellers
<1>5. Tellers(V, w) = Tellers(T, w) \cup {x} /\ x \notin Tellers(T, w)
  BY <1>1 DEF Tellers, Done, MayTell
<1>6. \A y : Tellers(T, y) \subseteq Tellers(V, y)
  BY DEF Tellers
<1>7. Cardinality(Tellers(V, w)) = Cardinality(Tellers(T, w)) + 1
  BY <1>5, TellersFinite, FS_AddElement
<1>8. Telling(t, V)
  <2>1. V \subseteq InUse(t) \X InUse(t)
    BY <1>1 DEF Telling
  <2>2. ASSUME NEW a \in Node, NEW b \in Node, <<a, b>> \in V
        PROVE  b \in Around(t, a) /\ <<b, a>> \notin V /\ Around(t, a) \ {b} \subseteq Tellers(V, a)
    <3>1. CASE <<a, b>> \in T
      <4>1. /\ b \in Around(t, a) /\ <<b, a>> \notin T /\ Around(t, a) \ {b} \subseteq Tellers(T, a)
        BY <3>1 DEF Telling
      <4>2. ~(b = x /\ a = w)
        BY <1>2, <3>1 DEF Done
      <4> QED BY <1>6, <4>1, <4>2
    <3>2. CASE a = x /\ b = w
      <4>1. w \in Around(t, x) /\ <<w, x>> \notin T /\ Around(t, x) \ {w} \subseteq Tellers(T, x)
        BY <1>1 DEF MayTell, Tellers
      <4> QED BY <1>1, <1>6, <3>2, <4>1
    <3> QED BY <2>2, <3>1, <3>2
  <2> QED BY <2>1, <2>2 DEF Telling
<1> QED BY <1>1, <1>2, <1>3, <1>4, <1>5, <1>7, <1>8 DEF HasTold

(***************************************************************************)
(* The leaves, and who has told at the end.                                *)
(***************************************************************************)
LEMMA LeavesOfTree ==
  ASSUME NEW t, Tree(t)
  PROVE  /\ LeavesOf(t) = InUse(t) \cap Leaves
         /\ IsFiniteSet(LeavesOf(t)) /\ Cardinality(LeavesOf(t)) \in Nat
         /\ LeavesOf(t) \subseteq Node
<1>1. LeavesOf(t) = InUse(t) \cap Leaves
  <2>1. ASSUME NEW x PROVE x \in LeavesOf(t) <=> x \in InUse(t) \cap Leaves
    <3>1. x \in Leaves => x \in Node
      BY DEF Node
    <3>2. x \in InUse(t) => (t.type[x] = "leaf" <=> x \in Leaves)
      BY OfTree
    <3> QED BY <3>1, <3>2 DEF LeavesOf, InUse
  <2> QED BY <2>1
<1>2. LeavesOf(t) \subseteq Node
  BY DEF LeavesOf, Node
<1> QED BY <1>1, <1>2, NodeIsFinite, FS_Subset, FS_CardinalityType

\* The node next to a leaf.
Beside(t, l) == IF l = t.root THEN Head(t.kids[l]) ELSE t.parent[l]

LEMMA BesideLeaf ==
  ASSUME NEW t, Tree(t), NEW l \in LeavesOf(t)
  PROVE  Around(t, l) = {Beside(t, l)}
<1>1. l \in InUse(t) \cap Leaves
  BY LeavesOfTree
<1>2. PICK w : Around(t, l) = {w}
  BY <1>1, LeafAround
<1>3. Around(t, l) = Kids(t, l) \cup (IF l = t.root THEN {} ELSE {t.parent[l]})
  BY <1>1, AroundIs
<1>4. CASE l # t.root
  <2>1. t.parent[l] \in Around(t, l)
    BY <1>3, <1>4
  <2> QED BY <1>2, <1>4, <2>1 DEF Beside
<1>5. CASE l = t.root
  <2>1. Kids(t, l) = {w} /\ t.kids[l] \in Seq(Node)
    BY <1>1, <1>2, <1>3, <1>5, OfTree
  <2>2. t.kids[l] # <<>>
    BY <2>1 DEF Kids, ToSet
  <2>3. Head(t.kids[l]) \in Kids(t, l)
    BY <2>1, <2>2 DEF Kids, ToSet
  <2> QED BY <1>2, <1>5, <2>1, <2>3 DEF Beside
<1> QED BY <1>4, <1>5

LEMMA BehindLeaf ==
  ASSUME NEW t, Tree(t), NEW l \in LeavesOf(t), NEW w, Around(t, l) = {w}
  PROVE  /\ Through(t, w, l) = {l} /\ Through(t, l, w) = LeavesOf(t) \ {l}
         /\ w \in InUse(t) /\ l \in Around(t, w) /\ w # l
<1>1. l \in InUse(t) /\ t.type[l] = "leaf" /\ w \in Around(t, l)
  BY LeavesOfTree DEF LeavesOf
<1>2. w \in InUse(t) /\ l \in Around(t, w) /\ w # l
  BY <1>1, AroundIsSymmetric
<1>3. Through(t, w, l) = Own(t, l) \cup UNION {Through(t, l, z) : z \in Around(t, l) \ {w}}
  BY <1>2, ThroughIs
<1>4. Through(t, w, l) = {l}
  BY <1>1, <1>3 DEF Own
<1>5. /\ Through(t, l, w) \cap Through(t, w, l) = {}
      /\ Through(t, l, w) \cup Through(t, w, l) = InUse(t) \cap Leaves
  BY <1>1, ThroughParts
<1> QED BY <1>2, <1>4, <1>5, LeavesOfTree

\* In a tree of more than two leaves, no two of them are neighbors.
LEMMA BesideIsInner ==
  ASSUME NEW t, Tree(t), Cardinality(LeavesOf(t)) > 2, NEW l \in LeavesOf(t), NEW w, Around(t, l) = {w}
  PROVE  w \in InUse(t) \cap Inner
<1>1. w \in InUse(t) /\ l \in Around(t, w) /\ Through(t, l, w) = LeavesOf(t) \ {l}
  BY BehindLeaf
<1>2. SUFFICES ASSUME w \in LeavesOf(t) PROVE FALSE
  BY <1>1, LeavesOfTree DEF Node, InUse
<1>3. Around(t, w) = {l}
  BY <1>1, <1>2, BesideLeaf
<1>4. Through(t, l, w) = {w}
  BY <1>2, <1>3, BehindLeaf
<1>5. \E c \in LeavesOf(t) : c # l /\ c # w
  BY LeavesOfTree, ThreeElements
<1> QED BY <1>1, <1>4, <1>5

\* Behind a node that has told, all leaves have.
LEMMA BehindToldDone ==
  ASSUME NEW t, Tree(t), NEW T, Telling(t, T), NEW x \in InUse(t), NEW y \in Tellers(T, x),
         NEW l \in Through(t, x, y)
  PROVE  Done(T, l)
<1> DEFINE E == {p \in Node \X Node : <<p[2], p[1]>> \in T => \A k \in Through(t, p[1], p[2]) : Done(T, k)}
<1>1. ASSUME NEW a \in InUse(t), NEW b \in Around(t, a), \A z \in Around(t, b) \ {a} : <<b, z>> \in E
      PROVE  <<a, b>> \in E
  <2>1. a \in Node /\ b \in Node /\ b \in InUse(t)
    BY AroundIs DEF InUse
  <2>2. SUFFICES ASSUME <<b, a>> \in T, NEW k \in Through(t, a, b) PROVE Done(T, k)
    BY <2>1
  <2>3. Through(t, a, b) = Own(t, b) \cup UNION {Through(t, b, z) : z \in Around(t, b) \ {a}}
    BY ThroughIs
  <2>4. CASE k \in Own(t, b)
    BY <2>1, <2>2, <2>4 DEF Own, Done
  <2>5. CASE k \notin Own(t, b)
    <3>1. PICK z \in Around(t, b) \ {a} : k \in Through(t, b, z)
      BY <2>3, <2>5
    <3>2. <<z, b>> \in T
      BY <2>1, <2>2, <3>1 DEF Telling, Tellers
    <3> QED BY <1>1, <3>1, <3>2
  <2> QED BY <2>4, <2>5
<1>2. \A a \in InUse(t) : \A b \in Around(t, a) : <<a, b>> \in E
  <2> HIDE DEF E
  <2> QED BY <1>1, FromBehind
<1>3. x \in Node /\ y \in Around(t, x) /\ <<y, x>> \in T
  BY ToldOnce DEF InUse, Tellers
<1> QED BY <1>2, <1>3

\* When every node but the leaf f has told a neighbor or waits for two of
\* them, all have told the neighbor that is nearer to f.
LEMMA AllHaveTold ==
  ASSUME NEW t, Tree(t), NEW T, Telling(t, T), NEW f, f \in LeavesOf(t) \cup {Nil},
         \A x \in InUse(t) : x # f => Done(T, x) \/ ~Ripe(t, T, x)
  PROVE  \A x \in InUse(t) : \A y \in Around(t, x) : f \notin Through(t, x, y) => <<y, x>> \in T
<1> DEFINE E == {p \in Node \X Node : f \notin Through(t, p[1], p[2]) => <<p[2], p[1]>> \in T}
<1>1. ASSUME NEW x \in InUse(t), NEW y \in Around(t, x), \A z \in Around(t, y) \ {x} : <<y, z>> \in E
      PROVE  <<x, y>> \in E
  <2>1. x \in Node /\ y \in Node /\ y \in InUse(t)
    BY AroundIs DEF InUse
  <2>2. SUFFICES ASSUME f \notin Through(t, x, y) PROVE <<y, x>> \in T
    BY <2>1
  <2>3. Through(t, x, y) = Own(t, y) \cup UNION {Through(t, y, z) : z \in Around(t, y) \ {x}}
    BY ThroughIs
  <2>4. y # f
    <3>1. f = Nil => f \notin Node
      BY NodesAssumption DEF Node
    <3>2. f \in LeavesOf(t) => Own(t, f) = {f}
      BY DEF LeavesOf, Own
    <3> QED BY <2>1, <2>2, <2>3, <3>1, <3>2
  <2>5. \A z \in Around(t, y) \ {x} : z \in Node /\ f \notin Through(t, y, z)
    <3>1. Around(t, y) \subseteq Node
      BY <2>1, AroundIs DEF InUse
    <3> QED BY <2>2, <2>3, <3>1
  <2>6. \A z \in Around(t, y) \ {x} : <<z, y>> \in T
    BY <1>1, <2>5
  <2>7. Around(t, y) \ {x} \subseteq Tellers(T, y)
    BY <2>5, <2>6 DEF Tellers
  <2>8. PICK v \in Node : <<y, v>> \in T
    BY <2>1, <2>4, <2>7 DEF Ripe, Done
  <2>9. v \in Around(t, y) /\ <<v, y>> \notin T
    BY <2>1, <2>8 DEF Telling
  <2> QED BY <2>6, <2>8, <2>9
<1>2. \A x \in InUse(t) : \A y \in Around(t, x) : <<x, y>> \in E
  <2> HIDE DEF E
  <2> QED BY <1>1, FromBehind
<1> QED BY <1>2

(***************************************************************************)
(* The invariant.                                                          *)
(***************************************************************************)
Inv_Types ==
  /\ Tree(tree) /\ Cardinality(LeavesOf(tree)) > 2
  /\ fixed \in LeavesOf(tree) \cup {Nil}
  /\ left \subseteq LeavesOf(tree)
  /\ ready \in [Node -> Nat]
  /\ below \in [Node -> SUBSET LeavesOf(tree)]
  /\ todo \in Seq(Node) /\ Distinct(todo)
  /\ central \in Node \cup {Nil}
  /\ ok = TRUE

Counted(T) == \A x \in Node : ready[x] = Cardinality(Tellers(T, x))

LeavesTold(T) ==
  /\ \A l \in LeavesOf(tree) : Done(T, l) <=> l \notin left \cup {fixed}
  /\ left # {} => \A x \in Node : Done(T, x) => x \in Leaves

Waiting(T) == {x \in InUse(tree) \cap Inner : x # central /\ ~Done(T, x) /\ Ripe(tree, T, x)}

\* The leaves behind x, until the node that x told takes them over.
Held(T, x, y) == IF Done(T, y) \/ y = central THEN {} ELSE Through(tree, y, x)

ListsRight(T) ==
  \A x \in Node :
    /\ \A y \in Node : <<x, y>> \in T => below[x] = Held(T, x, y)
    /\ x # central /\ ~Done(T, x) => below[x] = {}

CentralRight(T) ==
  central # Nil =>
    /\ central \in InUse(tree) \cap Inner /\ ~Done(T, central)
    /\ Around(tree, central) \subseteq Tellers(T, central)
    /\ fixed = Nil /\ todo = <<>> /\ left = {}
    /\ below[central] = LeavesOf(tree)

ListsDisjoint == \A x, y \in Node : x # y => below[x] \cap below[y] = {}

ListsCover == \A l \in LeavesOf(tree) \ (left \cup {fixed}) : \E x \in Node : l \in below[x]

FixedKept ==
  /\ \A l \in left \cup {fixed} : \A x \in Node : l \notin below[x]
  /\ \A S \in restrictions : fixed \notin S

Right(T) ==
  /\ Telling(tree, T) /\ Counted(T) /\ LeavesTold(T) /\ ToSet(todo) = Waiting(T)
  /\ ListsRight(T) /\ CentralRight(T)

IInv ==
  /\ Inv_Types /\ ListsDisjoint /\ ListsCover /\ FixedKept
  /\ \E T \in SUBSET (Node \X Node) : Right(T)

\* Nobody has told anybody yet, and no node is ripe.
LEMMA InitIInv == Init /\ Tree(tree) /\ Cardinality(LeavesOf(tree)) > 2 => IInv
<1> SUFFICES ASSUME Init, Tree(tree), Cardinality(LeavesOf(tree)) > 2 PROVE IInv
  OBVIOUS
<1> DEFINE T == {}
<1>1. \A x : Tellers(T, x) = {} /\ ~Done(T, x)
  BY DEF Tellers, Done
<1>2. Inv_Types
  <2>1. <<>> \in Seq(Node) /\ Distinct(<<>>)
    BY DEF Distinct
  <2> QED BY <2>1 DEF Init, Inv_Types
<1>3. ListsDisjoint /\ ListsCover /\ FixedKept
  BY DEF Init, ListsDisjoint, ListsCover, FixedKept
<1>4. Telling(tree, T)
  BY DEF Telling
<1>5. Counted(T)
  BY <1>1, FS_EmptySet DEF Counted, Init
<1>6. LeavesTold(T)
  <2>1. Nil \notin LeavesOf(tree)
    BY NodesAssumption DEF LeavesOf
  <2> QED BY <1>1, <2>1 DEF LeavesTold, Init
<1>7. ToSet(todo) = Waiting(T)
  <2>1. ASSUME NEW x \in InUse(tree) \cap Inner PROVE ~Ripe(tree, T, x)
    <3>1. Degree(tree, x) >= 3 /\ Degree(tree, x) \in Nat
      <4>1. tree.type[x] # "leaf" /\ x \in Node
        BY OfTree, NodesAssumption
      <4> QED BY <4>1, DegreeIs DEF Tree, CheckValid
    <3>2. Cardinality(Tellers(T, x)) = 0
      BY <1>1, FS_EmptySet
    <3> HIDE DEF T
    <3>3. Ripe(tree, T, x) <=> Cardinality(Tellers(T, x)) >= Degree(tree, x) - 1
      BY ONLY <1>4, <2>1, RipeIsCounted, Tree(tree)
    <3> QED BY <3>1, <3>2, <3>3
  <2>2. ToSet(todo) = {}
    BY DEF Init, ToSet
  <2> HIDE DEF T
  <2> QED BY <2>1, <2>2 DEF Waiting
<1>8. ListsRight(T)
  BY DEF ListsRight, Init
<1>9. CentralRight(T)
  BY DEF CentralRight, Init
<1>10. T \in SUBSET (Node \X Node)
  OBVIOUS
<1> HIDE DEF T
<1> QED BY <1>2, <1>3, <1>4, <1>5, <1>6, <1>7, <1>8, <1>9, <1>10 DEF IInv, Right

(***************************************************************************)
(* What one more node that tells does to the lists and the queue.          *)
(***************************************************************************)
\* The lists after x has taken over those of its neighbors but w.
Behind(x, w) ==
  [y \in Node |-> IF y = x THEN Through(tree, w, x)
                  ELSE IF y \in Around(tree, x) \ {w} THEN {} ELSE below[y]]

\* The lists of the neighbors that have told x are those behind x.
LEMMA ListsOfTellers ==
  ASSUME Inv_Types, NEW T, Right(T), NEW x \in InUse(tree), x # central, ~Done(T, x)
  PROVE  \A z \in Tellers(T, x) : z \in Node /\ z \in Around(tree, x) /\ below[z] = Through(tree, x, z) /\ below[z] # {}
<1> SUFFICES ASSUME NEW z \in Tellers(T, x)
             PROVE  z \in Node /\ z \in Around(tree, x) /\ below[z] = Through(tree, x, z) /\ below[z] # {}
  OBVIOUS
<1>1. z \in Node /\ <<z, x>> \in T /\ x \in Node
  BY DEF Tellers, InUse
<1>2. z \in Around(tree, x)
  BY <1>1, ToldOnce DEF Inv_Types, Right
<1>3. below[z] = Held(T, z, x)
  BY <1>1 DEF Right, ListsRight
<1>4. below[z] = Through(tree, x, z)
  BY <1>3 DEF Held
<1>5. Through(tree, x, z) # {}
  BY <1>2, SomeLeafBehind DEF Inv_Types
<1> QED BY <1>1, <1>2, <1>4, <1>5

\* Who has not told and is not the last has no leaves.
LEMMA EmptyUntilDone ==
  ASSUME NEW T, Right(T), NEW x \in Node, x # central, ~Done(T, x)
  PROVE  below[x] = {}
BY DEF Right, ListsRight

\* What x takes over from them are the leaves behind it.
LEMMA GatheredIsBehind ==
  ASSUME Inv_Types, NEW T, Right(T), NEW x, x # central, NEW w, MayTell(tree, T, x, w)
  PROVE  Through(tree, w, x) = Own(tree, x) \cup UNION {below[z] : z \in Around(tree, x) \ {w}}
<1>1. x \in InUse(tree) /\ w \in Around(tree, x) /\ ~Done(T, x)
      /\ Around(tree, x) \ {w} \subseteq Tellers(T, x)
  BY DEF MayTell
<1>2. w \in InUse(tree) /\ x \in Around(tree, w)
  BY <1>1, AroundIsSymmetric DEF Inv_Types
<1>3. Through(tree, w, x) = Own(tree, x) \cup UNION {Through(tree, x, z) : z \in Around(tree, x) \ {w}}
  BY <1>2, ThroughIs DEF Inv_Types
<1>4. \A z \in Around(tree, x) \ {w} : below[z] = Through(tree, x, z)
  BY <1>1, ListsOfTellers
<1> QED BY <1>3, <1>4

LEMMA InnerDegree ==
  ASSUME NEW t, Tree(t), NEW x \in InUse(t)
  PROVE  /\ x \in Inner => Degree(t, x) >= 3
         /\ x \in Leaves => Degree(t, x) = 1
         /\ Degree(t, x) \in Nat /\ (x \in Inner <=> x \notin Leaves)
<1>1. x \in Node /\ (x \in Inner <=> x \notin Leaves) /\ (t.type[x] = "leaf" <=> x \in Leaves)
  BY OfTree, NodesAssumption DEF InUse, Node
<1>2. Degree(t, x) \in Nat
  BY <1>1, DegreeIs DEF Tree
<1>3. x \in Inner => Degree(t, x) >= 3
  BY <1>1 DEF Tree, CheckValid
<1>4. ASSUME x \in Leaves PROVE Degree(t, x) = 1
  <2>1. PICK w : Around(t, x) = {w}
    BY <1>4, LeafAround
  <2> QED BY <2>1, AroundFinite, FS_Singleton
<1> QED BY <1>1, <1>2, <1>3, <1>4

\* The queue after x has told w.
Queued(T, x, w, V, n, rest, q) ==
  /\ Inv_Types /\ Right(T) /\ central = Nil /\ MayTell(tree, T, x, w)
  /\ V = T \cup {<<x, w>>}
  /\ n = ready[w] + 1
  /\ rest \in Seq(Node) /\ Distinct(rest) /\ ToSet(rest) = ToSet(todo) \ {x}
  /\ q = IF n = Degree(tree, w) - 1 THEN Append(rest, w) ELSE rest

\* The queue has every node that is ripe and has not told, once.
LEMMA QueueAfter ==
  ASSUME NEW T, NEW x, NEW w, NEW V, NEW n, NEW rest, NEW q, Queued(T, x, w, V, n, rest, q)
  PROVE  q \in Seq(Node) /\ Distinct(q) /\ ToSet(q) = Waiting(V)
<1> USE DEF Queued
<1>1. Tree(tree) /\ Telling(tree, T) /\ ready \in [Node -> Nat]
  BY DEF Inv_Types, Right
<1>2. /\ Telling(tree, V) /\ x \in Node /\ w \in InUse(tree) /\ w \in Node /\ w # x
      /\ ~Done(V, w) /\ \A y \in Node : Done(V, y) <=> Done(T, y) \/ y = x
      /\ \A y \in Node : y # w => Tellers(V, y) = Tellers(T, y)
      /\ Cardinality(Tellers(V, w)) = Cardinality(Tellers(T, w)) + 1
  <2>1. HasTold(tree, T, x, w, V)
    BY <1>1, OneMoreTells
  <2> QED BY ONLY <2>1 DEF HasTold
<1>3. ready[w] = Cardinality(Tellers(T, w)) /\ n = Cardinality(Tellers(V, w)) /\ ready[w] \in Nat
  BY <1>1, <1>2 DEF Right, Counted
<1>15. n = ready[w] + 1 /\ ready[w] \in Nat
  BY <1>3
<1>4. Ripe(tree, T, w) <=> ready[w] >= Degree(tree, w) - 1
  BY <1>1, <1>2, <1>3, RipeIsCounted
<1>5. /\ Ripe(tree, V, w) <=> n >= Degree(tree, w) - 1
      /\ n <= Degree(tree, w)
  BY <1>1, <1>2, <1>3, RipeIsCounted
<1>6. /\ w \in Inner => Degree(tree, w) >= 3
      /\ w \in Leaves => Degree(tree, w) = 1
      /\ Degree(tree, w) \in Nat /\ (w \in Inner <=> w \notin Leaves)
  BY <1>1, <1>2, InnerDegree
<1>7. \A y \in Node : y # w => (Ripe(tree, V, y) <=> Ripe(tree, T, y))
  BY <1>2 DEF Ripe
<1>8. ToSet(todo) = Waiting(T)
  BY DEF Right
<1>9. \A y : y \in Waiting(V) <=> y \in InUse(tree) \cap Inner /\ ~Done(V, y) /\ Ripe(tree, V, y)
  <2>1. \A y \in InUse(tree) : y # central
    BY NodesAssumption DEF InUse, Node
  <2> QED BY <2>1 DEF Waiting
<1>10. \A y : y \in Waiting(T) <=> y \in InUse(tree) \cap Inner /\ ~Done(T, y) /\ Ripe(tree, T, y)
  <2>1. \A y \in InUse(tree) : y # central
    BY NodesAssumption DEF InUse, Node
  <2> QED BY <2>1 DEF Waiting
<1>11. ~Done(T, w)
  BY <1>2
<1>12. \A y : y # w => (y \in Waiting(V) <=> y \in Waiting(T) \ {x})
  BY <1>2, <1>7, <1>9, <1>10 DEF InUse
<1>13. CASE n = Degree(tree, w) - 1
  <2>1. w \notin Waiting(T)
    BY <1>3, <1>4, <1>6, <1>10, <1>13
  <2>6. w \in Inner /\ Ripe(tree, V, w)
    BY ONLY <1>5, <1>6, <1>13, <1>15
  <2>2. w \in Waiting(V)
    BY <1>2, <1>9, <2>6
  <2>3. q = Append(rest, w) /\ w \notin ToSet(rest)
    BY <1>8, <1>13, <2>1
  <2>4. q \in Seq(Node) /\ Distinct(q) /\ ToSet(q) = ToSet(rest) \cup {w}
    BY <1>2, <2>3, AppendDistinct
  <2>5. ToSet(q) = (Waiting(T) \ {x}) \cup {w}
    BY <1>8, <2>4
  <2>7. Waiting(V) = (Waiting(T) \ {x}) \cup {w}
    BY <1>12, <2>2
  <2> QED BY <2>4, <2>5, <2>7
<1>14. CASE n # Degree(tree, w) - 1
  <2>1. w \in Waiting(V) <=> w \in Waiting(T) \ {x}
    <3>1. Ripe(tree, V, w) <=> Ripe(tree, T, w)
      BY ONLY <1>4, <1>5, <1>6, <1>14, <1>15
    <3> QED BY <1>2, <1>9, <1>10, <1>11, <3>1
  <2>2. Waiting(V) = Waiting(T) \ {x}
    BY <1>12, <2>1
  <2> QED BY <1>8, <1>14, <2>2
<1> QED BY <1>13, <1>14

\* What PassLeaf and PassNode have in common.
PassesOn(x, w) ==
  /\ ready' = [ready EXCEPT ![w] = @ + 1]
  /\ below' = Behind(x, w)
  /\ UNCHANGED <<tree, fixed, central>>

\* No leaf is lost or in two lists.
LEMMA ListsAfter ==
  ASSUME Inv_Types, ListsDisjoint, FixedKept, NEW T, Right(T), central = Nil,
         NEW x, NEW w, MayTell(tree, T, x, w), PassesOn(x, w)
  PROVE  /\ below' \in [Node -> SUBSET LeavesOf(tree)] /\ ListsDisjoint'
         /\ \A l : (\E y \in Node : l \in below'[y]) <=> l \in Own(tree, x) \/ \E y \in Node : l \in below[y]
<1>1. /\ x \in InUse(tree) /\ x \in Node /\ w \in Around(tree, x) /\ ~Done(T, x) /\ x # central
      /\ Around(tree, x) \ {w} \subseteq Node
  <2>1. x \in InUse(tree) /\ x \in Node
    BY DEF MayTell, InUse
  <2>2. Around(tree, x) \subseteq Node
    BY <2>1, AroundIs DEF Inv_Types, InUse
  <2> QED BY <2>1, <2>2, NodesAssumption DEF MayTell, Node
<1>2. Through(tree, w, x) = Own(tree, x) \cup UNION {below[z] : z \in Around(tree, x) \ {w}}
  BY <1>1, GatheredIsBehind
<1>3. \A y \in Node : below'[y] = IF y = x THEN Through(tree, w, x)
                                  ELSE IF y \in Around(tree, x) \ {w} THEN {} ELSE below[y]
  BY DEF PassesOn, Behind
<1>4. below' = [y \in Node |-> below'[y]] /\ below \in [Node -> SUBSET LeavesOf(tree)]
  BY DEF PassesOn, Behind, Inv_Types
<1>5. below[x] = {}
  BY <1>1, EmptyUntilDone
<1>6. Own(tree, x) \subseteq LeavesOf(tree) /\ \A y \in Node : Own(tree, x) \cap below[y] = {}
  <2>1. CASE tree.type[x] # "leaf"
    BY <2>1 DEF Own
  <2>2. CASE tree.type[x] = "leaf"
    <3>1. x \in LeavesOf(tree)
      BY <1>1, <2>2, LeavesOfTree, OfTree DEF Inv_Types
    <3>2. x \in left \cup {fixed}
      BY <1>1, <3>1 DEF Right, LeavesTold
    <3>3. \A y \in Node : x \notin below[y]
      BY <3>2 DEF FixedKept
    <3> QED BY <2>2, <3>1, <3>3 DEF Own
  <2> QED BY <2>1, <2>2
<1> DEFINE B == below'
           G == Around(tree, x) \ {w}
           R == Through(tree, w, x)
<1>7. /\ R = Own(tree, x) \cup UNION {below[z] : z \in G} /\ G \subseteq Node
      /\ \A y \in Node : B[y] = IF y = x THEN R ELSE IF y \in G THEN {} ELSE below[y]
      /\ B = [y \in Node |-> B[y]]
  BY <1>1, <1>2, <1>3, <1>4
<1> HIDE DEF B, G, R
<1>8. B \in [Node -> SUBSET LeavesOf(tree)]
  <2>1. \A y \in Node : B[y] \subseteq LeavesOf(tree)
    BY ONLY <1>4, <1>6, <1>7
  <2> QED BY ONLY <1>7, <2>1
<1>9. \A y, z \in Node : y # z => B[y] \cap B[z] = {}
  <2>1. \A y \in Node : y # x => R \cap B[y] = {}
    <3> SUFFICES ASSUME NEW y \in Node, y # x, NEW l \in R, l \in B[y] PROVE FALSE
      OBVIOUS
    <3>1. y \notin G /\ l \in below[y]
      BY <1>7
    <3>2. l \notin Own(tree, x)
      BY <1>6, <3>1
    <3>3. PICK z \in G : l \in below[z]
      BY <1>7, <3>2
    <3> QED BY <1>7, <3>1, <3>3 DEF ListsDisjoint
  <2>2. \A y, z \in Node : y # z /\ y # x /\ z # x => B[y] \cap B[z] = {}
    BY <1>7 DEF ListsDisjoint
  <2> QED BY <1>1, <1>7, <2>1, <2>2
<1>10. \A l : (\E y \in Node : l \in B[y]) <=> l \in Own(tree, x) \/ \E y \in Node : l \in below[y]
  <2> TAKE l
  <2>1. ASSUME NEW y \in Node, l \in B[y] PROVE l \in Own(tree, x) \/ \E z \in Node : l \in below[z]
    BY <1>7, <2>1
  <2>2. ASSUME l \in Own(tree, x) PROVE \E y \in Node : l \in B[y]
    BY <1>1, <1>7, <2>2
  <2>3. ASSUME NEW y \in Node, l \in below[y] PROVE \E z \in Node : l \in B[z]
    <3>1. CASE y \in G
      <4>1. l \in B[x]
        BY <1>1, <1>7, <2>3, <3>1
      <4> QED BY <1>1, <4>1
    <3>2. CASE y \notin G
      BY <1>5, <1>7, <2>3, <3>2
    <3> QED BY <3>1, <3>2
  <2> QED BY <2>1, <2>2, <2>3
<1> QED BY <1>8, <1>9, <1>10 DEF B, ListsDisjoint

\* The relation with one pair more fits the new state.
LEMMA RightAfter ==
  ASSUME Inv_Types, NEW T, Right(T), central = Nil,
         NEW x, NEW w, MayTell(tree, T, x, w), PassesOn(x, w), x # fixed,
         NEW V, V = T \cup {<<x, w>>}, ToSet(todo') = Waiting(V), LeavesTold(V)'
  PROVE  Right(V)' /\ ready' \in [Node -> Nat]
<1>1. Tree(tree) /\ Telling(tree, T) /\ ready \in [Node -> Nat]
  BY DEF Inv_Types, Right
<1>2. HasTold(tree, T, x, w, V)
  BY ONLY <1>1, MayTell(tree, T, x, w), V = T \cup {<<x, w>>}, OneMoreTells
<1>3. /\ Telling(tree, V) /\ x \in Node /\ w \in InUse(tree) /\ w \in Node /\ w # x
      /\ ~Done(V, w) /\ \A y \in Node : Done(V, y) <=> Done(T, y) \/ y = x
      /\ \A y \in Node : y # w => Tellers(V, y) = Tellers(T, y)
      /\ Cardinality(Tellers(V, w)) = Cardinality(Tellers(T, w)) + 1
  BY ONLY <1>2 DEF HasTold
<1>4. tree' = tree /\ fixed' = fixed /\ central' = central
  BY DEF PassesOn
<1>5. Telling(tree, V)'
  BY <1>3, <1>4
<1>6. Counted(V)' /\ ready' \in [Node -> Nat]
  <2>1. ready' = [ready EXCEPT ![w] = @ + 1]
    BY DEF PassesOn
  <2>2. \A y \in Node : ready[y] = Cardinality(Tellers(T, y))
    BY DEF Right, Counted
  <2>3. \A y \in Node : ready'[y] = Cardinality(Tellers(V, y))
    BY <1>1, <1>3, <2>1, <2>2
  <2>4. ready' \in [Node -> Nat]
    BY <1>1, <1>3, <2>1
  <2> QED BY <2>3, <2>4 DEF Counted
<1>7. ToSet(todo)' = Waiting(V)'
  BY <1>4 DEF Waiting, Ripe
<1>8. CentralRight(V)'
  BY <1>4 DEF CentralRight
<1>9. ListsRight(V)'
  <2>1. \A y \in Node : below'[y] = IF y = x THEN Through(tree, w, x)
                                    ELSE IF y \in Around(tree, x) \ {w} THEN {} ELSE below[y]
    BY DEF PassesOn, Behind
  <2>2. \A y \in Node : y # central
    BY NodesAssumption DEF Node
  <2>3. ASSUME NEW y \in Node, NEW v \in Node, <<y, v>> \in V
        PROVE  below'[y] = IF Done(V, v) THEN {} ELSE Through(tree, v, y)
    <3>1. CASE y = x
      <4>1. v = w
        <5>1. <<y, v>> \notin T
          BY <3>1 DEF MayTell, Done
        <5> QED BY <2>3, <3>1, <5>1
      <4> QED BY <1>3, <2>1, <3>1, <4>1
    <3>2. CASE y # x
      <4>1. <<y, v>> \in T
        BY <2>3, <3>2
      <4>2. below[y] = IF Done(T, v) THEN {} ELSE Through(tree, v, y)
        BY <2>2, <4>1 DEF Right, ListsRight, Held
      <4>3. CASE v = x
        <5>1. y \in Around(tree, x) \ {w}
          <6>1. y \in Around(tree, x)
            BY <1>1, <1>3, <4>1, <4>3, ToldOnce DEF Tellers
          <6>2. y # w
            BY <4>1, <4>3 DEF MayTell, Tellers
          <6> QED BY <6>1, <6>2
        <5> QED BY <1>3, <2>1, <3>2, <4>3, <5>1
      <4>4. CASE v # x
        <5>1. y \notin Around(tree, x) \ {w}
          <6> SUFFICES ASSUME y \in Around(tree, x) \ {w} PROVE FALSE
            OBVIOUS
          <6>1. <<y, x>> \in T
            BY DEF MayTell, Tellers
          <6> QED BY <1>1, <1>3, <4>1, <4>4, <6>1, ToldOnce
        <5> QED BY <1>3, <2>1, <3>2, <4>2, <4>4, <5>1
      <4> QED BY <4>3, <4>4
    <3> QED BY <3>1, <3>2
  <2>4. ASSUME NEW y \in Node, ~Done(V, y)
        PROVE  below'[y] = {}
    <3>1. y # x /\ ~Done(T, y)
      BY <1>3, <2>4
    <3>2. below[y] = {}
      BY <2>2, <3>1, EmptyUntilDone
    <3> QED BY <2>1, <3>1, <3>2
  <2> QED BY <1>4, <2>2, <2>3, <2>4 DEF ListsRight, Held
<1> QED BY <1>5, <1>6, <1>7, <1>8, <1>9 DEF Right

(***************************************************************************)
(* The steps of the two loops.                                             *)
(***************************************************************************)
LEMMA PassLeafInv ==
  ASSUME IInv, NEW l \in left, PassLeaf(l)
  PROVE  IInv'
<1>1. Inv_Types /\ ListsDisjoint /\ ListsCover /\ FixedKept
  BY DEF IInv
<1>2. PICK T \in SUBSET (Node \X Node) : Right(T)
  BY DEF IInv
<1>3. /\ left' = left \ {l} /\ l \in LeavesOf(tree) /\ Tree(tree)
      /\ UNCHANGED <<tree, fixed, central, restrictions, ok>> /\ central = Nil
  BY <1>1, <1>2 DEF PassLeaf, Inv_Types, Right, CentralRight
<1>4. \A x \in Node : x # central
  BY <1>3, NodesAssumption DEF Node
<1>5. CASE l = fixed
  <2>1. UNCHANGED <<below, ready, todo>>
    BY <1>5 DEF PassLeaf
  <2>2. left' \cup {fixed'} = left \cup {fixed}
    BY <1>3, <1>5
  <2>3. Inv_Types'
    BY <1>1, <1>3, <2>1 DEF Inv_Types
  <2>4. (ListsDisjoint /\ ListsCover /\ FixedKept)'
    BY <1>1, <1>3, <2>1, <2>2 DEF ListsDisjoint, ListsCover, FixedKept
  <2>5. Right(T)'
    <3>1. LeavesTold(T)'
      BY <1>2, <1>3, <2>2 DEF Right, LeavesTold
    <3> QED BY <1>2, <1>3, <2>1, <3>1
            DEF Right, Counted, Waiting, ListsRight, Held, CentralRight
  <2> QED BY <2>3, <2>4, <2>5 DEF IInv
<1>6. CASE l # fixed
  <2> DEFINE w == Beside(tree, l)
  <2>1. Around(tree, l) = {w}
    BY <1>3, BesideLeaf
  <2>2. w = IF l = tree.root THEN Head(tree.kids[l]) ELSE tree.parent[l]
    BY DEF Beside
  <2> HIDE DEF w
  <2>3. below' = [below EXCEPT ![l] = {l}] /\ Tell(w)
    BY <1>6, <2>2 DEF PassLeaf
  <2>4. /\ Through(tree, w, l) = {l} /\ w \in InUse(tree) /\ w \in Node /\ w \in Inner
        /\ l \in InUse(tree) /\ tree.type[l] = "leaf" /\ l \in Node /\ l \in Leaves
    BY <1>1, <1>3, <2>1, BehindLeaf, BesideIsInner, LeavesOfTree DEF Inv_Types, InUse, LeavesOf
  <2>12. PICK V \in SUBSET (Node \X Node) : V = T \cup {<<l, w>>}
    <3>1. T \cup {<<l, w>>} \in SUBSET (Node \X Node)
      BY <2>4
    <3> QED BY <3>1
  <2>5. ~Done(T, l) /\ ~Done(T, w)
    BY <1>2, <1>3, <2>4, NodesAssumption DEF Right, LeavesTold
  <2>6. MayTell(tree, T, l, w)
    <3>1. w \in Around(tree, l) /\ Around(tree, l) \ {w} = {}
      BY <2>1
    <3>2. <<w, l>> \notin T
      BY <2>4, <2>5 DEF Done
    <3> QED BY <2>4, <2>5, <3>1, <3>2 DEF MayTell, Tellers
  <2>7. PassesOn(l, w)
    <3>1. ready' = [ready EXCEPT ![w] = @ + 1]
      BY <2>3 DEF Tell
    <3>2. below' = Behind(l, w)
      <4>1. below \in [Node -> SUBSET LeavesOf(tree)]
        BY <1>1 DEF Inv_Types
      <4> QED BY <2>1, <2>3, <2>4, <4>1 DEF Behind
    <3> QED BY <1>3, <3>1, <3>2 DEF PassesOn
  <2>8. /\ Own(tree, l) = {l}
        /\ \A k : (\E y \in Node : k \in below'[y]) <=> k = l \/ \E y \in Node : k \in below[y]
        /\ below' \in [Node -> SUBSET LeavesOf(tree)] /\ ListsDisjoint'
    <3>1. Own(tree, l) = {l}
      BY <2>4 DEF Own
    <3> QED BY <1>1, <1>2, <1>3, <2>6, <2>7, <3>1, ListsAfter
  <2>9. todo' \in Seq(Node) /\ Distinct(todo') /\ ToSet(todo') = Waiting(V)
    <3> DEFINE n == ready[w] + 1
    <3>1. ready \in [Node -> Nat] /\ todo \in Seq(Node) /\ Distinct(todo)
      BY <1>1 DEF Inv_Types
    <3>2. ready'[w] = n
      BY <2>4, <2>7, <3>1 DEF PassesOn
    <3>3. todo' = IF n = Degree(tree, w) - 1 THEN Append(todo, w) ELSE todo
      BY <2>3, <3>2 DEF Tell
    <3>4. ToSet(todo) = ToSet(todo) \ {l}
      <4>1. l \notin Waiting(T)
        BY <2>4, NodesAssumption DEF Waiting
      <4> QED BY <1>2, <4>1 DEF Right
    <3>5. n = ready[w] + 1 /\ V = T \cup {<<l, w>>}
      BY <2>12
    <3> HIDE DEF n
    <3>6. central = Nil
      BY <1>3
    <3>7. PICK q : q = todo'
      OBVIOUS
    <3>8. q = IF n = Degree(tree, w) - 1 THEN Append(todo, w) ELSE todo
      BY <3>3, <3>7
    <3>9. q \in Seq(Node) /\ Distinct(q) /\ ToSet(q) = Waiting(V)
      <4>1. Queued(T, l, w, V, n, todo, q)
        BY ONLY <1>1, <1>2, <2>6, <3>1, <3>4, <3>5, <3>6, <3>8 DEF Queued
      <4> QED BY ONLY <4>1, QueueAfter
    <3> QED BY ONLY <3>7, <3>9
  <2>10. LeavesTold(V)'
    <3>1. \A x \in Node : Done(V, x) <=> Done(T, x) \/ x = l
      BY <2>4, <2>12 DEF Done
    <3>2. \A k \in LeavesOf(tree) : k \in Node
      BY <1>3, LeavesOfTree
    <3>3. \A k \in LeavesOf(tree) : Done(T, k) <=> k \notin left \cup {fixed}
      BY <1>2 DEF Right, LeavesTold
    <3>4. \A x \in Node : Done(T, x) => x \in Leaves
      BY <1>2 DEF Right, LeavesTold
    <3> QED BY <1>3, <1>6, <2>4, <3>1, <3>2, <3>3, <3>4 DEF LeavesTold
  <2>13. Right(V)' /\ ready' \in [Node -> Nat]
    BY <1>1, <1>2, <1>3, <1>6, <2>6, <2>7, <2>9, <2>10, <2>12, RightAfter
  <2>14. Inv_Types'
    BY <1>1, <1>3, <2>8, <2>9, <2>13 DEF Inv_Types
  <2>15. ListsCover'
    <3> SUFFICES ASSUME NEW k \in LeavesOf(tree), k \notin left', k # fixed
                 PROVE  \E y \in Node : k \in below'[y]
      BY <1>3 DEF ListsCover
    <3>1. k # l => k \notin left
      BY <1>3
    <3> QED BY <1>1, <2>8, <3>1 DEF ListsCover
  <2>16. FixedKept'
    <3>1. \A k \in left' \cup {fixed} : k # l /\ k \in left \cup {fixed}
      BY <1>3, <1>6
    <3>2. \A k \in left' \cup {fixed} : \A y \in Node : k \notin below'[y]
      BY <1>1, <2>8, <3>1 DEF FixedKept
    <3> QED BY <1>1, <1>3, <3>2 DEF FixedKept
  <2> QED BY <2>8, <2>12, <2>13, <2>14, <2>15, <2>16 DEF IInv
<1> QED BY <1>5, <1>6

Open(x) == {y \in ToSet(Neighbors(tree, x)) : below[y] = {}}

\* The head of the queue: the neighbors without leaves are those that have not
\* told it.
HeadFacts(T, x) ==
  /\ left = {} /\ central = Nil /\ x \in InUse(tree) \cap Inner /\ x \in Node /\ ~Done(T, x)
  /\ Ripe(tree, T, x) /\ x # central /\ x # fixed /\ x \in ToSet(todo)
  /\ Open(x) = Around(tree, x) \ Tellers(T, x)
  /\ Tail(todo) \in Seq(Node) /\ Distinct(Tail(todo)) /\ ToSet(Tail(todo)) = ToSet(todo) \ {x}
  /\ Len(todo) \in Nat /\ Degree(tree, x) >= 3

LEMMA HeadIs ==
  ASSUME Inv_Types, NEW T, Right(T), todo # <<>>, left = {}
  PROVE  HeadFacts(T, Head(todo))
<1> DEFINE x == Head(todo)
<1>1. todo \in Seq(Node) /\ Distinct(todo) /\ Tree(tree) /\ Telling(tree, T)
  BY DEF Inv_Types, Right
<1>2. /\ x \in ToSet(todo) /\ Tail(todo) \in Seq(Node) /\ Distinct(Tail(todo))
      /\ ToSet(Tail(todo)) = ToSet(todo) \ {x}
  BY <1>1, TailDistinct
<1> HIDE DEF x
<1>3. central = Nil
  BY DEF Right, CentralRight
<1>4. x \in Waiting(T)
  BY <1>2 DEF Right
<1>5. x \in InUse(tree) \cap Inner /\ x \in Node /\ ~Done(T, x) /\ Ripe(tree, T, x) /\ x # central
  BY <1>4 DEF Waiting, InUse
<1>6. x # fixed
  BY <1>5, NodesAssumption DEF Inv_Types, LeavesOf
<1>7. \A z \in Tellers(T, x) : z \in Around(tree, x) /\ below[z] # {}
  BY <1>5, ListsOfTellers
<1>8. ASSUME NEW y \in Around(tree, x), y \notin Tellers(T, x) PROVE below[y] = {}
  <2>1. y \in Node /\ y # central
    <3>1. Around(tree, x) \subseteq InUse(tree)
      BY <1>1, <1>5, AroundIs
    <3> QED BY <1>3, <3>1, NodesAssumption DEF InUse, Node
  <2>2. ~Done(T, y)
    <3> SUFFICES ASSUME NEW v \in Node, <<y, v>> \in T PROVE FALSE
      BY DEF Done
    <3>1. x \in Around(tree, y)
      BY <1>1, <1>5, AroundIsSymmetric
    <3>2. v # x
      BY <1>8, <2>1 DEF Tellers
    <3>3. x \in Tellers(T, y)
      BY <1>1, <2>1, <3>1, <3>2 DEF Telling
    <3> QED BY <1>5, <2>1, <3>3 DEF Tellers, Done
  <2> QED BY <2>1, <2>2, EmptyUntilDone
<1>9. Open(x) = Around(tree, x) \ Tellers(T, x)
  BY <1>7, <1>8 DEF Open, Around
<1>10. Degree(tree, x) >= 3
  BY <1>1, <1>5, InnerDegree
<1>11. Len(todo) \in Nat
  BY <1>1
<1> QED BY <1>2, <1>3, <1>5, <1>6, <1>9, <1>10, <1>11 DEF HeadFacts, x

\* When all neighbors have told it, it is the last node.
LEMMA LastNode ==
  ASSUME Inv_Types, ListsDisjoint, NEW T, Right(T), NEW x, HeadFacts(T, x), Open(x) = {}
  PROVE  fixed = Nil /\ ToSet(todo) = {x} /\ Len(todo) = 1
<1>1. /\ Tree(tree) /\ Telling(tree, T) /\ x \in InUse(tree) \cap Inner /\ x \in Node
      /\ Around(tree, x) \subseteq Tellers(T, x) /\ ~Done(T, x) /\ x # central /\ central = Nil
      /\ left = {} /\ x \in ToSet(todo)
  BY DEF Inv_Types, Right, HeadFacts
<1>2. LeavesOf(tree) = UNION {Through(tree, x, z) : z \in Around(tree, x)}
  <2>1. Around(tree, x) # {}
    <3>1. Degree(tree, x) >= 3
      BY DEF HeadFacts
    <3>2. Cardinality(Around(tree, x)) = Degree(tree, x)
      BY <1>1, AroundFinite
    <3> QED BY <3>1, <3>2, FS_EmptySet
  <2>2. LeavesOf(tree) = Own(tree, x) \cup UNION {Through(tree, x, z) : z \in Around(tree, x)}
    BY <1>1, <2>1, ThroughAll, LeavesOfTree
  <2>3. Own(tree, x) = {}
    BY <1>1, OfTree, NodesAssumption DEF Own
  <2> QED BY <2>2, <2>3
<1>3. ASSUME NEW l \in LeavesOf(tree) PROVE \E z \in Around(tree, x) : z \in Tellers(T, x) /\ l \in Through(tree, x, z)
  BY <1>1, <1>2
<1>4. fixed = Nil
  <2> SUFFICES ASSUME fixed # Nil PROVE FALSE
    OBVIOUS
  <2>1. fixed \in LeavesOf(tree)
    BY DEF Inv_Types
  <2>2. PICK z \in Tellers(T, x) : fixed \in Through(tree, x, z)
    BY <1>3, <2>1
  <2>3. Done(T, fixed)
    BY <1>1, <2>2, BehindToldDone
  <2> QED BY <2>1, <2>3 DEF Right, LeavesTold
<1>5. ASSUME NEW v \in ToSet(todo) PROVE v = x
  <2> SUFFICES ASSUME v # x PROVE FALSE
    OBVIOUS
  <2>1. v \in InUse(tree) \cap Inner /\ v \in Node /\ v # central /\ ~Done(T, v) /\ Ripe(tree, T, v)
    BY DEF Right, Waiting, InUse
  <2>2. PICK z \in Node : z \in Tellers(T, v)
    <3>1. Degree(tree, v) >= 3 /\ Degree(tree, v) \in Nat
      BY <1>1, <2>1, InnerDegree
    <3>2. Cardinality(Tellers(T, v)) >= Degree(tree, v) - 1 /\ Cardinality(Tellers(T, v)) \in Nat
      BY <1>1, <2>1, RipeIsCounted, TellersFinite
    <3>3. Tellers(T, v) # {}
      BY <3>1, <3>2, FS_EmptySet
    <3> QED BY <3>3 DEF Tellers
  <2>3. below[z] # {} /\ below[z] \subseteq LeavesOf(tree)
    BY <2>1, <2>2, ListsOfTellers DEF Inv_Types
  <2>4. PICK l \in LeavesOf(tree) : l \in below[z]
    BY <2>3
  <2>5. PICK a \in Tellers(T, x) : l \in Through(tree, x, a)
    BY <1>3
  <2>6. a \in Node /\ l \in below[a]
    BY <1>1, <2>5, ListsOfTellers
  <2>7. a = z
    BY <2>4, <2>6 DEF ListsDisjoint
  <2>8. <<z, v>> \in T /\ <<z, x>> \in T
    BY <2>2, <2>5, <2>7 DEF Tellers
  <2> QED BY <1>1, <2>1, <2>8, ToldOnce
<1>6. ToSet(todo) = {x}
  BY <1>1, <1>5
<1>7. Len(todo) = 1
  <2>1. todo \in Seq(Node) /\ Distinct(todo)
    BY DEF Inv_Types
  <2>2. Cardinality(ToSet(todo)) = Len(todo)
    BY <2>1, DistinctLength
  <2> QED BY <1>6, <2>2, FS_Singleton
<1> QED BY <1>4, <1>6, <1>7

\* The step of PassNode to the node next, by way of givers.
Passed(x, next, givers) ==
  /\ ok' = (/\ ok
            /\ x # fixed
            /\ Cardinality(Open(x)) <= 1
            /\ next = Nil => fixed = Nil /\ central = Nil /\ Len(todo) = 1)
  /\ central' = IF next = Nil THEN x ELSE central
  /\ restrictions' = restrictions \cup Exported(x, givers)
  /\ below' = Gathered(x, givers)
  /\ IF next = Nil THEN todo' = Tail(todo) /\ UNCHANGED ready ELSE Tell(next)
  /\ UNCHANGED <<tree, fixed, left>>

\* A restriction has leaves from the lists only.
LEMMA ExportedKept ==
  ASSUME NEW x, NEW givers \in Seq(Node), NEW l, \A y \in Node : l \notin below[y]
  PROVE  \A S \in Exported(x, givers) : l \notin S
<1> SUFFICES ASSUME NEW S \in Exported(x, givers), l \in S PROVE FALSE
  OBVIOUS
<1>1. \A i \in 1..Len(givers) : givers[i] \in Node
  OBVIOUS
<1>2. CASE tree.type[x] = "C"
  <2>1. PICK i \in 1..Len(givers) - 1 : S = below[givers[i]] \cup below[givers[i + 1]]
    BY <1>2 DEF Exported
  <2>2. i \in 1..Len(givers) /\ i + 1 \in 1..Len(givers)
    BY <2>1
  <2> QED BY <1>1, <2>1, <2>2
<1>3. CASE tree.type[x] # "C"
  <2>1. S = UNION {below[y] : y \in ToSet(givers)}
    BY <1>3 DEF Exported
  <2>2. ToSet(givers) \subseteq Node
    BY DEF ToSet
  <2> QED BY <2>1, <2>2
<1> QED BY <1>2, <1>3

\* One or no neighbor is left open.
LEMMA OpenIsOne ==
  ASSUME Inv_Types, NEW T, Right(T), NEW x, HeadFacts(T, x)
  PROVE  /\ Cardinality(Open(x)) <= 1
         /\ \A w \in Open(x) : MayTell(tree, T, x, w) /\ w # Nil /\ Open(x) = {w}
<1>1. Open(x) = Around(tree, x) \ Tellers(T, x) /\ x \in InUse(tree) /\ ~Done(T, x)
  BY DEF HeadFacts
<1>2. PICK v \in Node : Around(tree, x) \ {v} \subseteq Tellers(T, x)
  BY DEF HeadFacts, Ripe
<1>3. Open(x) \subseteq {v}
  BY <1>1, <1>2
<1>4. Cardinality(Open(x)) <= 1
  <2>1. IsFiniteSet({v}) /\ Cardinality({v}) = 1
    BY FS_Singleton
  <2> QED BY <1>3, <2>1, FS_Subset
<1>5. ASSUME NEW w \in Open(x)
      PROVE  MayTell(tree, T, x, w) /\ w # Nil /\ Open(x) = {w}
  <2>1. w = v /\ w \in Around(tree, x) /\ w \notin Tellers(T, x)
    BY <1>1, <1>3
  <2>2. w # Nil
    BY <1>2, <2>1, NodesAssumption DEF Node
  <2> QED BY <1>1, <1>2, <1>3, <2>1, <2>2 DEF MayTell
<1> QED BY <1>4, <1>5

\* A node tells the neighbor that is left.
LEMMA PassOnInv ==
  ASSUME Inv_Types, ListsDisjoint, ListsCover, FixedKept,
         NEW T \in SUBSET (Node \X Node), Right(T), NEW x, HeadFacts(T, x), x = Head(todo), NEW w \in Open(x),
         NEW givers \in Seq(Node), ToSet(givers) = Around(tree, x) \ {w}, Passed(x, w, givers)
  PROVE  IInv'
<1>1. /\ MayTell(tree, T, x, w) /\ w # Nil /\ Cardinality(Open(x)) <= 1
  BY OpenIsOne
<1>2. /\ left = {} /\ central = Nil /\ x \in InUse(tree) \cap Inner /\ x \in Node /\ ~Done(T, x)
      /\ x # central /\ x # fixed /\ Tail(todo) \in Seq(Node) /\ Distinct(Tail(todo))
      /\ ToSet(Tail(todo)) = ToSet(todo) \ {x}
  BY DEF HeadFacts
<1>3. w \in Node /\ Tree(tree) /\ tree.type[x] # "leaf" /\ Own(tree, x) = {}
  <2>1. Tree(tree) /\ w \in Around(tree, x)
    BY <1>1 DEF Inv_Types, MayTell
  <2>2. w \in Node
    BY <1>2, <2>1, AroundIs DEF InUse
  <2>3. tree.type[x] # "leaf"
    BY <1>2, <2>1, OfTree, NodesAssumption
  <2> QED BY <2>1, <2>2, <2>3 DEF Own
<1>4. UNCHANGED <<tree, fixed, left, central>> /\ ok' = TRUE /\ restrictions' = restrictions \cup Exported(x, givers)
  BY <1>1, <1>2 DEF Passed, Inv_Types
<1>5. Tell(w) /\ below' = Gathered(x, givers)
  BY <1>1 DEF Passed
<1>6. PassesOn(x, w)
  <2>1. ready' = [ready EXCEPT ![w] = @ + 1]
    BY <1>5 DEF Tell
  <2>2. UNION {below[z] : z \in ToSet(givers)} = Through(tree, w, x)
    BY <1>1, <1>2, <1>3, GatheredIsBehind
  <2>3. below' = Behind(x, w)
    BY <1>5, <2>2 DEF Gathered, Behind
  <2> QED BY <1>4, <2>1, <2>3 DEF PassesOn
<1>7. /\ below' \in [Node -> SUBSET LeavesOf(tree)] /\ ListsDisjoint'
      /\ \A l : (\E y \in Node : l \in below'[y]) <=> \E y \in Node : l \in below[y]
  BY <1>1, <1>2, <1>3, <1>6, ListsAfter
<1>8. PICK V \in SUBSET (Node \X Node) : V = T \cup {<<x, w>>}
  <2>1. T \cup {<<x, w>>} \in SUBSET (Node \X Node)
    BY <1>2, <1>3
  <2> QED BY <2>1
<1>9. todo' \in Seq(Node) /\ Distinct(todo') /\ ToSet(todo') = Waiting(V)
  <2>1. PICK n : n = ready[w] + 1
    OBVIOUS
  <2>2. ready'[w] = n
    BY <1>3, <1>6, <2>1 DEF PassesOn, Inv_Types
  <2>3. PICK rest : rest = Tail(todo)
    OBVIOUS
  <2>4. todo' = IF n = Degree(tree, w) - 1 THEN Append(rest, w) ELSE rest
    BY <1>2, <1>5, <2>2, <2>3 DEF Tell
  <2>5. PICK q : q = todo'
    OBVIOUS
  <2>6. q = IF n = Degree(tree, w) - 1 THEN Append(rest, w) ELSE rest
    BY <2>4, <2>5
  <2>7. rest \in Seq(Node) /\ Distinct(rest) /\ ToSet(rest) = ToSet(todo) \ {x} /\ central = Nil
    BY <1>2, <2>3
  <2>8. q \in Seq(Node) /\ Distinct(q) /\ ToSet(q) = Waiting(V)
    <3>1. Queued(T, x, w, V, n, rest, q)
      BY ONLY Inv_Types, Right(T), <1>1, <1>8, <2>1, <2>6, <2>7 DEF Queued
    <3> QED BY ONLY <3>1, QueueAfter
  <2> QED BY ONLY <2>5, <2>8
<1>10. LeavesTold(V)'
  <2>1. \A y \in Node : Done(V, y) <=> Done(T, y) \/ y = x
    BY <1>2, <1>3, <1>8 DEF Done
  <2>2. x \notin LeavesOf(tree)
    BY <1>3 DEF LeavesOf
  <2>3. \A k \in LeavesOf(tree) : k \in Node
    BY <1>3, LeavesOfTree
  <2>4. \A k \in LeavesOf(tree) : Done(T, k) <=> k \notin left \cup {fixed}
    BY DEF Right, LeavesTold
  <2> QED BY <1>2, <1>4, <2>1, <2>2, <2>3, <2>4 DEF LeavesTold
<1>11. Right(V)' /\ ready' \in [Node -> Nat]
  BY <1>1, <1>2, <1>6, <1>8, <1>9, <1>10, RightAfter
<1>12. Inv_Types'
  BY <1>4, <1>7, <1>9, <1>11 DEF Inv_Types
<1>13. ListsCover'
  BY <1>4, <1>7 DEF ListsCover
<1>14. FixedKept'
  <2>1. \A l \in left \cup {fixed} : \A y \in Node : l \notin below'[y]
    BY <1>7 DEF FixedKept
  <2>2. \A S \in Exported(x, givers) : fixed \notin S
    BY ExportedKept DEF FixedKept
  <2> QED BY <1>4, <2>1, <2>2 DEF FixedKept
<1> QED BY <1>7, <1>8, <1>11, <1>12, <1>13, <1>14 DEF IInv

\* The tree is contracted to the last node.
LEMMA PassLastInv ==
  ASSUME Inv_Types, ListsDisjoint, ListsCover, FixedKept,
         NEW T \in SUBSET (Node \X Node), Right(T), NEW x, HeadFacts(T, x), Open(x) = {},
         NEW givers \in Seq(Node), ToSet(givers) = Around(tree, x), Passed(x, Nil, givers)
  PROVE  IInv'
<1>1. fixed = Nil /\ ToSet(todo) = {x} /\ Len(todo) = 1
  BY LastNode
<1>2. /\ left = {} /\ central = Nil /\ x \in InUse(tree) \cap Inner /\ x \in Node /\ ~Done(T, x)
      /\ x # central /\ x # fixed /\ Tail(todo) \in Seq(Node) /\ Distinct(Tail(todo))
      /\ ToSet(Tail(todo)) = ToSet(todo) \ {x} /\ Degree(tree, x) >= 3
      /\ Around(tree, x) \subseteq Tellers(T, x)
  BY DEF HeadFacts
<1>3. Tree(tree) /\ Telling(tree, T) /\ tree.type[x] # "leaf" /\ Own(tree, x) = {} /\ x # Nil
      /\ Around(tree, x) \subseteq Node
  <2>1. Tree(tree) /\ Telling(tree, T)
    BY DEF Inv_Types, Right
  <2>2. tree.type[x] # "leaf"
    BY <1>2, <2>1, OfTree, NodesAssumption
  <2>3. Around(tree, x) \subseteq Node
    BY <1>2, <2>1, AroundIs DEF InUse
  <2> QED BY <1>2, <2>1, <2>2, <2>3, NodesAssumption DEF Own, Node
<1>4. Cardinality(Open(x)) <= 1
  BY FS_EmptySet
<1>5. UNCHANGED <<tree, fixed, left, ready>> /\ ok' = TRUE /\ restrictions' = restrictions \cup Exported(x, givers)
      /\ central' = x /\ todo' = Tail(todo) /\ below' = Gathered(x, givers)
  BY <1>1, <1>2, <1>4 DEF Passed, Inv_Types
<1>6. LeavesOf(tree) = UNION {below[z] : z \in Around(tree, x)}
  <2>1. Around(tree, x) # {}
    <3>1. Cardinality(Around(tree, x)) = Degree(tree, x) /\ Degree(tree, x) >= 3
      BY <1>2, <1>3, AroundFinite
    <3>2. Cardinality(Around(tree, x)) # 0
      BY ONLY <3>1
    <3> QED BY <3>2, FS_EmptySet
  <2>2. LeavesOf(tree) = Own(tree, x) \cup UNION {Through(tree, x, z) : z \in Around(tree, x)}
    BY <1>2, <1>3, <2>1, ThroughAll, LeavesOfTree
  <2>3. \A z \in Around(tree, x) : below[z] = Through(tree, x, z)
    BY <1>2, ListsOfTellers
  <2> QED BY <1>3, <2>2, <2>3
<1>7. \A y \in Node : below'[y] = IF y = x THEN LeavesOf(tree)
                                  ELSE IF y \in Around(tree, x) THEN {} ELSE below[y]
  BY <1>5, <1>6 DEF Gathered
<1>8. \A y \in Node : y # x => below'[y] = {}
  <2> SUFFICES ASSUME NEW y \in Node, y # x, y \notin Around(tree, x), NEW l \in below[y] PROVE FALSE
    BY <1>7
  <2>1. l \in LeavesOf(tree)
    BY DEF Inv_Types
  <2>2. PICK z \in Around(tree, x) : l \in below[z]
    BY <1>6, <2>1
  <2> QED BY <1>3, <2>2 DEF ListsDisjoint
<1>9. todo' = <<>>
  <2>1. todo \in Seq(Node)
    BY DEF Inv_Types
  <2> QED BY <1>1, <1>5, <2>1
<1>10. Inv_Types'
  <2>1. below' \in [Node -> SUBSET LeavesOf(tree)]
    <3>1. \A y \in Node : below'[y] \subseteq LeavesOf(tree)
      BY <1>7, <1>8
    <3> QED BY <1>5, <3>1 DEF Gathered
  <2>2. todo' \in Seq(Node) /\ Distinct(todo')
    BY <1>2, <1>5
  <2> QED BY <1>2, <1>5, <2>1, <2>2 DEF Inv_Types
<1>11. ListsDisjoint'
  <2>1. ASSUME NEW a \in Node, NEW b \in Node, a # b PROVE below'[a] \cap below'[b] = {}
    BY <1>8, <2>1
  <2> QED BY <2>1 DEF ListsDisjoint
<1>12. ListsCover'
  BY <1>2, <1>5, <1>7 DEF ListsCover
<1>13. FixedKept'
  <2>1. fixed \notin LeavesOf(tree)
    BY <1>1, <1>3, LeavesOfTree, NodesAssumption DEF Node
  <2>2. \A y \in Node : fixed \notin below'[y]
    BY <1>7, <1>8, <2>1
  <2>3. \A S \in Exported(x, givers) : fixed \notin S
    BY ExportedKept DEF FixedKept
  <2> QED BY <1>2, <1>5, <2>2, <2>3 DEF FixedKept
<1>14. Right(T)'
  <2>1. Telling(tree, T)' /\ Counted(T)' /\ LeavesTold(T)'
    BY <1>5 DEF Right, Counted, LeavesTold
  <2>2. ToSet(todo)' = Waiting(T)'
    <3>1. ToSet(todo') = {}
      BY <1>1, <1>2, <1>5
    <3>2. ASSUME NEW y \in Waiting(T)' PROVE FALSE
      <4>1. y \in InUse(tree) \cap Inner /\ y # x /\ ~Done(T, y) /\ Ripe(tree, T, y)
        BY <1>5, <3>2 DEF Waiting, Ripe
      <4>2. y # central
        BY <1>2, <4>1, NodesAssumption DEF InUse, Node
      <4>3. y \in ToSet(todo)
        BY <4>1, <4>2 DEF Right, Waiting
      <4> QED BY <1>1, <4>1, <4>3
    <3> QED BY <3>1, <3>2
  <2>3. ListsRight(T)'
    <3>1. ASSUME NEW y \in Node, NEW z \in Node, <<y, z>> \in T
          PROVE  below'[y] = IF Done(T, z) \/ z = x THEN {} ELSE Through(tree, z, y)
      <4>1. y # x
        BY <1>2, <3>1 DEF Done
      <4>2. below'[y] = {}
        BY <1>8, <4>1
      <4>3. CASE Done(T, z) \/ z = x
        BY <4>2, <4>3
      <4>4. CASE ~(Done(T, z) \/ z = x)
        <5>1. below[y] = Through(tree, z, y) /\ z \in InUse(tree) /\ y \in Around(tree, z)
          <6>1. z # central
            BY <1>2, NodesAssumption DEF Node
          <6>2. z \in InUse(tree)
            BY <1>3, <3>1, ToldOnce
          <6>3. y \in Tellers(T, z)
            BY <3>1 DEF Tellers
          <6> QED BY <4>4, <6>1, <6>2, <6>3, ListsOfTellers
        <5>2. below[y] # {}
          BY <1>3, <5>1, SomeLeafBehind
        <5>3. PICK l \in LeavesOf(tree) : l \in below[y]
          BY <3>1, <5>2 DEF Inv_Types
        <5>4. PICK a \in Around(tree, x) : l \in below[a]
          BY <1>6
        <5>5. a = y
          BY <1>3, <3>1, <5>3, <5>4 DEF ListsDisjoint
        <5>6. <<y, x>> \in T
          BY <1>2, <5>5 DEF Tellers
        <5> QED BY <1>2, <1>3, <3>1, <4>4, <5>6, ToldOnce
      <4> QED BY <4>3, <4>4
    <3> QED BY <1>5, <1>8, <3>1 DEF ListsRight, Held
  <2>4. CentralRight(T)'
    <3>1. below'[x] = LeavesOf(tree)
      BY <1>2, <1>7
    <3> QED BY <1>1, <1>2, <1>5, <1>9, <3>1 DEF CentralRight
  <2> QED BY <2>1, <2>2, <2>3, <2>4 DEF Right
<1> QED BY <1>10, <1>11, <1>12, <1>13, <1>14 DEF IInv

LEMMA PassNodeInv ==
  ASSUME IInv, todo # <<>>, PassNode
  PROVE  IInv'
<1>1. Inv_Types /\ ListsDisjoint /\ ListsCover /\ FixedKept
  BY DEF IInv
<1>2. PICK T \in SUBSET (Node \X Node) : Right(T)
  BY DEF IInv
<1>3. PICK x : x = Head(todo)
  OBVIOUS
<1>4. PICK next \in IF Open(x) = {} THEN {Nil} ELSE Open(x) :
        \E turn \in From(x, IF next # Nil THEN next ELSE Head(tree.kids[x])) :
          left = {} /\ Passed(x, next, Excluding(turn, {next}))
  BY <1>3 DEF PassNode, Open, Passed
<1>10. PICK turn \in From(x, IF next # Nil THEN next ELSE Head(tree.kids[x])) :
         left = {} /\ Passed(x, next, Excluding(turn, {next}))
  BY <1>4
<1>5. HeadFacts(T, x)
  BY <1>1, <1>2, <1>3, <1>10, HeadIs
<1>6. Tree(tree) /\ x \in InUse(tree) /\ x \in Node /\ Around(tree, x) \subseteq Node
      /\ Open(x) \subseteq Around(tree, x) /\ tree.type[x] # "leaf"
  <2>1. Tree(tree) /\ x \in InUse(tree) \cap Inner /\ x \in Node
    BY <1>1, <1>5 DEF Inv_Types, HeadFacts
  <2>2. Around(tree, x) \subseteq Node /\ tree.type[x] # "leaf"
    BY <2>1, AroundIs, OfTree, NodesAssumption
  <2> QED BY <2>1, <2>2 DEF Open, Around
<1>7. PICK givers : givers = Excluding(turn, {next})
  OBVIOUS
<1>8. CASE Open(x) = {}
  <2>1. next = Nil
    BY <1>4, <1>8
  <2>2. PICK first : first = Head(tree.kids[x])
    OBVIOUS
  <2>3. first \in Around(tree, x)
    <3>1. Around(tree, x) = Kids(tree, x) \cup (IF x = tree.root THEN {} ELSE {tree.parent[x]})
      BY <1>6, AroundIs
    <3>2. tree.kids[x] \in Seq(Node) /\ tree.kids[x] # <<>>
      <4>1. Degree(tree, x) >= 3
        BY <1>5 DEF HeadFacts
      <4>2. tree.kids[x] \in Seq(Node) /\ Len(tree.kids[x]) \in Nat
        BY <1>6, OfTree
      <4>3. Degree(tree, x) = IF tree.parent[x] = Nil THEN Len(tree.kids[x]) ELSE Len(tree.kids[x]) + 1
        BY <1>6, DegreeIs DEF Tree
      <4>4. Len(tree.kids[x]) # 0
        BY <4>1, <4>2, <4>3
      <4> QED BY <4>2, <4>4
    <3>3. first \in Kids(tree, x)
      BY <2>2, <3>2 DEF Kids, ToSet
    <3> QED BY <3>1, <3>3
  <2>4. turn \in From(x, first)
    BY <1>10, <2>1, <2>2
  <2>5. turn \in Seq(Node) /\ Distinct(turn) /\ ToSet(turn) = Around(tree, x)
    BY <1>6, <2>3, <2>4, FromIs
  <2>6. givers \in Seq(Node) /\ ToSet(givers) = Around(tree, x) \ {next}
    BY <1>7, <2>5, ExcludingIs
  <2>7. Around(tree, x) \ {next} = Around(tree, x)
    BY <1>6, <2>1, NodesAssumption DEF Node
  <2>8. Passed(x, Nil, givers) /\ ToSet(givers) = Around(tree, x)
    BY <1>7, <1>10, <2>1, <2>6, <2>7
  <2> QED BY <1>1, <1>2, <1>5, <1>8, <2>6, <2>8, PassLastInv
<1>9. CASE Open(x) # {}
  <2>1. next \in Open(x) /\ next # Nil
    BY <1>1, <1>2, <1>4, <1>5, <1>9, OpenIsOne
  <2>2. turn \in From(x, next) /\ next \in Around(tree, x)
    BY <1>6, <1>10, <2>1
  <2>3. turn \in Seq(Node) /\ Distinct(turn) /\ ToSet(turn) = Around(tree, x)
    BY <1>6, <2>2, FromIs
  <2>4. givers \in Seq(Node) /\ ToSet(givers) = Around(tree, x) \ {next}
    BY <1>7, <2>3, ExcludingIs
  <2>5. Passed(x, next, givers)
    BY <1>7, <1>10
  <2> QED BY <1>1, <1>2, <1>3, <1>5, <2>1, <2>4, <2>5, PassOnInv
<1> QED BY <1>8, <1>9

LEMMA NextIInv == IInv /\ [Next]_vars => IInv'
<1> SUFFICES ASSUME IInv, [Next]_vars PROVE IInv'
  OBVIOUS
<1>1. ASSUME NEW l \in left, PassLeaf(l) PROVE IInv'
  BY <1>1, PassLeafInv
<1>2. CASE todo # <<>> /\ PassNode
  BY <1>2, PassNodeInv
<1>3. CASE UNCHANGED vars
  <2>1. PICK T \in SUBSET (Node \X Node) : Right(T)
    BY DEF IInv
  <2>2. UNCHANGED <<tree, fixed, left, ready, below, todo, central, restrictions, ok>>
    BY <1>3 DEF vars
  <2>3. Right(T)'
    BY <2>1, <2>2 DEF Right, Counted, LeavesTold, Waiting, Ripe, ListsRight, Held, CentralRight
  <2>4. (Inv_Types /\ ListsDisjoint /\ ListsCover /\ FixedKept)'
    BY <2>2 DEF IInv, Inv_Types, ListsDisjoint, ListsCover, FixedKept
  <2> QED BY <2>3, <2>4 DEF IInv
<1> QED BY <1>1, <1>2, <1>3 DEF Next

(***************************************************************************)
(* What follows from it.                                                   *)
(***************************************************************************)
\* At the end, whoever has not told waits for two, the fixed leaf and the last
\* node excepted.
LEMMA NobodyWaits ==
  ASSUME Inv_Types, NEW T, Right(T), Returned
  PROVE  \A x \in InUse(tree) : x # fixed /\ x # central => Done(T, x) \/ ~Ripe(tree, T, x)
<1> SUFFICES ASSUME NEW x \in InUse(tree), x # fixed, x # central, ~Done(T, x), Ripe(tree, T, x) PROVE FALSE
  OBVIOUS
<1>1. left = {} /\ ToSet(todo) = {}
  BY DEF Returned, ToSet
<1>2. CASE x \in Leaves
  <2>1. x \in LeavesOf(tree)
    BY <1>2, LeavesOfTree DEF Inv_Types
  <2> QED BY <1>1, <2>1 DEF Right, LeavesTold
<1>3. CASE x \notin Leaves
  <2>1. x \in Inner
    BY <1>3 DEF InUse, Node
  <2>2. x \in Waiting(T)
    BY <2>1 DEF Waiting
  <2> QED BY <1>1, <2>2 DEF Right
<1> QED BY <1>2, <1>3

\* Without a fixed leaf two neighbors would have told each other, were there
\* no last node.
LEMMA EndsAtCentral ==
  ASSUME Inv_Types, NEW T, Right(T), Returned, fixed = Nil
  PROVE  /\ central # Nil /\ ready[central] = Degree(tree, central)
         /\ Cardinality(below[central]) = Cardinality(LeavesOf(tree))
<1>1. Tree(tree) /\ Telling(tree, T) /\ Nil \notin Node
  BY NodesAssumption DEF Inv_Types, Right, Node
<1>2. central # Nil
  <2> SUFFICES ASSUME central = Nil PROVE FALSE
    OBVIOUS
  <2>1. \A x \in InUse(tree) : x # Nil => Done(T, x) \/ ~Ripe(tree, T, x)
    BY NobodyWaits
  <2>2. PICK l \in LeavesOf(tree) : TRUE
    BY LeavesOfTree, ThreeElements DEF Inv_Types
  <2>3. PICK w : w = Beside(tree, l)
    OBVIOUS
  <2>4. Around(tree, l) = {w} /\ w \in InUse(tree) /\ l \in Around(tree, w) /\ l \in InUse(tree)
    BY <1>1, <2>2, <2>3, BesideLeaf, BehindLeaf, LeavesOfTree
  <2>5. Nil \notin Through(tree, l, w) /\ Nil \notin Through(tree, w, l)
    BY <1>1, <2>4, ThroughParts, NodesAssumption
  <2>6. \A x \in InUse(tree) : \A y \in Around(tree, x) : Nil \notin Through(tree, x, y) => <<y, x>> \in T
    <3>1. Nil \in LeavesOf(tree) \cup {Nil}
      OBVIOUS
    <3> QED BY ONLY <1>1, <2>1, <3>1, AllHaveTold
  <2>7. <<w, l>> \in T /\ <<l, w>> \in T
    BY <2>4, <2>5, <2>6
  <2>8. w \in Node /\ l \in Node
    BY <2>4 DEF InUse
  <2> QED BY <1>1, <2>7, <2>8 DEF Telling
<1>3. /\ central \in InUse(tree) /\ Around(tree, central) \subseteq Tellers(T, central)
      /\ below[central] = LeavesOf(tree)
  BY <1>2 DEF Right, CentralRight
<1>4. Tellers(T, central) = Around(tree, central)
  BY <1>1, <1>3, ToldOnce DEF InUse
<1>5. Cardinality(Tellers(T, central)) = Degree(tree, central)
  BY <1>1, <1>3, <1>4, AroundFinite
<1>6. ready[central] = Degree(tree, central)
  BY <1>3, <1>5 DEF Right, Counted, InUse
<1> QED BY <1>2, <1>3, <1>6

\* With one all have told the neighbor nearer to it.
LEMMA EndsAtFixed ==
  ASSUME Inv_Types, NEW T, Right(T), Returned, fixed # Nil, NEW last, last = Beside(tree, fixed)
  PROVE  /\ central = Nil /\ ready[last] = Degree(tree, last) - 1
         /\ Cardinality(below[last]) = Cardinality(LeavesOf(tree)) - 1
<1>1. Tree(tree) /\ Telling(tree, T) /\ fixed \in LeavesOf(tree) /\ central = Nil
  BY DEF Inv_Types, Right, CentralRight
<1>2. /\ Around(tree, fixed) = {last} /\ last \in InUse(tree) /\ last \in Node /\ fixed \in Around(tree, last)
      /\ last # fixed /\ fixed \in InUse(tree) /\ fixed \in Node
      /\ Through(tree, fixed, last) = LeavesOf(tree) \ {fixed} /\ Through(tree, last, fixed) = {fixed}
  BY <1>1, BesideLeaf, BehindLeaf, LeavesOfTree DEF InUse
<1>3. <<last, fixed>> \in T
  <2>1. \A x \in InUse(tree) : x # central
    BY <1>1, NodesAssumption DEF InUse, Node
  <2>2. \A x \in InUse(tree) : x # fixed => Done(T, x) \/ ~Ripe(tree, T, x)
    BY <2>1, NobodyWaits
  <2>3. \A x \in InUse(tree) : \A y \in Around(tree, x) : fixed \notin Through(tree, x, y) => <<y, x>> \in T
    <3>1. fixed \in LeavesOf(tree) \cup {Nil}
      BY <1>1
    <3>2. PICK f : f = fixed
      OBVIOUS
    <3>3. \A x \in InUse(tree) : \A y \in Around(tree, x) : f \notin Through(tree, x, y) => <<y, x>> \in T
      BY ONLY <1>1, <2>2, <3>1, <3>2, AllHaveTold
    <3> QED BY <3>2, <3>3
  <2> QED BY <1>2, <2>3
<1>4. ~Done(T, fixed)
  BY <1>1 DEF Right, LeavesTold
<1>5. Tellers(T, last) = Around(tree, last) \ {fixed}
  <2>1. Around(tree, last) \ {fixed} \subseteq Tellers(T, last)
    BY <1>1, <1>2, <1>3 DEF Telling
  <2>2. Tellers(T, last) \subseteq Around(tree, last)
    BY <1>1, <1>2, ToldOnce
  <2>3. fixed \notin Tellers(T, last)
    BY <1>2, <1>4 DEF Tellers, Done
  <2> QED BY <2>1, <2>2, <2>3
<1>6. ready[last] = Degree(tree, last) - 1
  <2>1. IsFiniteSet(Around(tree, last)) /\ Cardinality(Around(tree, last)) = Degree(tree, last)
        /\ Degree(tree, last) \in Nat
    BY <1>1, <1>2, AroundFinite, FS_CardinalityType
  <2>2. Cardinality(Around(tree, last) \ {fixed}) = Cardinality(Around(tree, last)) - 1
    BY <1>2, <2>1, FS_RemoveElement
  <2> QED BY <1>2, <1>5, <2>1, <2>2 DEF Right, Counted
<1>7. below[last] = LeavesOf(tree) \ {fixed}
  <2>1. below[last] = Held(T, last, fixed)
    BY <1>2, <1>3 DEF Right, ListsRight
  <2>2. fixed # central
    BY <1>1
  <2> QED BY <1>2, <1>4, <2>1, <2>2 DEF Held
<1>8. Cardinality(LeavesOf(tree) \ {fixed}) = Cardinality(LeavesOf(tree)) - 1
  BY <1>1, LeavesOfTree, FS_RemoveElement
<1> QED BY <1>1, <1>6, <1>7, <1>8

LEMMA IInvAssertions == IInv => AssertionsHold
<1> SUFFICES ASSUME IInv PROVE AssertionsHold
  OBVIOUS
<1>1. Inv_Types /\ ok
  BY DEF IInv, Inv_Types
<1>2. PICK T : Right(T)
  BY DEF IInv
<1>3. CASE fixed = Nil
  <2>1. Returned => /\ central # Nil /\ ready[central] = Degree(tree, central)
                    /\ Cardinality(below[central]) = Cardinality(LeavesOf(tree))
    BY <1>1, <1>2, <1>3, EndsAtCentral
  <2> QED BY <1>1, <1>3, <2>1 DEF AssertionsHold
<1>4. CASE fixed # Nil
  <2>1. Returned => /\ central = Nil /\ ready[Beside(tree, fixed)] = Degree(tree, Beside(tree, fixed)) - 1
                    /\ Cardinality(below[Beside(tree, fixed)]) = Cardinality(LeavesOf(tree)) - 1
    BY <1>1, <1>2, <1>4, EndsAtFixed
  <2>2. CASE fixed = tree.root
    BY <1>1, <1>4, <2>1, <2>2 DEF AssertionsHold, Beside
  <2>3. CASE fixed # tree.root
    BY <1>1, <1>4, <2>1, <2>3 DEF AssertionsHold, Beside
  <2> QED BY <2>2, <2>3
<1> QED BY <1>3, <1>4

LEMMA IInvLists == IInv => ListsExact /\ WithoutFixedLeaf
<1> SUFFICES ASSUME IInv PROVE ListsExact /\ WithoutFixedLeaf
  OBVIOUS
<1>1. Inv_Types /\ ListsDisjoint /\ ListsCover /\ FixedKept
  BY DEF IInv
<1>2. PICK T : Right(T)
  BY DEF IInv
<1>3. Tree(tree) /\ Telling(tree, T)
  BY <1>1, <1>2 DEF Inv_Types, Right
<1>4. TypeOK
  <2>1. tree \in TreeType
    BY <1>3 DEF Tree
  <2>2. ASSUME NEW x \in Node PROVE ready[x] <= Degree(tree, x)
    <3>1. ready[x] = Cardinality(Tellers(T, x))
      BY <1>2 DEF Right, Counted
    <3>2. CASE x \in InUse(tree)
      BY <1>3, <3>1, <3>2, RipeIsCounted
    <3>3. CASE x \notin InUse(tree)
      <4>1. Tellers(T, x) = {}
        BY <1>3, <2>2, <3>3, ToldOnce DEF Tellers
      <4>2. ready[x] = 0
        BY <3>1, <4>1, FS_EmptySet
      <4>3. Degree(tree, x) = IF tree.parent[x] = Nil THEN Len(tree.kids[x]) ELSE Len(tree.kids[x]) + 1
        BY <2>1, DegreeIs
      <4>4. Len(tree.kids[x]) \in Nat
        BY <2>1 DEF TreeType
      <4> QED BY <4>2, <4>3, <4>4
    <3> QED BY <3>2, <3>3
  <2> QED BY <1>1, <2>1, <2>2 DEF TypeOK, Inv_Types
<1>5. ASSUME NEW x \in InUse(tree), below[x] # {}, below[x] # LeavesOf(tree)
      PROVE  \E y \in ToSet(Neighbors(tree, x)) : LeavesThrough(tree, LeavesBelow(tree), y, x) = below[x]
  <2>1. x \in Node
    BY DEF InUse
  <2>2. x # central
    BY <1>2, <1>5, <2>1, NodesAssumption DEF Right, CentralRight, Node
  <2>3. PICK y \in Node : <<x, y>> \in T
    BY <1>2, <1>5, <2>1, <2>2 DEF Right, ListsRight, Done
  <2>4. y \in Around(tree, x)
    BY <1>3, <2>1, <2>3 DEF Telling
  <2>5. below[x] = Through(tree, y, x)
    BY <1>2, <1>5, <2>1, <2>3 DEF Right, ListsRight, Held
  <2> QED BY <2>4, <2>5 DEF Around, Through
<1>6. WithoutFixedLeaf
  BY <1>1 DEF FixedKept, WithoutFixedLeaf
<1> QED BY <1>1, <1>4, <1>5, <1>6 DEF ListsExact, ListsDisjoint, ListsCover

\* The tree asked is a valid one with more than two leaves.
Asked == Tree(tree) /\ Cardinality(LeavesOf(tree)) > 2

(***************************************************************************)
(* None of the assertions of getRestrictions fails: no node is reached from*)
(* the fixed leaf, at most one neighbor is left, only one node is the last,*)
(* and at the end the last node has all leaves, or the neighbor of the     *)
(* fixed leaf has all the others.                                          *)
(***************************************************************************)
THEOREM ExportAssertions == Spec /\ Asked => []AssertionsHold
<1>1. Init /\ Asked => IInv
  BY InitIInv DEF Asked
<1> QED BY <1>1, NextIInv, IInvAssertions, PTL DEF Spec

(***************************************************************************)
(* The lists of leaves are disjoint, miss no leaf that was passed and have *)
(* all leaves behind their nodes; no restriction contains the fixed leaf.  *)
(***************************************************************************)
THEOREM ExportLists == Spec /\ Asked => [](ListsExact /\ WithoutFixedLeaf)
<1>1. Init /\ Asked => IInv
  BY InitIInv DEF Asked
<1> QED BY <1>1, NextIInv, IInvLists, PTL DEF Spec
===============================================================================
