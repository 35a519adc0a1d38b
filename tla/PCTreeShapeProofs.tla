--------------------------- MODULE PCTreeShapeProofs ---------------------------
(***************************************************************************)
(* Proofs about the trees that CheckValid describes: induction along the   *)
(* tree from the root and from the leaves, what LeavesBelow computes, and  *)
(* how the sets of leaves behind the neighbors of a node divide the        *)
(* leaves.  Neither kind of induction is built in: both rest on the least  *)
(* element of a set of numbers, taken of the depths of the nodes.          *)
(***************************************************************************)
EXTENDS PCTreeShape, FiniteSetTheorems, WellFoundedInduction, TLAPS

\* A tree that a user may have in hand.
Tree(t) == t \in TreeType /\ CheckValid(t)

Kids(t, x) == ToSet(t.kids[x])

(***************************************************************************)
(* Numbers.                                                                *)
(***************************************************************************)

\* A nonempty set of numbers has a least element.
LEMMA LeastOf ==
  ASSUME NEW S, S \subseteq Nat, S # {}
  PROVE  \E n \in S : \A m \in S : n <= m
<1> DEFINE R == {p \in Nat \X Nat : p[1] < p[2]}
<1>1. OpToRel(<, Nat) = R
  BY Zenon DEF OpToRel
<1>2. IsWellFoundedOn(R, Nat)
  BY <1>1, NatLessThanWellFounded
<1>3. PICK n \in S : \A m \in S : <<m, n>> \notin R
  <2> HIDE DEF R
  <2> QED BY <1>2, WFMin
<1>4. ASSUME NEW m \in S PROVE n <= m
  <2>1. m \in Nat /\ n \in Nat /\ <<m, n>> \in Nat \X Nat
    OBVIOUS
  <2>2. ~(m < n)
    BY <1>3, <2>1
  <2> QED BY <2>1, <2>2
<1> QED BY <1>4

\* A set of numbers that has 0 and every successor has them all.
LEMMA NatSetInduction ==
  ASSUME NEW S, 0 \in S, \A n \in Nat : n \in S => n + 1 \in S
  PROVE  Nat \subseteq S
<1> SUFFICES ASSUME Nat \ S # {} PROVE FALSE
  OBVIOUS
<1>1. PICK n \in Nat \ S : \A m \in Nat \ S : n <= m
  BY LeastOf
<1>2. n - 1 \in Nat /\ n - 1 \in S
  BY <1>1
<1> QED BY <1>1, <1>2

LEMMA NodeIsFinite == IsFiniteSet(Node) /\ Cardinality(Node) \in Nat
BY NodesAssumption, FS_Union, FS_CardinalityType DEF Node

(***************************************************************************)
(* Sequences without repetition.                                           *)
(***************************************************************************)
Distinct(s) == \A i, j \in DOMAIN s : s[i] = s[j] => i = j

LEMMA DistinctIsInjective ==
  ASSUME NEW s
  PROVE  IsInjective(s) <=> Distinct(s)
BY DEF IsInjective, Distinct

\* As many elements as places.
LEMMA DistinctLength ==
  ASSUME NEW S, NEW s \in Seq(S), Distinct(s)
  PROVE  IsFiniteSet(ToSet(s)) /\ Cardinality(ToSet(s)) = Len(s) /\ Len(s) \in Nat
<1> DEFINE n == Len(s)
           T == ToSet(s)
<1>1. n \in Nat /\ DOMAIN s = 1..n
  OBVIOUS
<1>2. T = {s[i] : i \in 1..n}
  BY <1>1 DEF ToSet
<1> HIDE DEF n, T
<1>3. s \in Bijection(1..n, T)
  <2>1. s = [i \in 1..n |-> s[i]]
    BY <1>1
  <2>2. s \in [1..n -> T]
    BY <1>2, <2>1
  <2>3. IsInjective(s)
    BY DistinctIsInjective
  <2>4. \A e \in T : \E i \in 1..n : s[i] = e
    BY <1>2
  <2> QED BY <2>2, <2>3, <2>4 DEF Bijection, Injection, Surjection
<1>4. ExistsBijection(1..n, T)
  BY <1>3 DEF ExistsBijection
<1>5. IsFiniteSet(1..n) /\ Cardinality(1..n) = n
  BY <1>1, FS_Interval
<1>6. IsFiniteSet(T) /\ Cardinality(T) = n
  BY <1>4, <1>5, FS_Bijection
<1> QED BY <1>1, <1>6 DEF n, T

LEMMA AppendDistinct ==
  ASSUME NEW S, NEW s \in Seq(S), NEW e \in S, Distinct(s), e \notin ToSet(s)
  PROVE  /\ Append(s, e) \in Seq(S) /\ Distinct(Append(s, e))
         /\ ToSet(Append(s, e)) = ToSet(s) \cup {e}
         /\ Len(Append(s, e)) = Len(s) + 1
<1> DEFINE n == Len(s)
           u == Append(s, e)
<1>1. n \in Nat /\ DOMAIN s = 1..n
  OBVIOUS
<1>2. u \in Seq(S) /\ Len(u) = n + 1 /\ DOMAIN u = 1..(n + 1) /\ u[n + 1] = e
      /\ \A i \in 1..n : u[i] = s[i]
  OBVIOUS
<1>3. \A i \in 1..n : s[i] \in ToSet(s) /\ s[i] # e
  BY <1>1 DEF ToSet
<1> HIDE DEF u, n
<1>4. \A i \in 1..(n + 1) : i \in 1..n \/ i = n + 1
  BY <1>1
<1>5. Distinct(u)
  BY <1>1, <1>2, <1>3, <1>4 DEF Distinct
<1>6. ToSet(u) = ToSet(s) \cup {e}
  <2>1. ToSet(u) = {u[i] : i \in 1..(n + 1)} /\ ToSet(s) = {s[i] : i \in 1..n}
    BY <1>1, <1>2 DEF ToSet
  <2>2. n + 1 \in 1..(n + 1) /\ \A i \in 1..n : i \in 1..(n + 1)
    BY <1>1
  <2>3. ToSet(u) \subseteq ToSet(s) \cup {e}
    BY <1>2, <1>4, <2>1
  <2>4. e \in ToSet(u)
    BY <1>2, <2>1, <2>2
  <2>5. ToSet(s) \subseteq ToSet(u)
    BY <1>2, <2>1, <2>2
  <2> QED BY <2>3, <2>4, <2>5
<1> QED BY <1>2, <1>5, <1>6 DEF u, n

LEMMA PositionIs ==
  ASSUME NEW s, NEW e \in ToSet(s)
  PROVE  PositionOf(s, e) \in DOMAIN s /\ s[PositionOf(s, e)] = e
<1>1. \E i \in DOMAIN s : s[i] = e
  BY DEF ToSet
<1> QED BY <1>1 DEF PositionOf

\* Taking out one element.
LEMMA RemoveDistinct ==
  ASSUME NEW S, NEW s \in Seq(S), Distinct(s), NEW e \in ToSet(s)
  PROVE  LET r == RemoveAt(s, PositionOf(s, e))
         IN  /\ r \in Seq(S) /\ Distinct(r) /\ ToSet(r) = ToSet(s) \ {e}
             /\ Len(r) = Len(s) - 1
<1> DEFINE n == Len(s)
           k == PositionOf(s, e)
           a == SubSeq(s, 1, k - 1)
           b == SubSeq(s, k + 1, n)
           r == a \o b
<1>1. n \in Nat /\ DOMAIN s = 1..n /\ \A i \in 1..n : s[i] \in S
  OBVIOUS
<1>2. k \in 1..n /\ s[k] = e
  BY <1>1, PositionIs
<1> HIDE DEF k, n
<1>3. /\ a \in Seq(S) /\ Len(a) = k - 1 /\ \A i \in 1..(k - 1) : a[i] = s[i]
  BY <1>1, <1>2
<1>4. /\ b \in Seq(S) /\ Len(b) = n - k /\ \A i \in 1..(n - k) : b[i] = s[k + i]
  BY <1>1, <1>2
<1> HIDE DEF a, b
<1>5. /\ r \in Seq(S) /\ Len(r) = n - 1 /\ DOMAIN r = 1..(n - 1)
      /\ \A i \in 1..(n - 1) : r[i] = IF i < k THEN s[i] ELSE s[i + 1]
  <2>0. k - 1 \in Nat /\ n - k \in Nat
    BY <1>1, <1>2
  <2>4. a \in Seq(S) /\ b \in Seq(S)
    BY <1>3, <1>4
  <2>5. r \in Seq(S) /\ Len(r) = Len(a) + Len(b)
    BY <2>4
  <2>1. r \in Seq(S) /\ Len(r) = (k - 1) + (n - k)
    BY <2>5, <1>3, <1>4
  <2>2. (k - 1) + (n - k) = n - 1
    BY <1>1, <1>2
  <2>3. ASSUME NEW i \in 1..(n - 1) PROVE r[i] = IF i < k THEN s[i] ELSE s[i + 1]
    <3>1. CASE i < k
      <4>1. i \in 1..(k - 1)
        BY <1>1, <1>2, <3>1
      <4>2. r[i] = a[i]
        BY <1>1, <1>2, <1>3, <1>4, <4>1
      <4> QED BY <1>3, <3>1, <4>1, <4>2
    <3>2. CASE ~(i < k)
      <4>1. i - (k - 1) \in 1..(n - k) /\ k + (i - (k - 1)) = i + 1 /\ i > k - 1 /\ i <= (k - 1) + (n - k)
        BY <1>1, <1>2, <3>2
      <4>2. r[i] = b[i - (k - 1)]
        BY <1>1, <1>2, <1>3, <1>4, <4>1
      <4> QED BY <1>4, <3>2, <4>1, <4>2
    <3> QED BY <3>1, <3>2
  <2> QED BY <2>1, <2>2, <2>3
<1> HIDE DEF r
<1>6. Distinct(r)
  <2> SUFFICES ASSUME NEW i \in 1..(n - 1), NEW j \in 1..(n - 1), r[i] = r[j] PROVE i = j
    BY <1>5 DEF Distinct
  <2> DEFINE at(m) == IF m < k THEN m ELSE m + 1
  <2>1. \A m \in 1..(n - 1) : at(m) \in 1..n /\ r[m] = s[at(m)]
    BY <1>1, <1>2, <1>5
  <2>2. at(i) = at(j)
    BY <1>1, <2>1 DEF Distinct
  <2> QED BY <1>2, <2>2
<1>7. ToSet(r) = ToSet(s) \ {e}
  <2>1. ToSet(r) = {r[i] : i \in 1..(n - 1)} /\ ToSet(s) = {s[i] : i \in 1..n}
    BY <1>1, <1>5 DEF ToSet
  <2>2. ASSUME NEW i \in 1..(n - 1) PROVE r[i] \in ToSet(s) \ {e}
    <3> DEFINE m == IF i < k THEN i ELSE i + 1
    <3>1. m \in 1..n /\ m # k /\ r[i] = s[m]
      BY <1>1, <1>2, <1>5
    <3> HIDE DEF m
    <3> QED BY <1>1, <1>2, <2>1, <3>1 DEF Distinct
  <2>3. ASSUME NEW i \in 1..n, s[i] # e PROVE s[i] \in ToSet(r)
    <3> DEFINE m == IF i < k THEN i ELSE i - 1
    <3>1. i # k
      BY <1>2, <2>3
    <3>2. m \in 1..(n - 1) /\ r[m] = s[i]
      BY <1>1, <1>2, <1>5, <3>1
    <3> HIDE DEF m
    <3> QED BY <2>1, <3>2
  <2> QED BY <2>1, <2>2, <2>3
<1> QED BY <1>5, <1>6, <1>7 DEF RemoveAt, r, a, b, k, n

\* A sequence without repetition in a set has all of it but one element
\* exactly if it is shorter by one.
LEMMA AllButOne ==
  ASSUME NEW S, NEW s \in Seq(S), Distinct(s), NEW T, IsFiniteSet(T), ToSet(s) \subseteq T
  PROVE  /\ Len(s) <= Cardinality(T)
         /\ Len(s) = Cardinality(T) - 1 => \E w \in T : ToSet(s) = T \ {w}
         /\ \A w \in T : T \ {w} \subseteq ToSet(s) => Len(s) >= Cardinality(T) - 1
<1> DEFINE A == ToSet(s)
<1>1. IsFiniteSet(A) /\ Cardinality(A) = Len(s) /\ Len(s) \in Nat /\ Cardinality(T) \in Nat
  BY DistinctLength, FS_CardinalityType
<1> HIDE DEF A
<1>2. A \subseteq T
  BY DEF A
<1>3. Cardinality(A) <= Cardinality(T)
  BY <1>2, FS_Subset
<1>4. ASSUME Cardinality(A) = Cardinality(T) - 1 PROVE \E w \in T : A = T \ {w}
  <2>1. A # T
    BY <1>1, <1>4
  <2>2. PICK w \in T : w \notin A
    BY <1>2, <2>1
  <2>3. IsFiniteSet(T \ {w}) /\ Cardinality(T \ {w}) = Cardinality(T) - 1
    BY <2>2, FS_RemoveElement
  <2>4. A \subseteq T \ {w}
    BY <1>2, <2>2
  <2>5. A = T \ {w}
    BY <1>4, <2>3, <2>4, FS_Subset
  <2> QED BY <2>5
<1>5. ASSUME NEW w \in T, T \ {w} \subseteq A PROVE Cardinality(A) >= Cardinality(T) - 1
  <2>1. IsFiniteSet(T \ {w}) /\ Cardinality(T \ {w}) = Cardinality(T) - 1
    BY FS_RemoveElement
  <2>2. Cardinality(T \ {w}) <= Cardinality(A)
    BY <1>1, <1>5, FS_Subset
  <2> QED BY <1>1, <2>1, <2>2
<1> QED BY <1>1, <1>3, <1>4, <1>5 DEF A

(***************************************************************************)
(* Levels.                                                                 *)
(***************************************************************************)

\* The levels of the walk down from the root, as the least relation that
\* follows it.
Follows(t, R) ==
  /\ <<0, t.root>> \in R
  /\ \A k \in Nat, x \in Node :
       <<k, x>> \in R => <<k + 1, x>> \in R /\ \A y \in Kids(t, x) : <<k + 1, y>> \in R

OnLevel(t) ==
  {p \in Nat \X Node : \A R \in SUBSET (Nat \X Node) : Follows(t, R) => p \in R}

LEMMA KidsAreNodes ==
  ASSUME NEW t \in TreeType, NEW x \in Node
  PROVE  /\ t.kids[x] \in Seq(Node)
         /\ Kids(t, x) \subseteq Node
         /\ Kids(t, x) = {t.kids[x][i] : i \in DOMAIN t.kids[x]}
BY DEF TreeType, Kids, ToSet

LEMMA DegreeIs ==
  ASSUME NEW t \in TreeType, NEW x \in Node
  PROVE  /\ Len(t.kids[x]) \in Nat /\ DOMAIN t.kids[x] = 1..Len(t.kids[x])
         /\ Degree(t, x) = IF t.parent[x] = Nil THEN Len(t.kids[x]) ELSE Len(t.kids[x]) + 1
         /\ Degree(t, x) \in Nat
<1>1. t.kids[x] \in Seq(Node)
  BY DEF TreeType
<1>2. Len(t.kids[x]) \in Nat /\ DOMAIN t.kids[x] = 1..Len(t.kids[x])
  BY <1>1
<1>3. Degree(t, x) = IF t.parent[x] = Nil THEN Len(t.kids[x]) ELSE Len(t.kids[x]) + 1
  <2> DEFINE n == Len(t.kids[x])
  <2>1. n + 0 = n
    BY <1>2
  <2> QED BY <2>1 DEF Degree
<1> QED BY <1>2, <1>3

LEMMA OnLevelFollows ==
  ASSUME NEW t \in TreeType
  PROVE  Follows(t, OnLevel(t))
<1>1. t.root \in Node
  BY DEF TreeType
<1>2. ASSUME NEW k \in Nat, NEW x \in Node, <<k, x>> \in OnLevel(t)
      PROVE  <<k + 1, x>> \in OnLevel(t) /\ \A y \in Kids(t, x) : <<k + 1, y>> \in OnLevel(t)
  <2>1. <<k + 1, x>> \in Nat \X Node /\ \A y \in Kids(t, x) : <<k + 1, y>> \in Nat \X Node
    BY KidsAreNodes
  <2> QED BY <1>2, <2>1 DEF OnLevel, Follows
<1>3. <<0, t.root>> \in OnLevel(t)
  BY <1>1 DEF OnLevel, Follows
<1> QED BY <1>2, <1>3 DEF Follows

LevelAt(t, k) == {x \in Node : <<k, x>> \in OnLevel(t)}

LEMMA LevelZero ==
  ASSUME NEW t \in TreeType
  PROVE  LevelAt(t, 0) = {t.root}
<1>1. t.root \in Node
  BY DEF TreeType
<1> DEFINE R == OnLevel(t) \ {<<0, x>> : x \in Node \ {t.root}}
<1>2. R \in SUBSET (Nat \X Node)
  BY DEF OnLevel
<1>3. Follows(t, R)
  <2>1. <<0, t.root>> \in R
    BY <1>1, OnLevelFollows DEF Follows
  <2>2. ASSUME NEW k \in Nat, NEW x \in Node, <<k, x>> \in R
        PROVE  <<k + 1, x>> \in R /\ \A y \in Kids(t, x) : <<k + 1, y>> \in R
    <3>1. <<k + 1, x>> \in OnLevel(t) /\ \A y \in Kids(t, x) : <<k + 1, y>> \in OnLevel(t)
      BY <2>2, OnLevelFollows DEF Follows
    <3>2. k + 1 # 0
      OBVIOUS
    <3> QED BY <3>1, <3>2
  <2> QED BY <2>1, <2>2 DEF Follows
<1>4. OnLevel(t) \subseteq R
  BY <1>2, <1>3 DEF OnLevel
<1> QED BY <1>1, <1>4, OnLevelFollows DEF LevelAt, Follows

LEMMA LevelNext ==
  ASSUME NEW t \in TreeType, NEW k \in Nat
  PROVE  LevelAt(t, k + 1) = LevelAt(t, k) \cup UNION {Kids(t, x) : x \in LevelAt(t, k)}
<1> DEFINE New == LevelAt(t, k) \cup UNION {Kids(t, x) : x \in LevelAt(t, k)}
           R   == OnLevel(t) \ {<<k + 1, x>> : x \in Node \ New}
<1>1. New \subseteq LevelAt(t, k + 1)
  BY KidsAreNodes, OnLevelFollows DEF LevelAt, Follows
<1>2. R \in SUBSET (Nat \X Node)
  BY DEF OnLevel
<1>3. Follows(t, R)
  <2>1. <<0, t.root>> \in R
    BY OnLevelFollows DEF Follows
  <2>2. ASSUME NEW j \in Nat, NEW x \in Node, <<j, x>> \in R
        PROVE  <<j + 1, x>> \in R /\ \A y \in Kids(t, x) : <<j + 1, y>> \in R
    <3>1. <<j + 1, x>> \in OnLevel(t) /\ \A y \in Kids(t, x) : <<j + 1, y>> \in OnLevel(t)
      BY <2>2, OnLevelFollows DEF Follows
    <3>2. CASE j = k
      <4>1. x \in LevelAt(t, k)
        BY <2>2, <3>2 DEF LevelAt
      <4> QED BY <3>1, <4>1
    <3>3. CASE j # k
      <4>1. j + 1 # k + 1
        BY <3>3
      <4> QED BY <3>1, <4>1
    <3> QED BY <3>2, <3>3
  <2> QED BY <2>1, <2>2 DEF Follows
<1>4. OnLevel(t) \subseteq R
  BY <1>2, <1>3 DEF OnLevel
<1>5. LevelAt(t, k + 1) \subseteq New
  BY <1>4 DEF LevelAt
<1> QED BY <1>1, <1>5

\* What the function Levels is: its definition by recursion has a solution.
LEMMA LevelsAre ==
  ASSUME NEW t \in TreeType
  PROVE  /\ Levels(t)[0] = {t.root}
         /\ \A k \in Nat : Levels(t)[k + 1] = Levels(t)[k] \cup UNION {Kids(t, x) : x \in Levels(t)[k]}
<1> DEFINE Step(f, k) == IF k = 0 THEN {t.root}
                         ELSE f[k - 1] \cup UNION {ToSet(t.kids[x]) : x \in f[k - 1]}
           g == [k \in Nat |-> LevelAt(t, k)]
<1>1. Levels(t) = CHOOSE f : f = [k \in Nat |-> Step(f, k)]
  BY Zenon DEF Levels
<1>2. \A k \in Nat : g[k] = Step(g, k)
  <2>1. SUFFICES ASSUME NEW k \in Nat PROVE g[k] = Step(g, k)
    OBVIOUS
  <2>2. CASE k = 0
    BY <2>2, LevelZero
  <2>3. CASE k # 0
    <3>1. k - 1 \in Nat /\ (k - 1) + 1 = k
      BY <2>3
    <3>2. LevelAt(t, (k - 1) + 1) = LevelAt(t, k - 1) \cup UNION {Kids(t, x) : x \in LevelAt(t, k - 1)}
      BY <3>1, LevelNext
    <3> QED BY <2>3, <3>1, <3>2 DEF Kids
  <2> QED BY <2>2, <2>3
<1>3. g = [k \in Nat |-> Step(g, k)]
  <2> HIDE DEF Step
  <2> QED BY <1>2
<1> DEFINE L == Levels(t)
<1>4. L = [k \in Nat |-> Step(L, k)]
  <2> HIDE DEF Step, g
  <2> QED BY Zenon, <1>1, <1>3
<1> HIDE DEF L
<1>5. L[0] = {t.root}
  BY <1>4
<1>6. ASSUME NEW k \in Nat PROVE L[k + 1] = L[k] \cup UNION {ToSet(t.kids[x]) : x \in L[k]}
  <2>1. L[k + 1] = Step(L, k + 1)
    <3> HIDE DEF Step
    <3> QED BY <1>4
  <2> QED BY <2>1
<1> QED BY <1>5, <1>6 DEF L, Kids

(***************************************************************************)
(* Induction along the tree.                                               *)
(***************************************************************************)

\* The depth of a node: the first level that has it.
IsDepth(t, x, k) == x \in Levels(t)[k] /\ \A j \in Nat : x \in Levels(t)[j] => k <= j
Depth(t, x) == CHOOSE k \in Nat : IsDepth(t, x, k)

LEMMA DepthExists ==
  ASSUME NEW t, Tree(t), NEW x \in InUse(t)
  PROVE  /\ Depth(t, x) \in Nat /\ IsDepth(t, x, Depth(t, x))
         /\ Depth(t, x) <= Cardinality(Node)
<1>1. x \in Levels(t)[Cardinality(Node)] /\ Cardinality(Node) \in Nat
  BY NodeIsFinite DEF Tree, CheckValid
<1> DEFINE S == {k \in Nat : x \in Levels(t)[k]}
<1>2. PICK k \in S : \A j \in S : k <= j
  BY <1>1, LeastOf
<1>3. \E j \in Nat : IsDepth(t, x, j)
  BY <1>2 DEF IsDepth
<1>4. Depth(t, x) \in Nat /\ IsDepth(t, x, Depth(t, x))
  BY <1>3 DEF Depth
<1> QED BY <1>1, <1>4 DEF IsDepth

\* What CheckValid says of a node, by itself.
LEMMA OfTree ==
  ASSUME NEW t, Tree(t), NEW x \in InUse(t)
  PROVE  /\ x \in Node /\ t.kids[x] \in Seq(Node) /\ Kids(t, x) \subseteq InUse(t)
         /\ t.root \in InUse(t) /\ t.parent[t.root] = Nil
         /\ x # t.root => t.parent[x] \in InUse(t) /\ x \in Kids(t, t.parent[x])
         /\ \A c \in Kids(t, x) : t.parent[c] = x
         /\ t.parent[x] = Nil <=> x = t.root
         /\ t.type[x] = "leaf" <=> x \in Leaves
         /\ \A i, j \in DOMAIN t.kids[x] : t.kids[x][i] = t.kids[x][j] => i = j
<1>1. x \in Node /\ Nil \notin Node
  BY NodesAssumption DEF InUse, Node
<1>2. t.kids[x] \in Seq(Node)
  BY <1>1 DEF Tree, TreeType
<1>3. /\ t.root \in InUse(t) /\ t.parent[t.root] = Nil
      /\ x # t.root => t.parent[x] \in InUse(t) /\ x \in Kids(t, t.parent[x])
      /\ Kids(t, x) \subseteq InUse(t)
      /\ \A c \in Kids(t, x) : t.parent[c] = x
      /\ t.type[x] = "leaf" <=> x \in Leaves
      /\ IsInjective(t.kids[x])
  BY DEF Tree, CheckValid, Kids
<1>4. t.parent[x] = Nil <=> x = t.root
  BY <1>1, <1>3 DEF InUse
<1> QED BY <1>1, <1>2, <1>3, <1>4 DEF IsInjective

\* A node is one level below its parent.
LEMMA DepthOfChild ==
  ASSUME NEW t, Tree(t), NEW x \in InUse(t), NEW c \in Kids(t, x)
  PROVE  c \in InUse(t) /\ Depth(t, c) = Depth(t, x) + 1
<1>1. t \in TreeType /\ c \in InUse(t) /\ t.parent[c] = x /\ x # Nil /\ t.parent[t.root] = Nil
  BY OfTree, NodesAssumption DEF Tree, Node
<1> DEFINE k == Depth(t, c)
           d == Depth(t, x)
<1>2. k \in Nat /\ IsDepth(t, c, k) /\ d \in Nat /\ IsDepth(t, x, d)
  BY <1>1, DepthExists
<1> HIDE DEF k, d
<1>3. c \in Levels(t)[d + 1]
  BY <1>1, <1>2, LevelsAre DEF IsDepth
<1>4. k <= d + 1
  BY <1>2, <1>3 DEF IsDepth
<1>5. k # 0
  BY <1>1, <1>2, LevelsAre DEF IsDepth
<1>6. k - 1 \in Nat /\ (k - 1) + 1 = k
  BY <1>2, <1>5
<1>7. c \notin Levels(t)[k - 1]
  BY <1>2, <1>6 DEF IsDepth
<1>8. Levels(t)[(k - 1) + 1] = Levels(t)[k - 1] \cup UNION {Kids(t, y) : y \in Levels(t)[k - 1]}
  BY <1>1, <1>6, LevelsAre
<1>9. PICK y \in Levels(t)[k - 1] : c \in Kids(t, y)
  BY <1>2, <1>6, <1>7, <1>8 DEF IsDepth
<1>10. \A j \in Nat : Levels(t)[j] \subseteq InUse(t)
  <2> DEFINE S == {j \in Nat : Levels(t)[j] \subseteq InUse(t)}
  <2>1. 0 \in S
    BY <1>1, LevelsAre, OfTree
  <2>2. ASSUME NEW j \in S PROVE j + 1 \in S
    <3>1. Levels(t)[j + 1] = Levels(t)[j] \cup UNION {Kids(t, z) : z \in Levels(t)[j]}
      BY <1>1, LevelsAre
    <3>2. \A z \in Levels(t)[j] : Kids(t, z) \subseteq InUse(t)
      BY OfTree
    <3> QED BY <3>1, <3>2
  <2> HIDE DEF S
  <2>3. Nat \subseteq S
    BY <2>1, <2>2, NatSetInduction
  <2> QED BY <2>3 DEF S
<1>11. y = x
  BY <1>1, <1>6, <1>9, <1>10, OfTree
<1>12. d <= k - 1
  BY <1>2, <1>6, <1>9, <1>11 DEF IsDepth
<1> QED BY <1>1, <1>2, <1>4, <1>6, <1>12 DEF k, d

\* Induction from the root: what holds at the root and goes from every node
\* to its children holds of all nodes.
LEMMA FromTheRoot ==
  ASSUME NEW t, Tree(t), NEW S, t.root \in S,
         \A x \in InUse(t) : x \in S => Kids(t, x) \subseteq S
  PROVE  InUse(t) \subseteq S
<1> SUFFICES ASSUME InUse(t) \ S # {} PROVE FALSE
  OBVIOUS
<1> DEFINE D == {Depth(t, x) : x \in InUse(t) \ S}
<1>1. D \subseteq Nat /\ D # {}
  BY DepthExists
<1>2. PICK x \in InUse(t) \ S : \A y \in InUse(t) \ S : Depth(t, x) <= Depth(t, y)
  <2>1. PICK n \in D : \A m \in D : n <= m
    <3> HIDE DEF D
    <3> QED BY <1>1, LeastOf
  <2> QED BY <2>1
<1>3. t.parent[x] \in InUse(t) /\ x \in Kids(t, t.parent[x])
  BY <1>2, OfTree
<1>4. Depth(t, x) = Depth(t, t.parent[x]) + 1
  BY <1>2, <1>3, DepthOfChild
<1>5. t.parent[x] \notin S
  BY <1>2, <1>3
<1> QED BY <1>2, <1>3, <1>4, <1>5, DepthExists

\* Induction from the leaves: what holds of a node whenever it holds of its
\* children holds of all nodes.
LEMMA FromTheLeaves ==
  ASSUME NEW t, Tree(t), NEW S,
         \A x \in InUse(t) : Kids(t, x) \subseteq S => x \in S
  PROVE  InUse(t) \subseteq S
<1> SUFFICES ASSUME InUse(t) \ S # {} PROVE FALSE
  OBVIOUS
<1> DEFINE N == Cardinality(Node)
           D == {N - Depth(t, x) : x \in InUse(t) \ S}
<1>1. \A x \in InUse(t) : Depth(t, x) \in Nat /\ Depth(t, x) <= N /\ N \in Nat
  BY DepthExists, NodeIsFinite
<1>2. D \subseteq Nat /\ D # {}
  BY <1>1
<1>3. PICK x \in InUse(t) \ S : \A y \in InUse(t) \ S : N - Depth(t, x) <= N - Depth(t, y)
  <2>1. PICK n \in D : \A m \in D : n <= m
    <3> HIDE DEF D
    <3> QED BY <1>2, LeastOf
  <2> QED BY <2>1
<1>4. PICK c \in Kids(t, x) : c \notin S
  BY <1>3
<1>5. c \in InUse(t) /\ Depth(t, c) = Depth(t, x) + 1
  BY <1>3, <1>4, DepthOfChild
<1>6. N - Depth(t, x) <= N - Depth(t, c)
  BY <1>3, <1>4, <1>5
<1> HIDE DEF N
<1> QED BY <1>1, <1>3, <1>5, <1>6

(***************************************************************************)
(* The leaves below a node.                                                *)
(***************************************************************************)

\* What can be reached from x downwards.
ClosedDown(t, S) == \A z \in S : Kids(t, z) \subseteq S
Reach(t, x) == {y \in Node : \A S \in SUBSET Node : x \in S /\ ClosedDown(t, S) => y \in S}

LEMMA ReachIs ==
  ASSUME NEW t \in TreeType, NEW x \in Node
  PROVE  Reach(t, x) = {x} \cup UNION {Reach(t, c) : c \in Kids(t, x)}
<1> DEFINE R == {x} \cup UNION {Reach(t, c) : c \in Kids(t, x)}
<1>1. R \subseteq Node
  BY DEF Reach
<1>2. ClosedDown(t, R)
  <2> SUFFICES ASSUME NEW z \in R, NEW y \in Kids(t, z) PROVE y \in R
    BY DEF ClosedDown
  <2>1. z \in Node /\ y \in Node
    BY <1>1, KidsAreNodes
  <2>2. CASE z = x
    <3>1. y \in Reach(t, y)
      BY <2>1 DEF Reach
    <3> QED BY <2>2, <3>1
  <2>3. CASE z # x
    <3>1. PICK c \in Kids(t, x) : z \in Reach(t, c)
      BY <2>3
    <3>2. y \in Reach(t, c)
      BY <2>1, <3>1 DEF Reach, ClosedDown
    <3> QED BY <3>2
  <2> QED BY <2>2, <2>3
<1>3. Reach(t, x) \subseteq R
  BY <1>1, <1>2 DEF Reach
<1>4. ASSUME NEW c \in Kids(t, x), NEW y \in Reach(t, c) PROVE y \in Reach(t, x)
  BY <1>4 DEF Reach, ClosedDown
<1>5. x \in Reach(t, x)
  BY DEF Reach
<1> QED BY <1>3, <1>4, <1>5

Own(t, x) == IF t.type[x] = "leaf" THEN {x} ELSE {}

\* What the function LeavesBelow is.
LEMMA BelowIs ==
  ASSUME NEW t \in TreeType, NEW x \in Node
  PROVE  LeavesBelow(t)[x] = Own(t, x) \cup UNION {LeavesBelow(t)[c] : c \in Kids(t, x)}
<1> DEFINE Step(f, y) == (IF t.type[y] = "leaf" THEN {y} ELSE {})
                           \cup UNION {f[t.kids[y][i]] : i \in DOMAIN t.kids[y]}
           g == [y \in Node |-> {z \in Reach(t, y) : t.type[z] = "leaf"}]
           B == LeavesBelow(t)
<1>1. B = CHOOSE f : f = [y \in Node |-> Step(f, y)]
  BY Zenon DEF LeavesBelow
<1>2. ASSUME NEW f, NEW y \in Node
      PROVE  Step(f, y) = Own(t, y) \cup UNION {f[c] : c \in Kids(t, y)}
  BY KidsAreNodes DEF Own
<1>3. ASSUME NEW y \in Node PROVE g[y] = Step(g, y)
  <2>1. Reach(t, y) = {y} \cup UNION {Reach(t, c) : c \in Kids(t, y)} /\ Kids(t, y) \subseteq Node
    BY ReachIs, KidsAreNodes
  <2>2. \A c \in Node : \A z : z \in g[c] <=> z \in Reach(t, c) /\ t.type[z] = "leaf"
    OBVIOUS
  <2>3. \A z : z \in Own(t, y) <=> z = y /\ t.type[z] = "leaf"
    BY DEF Own
  <2>4. g[y] = Own(t, y) \cup UNION {g[c] : c \in Kids(t, y)}
    <3> HIDE DEF g
    <3> QED BY <2>1, <2>2, <2>3
  <2> HIDE DEF Step, g
  <2> QED BY <1>2, <2>4
<1>4. g = [y \in Node |-> Step(g, y)]
  <2> HIDE DEF Step
  <2> QED BY <1>3
<1>5. B = [y \in Node |-> Step(B, y)]
  <2> HIDE DEF Step, g, B
  <2> QED BY Zenon, <1>1, <1>4
<1> HIDE DEF B
<1>6. B[x] = Step(B, x)
  <2> HIDE DEF Step
  <2> QED BY <1>5
<1> HIDE DEF Step
<1> QED BY <1>2, <1>6 DEF B

\* The leaves below a node are leaves of the tree, no less deep than the node,
\* and there is at least one.
LEMMA BelowAreLeaves ==
  ASSUME NEW t, Tree(t), NEW x \in InUse(t)
  PROVE  /\ LeavesBelow(t)[x] \subseteq InUse(t) \cap Leaves
         /\ \A l \in LeavesBelow(t)[x] : Depth(t, x) <= Depth(t, l)
         /\ LeavesBelow(t)[x] # {}
<1> DEFINE B == LeavesBelow(t)
           S == {y \in InUse(t) : /\ B[y] \subseteq InUse(t) \cap Leaves
                                  /\ \A l \in B[y] : Depth(t, y) <= Depth(t, l)
                                  /\ B[y] # {}}
<1>1. ASSUME NEW y \in InUse(t), Kids(t, y) \subseteq S PROVE y \in S
  <2>1. B[y] = Own(t, y) \cup UNION {B[c] : c \in Kids(t, y)}
    BY OfTree, BelowIs DEF Tree
  <2>2. \A c \in Kids(t, y) : Depth(t, c) = Depth(t, y) + 1
    BY DepthOfChild
  <2>3. Own(t, y) \subseteq {y} \cap Leaves
    BY OfTree DEF Own
  <2>4. Own(t, y) = {} => Kids(t, y) # {}
    <3>1. SUFFICES ASSUME t.type[y] # "leaf" PROVE Kids(t, y) # {}
      BY DEF Own
    <3>2. Degree(t, y) >= 3 /\ t.kids[y] \in Seq(Node)
      BY <3>1, OfTree DEF Tree, CheckValid
    <3>3. Len(t.kids[y]) \in Nat /\ DOMAIN t.kids[y] = 1..Len(t.kids[y])
      BY <3>2
    <3> DEFINE n == Len(t.kids[y])
    <3>6. Degree(t, y) = n \/ Degree(t, y) = n + 1
      BY DegreeIs, OfTree DEF Tree
    <3> HIDE DEF n
    <3>4. n >= 1
      BY <3>2, <3>3, <3>6 DEF n
    <3>5. 1 \in DOMAIN t.kids[y]
      BY <3>3, <3>4 DEF n
    <3> QED BY <3>5 DEF Kids, ToSet
  <2>5. \A z \in InUse(t) : Depth(t, z) \in Nat
    BY DepthExists
  <2>6. B[y] \subseteq InUse(t) \cap Leaves
    BY <1>1, <2>1, <2>3
  <2>7. ASSUME NEW l \in B[y] PROVE Depth(t, y) <= Depth(t, l)
    <3>1. CASE l = y
      BY <2>5, <3>1
    <3>2. CASE l # y
      <4>1. PICK c \in Kids(t, y) : l \in B[c]
        BY <2>1, <2>3, <3>2
      <4>2. c \in S /\ c \in InUse(t)
        BY <1>1, <4>1
      <4>3. Depth(t, c) <= Depth(t, l)
        BY <4>1, <4>2
      <4> HIDE DEF S, B
      <4> QED BY <2>2, <2>5, <2>6, <4>1, <4>2, <4>3
    <3> QED BY <3>1, <3>2
  <2>8. B[y] # {}
    BY <1>1, <2>1, <2>4
  <2> QED BY <2>6, <2>7, <2>8
<1>2. InUse(t) \subseteq S
  <2> HIDE DEF S
  <2> QED BY <1>1, FromTheLeaves
<1> QED BY <1>2

\* A leaf is below one node of each level only.
LEMMA OneNodePerLevel ==
  ASSUME NEW t, Tree(t), NEW x \in InUse(t), NEW y \in InUse(t), Depth(t, x) = Depth(t, y),
         NEW l \in LeavesBelow(t)[x], l \in LeavesBelow(t)[y]
  PROVE  x = y
<1> DEFINE B == LeavesBelow(t)
           S == {a \in InUse(t) : \A b \in InUse(t) :
                   Depth(t, a) = Depth(t, b) /\ B[a] \cap B[b] # {} => a = b}
<1>1. ASSUME NEW a \in InUse(t), Kids(t, a) \subseteq S PROVE a \in S
  <2>1. SUFFICES ASSUME NEW b \in InUse(t), Depth(t, a) = Depth(t, b), NEW m \in B[a], m \in B[b]
                 PROVE  a = b
    OBVIOUS
  <2> HIDE DEF B
  <2>2. ASSUME NEW u \in InUse(t)
        PROVE  B[u] = Own(t, u) \cup UNION {B[c] : c \in Kids(t, u)} /\ Own(t, u) \subseteq {u}
    BY OfTree, BelowIs DEF Tree, Own, B
  <2>3. ASSUME NEW u \in InUse(t), NEW c \in Kids(t, u)
        PROVE  /\ c \in InUse(t) /\ Depth(t, c) = Depth(t, u) + 1 /\ t.parent[c] = u
               /\ \A n \in B[c] : n \in InUse(t) /\ Depth(t, u) # Depth(t, n)
    <3>1. c \in InUse(t) /\ Depth(t, c) = Depth(t, u) + 1 /\ t.parent[c] = u
      BY DepthOfChild, OfTree
    <3>2. ASSUME NEW n \in B[c] PROVE n \in InUse(t) /\ Depth(t, c) <= Depth(t, n)
      BY <3>1, BelowAreLeaves DEF B
    <3>3. \A n \in InUse(t) : Depth(t, n) \in Nat
      BY DepthExists
    <3> QED BY <3>1, <3>2, <3>3
  <2>4. CASE m = a
    <3>1. m = b
      BY <2>1, <2>2, <2>3, <2>4
    <3> QED BY <2>4, <3>1
  <2>5. CASE m = b
    BY <2>1, <2>2, <2>3, <2>5
  <2>6. CASE m # a /\ m # b
    <3>1. PICK c \in Kids(t, a) : m \in B[c]
      BY <2>1, <2>2, <2>6
    <3>2. PICK d \in Kids(t, b) : m \in B[d]
      BY <2>1, <2>2, <2>6
    <3>3. Depth(t, c) = Depth(t, d) /\ c \in InUse(t) /\ d \in InUse(t)
      BY <2>1, <2>3
    <3>4. c = d
      BY <1>1, <3>1, <3>2, <3>3 DEF B
    <3> QED BY <2>3, <3>4
  <2> QED BY <2>4, <2>5, <2>6
<1>2. InUse(t) \subseteq S
  <2> HIDE DEF S
  <2> QED BY <1>1, FromTheLeaves
<1> QED BY <1>2

\* All leaves of the tree are below the root, and more and more of them on
\* the way up.
LEMMA BelowRoot ==
  ASSUME NEW t, Tree(t)
  PROVE  /\ LeavesBelow(t)[t.root] = InUse(t) \cap Leaves
         /\ \A x \in InUse(t) : LeavesBelow(t)[x] \subseteq LeavesBelow(t)[t.root]
<1> DEFINE B == LeavesBelow(t)
           S == {x \in InUse(t) : B[x] \subseteq B[t.root]}
<1>1. t.root \in S
  <2>1. t.root \in InUse(t)
    BY DEF Tree, CheckValid
  <2> QED BY <2>1
<1>2. ASSUME NEW x \in InUse(t), x \in S PROVE Kids(t, x) \subseteq S
  <2>1. B[x] = Own(t, x) \cup UNION {B[c] : c \in Kids(t, x)} /\ Kids(t, x) \subseteq InUse(t)
    BY OfTree, BelowIs DEF Tree
  <2> QED BY <1>2, <2>1
<1>3. InUse(t) \subseteq S
  <2> HIDE DEF S
  <2> QED BY <1>1, <1>2, FromTheRoot
<1>4. ASSUME NEW l \in InUse(t) \cap Leaves PROVE l \in B[l]
  BY OfTree, BelowIs DEF Own, Tree
<1>5. B[t.root] \subseteq InUse(t) \cap Leaves
  BY BelowAreLeaves DEF Tree, CheckValid
<1> QED BY <1>3, <1>4, <1>5

(***************************************************************************)
(* The neighbors of a node and the leaves behind them.                     *)
(***************************************************************************)
Around(t, x) == ToSet(Neighbors(t, x))

Through(t, x, y) == LeavesThrough(t, LeavesBelow(t), x, y)

LEMMA AroundIs ==
  ASSUME NEW t, Tree(t), NEW x \in InUse(t)
  PROVE  /\ Around(t, x) = Kids(t, x) \cup (IF x = t.root THEN {} ELSE {t.parent[x]})
         /\ Around(t, x) \subseteq InUse(t)
         /\ x # t.root => t.parent[x] \notin Kids(t, x)
         /\ Neighbors(t, x) \in Seq(Node) /\ Len(Neighbors(t, x)) = Degree(t, x)
         /\ \A i, j \in DOMAIN Neighbors(t, x) : Neighbors(t, x)[i] = Neighbors(t, x)[j] => i = j
<1> DEFINE ks == t.kids[x]
           p  == t.parent[x]
<1>1. /\ x \in Node /\ ks \in Seq(Node) /\ (p = Nil <=> x = t.root)
      /\ \A i, j \in DOMAIN ks : ks[i] = ks[j] => i = j
      /\ Len(ks) \in Nat /\ DOMAIN ks = 1..Len(ks)
      /\ Degree(t, x) = IF t.parent[x] = Nil THEN Len(ks) ELSE Len(ks) + 1
  BY OfTree, DegreeIs DEF Tree
<1>2. \A y \in InUse(t) : Depth(t, y) \in Nat
  BY DepthExists
<1>3. x # t.root => /\ p \in InUse(t) /\ p \in Node /\ p \notin Kids(t, x) /\ x \in Kids(t, p)
                    /\ x # p
  <2> HIDE DEF p
  <2> SUFFICES ASSUME x # t.root
      PROVE  p \in InUse(t) /\ p \in Node /\ p \notin Kids(t, x) /\ x \in Kids(t, p) /\ x # p
    OBVIOUS
  <2>1. p \in InUse(t) /\ x \in Kids(t, p)
    BY OfTree DEF p
  <2>2. Depth(t, x) = Depth(t, p) + 1 /\ p \in Node
    BY <2>1, DepthOfChild, OfTree
  <2>3. p \in Kids(t, x) => Depth(t, p) = Depth(t, x) + 1
    BY DepthOfChild
  <2> QED BY <1>2, <2>1, <2>2, <2>3
<1>4. Kids(t, x) \subseteq InUse(t)
  BY OfTree
<1> HIDE DEF p, ks
<1>5. CASE x = t.root
  <2>1. Neighbors(t, x) = ks
    BY <1>1, <1>5 DEF Neighbors, p, ks
  <2>2. Around(t, x) = Kids(t, x)
    BY <2>1 DEF Around, Kids, ks
  <2>3. Degree(t, x) = Len(ks)
    BY <1>1, <1>5 DEF p
  <2> QED BY <1>1, <1>4, <1>5, <2>1, <2>2, <2>3
<1>6. CASE x # t.root
  <2> DEFINE n == Len(ks)
             ring == <<p>> \o ks
  <2>1. Neighbors(t, x) = ring
    BY <1>1, <1>6 DEF Neighbors, p, ks
  <2>2. p \in Node /\ p \notin Kids(t, x) /\ p \in InUse(t)
    BY <1>3, <1>6
  <2>3. /\ ring \in Seq(Node) /\ Len(ring) = n + 1 /\ DOMAIN ring = 1..(n + 1)
        /\ ring[1] = p /\ \A i \in 2..(n + 1) : ring[i] = ks[i - 1]
    BY <1>1, <2>2
  <2>4. \A i \in 2..(n + 1) : i - 1 \in DOMAIN ks /\ ring[i] \in Kids(t, x)
    BY <1>1, <2>3 DEF Kids, ToSet, ks
  <2> HIDE DEF ring, n
  <2>5. ASSUME NEW i \in DOMAIN ring, NEW j \in DOMAIN ring, ring[i] = ring[j] PROVE i = j
    <3>1. CASE i = 1 \/ j = 1
      BY <1>1, <2>2, <2>3, <2>4, <2>5, <3>1 DEF n
    <3>2. CASE i # 1 /\ j # 1
      <4>1. i \in 2..(n + 1) /\ j \in 2..(n + 1)
        BY <1>1, <2>3, <3>2 DEF n
      <4>2. ks[i - 1] = ks[j - 1] /\ i - 1 \in DOMAIN ks /\ j - 1 \in DOMAIN ks
        BY <2>3, <2>4, <2>5, <4>1
      <4>3. i - 1 = j - 1
        BY <1>1, <4>2
      <4> QED BY <4>1, <4>3
    <3> QED BY <3>1, <3>2
  <2>6. Around(t, x) = Kids(t, x) \cup {p}
    <3>1. Around(t, x) = {ring[i] : i \in DOMAIN ring}
      BY <2>1 DEF Around, ToSet
    <3>2. 1 \in DOMAIN ring /\ \A i \in DOMAIN ring : i = 1 \/ i \in 2..(n + 1)
      BY <1>1, <2>3 DEF n
    <3>3. Around(t, x) \subseteq Kids(t, x) \cup {p}
      BY <2>3, <2>4, <3>1, <3>2
    <3>4. \A i \in DOMAIN ks : ks[i] = ring[i + 1] /\ i + 1 \in DOMAIN ring
      <4> TAKE i \in DOMAIN ks
      <4>1. i + 1 \in 2..(n + 1) /\ (i + 1) - 1 = i
        BY <1>1 DEF n
      <4> QED BY <2>3, <3>2, <4>1
    <3>5. Kids(t, x) = {ks[i] : i \in DOMAIN ks}
      BY DEF Kids, ToSet, ks
    <3>6. p \in Around(t, x)
      BY <2>3, <3>1, <3>2
    <3>7. Kids(t, x) \subseteq Around(t, x)
      BY <3>1, <3>4, <3>5
    <3> QED BY <3>3, <3>6, <3>7
  <2>7. Degree(t, x) = n + 1
    BY <1>1, <1>6 DEF p, n
  <2> QED BY <1>4, <1>6, <2>1, <2>2, <2>3, <2>5, <2>6, <2>7 DEF p
<1> QED BY <1>5, <1>6

\* Neighbors are neighbors of each other.
LEMMA AroundIsSymmetric ==
  ASSUME NEW t, Tree(t), NEW x \in InUse(t), NEW y \in Around(t, x)
  PROVE  /\ y \in InUse(t) /\ x \in Around(t, y) /\ x # y
         /\ \/ y \in Kids(t, x) /\ t.parent[y] = x /\ y # t.root /\ y # t.parent[x]
            \/ x \in Kids(t, y) /\ t.parent[x] = y /\ x # t.root /\ x # t.parent[y]
<1>1. \A z \in InUse(t) : Depth(t, z) \in Nat
  BY DepthExists
<1>2. ASSUME NEW u \in InUse(t), NEW c \in Kids(t, u)
      PROVE  /\ c \in InUse(t) /\ t.parent[c] = u /\ c # u /\ c # t.root /\ c # t.parent[u]
             /\ u \in Around(t, c) /\ c \in Around(t, u)
  <2>1. c \in InUse(t) /\ t.parent[c] = u /\ u # Nil /\ t.parent[t.root] = Nil
    BY OfTree, NodesAssumption DEF Node
  <2>2. Depth(t, c) = Depth(t, u) + 1
    BY DepthOfChild
  <2>3. c \in Around(t, u) /\ u \in Around(t, c)
    BY <2>1, AroundIs
  <2>4. u # t.root => t.parent[u] \notin Kids(t, u)
    BY AroundIs
  <2>5. u = t.root => t.parent[u] = Nil /\ c # Nil
    BY <2>1, OfTree, NodesAssumption DEF Node
  <2> QED BY <1>1, <2>1, <2>2, <2>3, <2>4, <2>5
<1>3. CASE y \in Kids(t, x)
  BY <1>2, <1>3
<1>4. CASE y \notin Kids(t, x)
  <2>1. x # t.root /\ y = t.parent[x]
    BY <1>4, AroundIs
  <2>2. y \in InUse(t) /\ x \in Kids(t, y)
    BY <2>1, OfTree
  <2> QED BY <1>2, <2>1, <2>2
<1> QED BY <1>3, <1>4

\* Induction over the pairs of neighbors: what holds of <<x, y>> whenever it
\* holds of the pairs of y with its other neighbors holds of all pairs.
LEMMA FromBehind ==
  ASSUME NEW t, Tree(t), NEW S,
         \A x \in InUse(t) : \A y \in Around(t, x) :
           (\A z \in Around(t, y) \ {x} : <<y, z>> \in S) => <<x, y>> \in S
  PROVE  \A x \in InUse(t) : \A y \in Around(t, x) : <<x, y>> \in S
<1> DEFINE Down == {y \in InUse(t) : y # t.root => <<t.parent[y], y>> \in S}
           Up   == {x \in InUse(t) : x # t.root => <<x, t.parent[x]>> \in S}
<1>1. ASSUME NEW y \in InUse(t), Kids(t, y) \subseteq Down PROVE y \in Down
  <2>1. SUFFICES ASSUME y # t.root PROVE <<t.parent[y], y>> \in S
    OBVIOUS
  <2>2. t.parent[y] \in InUse(t) /\ y \in Kids(t, t.parent[y])
    BY <2>1, OfTree
  <2>3. y \in Around(t, t.parent[y])
    BY <2>2, AroundIs
  <2>4. ASSUME NEW z \in Around(t, y) \ {t.parent[y]} PROVE <<y, z>> \in S
    <3>1. z \in Kids(t, y) /\ t.parent[z] = y /\ z # t.root
      BY AroundIsSymmetric
    <3> QED BY <1>1, <3>1
  <2> QED BY <2>2, <2>3, <2>4
<1>2. InUse(t) \subseteq Down
  <2> HIDE DEF Down
  <2> QED BY <1>1, FromTheLeaves
<1>3. t.root \in Up
  BY OfTree DEF Tree, CheckValid
<1>4. ASSUME NEW x \in InUse(t), x \in Up PROVE Kids(t, x) \subseteq Up
  <2>1. SUFFICES ASSUME NEW c \in Kids(t, x) PROVE <<c, x>> \in S /\ c \in InUse(t) /\ t.parent[c] = x
    OBVIOUS
  <2>2. c \in InUse(t) /\ t.parent[c] = x /\ c \in Around(t, x)
    BY OfTree, AroundIs
  <2>3. x \in Around(t, c)
    BY <2>2, AroundIsSymmetric
  <2>4. ASSUME NEW z \in Around(t, x) \ {c} PROVE <<x, z>> \in S
    <3>1. CASE z \in Kids(t, x)
      <4>1. z \in InUse(t) /\ t.parent[z] = x /\ z # t.root
        BY <3>1, OfTree, AroundIs, AroundIsSymmetric
      <4> QED BY <1>2, <4>1
    <3>2. CASE z \notin Kids(t, x)
      <4>1. x # t.root /\ z = t.parent[x]
        BY <3>2, AroundIs
      <4> QED BY <1>4, <4>1
    <3> QED BY <3>1, <3>2
  <2> QED BY <2>2, <2>3, <2>4
<1>5. InUse(t) \subseteq Up
  <2> HIDE DEF Up
  <2> QED BY <1>3, <1>4, FromTheRoot
<1>6. ASSUME NEW x \in InUse(t), NEW y \in Around(t, x) PROVE <<x, y>> \in S
  BY <1>2, <1>5, AroundIsSymmetric
<1> QED BY <1>6

\* On either side of an edge are the leaves that are not on the other one.
LEMMA ThroughParts ==
  ASSUME NEW t, Tree(t), NEW x \in InUse(t), NEW y \in Around(t, x)
  PROVE  /\ Through(t, x, y) \cap Through(t, y, x) = {}
         /\ Through(t, x, y) \cup Through(t, y, x) = InUse(t) \cap Leaves
<1> DEFINE B == LeavesBelow(t)
<1>1. ASSUME NEW u \in InUse(t), NEW c \in InUse(t), t.parent[c] = u, c # t.parent[u]
      PROVE  Through(t, u, c) = B[c] /\ Through(t, c, u) = B[t.root] \ B[c]
  BY <1>1 DEF Through, LeavesThrough
<1>2. /\ y \in InUse(t)
      /\ (t.parent[y] = x /\ y # t.parent[x]) \/ (t.parent[x] = y /\ x # t.parent[y])
  <2>1. y \in InUse(t)
    BY AroundIs
  <2>2. \/ y \in Kids(t, x) /\ t.parent[y] = x /\ y # t.root /\ y # t.parent[x]
        \/ x \in Kids(t, y) /\ t.parent[x] = y /\ x # t.root /\ x # t.parent[y]
    BY AroundIsSymmetric
  <2> QED BY <2>1, <2>2
<1>3. B[t.root] = InUse(t) \cap Leaves /\ B[x] \subseteq B[t.root] /\ B[y] \subseteq B[t.root]
  BY <1>2, BelowRoot
<1> HIDE DEF B
<1> QED BY <1>1, <1>2, <1>3

\* Behind a neighbor are the leaves behind its other neighbors.
LEMMA ThroughIs ==
  ASSUME NEW t, Tree(t), NEW x \in InUse(t), NEW y \in Around(t, x)
  PROVE  Through(t, x, y) = Own(t, y) \cup UNION {Through(t, y, z) : z \in Around(t, y) \ {x}}
<1> DEFINE B == LeavesBelow(t)
<1>1. ASSUME NEW u \in InUse(t), NEW c \in Kids(t, u)
      PROVE  /\ Through(t, u, c) = B[c] /\ Through(t, c, u) = B[t.root] \ B[c]
             /\ c \in InUse(t) /\ c # t.root /\ t.parent[c] = u /\ c # t.parent[u]
  <2>1. c \in InUse(t) /\ t.parent[c] = u /\ c # t.parent[u] /\ c # t.root
    BY AroundIs, AroundIsSymmetric, OfTree
  <2> QED BY <2>1 DEF Through, LeavesThrough
<1>2. ASSUME NEW u \in InUse(t)
      PROVE  B[u] = Own(t, u) \cup UNION {B[c] : c \in Kids(t, u)}
  BY OfTree, BelowIs DEF Tree
<1>3. y \in InUse(t)
  BY AroundIs
<1>4. CASE y \in Kids(t, x)
  <2>1. Around(t, y) \ {x} = Kids(t, y)
    BY <1>1, <1>3, <1>4, AroundIs
  <2> HIDE DEF B
  <2> QED BY <1>1, <1>2, <1>3, <1>4, <2>1
<1>5. CASE x \in Kids(t, y)
  <2> HIDE DEF B
  <2>1. Through(t, x, y) = B[t.root] \ B[x] /\ B[y] = Own(t, y) \cup UNION {B[c] : c \in Kids(t, y)}
    BY <1>1, <1>2, <1>3, <1>5
  <2>2. B[x] \subseteq B[y] /\ B[y] \subseteq B[t.root]
    BY <1>3, <1>5, <2>1, BelowRoot DEF B
  <2>3. Own(t, y) \cap B[x] = {}
    <3>1. x \in InUse(t) /\ Depth(t, x) = Depth(t, y) + 1 /\ Depth(t, y) \in Nat
      BY <1>3, <1>5, DepthOfChild, DepthExists
    <3>2. y \notin B[x]
      <4>1. ~(Depth(t, x) <= Depth(t, y))
        BY <3>1
      <4> QED BY <3>1, <4>1, BelowAreLeaves DEF B
    <3> QED BY <3>2 DEF Own
  <2>4. ASSUME NEW c \in Kids(t, y) \ {x} PROVE B[c] \cap B[x] = {} /\ Through(t, y, c) = B[c]
    <3>1. c \in InUse(t) /\ Depth(t, x) = Depth(t, c)
      BY <1>1, <1>3, <1>5, DepthOfChild
    <3>2. B[c] \cap B[x] = {}
      BY <3>1, OneNodePerLevel DEF B
    <3> QED BY <1>1, <1>3, <3>2
  <2>5. CASE y = t.root
    <3>1. Around(t, y) \ {x} = Kids(t, y) \ {x}
      BY <1>3, <2>5, AroundIs
    <3>2. B[y] \ B[x] = Own(t, y) \cup UNION {B[c] : c \in Kids(t, y) \ {x}}
      BY <1>5, <2>1, <2>3, <2>4
    <3>3. UNION {B[c] : c \in Kids(t, y) \ {x}} = UNION {Through(t, y, c) : c \in Kids(t, y) \ {x}}
      BY <2>4
    <3> QED BY <2>1, <2>5, <3>1, <3>2, <3>3
  <2>6. CASE y # t.root
    <3> DEFINE q == t.parent[y]
    <3>1. q \notin Kids(t, y) /\ x \in Kids(t, y)
      BY <1>3, <1>5, <2>6, AroundIs
    <3>2. Around(t, y) \ {x} = (Kids(t, y) \ {x}) \cup {q}
      BY <1>3, <2>6, <3>1, AroundIs
    <3>3. Through(t, y, q) = B[t.root] \ B[y]
      BY <1>1, <1>3, <2>6, OfTree
    <3> HIDE DEF q
    <3>4. B[y] \ B[x] = Own(t, y) \cup UNION {B[c] : c \in Kids(t, y) \ {x}}
      BY <1>5, <2>1, <2>3, <2>4
    <3>5. B[t.root] \ B[x] = (B[y] \ B[x]) \cup (B[t.root] \ B[y])
      BY <2>2
    <3>6. ASSUME NEW l
          PROVE  l \in Through(t, x, y) <=> \/ l \in Own(t, y)
                                            \/ \E z \in Around(t, y) \ {x} : l \in Through(t, y, z)
      <4>1. l \in Through(t, x, y) <=> \/ l \in Own(t, y)
                                       \/ \E c \in Kids(t, y) \ {x} : l \in B[c]
                                       \/ l \in Through(t, y, q)
        BY <2>1, <3>3, <3>4, <3>5
      <4> QED BY <2>4, <3>2, <4>1
    <3> QED BY <3>6
  <2> QED BY <2>5, <2>6
<1> QED BY <1>4, <1>5, AroundIsSymmetric

\* All leaves are at a node or behind its neighbors.
LEMMA ThroughAll ==
  ASSUME NEW t, Tree(t), NEW x \in InUse(t), Around(t, x) # {}
  PROVE  InUse(t) \cap Leaves = Own(t, x) \cup UNION {Through(t, x, z) : z \in Around(t, x)}
<1>1. PICK y \in Around(t, x) : TRUE
  OBVIOUS
<1>2. y \in InUse(t) /\ x \in Around(t, y)
  BY AroundIsSymmetric
<1>3. Through(t, y, x) = Own(t, x) \cup UNION {Through(t, x, z) : z \in Around(t, x) \ {y}}
  BY <1>2, ThroughIs
<1>4. Through(t, x, y) \cup Through(t, y, x) = InUse(t) \cap Leaves
  BY ThroughParts
<1> QED BY <1>3, <1>4

(***************************************************************************)
(* Ways up.                                                                *)
(***************************************************************************)
Parents == [Node -> Node \cup {Nil}]

Acyclic(pa) == \A S \in SUBSET Node : S # {} => \E x \in S : pa[x] \notin S

UpClosed(pa, C) == \A y \in C : pa[y] # Nil => pa[y] \in C

\* A node and all above it.
Up(pa, x) == {y \in Node : \A C \in SUBSET Node : x \in C /\ UpClosed(pa, C) => y \in C}

LEMMA UpIs ==
  ASSUME NEW pa \in Parents, NEW x \in Node
  PROVE  /\ x \in Up(pa, x) /\ UpClosed(pa, Up(pa, x)) /\ Up(pa, x) \subseteq Node
         /\ Up(pa, x) = {x} \cup (IF pa[x] = Nil THEN {} ELSE Up(pa, pa[x]))
         /\ \A C \in SUBSET Node : x \in C /\ UpClosed(pa, C) => Up(pa, x) \subseteq C
<1>1. ASSUME NEW y \in Node
      PROVE  /\ y \in Up(pa, y) /\ UpClosed(pa, Up(pa, y)) /\ Up(pa, y) \subseteq Node
             /\ \A C \in SUBSET Node : y \in C /\ UpClosed(pa, C) => Up(pa, y) \subseteq C
  BY DEF Up, UpClosed, Parents
<1>2. CASE pa[x] = Nil
  <2>1. UpClosed(pa, {x})
    BY <1>2 DEF UpClosed
  <2> QED BY <1>1, <1>2, <2>1
<1>3. CASE pa[x] # Nil
  <2>1. pa[x] \in Node
    BY <1>3 DEF Parents
  <2>2. Up(pa, pa[x]) \subseteq Up(pa, x)
    BY <1>1, <1>3, <2>1 DEF UpClosed
  <2>3. UpClosed(pa, {x} \cup Up(pa, pa[x]))
    BY <1>1, <2>1 DEF UpClosed
  <2> QED BY <1>1, <1>3, <2>1, <2>2, <2>3
<1> QED BY <1>1, <1>2, <1>3

\* Induction from the nodes without parent.
LEMMA FromTops ==
  ASSUME NEW pa \in Parents, Acyclic(pa), NEW S,
         \A x \in Node : pa[x] = Nil \/ pa[x] \in S => x \in S
  PROVE  Node \subseteq S
<1> SUFFICES ASSUME Node \ S # {} PROVE FALSE
  OBVIOUS
<1>1. PICK x \in Node \ S : pa[x] \notin Node \ S
  BY DEF Acyclic
<1> QED BY <1>1 DEF Parents

\* If every node of a set has a child in it, they all have their parents in
\* it, as the set is finite.
LEMMA ChildrenWithin ==
  ASSUME NEW pa \in Parents, NEW S \in SUBSET Node, \A x \in S : \E c \in S : pa[c] = x
  PROVE  \A c \in S : pa[c] \in S
<1> DEFINE R == {c \in S : pa[c] \in S}
           g == [c \in R |-> pa[c]]
<1>1. IsFiniteSet(S) /\ IsFiniteSet(R) /\ Cardinality(R) <= Cardinality(S)
  BY NodeIsFinite, FS_Subset
<1>2. g \in Surjection(R, S)
  BY DEF Surjection
<1>3. Cardinality(S) <= Cardinality(R)
  BY <1>1, <1>2, FS_Surjection
<1>4. Cardinality(S) \in Nat /\ Cardinality(R) \in Nat
  BY <1>1, FS_CardinalityType
<1>5. Cardinality(R) = Cardinality(S)
  BY <1>1, <1>3, <1>4
<1>6. R = S
  BY <1>1, <1>5, FS_Subset
<1> QED BY <1>6

\* Induction from the nodes without children.
LEMMA FromEnds ==
  ASSUME NEW pa \in Parents, Acyclic(pa), NEW S,
         \A x \in Node : (\A c \in Node : pa[c] = x => c \in S) => x \in S
  PROVE  Node \subseteq S
<1> DEFINE R == Node \ S
<1> SUFFICES ASSUME R # {} PROVE FALSE
  OBVIOUS
<1>1. \A x \in R : \E c \in R : pa[c] = x
  OBVIOUS
<1>2. \A c \in R : pa[c] \in R
  <2> HIDE DEF R
  <2>1. R \in SUBSET Node
    BY DEF R
  <2> QED BY <1>1, <2>1, ChildrenWithin
<1> QED BY <1>2 DEF Acyclic

LEMMA UpTransitive ==
  ASSUME NEW pa \in Parents, NEW x \in Node, NEW y \in Up(pa, x)
  PROVE  y \in Node /\ Up(pa, y) \subseteq Up(pa, x)
BY UpIs

LEMMA NotAboveItself ==
  ASSUME NEW pa \in Parents, Acyclic(pa), NEW x \in Node, pa[x] # Nil
  PROVE  pa[x] \in Node /\ x \notin Up(pa, pa[x]) /\ pa[x] # x
<1>1. pa[x] \in Node
  BY DEF Parents
<1>2. ASSUME x \in Up(pa, pa[x]) PROVE FALSE
  <2> DEFINE S == {y \in Up(pa, x) : x \in Up(pa, y)}
  <2>1. x \in S /\ S \in SUBSET Node
    BY UpIs
  <2>2. ASSUME NEW y \in S PROVE pa[y] \in S
    <3>1. y \in Node /\ y \in Up(pa, x) /\ x \in Up(pa, y)
      BY UpIs
    <3>2. pa[y] # Nil /\ x \in Up(pa, pa[y])
      BY <1>2, <3>1, UpIs
    <3>3. pa[y] \in Up(pa, x)
      BY <3>1, <3>2, UpIs DEF UpClosed
    <3> QED BY <3>2, <3>3
  <2> HIDE DEF S
  <2> QED BY <2>1, <2>2 DEF Acyclic
<1> QED BY <1>1, <1>2, UpIs

\* There is one node without parent above a node.
LEMMA OneTop ==
  ASSUME NEW pa \in Parents, Acyclic(pa), NEW x \in Node
  PROVE  /\ \A y, z \in Up(pa, x) : pa[y] = Nil /\ pa[z] = Nil => y = z
         /\ \E y \in Up(pa, x) : pa[y] = Nil
<1> DEFINE S == {w \in Node : /\ \A y, z \in Up(pa, w) : pa[y] = Nil /\ pa[z] = Nil => y = z
                              /\ \E y \in Up(pa, w) : pa[y] = Nil}
<1>1. ASSUME NEW w \in Node, pa[w] = Nil \/ pa[w] \in S PROVE w \in S
  <2>1. Up(pa, w) = {w} \cup (IF pa[w] = Nil THEN {} ELSE Up(pa, pa[w]))
    BY UpIs
  <2>2. CASE pa[w] = Nil
    BY <2>1, <2>2
  <2>3. CASE pa[w] # Nil
    BY <1>1, <2>1, <2>3
  <2> QED BY <2>2, <2>3
<1>2. Node \subseteq S
  <2> HIDE DEF S
  <2> QED BY <1>1, FromTops
<1> QED BY <1>2

\* Fewer edges.
LEMMA FewerEdges ==
  ASSUME NEW pa \in Parents, NEW qa \in Parents, \A x \in Node : qa[x] \in {pa[x], Nil}
  PROVE  /\ Acyclic(pa) => Acyclic(qa)
         /\ \A x \in Node : Up(qa, x) \subseteq Up(pa, x)
<1>1. ASSUME NEW x \in Node PROVE Up(qa, x) \subseteq Up(pa, x)
  <2>1. UpClosed(qa, Up(pa, x))
    BY UpIs DEF UpClosed
  <2> QED BY <2>1, UpIs
<1>2. ASSUME Acyclic(pa), NEW S \in SUBSET Node, S # {} PROVE \E x \in S : qa[x] \notin S
  <2>1. PICK x \in S : pa[x] \notin S
    BY <1>2 DEF Acyclic
  <2>2. Nil \notin S
    BY NodesAssumption DEF Node
  <2> QED BY <2>1, <2>2
<1> QED BY <1>1, <1>2 DEF Acyclic

\* One more edge: c, which had no parent and is not above p, goes below p.
LEMMA OneMoreEdge ==
  ASSUME NEW pa \in Parents, Acyclic(pa), NEW c \in Node, NEW p \in Node,
         pa[c] = Nil, c \notin Up(pa, p), NEW qa, qa = [pa EXCEPT ![c] = p]
  PROVE  qa \in Parents /\ Acyclic(qa)
<1>1. qa \in Parents
  BY DEF Parents
<1>2. ASSUME NEW S \in SUBSET Node, S # {} PROVE \E x \in S : qa[x] \notin S
  <2> DEFINE R == S \ {y \in Node : c \in Up(pa, y)}
  <2>1. \A x \in Node \ {c} : qa[x] = pa[x]
    BY DEF Parents
  <2>2. qa[c] = p
    BY DEF Parents
  <2>3. CASE R # {}
    <3>1. PICK x \in R : pa[x] \notin R
      BY <2>3 DEF Acyclic
    <3>2. x \in Node /\ x # c
      BY <3>1, UpIs
    <3>3. ASSUME pa[x] \in S PROVE FALSE
      <4>1. pa[x] \in Node /\ pa[x] # Nil /\ c \in Up(pa, pa[x])
        BY <3>1, <3>3, NodesAssumption DEF Node
      <4>2. c \in Up(pa, x)
        BY <3>2, <4>1, UpIs
      <4> QED BY <3>1, <3>2, <4>2
    <3> QED BY <2>1, <3>1, <3>2, <3>3
  <2>4. CASE R = {}
    <3>1. \A y \in S : y \in Node /\ c \in Up(pa, y)
      BY <2>4
    <3>2. p \notin S
      BY <3>1
    <3>3. PICK x \in S : pa[x] \notin S
      BY <1>2 DEF Acyclic
    <3> QED BY <2>1, <2>2, <3>2, <3>3
  <2> QED BY <2>3, <2>4
<1> QED BY <1>1, <1>2 DEF Acyclic

\* What WayUp computes.
LEMMA WayUpIs ==
  ASSUME NEW t, t.parent \in Parents, Acyclic(t.parent), NEW x \in Node
  PROVE  WayUp(t, x) = Up(t.parent, x)
<1> DEFINE pa == t.parent
           Step(f, y) == {y} \cup (IF t.parent[y] = Nil THEN {} ELSE f[t.parent[y]])
           g == [y \in Node |-> Up(pa, y)]
           W == CHOOSE f : f = [y \in Node |-> Step(f, y)]
<1>1. WayUp(t, x) = W[x]
  BY Zenon DEF WayUp
<1>2. ASSUME NEW y \in Node PROVE g[y] = Step(g, y)
  <2>1. pa[y] # Nil => pa[y] \in Node
    BY DEF Parents
  <2>2. pa[y] # Nil => g[pa[y]] = Up(pa, pa[y])
    BY <2>1
  <2>3. g[y] = Up(pa, y)
    OBVIOUS
  <2>4. pa \in Parents
    OBVIOUS
  <2>5. Up(pa, y) = {y} \cup (IF pa[y] = Nil THEN {} ELSE Up(pa, pa[y]))
    <3> HIDE DEF pa
    <3> QED BY <2>4, UpIs
  <2>6. Step(g, y) = {y} \cup (IF pa[y] = Nil THEN {} ELSE g[pa[y]])
    BY Zenon
  <2> HIDE DEF g, Step, pa
  <2> QED BY <2>2, <2>3, <2>5, <2>6
<1>3. g = [y \in Node |-> Step(g, y)]
  <2> HIDE DEF Step
  <2> QED BY <1>2
<1>4. W = [y \in Node |-> Step(W, y)]
  <2> HIDE DEF Step, g
  <2> QED BY Zenon, <1>3
<1> HIDE DEF W
<1>5. ASSUME NEW y \in Node PROVE W[y] = {y} \cup (IF pa[y] = Nil THEN {} ELSE W[pa[y]])
  <2>1. W[y] = Step(W, y)
    <3> HIDE DEF Step
    <3> QED BY <1>4
  <2> QED BY Zenon, <2>1
<1> DEFINE S == {y \in Node : W[y] = Up(pa, y)}
<1>6. ASSUME NEW y \in Node, pa[y] = Nil \/ pa[y] \in S PROVE y \in S
  <2>1. pa \in Parents
    OBVIOUS
  <2> HIDE DEF pa
  <2>2. W[y] = {y} \cup (IF pa[y] = Nil THEN {} ELSE W[pa[y]])
    BY <1>5
  <2>3. Up(pa, y) = {y} \cup (IF pa[y] = Nil THEN {} ELSE Up(pa, pa[y]))
    BY <2>1, UpIs
  <2>4. pa[y] # Nil => W[pa[y]] = Up(pa, pa[y])
    BY <1>6
  <2> QED BY <2>2, <2>3, <2>4
<1>7. Node \subseteq S
  <2> HIDE DEF S, pa
  <2> QED BY <1>6, FromTops DEF pa
<1> QED BY <1>1, <1>7

(***************************************************************************)
(* Forests.  A tree of it is a record of the four fields.                  *)
(***************************************************************************)
ForestType ==
  [type   : [Node -> {"free", "leaf", "P", "C"}],
   parent : Parents,
   kids   : [Node -> Seq(Node)],
   root   : Node \cup {Nil}]

Arranged(t) ==
  \A x \in Node :
    /\ Distinct(t.kids[x])
    /\ \A c \in Node : t.parent[c] = x <=> c \in Kids(t, x)
    /\ t.type[x] = "free" => t.kids[x] = <<>> /\ t.parent[x] = Nil
    /\ t.type[x] = "leaf" => Len(t.kids[x]) <= (IF t.parent[x] = Nil THEN 1 ELSE 0)

Forest(t) == t \in ForestType /\ Arranged(t) /\ Acyclic(t.parent)

\* The nodes in use that have no parent.
Tops(t) == {x \in InUse(t) : t.parent[x] = Nil}

LEMMA ForestKids ==
  ASSUME NEW t \in ForestType, NEW x \in Node
  PROVE  /\ t.kids[x] \in Seq(Node) /\ Len(t.kids[x]) \in Nat /\ DOMAIN t.kids[x] = 1..Len(t.kids[x])
         /\ Kids(t, x) \subseteq Node
         /\ Kids(t, x) = {t.kids[x][i] : i \in DOMAIN t.kids[x]}
         /\ Kids(t, x) = {} <=> t.kids[x] = <<>>
         /\ t.kids[x] = <<>> <=> Len(t.kids[x]) = 0
<1>1. t.kids[x] \in Seq(Node)
  BY DEF ForestType
<1>2. Kids(t, x) = {t.kids[x][i] : i \in DOMAIN t.kids[x]}
  BY DEF Kids, ToSet
<1> DEFINE s == t.kids[x]
<1>3. /\ Len(s) \in Nat /\ DOMAIN s = 1..Len(s) /\ \A i \in DOMAIN s : s[i] \in Node
      /\ s = <<>> <=> Len(s) = 0
  BY <1>1
<1> HIDE DEF s
<1>4. s # <<>> => 1 \in DOMAIN s
  BY <1>3
<1>5. s = <<>> => DOMAIN s = {}
  BY <1>3
<1>6. Kids(t, x) = {} <=> s = <<>>
  BY <1>2, <1>4, <1>5 DEF s
<1> QED BY <1>1, <1>2, <1>3, <1>6 DEF s

LEMMA ForestFacts ==
  ASSUME NEW t, Forest(t), NEW x \in Node
  PROVE  /\ t.parent[x] # Nil => /\ t.parent[x] \in InUse(t) /\ x \in InUse(t)
                                 /\ x \in Kids(t, t.parent[x]) /\ t.parent[x] # x
         /\ \A c \in Kids(t, x) : /\ c \in InUse(t) /\ x \in InUse(t) /\ t.parent[c] = x
                                  /\ c # x /\ t.parent[c] # Nil
         /\ x \notin InUse(t) => t.kids[x] = <<>> /\ t.parent[x] = Nil
         /\ x # Nil
<1>1. t \in ForestType /\ t.parent \in Parents /\ x # Nil
  BY NodesAssumption DEF Forest, ForestType, Node
<1>2. ASSUME t.parent[x] # Nil
      PROVE  /\ t.parent[x] \in InUse(t) /\ x \in InUse(t)
             /\ x \in Kids(t, t.parent[x]) /\ t.parent[x] # x
  <2>1. t.parent[x] \in Node /\ t.parent[x] # x
    BY <1>1, <1>2, NotAboveItself DEF Forest
  <2>2. x \in Kids(t, t.parent[x])
    BY <2>1 DEF Forest, Arranged
  <2>3. t.kids[t.parent[x]] # <<>>
    BY <1>1, <2>1, <2>2, ForestKids
  <2> QED BY <1>2, <2>1, <2>2, <2>3 DEF Forest, Arranged, InUse
<1>3. ASSUME NEW c \in Kids(t, x)
      PROVE  c \in InUse(t) /\ x \in InUse(t) /\ t.parent[c] = x /\ c # x /\ t.parent[c] # Nil
  <2>1. c \in Node
    BY <1>1, ForestKids
  <2>2. t.parent[c] = x
    BY <2>1 DEF Forest, Arranged
  <2>3. c # x
    BY <1>1, <2>1, <2>2, NotAboveItself DEF Forest
  <2>4. t.kids[x] # <<>>
    BY <1>1, ForestKids
  <2> QED BY <1>1, <2>1, <2>2, <2>3, <2>4 DEF Forest, Arranged, InUse
<1> QED BY <1>1, <1>2, <1>3 DEF Forest, Arranged, InUse

LEMMA InUseAbove ==
  ASSUME NEW t, Forest(t), NEW x \in Node
  PROVE  /\ x \in InUse(t) => Up(t.parent, x) \subseteq InUse(t)
         /\ \A y \in Up(t.parent, x) : y # x => x \in InUse(t)
<1>1. t.parent \in Parents
  BY DEF Forest, ForestType
<1>2. InUse(t) \in SUBSET Node /\ UpClosed(t.parent, InUse(t))
  BY ForestFacts DEF InUse, UpClosed
<1>3. ASSUME NEW y \in Up(t.parent, x), y # x PROVE x \in InUse(t)
  <2>1. t.parent[x] # Nil
    BY <1>1, <1>3, UpIs
  <2> QED BY <2>1, ForestFacts
<1> QED BY <1>1, <1>2, <1>3, UpIs

\* What is known of a node and its parent.
LEMMA InUseFacts ==
  ASSUME NEW t, Forest(t)
  PROVE  \A x \in Node :
           /\ x # Nil
           /\ t.parent[x] # Nil => /\ t.parent[x] \in Node /\ t.parent[x] \in InUse(t)
                                   /\ x \in InUse(t) /\ t.parent[x] # x
                                   /\ t.parent[t.parent[x]] # x
           /\ x \in InUse(t) <=> t.type[x] # "free"
<1> TAKE x \in Node
<1>1. t.parent \in Parents /\ Acyclic(t.parent) /\ InUse(t) \subseteq Node
  BY DEF Forest, ForestType, InUse
<1>2. /\ t.parent[x] # Nil => /\ t.parent[x] \in InUse(t) /\ x \in InUse(t) /\ t.parent[x] # x
      /\ x # Nil
  BY ForestFacts
<1>3. t.parent[x] # Nil => t.parent[t.parent[x]] # x
  BY <1>1, <1>2, NotAboveItself, UpIs DEF UpClosed
<1> QED BY <1>1, <1>2, <1>3 DEF InUse

(***************************************************************************)
(* More about sequences without repetition.                                *)
(***************************************************************************)
LEMMA ConcatDistinct ==
  ASSUME NEW S, NEW s \in Seq(S), NEW u \in Seq(S), Distinct(s), Distinct(u),
         ToSet(s) \cap ToSet(u) = {}
  PROVE  /\ s \o u \in Seq(S) /\ Distinct(s \o u) /\ ToSet(s \o u) = ToSet(s) \cup ToSet(u)
         /\ Len(s \o u) = Len(s) + Len(u)
<1> DEFINE m == Len(s)
           n == Len(u)
           w == s \o u
<1>1. /\ m \in Nat /\ n \in Nat /\ DOMAIN s = 1..m /\ DOMAIN u = 1..n
      /\ w \in Seq(S) /\ Len(w) = m + n /\ DOMAIN w = 1..(m + n)
      /\ \A i \in 1..m : w[i] = s[i]
      /\ \A i \in (m + 1)..(m + n) : w[i] = u[i - m]
  OBVIOUS
<1>2. /\ \A i \in 1..m : s[i] \in ToSet(s)
      /\ \A i \in 1..n : u[i] \in ToSet(u)
  BY <1>1 DEF ToSet
<1>3. /\ \A i \in 1..(m + n) : i \in 1..m \/ (i \in (m + 1)..(m + n) /\ i - m \in 1..n)
      /\ \A i \in 1..m : i \in 1..(m + n)
      /\ \A i \in 1..n : i + m \in (m + 1)..(m + n) /\ (i + m) - m = i /\ i + m \in 1..(m + n)
  BY <1>1
<1> HIDE DEF w, m, n
<1>4. Distinct(w)
  <2> SUFFICES ASSUME NEW i \in 1..(m + n), NEW j \in 1..(m + n), w[i] = w[j] PROVE i = j
    BY <1>1 DEF Distinct
  <2>1. CASE i \in 1..m /\ j \in 1..m
    BY <1>1, <2>1 DEF Distinct
  <2>2. CASE i \notin 1..m /\ j \notin 1..m
    <3>1. i - m = j - m
      BY <1>1, <1>3, <2>2 DEF Distinct
    <3> QED BY <1>1, <3>1
  <2>3. CASE i \in 1..m /\ j \notin 1..m
    BY <1>1, <1>2, <1>3, <2>3
  <2>4. CASE i \notin 1..m /\ j \in 1..m
    BY <1>1, <1>2, <1>3, <2>4
  <2> QED BY <2>1, <2>2, <2>3, <2>4
<1>5. ToSet(w) = {w[i] : i \in 1..(m + n)} /\ ToSet(s) = {s[i] : i \in 1..m}
      /\ ToSet(u) = {u[i] : i \in 1..n}
  BY <1>1 DEF ToSet
<1>6. ASSUME NEW i \in 1..(m + n) PROVE w[i] \in ToSet(s) \cup ToSet(u)
  <2>1. CASE i \in 1..m
    BY <1>1, <1>2, <2>1
  <2>2. CASE i \in (m + 1)..(m + n) /\ i - m \in 1..n
    BY <1>1, <1>2, <2>2
  <2> QED BY <1>3, <2>1, <2>2
<1>7. ToSet(s) \subseteq ToSet(w)
  BY <1>1, <1>3, <1>5
<1>8. ASSUME NEW i \in 1..n PROVE u[i] \in ToSet(w)
  <2>1. w[i + m] = u[(i + m) - m]
    BY <1>1, <1>3
  <2> QED BY <1>3, <1>5, <2>1
<1>9. ToSet(w) = ToSet(s) \cup ToSet(u)
  BY <1>5, <1>6, <1>7, <1>8
<1> QED BY <1>1, <1>4, <1>9 DEF w, m, n

LEMMA ReverseDistinct ==
  ASSUME NEW S, NEW s \in Seq(S), Distinct(s)
  PROVE  /\ Reverse(s) \in Seq(S) /\ Distinct(Reverse(s)) /\ ToSet(Reverse(s)) = ToSet(s)
         /\ Len(Reverse(s)) = Len(s)
<1> DEFINE n == Len(s)
           w == Reverse(s)
<1>1. n \in Nat /\ DOMAIN s = 1..n /\ \A i \in 1..n : s[i] \in S /\ (n - i) + 1 \in 1..n
  OBVIOUS
<1>2. w = [i \in 1..n |-> s[(n - i) + 1]]
  BY DEF Reverse
<1> HIDE DEF w, n
<1>3. w \in Seq(S) /\ Len(w) = n /\ DOMAIN w = 1..n /\ \A i \in 1..n : w[i] = s[(n - i) + 1]
  BY <1>1, <1>2
<1>4. Distinct(w)
  <2> SUFFICES ASSUME NEW i \in 1..n, NEW j \in 1..n, w[i] = w[j] PROVE i = j
    BY <1>3 DEF Distinct
  <2>1. (n - i) + 1 = (n - j) + 1
    BY <1>1, <1>3 DEF Distinct
  <2> QED BY <1>1, <2>1
<1>5. \A i \in 1..n : s[i] = w[(n - i) + 1]
  <2> TAKE i \in 1..n
  <2>1. (n - ((n - i) + 1)) + 1 = i
    BY <1>1
  <2> QED BY <1>1, <1>3, <2>1
<1>6. ToSet(w) = {w[i] : i \in 1..n} /\ ToSet(s) = {s[i] : i \in 1..n}
  BY <1>1, <1>3 DEF ToSet
<1>7. ToSet(w) = ToSet(s)
  BY <1>1, <1>3, <1>5, <1>6
<1> QED BY <1>3, <1>4, <1>7 DEF w, n

LEMMA ReplaceDistinct ==
  ASSUME NEW S, NEW s \in Seq(S), Distinct(s), NEW a \in ToSet(s), NEW b \in S, b \notin ToSet(s)
  PROVE  LET w == ReplaceAll(s, a, b)
         IN  /\ w \in Seq(S) /\ Distinct(w) /\ ToSet(w) = (ToSet(s) \ {a}) \cup {b}
             /\ Len(w) = Len(s)
<1> DEFINE n == Len(s)
           w == ReplaceAll(s, a, b)
<1>1. n \in Nat /\ DOMAIN s = 1..n /\ \A i \in 1..n : s[i] \in S
  OBVIOUS
<1>2. w = [i \in 1..n |-> IF s[i] = a THEN b ELSE s[i]]
  BY DEF ReplaceAll
<1>3. ToSet(s) = {s[i] : i \in 1..n}
  BY <1>1 DEF ToSet
<1>4. PICK k \in 1..n : s[k] = a
  BY <1>3
<1> HIDE DEF w, n
<1>5. w \in Seq(S) /\ Len(w) = n /\ DOMAIN w = 1..n
      /\ \A i \in 1..n : w[i] = IF s[i] = a THEN b ELSE s[i]
  BY <1>1, <1>2
<1>6. Distinct(w)
  BY <1>1, <1>3, <1>5 DEF Distinct
<1>7. ToSet(w) = {w[i] : i \in 1..n}
  BY <1>5 DEF ToSet
<1>8. ToSet(w) = (ToSet(s) \ {a}) \cup {b}
  <2>1. ToSet(w) \subseteq (ToSet(s) \ {a}) \cup {b}
    BY <1>3, <1>5, <1>7
  <2>2. b \in ToSet(w)
    BY <1>4, <1>5, <1>7
  <2>3. ToSet(s) \ {a} \subseteq ToSet(w)
    BY <1>3, <1>5, <1>7
  <2> QED BY <2>1, <2>2, <2>3
<1> QED BY <1>5, <1>6, <1>8 DEF w, n

\* A ring cut open where one of its elements was.
LEMMA CutDistinct ==
  ASSUME NEW S, NEW s \in Seq(S), Distinct(s), NEW e \in ToSet(s), NEW k, k = PositionOf(s, e)
  PROVE  LET w == SubSeq(s, k + 1, Len(s)) \o SubSeq(s, 1, k - 1)
         IN  /\ w \in Seq(S) /\ Distinct(w) /\ ToSet(w) = ToSet(s) \ {e}
             /\ Len(w) = Len(s) - 1
<1> DEFINE n == Len(s)
           a == SubSeq(s, 1, k - 1)
           b == SubSeq(s, k + 1, n)
<1>1. n \in Nat /\ DOMAIN s = 1..n /\ \A i \in 1..n : s[i] \in S
  OBVIOUS
<1>2. k \in 1..n /\ s[k] = e
  BY <1>1, PositionIs
<1> HIDE DEF n
<1>3. /\ a \in Seq(S) /\ Len(a) = k - 1 /\ DOMAIN a = 1..(k - 1) /\ \A i \in 1..(k - 1) : a[i] = s[i]
  BY <1>1, <1>2 DEF n
<1>4. /\ b \in Seq(S) /\ Len(b) = n - k /\ DOMAIN b = 1..(n - k) /\ \A i \in 1..(n - k) : b[i] = s[k + i]
  BY <1>1, <1>2 DEF n
<1> HIDE DEF a, b
<1>5. /\ \A i \in 1..(k - 1) : i \in 1..n /\ i < k
      /\ \A i \in 1..(n - k) : k + i \in 1..n /\ k + i > k
      /\ \A i \in 1..n : i # k => i \in 1..(k - 1) \/ (i - k \in 1..(n - k) /\ k + (i - k) = i)
  BY <1>1, <1>2
<1>6. Distinct(a)
  BY <1>1, <1>3, <1>5 DEF Distinct
<1>7. Distinct(b)
  <2> SUFFICES ASSUME NEW i \in 1..(n - k), NEW j \in 1..(n - k), b[i] = b[j] PROVE i = j
    BY <1>4 DEF Distinct
  <2>1. k + i = k + j
    BY <1>1, <1>4, <1>5 DEF Distinct
  <2> QED BY <1>1, <1>2, <2>1
<1>8. ToSet(a) = {a[i] : i \in 1..(k - 1)} /\ ToSet(b) = {b[i] : i \in 1..(n - k)}
      /\ ToSet(s) = {s[i] : i \in 1..n}
  BY <1>1, <1>3, <1>4 DEF ToSet
<1>9. ToSet(b) \cap ToSet(a) = {}
  <2> SUFFICES ASSUME NEW i \in 1..(k - 1), NEW j \in 1..(n - k), a[i] = b[j] PROVE FALSE
    BY <1>8
  <2>1. s[i] = s[k + j] /\ i \in 1..n /\ k + j \in 1..n
    BY <1>3, <1>4, <1>5
  <2>2. i = k + j
    BY <1>1, <2>1 DEF Distinct
  <2> QED BY <1>1, <1>2, <1>5, <2>2
<1>10. ToSet(b) \cup ToSet(a) = ToSet(s) \ {e}
  <2>1. \A i \in 1..(k - 1) : a[i] \in ToSet(s) \ {e}
    BY <1>1, <1>2, <1>3, <1>5, <1>8 DEF Distinct
  <2>2. ASSUME NEW i \in 1..(n - k) PROVE b[i] \in ToSet(s) \ {e}
    <3>1. b[i] = s[k + i] /\ k + i \in 1..n /\ k + i # k
      BY <1>1, <1>2, <1>4, <1>5
    <3> QED BY <1>1, <1>2, <1>8, <3>1 DEF Distinct
  <2>3. ASSUME NEW i \in 1..n, s[i] # e PROVE s[i] \in ToSet(b) \cup ToSet(a)
    <3>1. i # k
      BY <1>2, <2>3
    <3>2. CASE i \in 1..(k - 1)
      BY <1>3, <1>8, <3>2
    <3>3. CASE i - k \in 1..(n - k) /\ k + (i - k) = i
      <4>1. b[i - k] = s[i]
        BY <1>4, <3>3
      <4> QED BY <1>8, <3>3, <4>1
    <3> QED BY <1>5, <3>1, <3>2, <3>3
  <2> QED BY <1>8, <2>1, <2>2, <2>3
<1>11. /\ b \o a \in Seq(S) /\ Distinct(b \o a) /\ ToSet(b \o a) = ToSet(b) \cup ToSet(a)
       /\ Len(b \o a) = Len(b) + Len(a)
  <2>1. a \in Seq(S) /\ b \in Seq(S)
    BY <1>3, <1>4
  <2> HIDE DEF a, b
  <2> QED BY <1>6, <1>7, <1>9, <2>1, ConcatDistinct
<1>12. (n - k) + (k - 1) = n - 1
  BY <1>1, <1>2
<1> QED BY <1>3, <1>4, <1>10, <1>11, <1>12 DEF a, b, n

(***************************************************************************)
(* What the operations of PCNode do to a forest.                           *)
(***************************************************************************)
LEMMA DetachIs ==
  ASSUME NEW t, Forest(t), NEW c \in Node, t.parent[c] # Nil, NEW u, u = Detach(t, c)
  PROVE  /\ Forest(u) /\ u.root = t.root /\ u.type = t.type /\ u.parent[c] = Nil
         /\ \A x \in Node : /\ x # c => u.parent[x] = t.parent[x]
                            /\ x # t.parent[c] => u.kids[x] = t.kids[x]
         /\ Kids(u, t.parent[c]) = Kids(t, t.parent[c]) \ {c}
         /\ Len(u.kids[t.parent[c]]) = Len(t.kids[t.parent[c]]) - 1
         /\ Tops(u) = Tops(t) \cup {c}
<1> DEFINE p  == t.parent[c]
           ks == RemoveAt(t.kids[p], PositionOf(t.kids[p], c))
<1>1. t \in ForestType /\ Arranged(t) /\ Acyclic(t.parent) /\ t.parent \in Parents
  BY DEF Forest, ForestType
<1>2. p \in Node /\ c \in Kids(t, p) /\ p # c /\ c \in InUse(t)
  BY ForestFacts DEF InUse
<1>3. t.kids[p] \in Seq(Node) /\ Distinct(t.kids[p]) /\ Len(t.kids[p]) \in Nat
  BY <1>1, <1>2, ForestKids DEF Arranged
<1>4. ks \in Seq(Node) /\ Distinct(ks) /\ ToSet(ks) = Kids(t, p) \ {c} /\ Len(ks) = Len(t.kids[p]) - 1
  BY <1>2, <1>3, RemoveDistinct DEF Kids
<1> HIDE DEF ks
<1>5. u = [t EXCEPT !.parent[c] = Nil, !.kids[p] = ks]
  BY DEF Detach, ks
<1>6. /\ u \in ForestType /\ u.root = t.root /\ u.type = t.type
      /\ u.parent = [t.parent EXCEPT ![c] = Nil] /\ u.kids = [t.kids EXCEPT ![p] = ks]
  <2> DEFINE pa == [t.parent EXCEPT ![c] = Nil]
             ki == [t.kids EXCEPT ![p] = ks]
  <2>1. pa \in Parents
    BY <1>1 DEF Parents
  <2>2. ki \in [Node -> Seq(Node)]
    BY <1>1, <1>4 DEF ForestType
  <2>3. u = [t EXCEPT !.parent = pa, !.kids = ki]
    BY <1>5
  <2> HIDE DEF p, pa, ki
  <2>4. u \in ForestType /\ u.root = t.root /\ u.type = t.type /\ u.parent = pa /\ u.kids = ki
    BY <1>1, <2>1, <2>2, <2>3 DEF ForestType
  <2> QED BY <2>4 DEF pa, ki
<1>7. /\ u.kids[p] = ks /\ \A x \in Node : x # p => u.kids[x] = t.kids[x]
      /\ u.parent[c] = Nil /\ \A x \in Node : x # c => u.parent[x] = t.parent[x]
  <2> HIDE DEF p
  <2> QED BY <1>1, <1>2, <1>6 DEF ForestType, Parents
<1>8. Kids(u, p) = Kids(t, p) \ {c} /\ \A x \in Node : x # p => Kids(u, x) = Kids(t, x)
  <2> HIDE DEF p
  <2> QED BY <1>4, <1>7 DEF Kids
<1> HIDE DEF p
<1>9. Arranged(u)
  <2> SUFFICES ASSUME NEW x \in Node
      PROVE  /\ Distinct(u.kids[x])
             /\ \A y \in Node : u.parent[y] = x <=> y \in Kids(u, x)
             /\ u.type[x] = "free" => u.kids[x] = <<>> /\ u.parent[x] = Nil
             /\ u.type[x] = "leaf" => Len(u.kids[x]) <= (IF u.parent[x] = Nil THEN 1 ELSE 0)
    BY DEF Arranged
  <2>1. Distinct(u.kids[x])
    BY <1>1, <1>4, <1>7 DEF Arranged
  <2>2. ASSUME NEW y \in Node PROVE u.parent[y] = x <=> y \in Kids(u, x)
    <3>1. t.parent[y] = x <=> y \in Kids(t, x)
      BY <1>1 DEF Arranged
    <3>2. x # Nil /\ t.parent[c] = p
      BY NodesAssumption DEF Node, p
    <3> QED BY <1>7, <1>8, <3>1, <3>2
  <2>3. u.type[x] = "free" => u.kids[x] = <<>> /\ u.parent[x] = Nil
    <3>1. t.type[x] = "free" => t.kids[x] = <<>> /\ t.parent[x] = Nil /\ x # p
      BY <1>1, <1>2, ForestKids DEF Arranged
    <3> QED BY <1>6, <1>7, <3>1
  <2>4. u.type[x] = "leaf" => Len(u.kids[x]) <= (IF u.parent[x] = Nil THEN 1 ELSE 0)
    <3>1. t.type[x] = "leaf" => Len(t.kids[x]) <= (IF t.parent[x] = Nil THEN 1 ELSE 0)
      BY <1>1 DEF Arranged
    <3>2. Len(u.kids[x]) <= Len(t.kids[x]) /\ Len(t.kids[x]) \in Nat /\ Len(u.kids[x]) \in Nat
      BY <1>1, <1>3, <1>4, <1>6, <1>7, ForestKids
    <3> QED BY <1>6, <1>7, <3>1, <3>2
  <2> QED BY <2>1, <2>2, <2>3, <2>4
<1>10. Acyclic(u.parent)
  <2>1. u.parent \in Parents /\ \A x \in Node : u.parent[x] \in {t.parent[x], Nil}
    BY <1>6, <1>7 DEF ForestType
  <2> QED BY <1>1, <2>1, FewerEdges
<1>11. Tops(u) = Tops(t) \cup {c}
  BY <1>2, <1>6, <1>7 DEF Tops, InUse
<1> QED BY <1>4, <1>6, <1>7, <1>8, <1>9, <1>10, <1>11 DEF Forest, p

LEMMA DestroyNodeIs ==
  ASSUME NEW t, Forest(t), NEW x \in Tops(t), t.kids[x] = <<>>, NEW u, u = DestroyNode(t, x)
  PROVE  /\ Forest(u) /\ u.root = t.root /\ u.parent = t.parent /\ u.kids = t.kids
         /\ u.type[x] = "free" /\ \A y \in Node : y # x => u.type[y] = t.type[y]
         /\ Tops(u) = Tops(t) \ {x}
<1>1. t \in ForestType /\ Arranged(t) /\ Acyclic(t.parent) /\ x \in Node /\ t.parent[x] = Nil
  BY DEF Forest, Tops, InUse
<1>2. /\ u \in ForestType /\ u.root = t.root /\ u.type = [t.type EXCEPT ![x] = "free"]
      /\ u.parent = t.parent /\ u.kids = t.kids
  BY <1>1 DEF DestroyNode, ForestType
<1>3. u.type[x] = "free" /\ \A y \in Node : y # x => u.type[y] = t.type[y]
  BY <1>1, <1>2 DEF ForestType
<1>4. Arranged(u)
  BY <1>1, <1>2, <1>3 DEF Arranged, Kids
<1>5. Tops(u) = Tops(t) \ {x}
  BY <1>1, <1>2, <1>3 DEF Tops, InUse
<1> QED BY <1>1, <1>2, <1>3, <1>4, <1>5 DEF Forest

LEMMA NewNodeIs ==
  ASSUME NEW t, Forest(t), NEW x \in Node, t.type[x] = "free", NEW type, type \in {"P", "C"},
         NEW u, u = NewNode(t, x, type)
  PROVE  /\ Forest(u) /\ u.root = t.root /\ u.parent = t.parent /\ u.kids = t.kids
         /\ u.type[x] = type /\ \A y \in Node : y # x => u.type[y] = t.type[y]
         /\ Tops(u) = Tops(t) \cup {x}
<1>1. t \in ForestType /\ Arranged(t) /\ Acyclic(t.parent) /\ t.kids[x] = <<>> /\ t.parent[x] = Nil
  BY DEF Forest, Arranged
<1>2. u = [t EXCEPT !.type[x] = type, !.parent[x] = Nil, !.kids[x] = <<>>]
  BY DEF NewNode
<1>3. [t.parent EXCEPT ![x] = Nil] = t.parent /\ [t.kids EXCEPT ![x] = <<>>] = t.kids
  BY <1>1 DEF ForestType, Parents
<1>4. /\ u \in ForestType /\ u.root = t.root /\ u.type = [t.type EXCEPT ![x] = type]
      /\ u.parent = [t.parent EXCEPT ![x] = Nil] /\ u.kids = [t.kids EXCEPT ![x] = <<>>]
  <2> DEFINE ty == [t.type EXCEPT ![x] = type]
             pa == [t.parent EXCEPT ![x] = Nil]
             ki == [t.kids EXCEPT ![x] = <<>>]
  <2>1. ty \in [Node -> {"free", "leaf", "P", "C"}] /\ pa = t.parent /\ ki = t.kids
    BY <1>1, <1>3 DEF ForestType
  <2>2. u = [t EXCEPT !.type = ty, !.parent = pa, !.kids = ki]
    BY <1>2
  <2> HIDE DEF ty, pa, ki
  <2>3. /\ u \in ForestType /\ u.root = t.root /\ u.type = ty
        /\ u.parent = pa /\ u.kids = ki
    BY <1>1, <2>1, <2>2 DEF ForestType
  <2> QED BY <2>3 DEF ty, pa, ki
<1>5. u.type[x] = type /\ \A y \in Node : y # x => u.type[y] = t.type[y]
  BY <1>1, <1>4 DEF ForestType
<1>6. Arranged(u)
  BY <1>1, <1>3, <1>4, <1>5 DEF Arranged, Kids
<1>7. Tops(u) = Tops(t) \cup {x}
  BY <1>1, <1>3, <1>4, <1>5 DEF Tops, InUse
<1> QED BY <1>1, <1>3, <1>4, <1>5, <1>6, <1>7 DEF Forest

LEMMA RetypedIs ==
  ASSUME NEW t, Forest(t), NEW x \in InUse(t), NEW type, type \in {"P", "C"},
         NEW u, u = [t EXCEPT !.type[x] = type]
  PROVE  /\ Forest(u) /\ u.root = t.root /\ u.parent = t.parent /\ u.kids = t.kids
         /\ u.type[x] = type /\ \A y \in Node : y # x => u.type[y] = t.type[y]
         /\ Tops(u) = Tops(t) /\ InUse(u) = InUse(t)
<1>1. t \in ForestType /\ Arranged(t) /\ Acyclic(t.parent) /\ x \in Node /\ t.type[x] # "free"
  BY DEF Forest, InUse
<1>2. /\ u \in ForestType /\ u.root = t.root /\ u.type = [t.type EXCEPT ![x] = type]
      /\ u.parent = t.parent /\ u.kids = t.kids
  BY <1>1 DEF ForestType
<1>3. u.type[x] = type /\ \A y \in Node : y # x => u.type[y] = t.type[y]
  BY <1>1, <1>2 DEF ForestType
<1>4. Arranged(u)
  BY <1>1, <1>2, <1>3 DEF Arranged, Kids
<1>5. InUse(u) = InUse(t) /\ Tops(u) = Tops(t)
  BY <1>1, <1>2, <1>3 DEF Tops, InUse
<1> QED BY <1>1, <1>2, <1>3, <1>4, <1>5 DEF Forest

Appended(t, p, c) == AppendChild(t, p, c, FALSE)

LEMMA AppendChildIs ==
  ASSUME NEW t, Forest(t), NEW p \in InUse(t), t.type[p] # "leaf", NEW c \in Tops(t),
         c \notin Up(t.parent, p), t.type[c] = "leaf" => t.kids[c] = <<>>,
         NEW u, u = Appended(t, p, c)
  PROVE  /\ Forest(u) /\ u.root = t.root /\ u.type = t.type /\ Tops(u) = Tops(t) \ {c}
         /\ u.parent[c] = p
         /\ \A x \in Node : /\ x # c => u.parent[x] = t.parent[x]
                            /\ x # p => u.kids[x] = t.kids[x]
<1> DEFINE ks == Append(t.kids[p], c)
           pa == [t.parent EXCEPT ![c] = p]
           ki == [t.kids EXCEPT ![p] = ks]
<1>1. /\ t \in ForestType /\ Arranged(t) /\ Acyclic(t.parent) /\ t.parent \in Parents
      /\ p \in Node /\ c \in Node /\ t.parent[c] = Nil /\ Nil \notin Node /\ c \in InUse(t)
  BY NodesAssumption DEF Forest, ForestType, InUse, Tops, Node
<1>2. c # p
  BY <1>1, UpIs
<1>3. ks \in Seq(Node) /\ Distinct(ks) /\ ToSet(ks) = Kids(t, p) \cup {c}
  <2>1. t.kids[p] \in Seq(Node) /\ Distinct(t.kids[p]) /\ c \notin ToSet(t.kids[p])
    BY <1>1, ForestKids DEF Arranged, Kids
  <2> QED BY <1>1, <2>1, AppendDistinct DEF Kids
<1>4. u = [t EXCEPT !.parent = pa, !.kids = ki]
  BY DEF Appended, AppendChild, ki, pa, ks
<1>5. pa \in Parents /\ Acyclic(pa)
  BY <1>1, OneMoreEdge
<1>6. /\ ki \in [Node -> Seq(Node)] /\ ki[p] = ks
      /\ \A x \in Node : /\ x # p => ki[x] = t.kids[x]
                         /\ pa[x] = IF x = c THEN p ELSE t.parent[x]
  BY <1>1, <1>3 DEF ForestType, Parents
<1> HIDE DEF pa, ki, ks
<1>7. u \in ForestType /\ u.root = t.root /\ u.type = t.type /\ u.parent = pa /\ u.kids = ki
  BY <1>1, <1>4, <1>5, <1>6 DEF ForestType
<1>8. /\ Kids(u, p) = Kids(t, p) \cup {c}
      /\ \A x \in Node : x # p => Kids(u, x) = Kids(t, x)
  BY <1>1, <1>3, <1>6, <1>7 DEF Kids
<1>9. Arranged(u)
  <2> SUFFICES ASSUME NEW x \in Node
      PROVE  /\ Distinct(u.kids[x])
             /\ \A y \in Node : u.parent[y] = x <=> y \in Kids(u, x)
             /\ u.type[x] = "free" => u.kids[x] = <<>> /\ u.parent[x] = Nil
             /\ u.type[x] = "leaf" => Len(u.kids[x]) <= (IF u.parent[x] = Nil THEN 1 ELSE 0)
    BY DEF Arranged
  <2>1. Distinct(u.kids[x])
    BY <1>1, <1>3, <1>6, <1>7 DEF Arranged
  <2>2. ASSUME NEW y \in Node PROVE u.parent[y] = x <=> y \in Kids(u, x)
    <3>1. t.parent[y] = x <=> y \in Kids(t, x)
      BY <1>1 DEF Arranged
    <3>2. x # Nil /\ t.parent[c] = Nil /\ (y \in Kids(u, x) <=> y \in Kids(t, x) \/ (x = p /\ y = c))
      BY <1>1, <1>8
    <3>3. u.parent[y] = IF y = c THEN p ELSE t.parent[y]
      BY <1>6, <1>7
    <3> QED BY <3>1, <3>2, <3>3
  <2>3. u.type[x] = "free" => u.kids[x] = <<>> /\ u.parent[x] = Nil
    <3>1. t.type[x] = "free" => t.kids[x] = <<>> /\ t.parent[x] = Nil /\ x # p /\ x # c
      BY <1>1 DEF Arranged, InUse
    <3> QED BY <1>6, <1>7, <3>1
  <2>4. u.type[x] = "leaf" => Len(u.kids[x]) <= (IF u.parent[x] = Nil THEN 1 ELSE 0)
    <3>1. t.type[x] = "leaf" => Len(t.kids[x]) <= (IF t.parent[x] = Nil THEN 1 ELSE 0)
      BY <1>1 DEF Arranged
    <3>2. CASE x = c
      <4>1. u.type[x] = "leaf" => u.kids[x] = <<>>
        BY <1>1, <1>2, <1>6, <1>7, <3>2
      <4>2. (u.type[x] = "leaf" => Len(u.kids[x]) = 0) /\ Len(u.kids[x]) \in Nat
        BY <1>7, <4>1, ForestKids
      <4>3. u.parent[x] # Nil
        BY <1>1, <1>6, <1>7, <3>2
      <4> QED BY <4>2, <4>3
    <3>3. CASE x # c
      <4>1. u.parent[x] = t.parent[x] /\ u.type[x] = t.type[x] /\ (u.type[x] = "leaf" => x # p)
        BY <1>6, <1>7, <3>3
      <4>2. u.type[x] = "leaf" => u.kids[x] = t.kids[x]
        BY <1>6, <1>7, <4>1
      <4> QED BY <3>1, <4>1, <4>2
    <3> QED BY <3>2, <3>3
  <2> QED BY <2>1, <2>2, <2>3, <2>4
<1>10. Tops(u) = Tops(t) \ {c}
  <2>1. \A x \in Node : u.parent[x] = Nil <=> t.parent[x] = Nil /\ x # c
    BY <1>1, <1>6, <1>7
  <2>2. InUse(u) = InUse(t)
    BY <1>7 DEF InUse
  <2> QED BY <2>1, <2>2 DEF Tops, InUse
<1> QED BY <1>1, <1>5, <1>6, <1>7, <1>9, <1>10 DEF Forest

LEMMA ReplaceWithIs ==
  ASSUME NEW t, Forest(t), NEW x \in Node, t.parent[x] # Nil, NEW r \in Tops(t),
         r \notin Up(t.parent, t.parent[x]), t.type[r] = "leaf" => t.kids[r] = <<>>,
         NEW u, u = ReplaceWith(t, x, r)
  PROVE  /\ Forest(u) /\ u.root = t.root /\ u.type = t.type /\ Tops(u) = (Tops(t) \ {r}) \cup {x}
         /\ \A y \in Node : y # t.parent[x] => u.kids[y] = t.kids[y]
         /\ u.parent[x] = Nil /\ u.parent[r] = t.parent[x]
         /\ \A y \in Node : y # x /\ y # r => u.parent[y] = t.parent[y]
<1> DEFINE p  == t.parent[x]
           ks == ReplaceAll(t.kids[p], x, r)
           p1 == [t.parent EXCEPT ![x] = Nil]
           pa == [p1 EXCEPT ![r] = p]
           ki == [t.kids EXCEPT ![p] = ks]
<1>1. /\ t \in ForestType /\ Arranged(t) /\ Acyclic(t.parent) /\ t.parent \in Parents
      /\ p \in Node /\ r \in Node /\ t.parent[r] = Nil /\ Nil \notin Node /\ r \in InUse(t)
      /\ p \in InUse(t) /\ x \in InUse(t) /\ x \in Kids(t, p) /\ x # p /\ r # x
  BY ForestFacts, NodesAssumption DEF Forest, ForestType, InUse, Tops, Node
<1>2. r # p
  BY <1>1, UpIs
<1>3. ks \in Seq(Node) /\ Distinct(ks) /\ ToSet(ks) = (Kids(t, p) \ {x}) \cup {r}
      /\ Len(ks) = Len(t.kids[p])
  <2>1. t.kids[p] \in Seq(Node) /\ Distinct(t.kids[p]) /\ r \notin ToSet(t.kids[p])
        /\ x \in ToSet(t.kids[p])
    BY <1>1, ForestKids DEF Arranged, Kids
  <2> QED BY <1>1, <2>1, ReplaceDistinct DEF Kids
<1>4. u = [t EXCEPT !.parent = pa, !.kids = ki]
  <2>1. u = [t EXCEPT !.parent = [[t.parent EXCEPT ![r] = p] EXCEPT ![x] = Nil], !.kids = ki]
    BY DEF ReplaceWith
  <2>2. [[t.parent EXCEPT ![r] = p] EXCEPT ![x] = Nil] = pa
    BY <1>1 DEF Parents
  <2> QED BY <2>1, <2>2
<1>5. pa \in Parents /\ Acyclic(pa)
  <2>1. p1 \in Parents /\ p1[r] = Nil /\ \A y \in Node : p1[y] \in {t.parent[y], Nil}
    BY <1>1 DEF Parents
  <2>2. Acyclic(p1) /\ Up(p1, p) \subseteq Up(t.parent, p)
    <3> HIDE DEF p1, p
    <3> QED BY <1>1, <2>1, FewerEdges
  <2> HIDE DEF p1
  <2> QED BY <1>1, <2>1, <2>2, OneMoreEdge
<1>6. /\ ki \in [Node -> Seq(Node)] /\ ki[p] = ks
      /\ \A y \in Node : /\ y # p => ki[y] = t.kids[y]
                         /\ pa[y] = IF y = x THEN Nil ELSE IF y = r THEN p ELSE t.parent[y]
  BY <1>1, <1>3 DEF ForestType, Parents
<1> HIDE DEF pa, ki, ks, p1
<1>7. u \in ForestType /\ u.root = t.root /\ u.type = t.type /\ u.parent = pa /\ u.kids = ki
  BY <1>1, <1>4, <1>5, <1>6 DEF ForestType
<1> HIDE DEF p
<1>8. /\ Kids(u, p) = (Kids(t, p) \ {x}) \cup {r}
      /\ \A y \in Node : y # p => Kids(u, y) = Kids(t, y)
  BY <1>1, <1>3, <1>6, <1>7 DEF Kids
<1>9. Arranged(u)
  <2> SUFFICES ASSUME NEW y \in Node
      PROVE  /\ Distinct(u.kids[y])
             /\ \A z \in Node : u.parent[z] = y <=> z \in Kids(u, y)
             /\ u.type[y] = "free" => u.kids[y] = <<>> /\ u.parent[y] = Nil
             /\ u.type[y] = "leaf" => Len(u.kids[y]) <= (IF u.parent[y] = Nil THEN 1 ELSE 0)
    BY DEF Arranged
  <2>1. Distinct(u.kids[y])
    BY <1>1, <1>3, <1>6, <1>7 DEF Arranged
  <2>2. ASSUME NEW z \in Node PROVE u.parent[z] = y <=> z \in Kids(u, y)
    <3>1. t.parent[z] = y <=> z \in Kids(t, y)
      BY <1>1 DEF Arranged
    <3>2. y # Nil /\ t.parent[x] = p
      BY <1>1 DEF p
    <3> QED BY ZenonT(40), <1>1, <1>6, <1>7, <1>8, <3>1, <3>2
  <2>3. u.type[y] = "free" => u.kids[y] = <<>> /\ u.parent[y] = Nil
    <3>1. t.type[y] = "free" => t.kids[y] = <<>> /\ t.parent[y] = Nil /\ y # p /\ y # r
      BY <1>1 DEF Arranged, InUse
    <3> QED BY <1>6, <1>7, <3>1
  <2>4. u.type[y] = "leaf" => Len(u.kids[y]) <= (IF u.parent[y] = Nil THEN 1 ELSE 0)
    <3>1. t.type[y] = "leaf" => Len(t.kids[y]) <= (IF t.parent[y] = Nil THEN 1 ELSE 0)
      BY <1>1 DEF Arranged
    <3>2. Len(u.kids[y]) = Len(t.kids[y]) /\ Len(t.kids[y]) \in Nat
      BY <1>1, <1>3, <1>6, <1>7, ForestKids
    <3>3. CASE y = r
      <4>1. u.type[y] = "leaf" => Len(t.kids[y]) = 0
        BY <1>1, <1>7, <3>3, ForestKids
      <4> QED BY <3>2, <4>1
    <3>4. CASE y # r
      <4>1. u.parent[y] = t.parent[y] \/ u.parent[y] = Nil
        BY <1>6, <1>7, <3>4
      <4> QED BY <1>7, <3>1, <3>2, <4>1
    <3> QED BY <3>3, <3>4
  <2> QED BY <2>1, <2>2, <2>3, <2>4
<1>10. Tops(u) = (Tops(t) \ {r}) \cup {x}
  BY <1>1, <1>6, <1>7 DEF Tops, InUse
<1>11. u.parent[x] = Nil /\ u.parent[r] = p /\ \A y \in Node : y # x /\ y # r => u.parent[y] = t.parent[y]
  BY <1>1, <1>6, <1>7
<1> QED BY <1>5, <1>6, <1>7, <1>9, <1>10, <1>11 DEF Forest, p

\* A leaf that has a parent is taken out.
LEMMA LeafTakenOut ==
  ASSUME NEW t, Forest(t), NEW x \in Node, t.parent[x] # Nil, t.kids[x] = <<>>,
         NEW u, u = DestroyNode(Detach(t, x), x)
  PROVE  /\ Forest(u) /\ u.root = t.root /\ Tops(u) = Tops(t)
         /\ u.type[x] = "free" /\ u.parent[x] = Nil
         /\ \A y \in Node : /\ y # x => u.type[y] = t.type[y] /\ u.parent[y] = t.parent[y]
                            /\ y # t.parent[x] => u.kids[y] = t.kids[y]
         /\ Len(u.kids[t.parent[x]]) = Len(t.kids[t.parent[x]]) - 1
<1> DEFINE v == Detach(t, x)
<1>1. v = Detach(t, x) /\ u = DestroyNode(v, x)
  OBVIOUS
<1> HIDE DEF v
<1>2. /\ t.parent[x] # x /\ t.parent[x] \in Node /\ x \in InUse(t) /\ x \notin Tops(t)
  BY ForestFacts DEF Tops, InUse
<1>3. /\ Forest(v) /\ v.root = t.root /\ v.type = t.type /\ v.parent[x] = Nil
      /\ \A y \in Node : /\ y # x => v.parent[y] = t.parent[y]
                         /\ y # t.parent[x] => v.kids[y] = t.kids[y]
      /\ Len(v.kids[t.parent[x]]) = Len(t.kids[t.parent[x]]) - 1
      /\ Tops(v) = Tops(t) \cup {x}
  BY <1>1, DetachIs
<1>4. x \in Tops(v) /\ v.kids[x] = <<>>
  BY <1>2, <1>3
<1>5. /\ Forest(u) /\ u.root = v.root /\ u.parent = v.parent /\ u.kids = v.kids
      /\ u.type[x] = "free" /\ \A y \in Node : y # x => u.type[y] = v.type[y]
      /\ Tops(u) = Tops(v) \ {x}
  BY <1>1, <1>3, <1>4, DestroyNodeIs
<1>6. \A y \in Node : y # x => u.type[y] = t.type[y] /\ u.parent[y] = t.parent[y]
  BY <1>3, <1>5
<1>7. Tops(u) = Tops(t)
  BY <1>2, <1>3, <1>5
<1> QED BY <1>3, <1>5, <1>6, <1>7

\* The only child of a node is taken out from under it.
LEMMA OnlyChildOut ==
  ASSUME NEW v, Forest(v), NEW p \in Node, Len(v.kids[p]) = 1, NEW c \in Kids(v, p),
         NEW w, w = Detach(v, c)
  PROVE  /\ c \in Node /\ v.parent[c] = p /\ c # p /\ p # Nil
         /\ Forest(w) /\ w.root = v.root /\ w.type = v.type /\ w.parent[c] = Nil
         /\ \A y \in Node : y # c => w.parent[y] = v.parent[y]
         /\ w.kids[p] = <<>> /\ w.kids[c] = v.kids[c]
         /\ Tops(w) = Tops(v) \cup {c} /\ c \notin Tops(v)
<1>1. v \in ForestType
  BY DEF Forest
<1>4. c \in Node /\ v.parent[c] = p /\ c # p /\ p # Nil /\ v.parent[c] # Nil
  BY <1>1, ForestFacts, ForestKids
<1>5. /\ Forest(w) /\ w.root = v.root /\ w.type = v.type /\ w.parent[c] = Nil
      /\ \A y \in Node : /\ y # c => w.parent[y] = v.parent[y]
                         /\ y # v.parent[c] => w.kids[y] = v.kids[y]
      /\ Len(w.kids[v.parent[c]]) = Len(v.kids[v.parent[c]]) - 1
      /\ Tops(w) = Tops(v) \cup {c}
  BY <1>4, DetachIs
<1>6. Len(w.kids[p]) = 1 - 1
  BY <1>4, <1>5
<1>7. w.kids[p] = <<>>
  <2>1. Len(w.kids[p]) = 0
    BY <1>6
  <2>2. w \in ForestType
    BY <1>5 DEF Forest
  <2> QED BY <2>1, <2>2, ForestKids
<1>8. c \notin Tops(v)
  BY <1>4 DEF Tops
<1> QED BY <1>4, <1>5, <1>7, <1>8

(***************************************************************************)
(* changeRoot.                                                             *)
(***************************************************************************)
\* A way up goes through each of its nodes but the first from exactly one
\* child.
LEMMA OneWay ==
  ASSUME NEW pa \in Parents, Acyclic(pa), NEW x \in Node
  PROVE  /\ \A y \in Up(pa, x) : y # x => \E c \in Up(pa, x) : pa[c] = y
         /\ \A c, d \in Up(pa, x) : pa[c] # Nil /\ pa[c] = pa[d] => c = d
         /\ \A c \in Up(pa, x) : pa[c] # x
<1>1. ASSUME NEW y \in Up(pa, x), y # x, \A c \in Up(pa, x) : pa[c] # y PROVE FALSE
  <2>1. UpClosed(pa, Up(pa, x) \ {y})
    BY <1>1, UpIs DEF UpClosed
  <2>2. Up(pa, x) \subseteq Up(pa, x) \ {y}
    BY <1>1, <2>1, UpIs
  <2> QED BY <1>1, <2>2
<1> DEFINE S == {w \in Node : \A c, d \in Up(pa, w) : pa[c] # Nil /\ pa[c] = pa[d] => c = d}
<1>2. ASSUME NEW w \in Node, pa[w] = Nil \/ pa[w] \in S PROVE w \in S
  <2>1. Up(pa, w) = {w} \cup (IF pa[w] = Nil THEN {} ELSE Up(pa, pa[w]))
    BY UpIs
  <2>2. CASE pa[w] = Nil
    BY <2>1, <2>2
  <2>3. CASE pa[w] # Nil
    <3>1. ASSUME NEW d \in Up(pa, pa[w]), pa[d] = pa[w] PROVE FALSE
      <4>1. d \in Node
        BY <1>2, <2>3, <3>1, UpIs
      <4> QED BY <2>3, <3>1, <4>1, NotAboveItself
    <3> QED BY <1>2, <2>1, <2>3, <3>1
  <2> QED BY <2>2, <2>3
<1>3. Node \subseteq S
  <2> HIDE DEF S
  <2> QED BY <1>2, FromTops
<1>4. ASSUME NEW c \in Up(pa, x), pa[c] = x PROVE FALSE
  <2>1. c \in Node /\ pa[c] # Nil
    BY <1>4, UpIs, NodesAssumption DEF Node
  <2> QED BY <1>4, <2>1, NotAboveItself
<1> QED BY <1>1, <1>3, <1>4

\* The neighbors of a node as a ring.
Ring(t, y) == IF t.parent[y] = Nil THEN t.kids[y] ELSE Append(t.kids[y], t.parent[y])

LEMMA RingIs ==
  ASSUME NEW t, Forest(t), NEW y \in Node
  PROVE  /\ Ring(t, y) \in Seq(Node) /\ Distinct(Ring(t, y))
         /\ t.parent[y] = Nil => /\ ToSet(Ring(t, y)) = Kids(t, y)
                                 /\ Len(Ring(t, y)) = Len(t.kids[y])
         /\ t.parent[y] # Nil => /\ ToSet(Ring(t, y)) = Kids(t, y) \cup {t.parent[y]}
                                 /\ Len(Ring(t, y)) = Len(t.kids[y]) + 1
<1>1. t.kids[y] \in Seq(Node) /\ Distinct(t.kids[y]) /\ Len(t.kids[y]) \in Nat
  BY ForestKids DEF Forest, Arranged
<1>2. t.parent[y] # Nil => t.parent[y] \in Node /\ t.parent[y] \notin ToSet(t.kids[y])
  <2> SUFFICES ASSUME t.parent[y] # Nil
      PROVE  t.parent[y] \in Node /\ t.parent[y] \notin ToSet(t.kids[y])
    OBVIOUS
  <2>1. t.parent \in Parents /\ Acyclic(t.parent)
    BY DEF Forest, ForestType
  <2>2. t.parent[y] \in Node /\ y \notin Up(t.parent, t.parent[y])
    BY <2>1, NotAboveItself
  <2>3. t.parent[t.parent[y]] # y
    BY <2>1, <2>2, UpIs, ForestFacts DEF UpClosed
  <2> QED BY <2>2, <2>3, ForestFacts DEF Kids
<1>3. CASE t.parent[y] = Nil
  BY <1>1, <1>3 DEF Ring, Kids
<1>4. CASE t.parent[y] # Nil
  BY <1>1, <1>2, <1>4, AppendDistinct DEF Ring, Kids
<1> QED BY <1>3, <1>4

LEMMA ChangeRootIs ==
  ASSUME NEW t, Forest(t), t.root \in Tops(t), NEW x \in Node, x # t.root,
         t.root \in Up(t.parent, x), NEW mirrored,
         NEW u, u = ChangeRoot(t, x, mirrored)
  PROVE  /\ Forest(u) /\ u.root = x /\ u.type = t.type
         /\ Tops(u) = (Tops(t) \ {t.root}) \cup {x}
         /\ \A y \in Node : y \notin Up(t.parent, x) => u.parent[y] = t.parent[y]
         /\ \A y, z \in Node :
              t.parent[y] = z \/ t.parent[z] = y <=> u.parent[y] = z \/ u.parent[z] = y
<1> DEFINE pa == t.parent
           way == Up(pa, x)
           up(y) == CHOOSE c \in way : pa[c] = y
           Cut(s, i) == SubSeq(s, i + 1, Len(s)) \o SubSeq(s, 1, i - 1)
           cut(y) == Cut(Ring(t, y), PositionOf(Ring(t, y), up(y)))
           turned(y) == IF y = x THEN Ring(t, y)
                        ELSE IF y \in mirrored THEN Reverse(cut(y)) ELSE cut(y)
           ki == [y \in Node |-> IF y \in way THEN turned(y) ELSE t.kids[y]]
           qa == [y \in Node |-> IF y \notin way THEN pa[y] ELSE IF y = x THEN Nil ELSE up(y)]
<1>1. /\ t \in ForestType /\ Arranged(t) /\ Acyclic(pa) /\ pa \in Parents /\ Nil \notin Node
  BY NodesAssumption DEF Forest, ForestType, Node
<1>2. u = [t EXCEPT !.kids = ki, !.parent = qa, !.root = x]
  <2>1. WayUp(t, x) = way
    BY <1>1, WayUpIs
  <2> HIDE DEF way
  <2> QED BY <2>1 DEF ChangeRoot, Ring
<1> HIDE DEF pa
<1>3. /\ x \in way /\ way \subseteq Node /\ UpClosed(pa, way)
      /\ \A c, d \in way : pa[c] # Nil /\ pa[c] = pa[d] => c = d
      /\ \A c \in way : pa[c] # x
      /\ \A y \in way : pa[y] = Nil => y = t.root
      /\ t.root \in way /\ pa[t.root] = Nil /\ pa[x] # Nil
  <2>1. t.root \in way /\ pa[t.root] = Nil
    BY DEF pa, Tops
  <2>2. \A y, z \in way : pa[y] = Nil /\ pa[z] = Nil => y = z
    BY <1>1, OneTop
  <2>3. x \in way /\ way \subseteq Node /\ UpClosed(pa, way)
    BY <1>1, UpIs
  <2>4. /\ \A c, d \in way : pa[c] # Nil /\ pa[c] = pa[d] => c = d
        /\ \A c \in way : pa[c] # x
    BY <1>1, OneWay
  <2> HIDE DEF way
  <2> QED BY <2>1, <2>2, <2>3, <2>4
<1>4. ASSUME NEW y \in way, y # x PROVE up(y) \in way /\ pa[up(y)] = y
  <2>1. \E c \in way : pa[c] = y
    BY <1>1, <1>4, OneWay
  <2> HIDE DEF way
  <2>2. (CHOOSE c \in way : pa[c] = y) \in way /\ pa[CHOOSE c \in way : pa[c] = y] = y
    BY <2>1
  <2> QED BY <2>2
<1> HIDE DEF way, up

<1>5. ASSUME NEW y \in way
      PROVE  /\ turned(y) \in Seq(Node) /\ Distinct(turned(y))
             /\ ToSet(turned(y)) = (Kids(t, y) \cup (IF pa[y] = Nil THEN {} ELSE {pa[y]}))
                                     \ (IF y = x THEN {} ELSE {up(y)})
             /\ Len(turned(y)) = Len(Ring(t, y)) - (IF y = x THEN 0 ELSE 1)
  <2>1. /\ Ring(t, y) \in Seq(Node) /\ Distinct(Ring(t, y)) /\ Len(Ring(t, y)) \in Nat
        /\ ToSet(Ring(t, y)) = Kids(t, y) \cup (IF pa[y] = Nil THEN {} ELSE {pa[y]})
    <3> HIDE DEF turned, cut
    <3>1. y \in Node
      BY <1>3
    <3>2. Ring(t, y) \in Seq(Node) /\ Distinct(Ring(t, y))
      BY <3>1, RingIs
    <3>3. Len(Ring(t, y)) \in Nat
      BY <3>2
    <3>4. ToSet(Ring(t, y)) = Kids(t, y) \cup (IF pa[y] = Nil THEN {} ELSE {pa[y]})
      BY <3>1, RingIs DEF pa
    <3> QED BY <3>2, <3>3, <3>4
  <2>2. CASE y = x
    <3>1. turned(y) = Ring(t, y)
      BY <2>2
    <3> HIDE DEF turned
    <3>2. Len(turned(y)) = Len(Ring(t, y)) - 0
      BY <2>1, <3>1
    <3> QED BY <2>1, <2>2, <3>1, <3>2
  <2>3. CASE y # x
    <3>1. up(y) \in ToSet(Ring(t, y))
      <4>1. up(y) \in Node /\ pa[up(y)] = y
        BY <1>3, <1>4, <2>3
      <4>2. up(y) \in Kids(t, y)
        BY <1>1, <1>3, <4>1 DEF Arranged, pa
      <4> QED BY <2>1, <4>2
    <3>2. /\ cut(y) \in Seq(Node) /\ Distinct(cut(y)) /\ ToSet(cut(y)) = ToSet(Ring(t, y)) \ {up(y)}
          /\ Len(cut(y)) = Len(Ring(t, y)) - 1
      BY <2>1, <3>1, CutDistinct
    <3> HIDE DEF cut
    <3>3. /\ Reverse(cut(y)) \in Seq(Node) /\ Distinct(Reverse(cut(y)))
          /\ ToSet(Reverse(cut(y))) = ToSet(cut(y)) /\ Len(Reverse(cut(y))) = Len(cut(y))
      BY <3>2, ReverseDistinct
    <3>4. turned(y) = cut(y) \/ turned(y) = Reverse(cut(y))
      BY <2>3
    <3> HIDE DEF turned
    <3> QED BY <2>1, <2>3, <3>2, <3>3, <3>4
  <2> QED BY <2>2, <2>3
<1> HIDE DEF turned, cut
<1>6. ki \in [Node -> Seq(Node)] /\ qa \in Parents
  BY <1>1, <1>3, <1>4, <1>5 DEF Parents, ForestType
<1>7. \A y \in Node : /\ ki[y] = IF y \in way THEN turned(y) ELSE t.kids[y]
                      /\ qa[y] = IF y \notin way THEN pa[y] ELSE IF y = x THEN Nil ELSE up(y)
  OBVIOUS
<1> HIDE DEF ki, qa
<1>8. u \in ForestType /\ u.root = x /\ u.type = t.type /\ u.parent = qa /\ u.kids = ki
  BY <1>1, <1>2, <1>6 DEF ForestType
<1>9. \A y \in Node : Kids(u, y) = IF y \in way THEN ToSet(turned(y)) ELSE Kids(t, y)
  BY <1>7, <1>8 DEF Kids
<1>10. ASSUME NEW y \in Node, NEW c \in Node PROVE qa[c] = y <=> c \in Kids(u, y)
  <2>1. (pa[c] = y <=> c \in Kids(t, y)) /\ (pa[y] = c <=> y \in Kids(t, c)) /\ c # Nil /\ y # Nil
    BY <1>1 DEF Arranged, pa
  <2>2. CASE y \notin way
    <3>1. c \in way => pa[c] # y
      BY <1>3, <2>1, <2>2 DEF UpClosed
    <3>2. c \in way => qa[c] # y
      BY <1>4, <1>7, <2>1, <2>2
    <3> QED BY <1>7, <1>9, <2>1, <2>2, <3>1, <3>2
  <2>3. CASE y \in way /\ c \notin way
    <3>1. c # pa[y] /\ (y # x => c # up(y))
      BY <1>3, <1>4, <2>1, <2>3 DEF UpClosed
    <3>2. c \in ToSet(turned(y)) <=> c \in Kids(t, y)
      BY <1>5, <2>3, <3>1
    <3> QED BY <1>7, <1>9, <2>1, <2>3, <3>2
  <2>4. CASE y \in way /\ c \in way
    <3>1. qa[c] = y <=> c # x /\ up(c) = y
      BY <1>7, <2>1, <2>4
    <3>2. c # x => (up(c) = y <=> pa[y] = c)
      BY <1>3, <1>4, <2>1, <2>4
    <3>3. pa[y] = c => c # x
      BY <1>3, <2>4
    <3>4. c \in ToSet(turned(y)) <=> (pa[c] = y \/ c = pa[y]) /\ (y = x \/ c # up(y))
      BY <1>5, <2>1, <2>4
    <3>5. pa[c] = y => y # x /\ c = up(y)
      BY <1>3, <1>4, <2>1, <2>4
    <3>6. pa[y] = c => pa[c] # y
      BY <1>1, <2>1, NotAboveItself, UpIs DEF UpClosed
    <3>7. y # x => pa[up(y)] = y
      BY <1>4, <2>4
    <3> QED BY <1>9, <2>4, <3>1, <3>2, <3>3, <3>4, <3>5, <3>6, <3>7
  <2> QED BY <2>2, <2>3, <2>4
<1>11. x \in InUse(t) /\ way \subseteq InUse(t)
  <2>1. x \in InUse(t)
    BY <1>3, ForestFacts DEF pa
  <2> QED BY <2>1, InUseAbove DEF way, pa
<1>12. Arranged(u)
  <2> SUFFICES ASSUME NEW y \in Node
      PROVE  /\ Distinct(u.kids[y])
             /\ u.type[y] = "free" => u.kids[y] = <<>> /\ u.parent[y] = Nil
             /\ u.type[y] = "leaf" => Len(u.kids[y]) <= (IF u.parent[y] = Nil THEN 1 ELSE 0)
    BY <1>8, <1>10 DEF Arranged
  <2>1. Distinct(u.kids[y])
    BY <1>1, <1>5, <1>7, <1>8 DEF Arranged
  <2>2. u.type[y] = "free" => u.kids[y] = <<>> /\ u.parent[y] = Nil
    <3>1. t.type[y] = "free" => t.kids[y] = <<>> /\ pa[y] = Nil /\ y \notin way
      BY <1>1, <1>11 DEF Arranged, pa, InUse
    <3> QED BY <1>7, <1>8, <3>1
  <2>3. u.type[y] = "leaf" => Len(u.kids[y]) <= (IF u.parent[y] = Nil THEN 1 ELSE 0)
    <3> DEFINE n == Len(t.kids[y])
               m == Len(turned(y))
    <3>1. (t.type[y] = "leaf" => n <= (IF pa[y] = Nil THEN 1 ELSE 0)) /\ n \in Nat
      BY <1>1, ForestKids DEF Arranged, pa
    <3>2. /\ y \in way /\ y = x => m = n + 1
          /\ y \in way /\ y # x /\ pa[y] = Nil => m = n - 1
      <4>1. Len(Ring(t, y)) = IF pa[y] = Nil THEN n ELSE n + 1
        BY RingIs DEF pa
      <4>2. y \in way => m = IF y = x THEN Len(Ring(t, y)) ELSE Len(Ring(t, y)) - 1
        <5>1. Len(Ring(t, y)) \in Nat
          BY <3>1, <4>1
        <5> QED BY <1>5, <5>1
      <4> HIDE DEF m, n
      <4> QED BY <1>3, <4>1, <4>2
    <3> HIDE DEF m, n
    <3>3. CASE y \notin way
      BY <1>7, <1>8, <3>1, <3>3 DEF n
    <3>4. CASE y \in way /\ y = x
      <4>1. t.type[y] = "leaf" => n = 0
        BY <1>3, <3>1, <3>4
      <4>2. t.type[y] = "leaf" => m = 1
        BY <3>2, <3>4, <4>1
      <4>3. qa[y] = Nil /\ ki[y] = turned(y)
        BY <1>3, <1>7, <3>4
      <4>4. Len(u.kids[y]) = m /\ u.parent[y] = Nil
        BY <1>8, <4>3 DEF m
      <4> QED BY <1>8, <4>2, <4>4
    <3>5. CASE y \in way /\ y # x
      <4>1. n # 0
        <5>1. up(y) \in Kids(t, y)
          BY <1>1, <1>3, <1>4, <3>5 DEF Arranged, pa
        <5> QED BY <1>1, <5>1, ForestKids DEF n
      <4>2. t.type[y] = "leaf" => n = 1 /\ pa[y] = Nil
        BY <3>1, <4>1
      <4>3. t.type[y] = "leaf" => m = 0
        BY <3>2, <3>5, <4>2
      <4>4. ki[y] = turned(y)
        BY <1>7, <3>5
      <4>5. Len(u.kids[y]) = m
        BY <1>8, <4>4 DEF m
      <4> QED BY <1>8, <4>3, <4>5
    <3> QED BY <3>3, <3>4, <3>5
  <2> QED BY <2>1, <2>2, <2>3
<1>13. Acyclic(qa)
  <2> SUFFICES ASSUME NEW S \in SUBSET Node, S # {}, \A y \in S : qa[y] \in S PROVE FALSE
    BY DEF Acyclic
  <2> DEFINE R == S \cap way
  <2>1. \A y \in R : y # x /\ up(y) \in R /\ pa[up(y)] = y
    BY <1>1, <1>3, <1>4, <1>7
  <2>2. R = {}
    <3>1. R \in SUBSET Node /\ \A y \in R : \E c \in R : pa[c] = y
      BY <2>1
    <3> HIDE DEF R
    <3>2. \A c \in R : pa[c] \in R
      BY <1>1, <3>1, ChildrenWithin
    <3> QED BY <1>1, <3>1, <3>2 DEF Acyclic
  <2>3. \A y \in S : pa[y] \in S
    BY <1>7, <2>2
  <2> QED BY <1>1, <2>3 DEF Acyclic
<1>14. Tops(u) = (Tops(t) \ {t.root}) \cup {x}
  <2>1. \A y \in Node : /\ y \in Tops(u) <=> y \in InUse(t) /\ qa[y] = Nil
                        /\ y \in Tops(t) <=> y \in InUse(t) /\ pa[y] = Nil
    BY <1>8 DEF Tops, InUse, pa
  <2>2. \A y \in way : qa[y] = Nil <=> y = x
    BY <1>1, <1>3, <1>4, <1>7
  <2>3. Tops(u) \subseteq Node /\ Tops(t) \subseteq Node
    BY DEF Tops, InUse
  <2> QED BY <1>3, <1>7, <1>11, <2>1, <2>2, <2>3
<1>15. \A y \in Node : y \notin way => u.parent[y] = pa[y]
  BY <1>7, <1>8
<1>16. ASSUME NEW y \in Node, NEW z \in Node, pa[y] = z PROVE u.parent[y] = z \/ u.parent[z] = y
  <2>1. CASE y \notin way
    BY <1>15, <1>16, <2>1
  <2>2. CASE y \in way
    <3>1. z \in way /\ z # x
      BY <1>1, <1>3, <1>16, <2>2 DEF UpClosed
    <3>2. up(z) = y
      BY <1>3, <1>4, <1>16, <2>2, <3>1, NodesAssumption
    <3> QED BY <1>7, <1>8, <3>1, <3>2
  <2> QED BY <2>1, <2>2
<1>17. ASSUME NEW y \in Node, NEW z \in Node, u.parent[y] = z PROVE pa[y] = z \/ pa[z] = y
  BY <1>1, <1>4, <1>7, <1>8, <1>17
<1> QED BY <1>8, <1>12, <1>13, <1>14, <1>15, <1>16, <1>17 DEF Forest, way, pa

\* The root does not matter to a forest.
LEMMA RootedIs ==
  ASSUME NEW t, Forest(t), NEW x \in Node \cup {Nil}, NEW u, u = [t EXCEPT !.root = x]
  PROVE  /\ Forest(u) /\ u.root = x /\ u.type = t.type /\ u.parent = t.parent /\ u.kids = t.kids
         /\ Tops(u) = Tops(t) /\ InUse(u) = InUse(t)
<1>1. /\ u \in ForestType /\ u.root = x /\ u.type = t.type /\ u.parent = t.parent
      /\ u.kids = t.kids
  BY DEF Forest, ForestType
<1> QED BY <1>1 DEF Forest, Arranged, Kids, Tops, InUse

\* An edge, whichever of the two nodes is the parent.
Adjacent(t, y, z) == t.parent[y] = z \/ t.parent[z] = y

(***************************************************************************)
(* A few nodes.                                                            *)
(***************************************************************************)
\* The length of a child list, by the children.
LEMMA TwoPlaces ==
  ASSUME NEW t \in ForestType, NEW x \in Node, Distinct(t.kids[x])
  PROVE  /\ Len(t.kids[x]) >= 2 => \E a, b \in Kids(t, x) : a # b
         /\ Len(t.kids[x]) >= 3 => \E a, b, c \in Kids(t, x) : a # b /\ a # c /\ b # c
         /\ Len(t.kids[x]) = 1 => \E a \in Node : Kids(t, x) = {a} /\ a = Head(t.kids[x])
         /\ Len(t.kids[x]) <= 1 => \A a, b \in Kids(t, x) : a = b
         /\ \A a, b \in Kids(t, x) : a # b => Len(t.kids[x]) >= 2
         /\ Kids(t, x) # {} => Len(t.kids[x]) >= 1
<1> DEFINE s == t.kids[x]
           n == Len(s)
<1>1. /\ s \in Seq(Node) /\ n \in Nat /\ DOMAIN s = 1..n /\ \A i \in 1..n : s[i] \in Node
      /\ Kids(t, x) = {s[i] : i \in 1..n} /\ Distinct(s)
  BY ForestKids
<1>2. Head(s) = s[1]
  BY <1>1
<1> HIDE DEF s, n
<1>3. ASSUME n >= 2 PROVE \E a, b \in Kids(t, x) : a # b
  <2>1. 1 \in 1..n /\ 2 \in 1..n
    BY <1>1, <1>3
  <2>2. s[1] # s[2]
    BY <1>1, <2>1 DEF Distinct
  <2> QED BY <1>1, <2>1, <2>2
<1>4. ASSUME n >= 3 PROVE \E a, b, c \in Kids(t, x) : a # b /\ a # c /\ b # c
  <2>1. 1 \in 1..n /\ 2 \in 1..n /\ 3 \in 1..n
    BY <1>1, <1>4
  <2>2. s[1] # s[2] /\ s[1] # s[3] /\ s[2] # s[3]
    BY <1>1, <2>1 DEF Distinct
  <2>3. s[1] \in Kids(t, x) /\ s[2] \in Kids(t, x) /\ s[3] \in Kids(t, x)
    BY <1>1, <2>1
  <2> QED BY <2>2, <2>3
<1>5. ASSUME n = 1 PROVE \E a \in Node : Kids(t, x) = {a} /\ a = Head(s)
  <2>1. 1..n = {1}
    BY <1>5
  <2> QED BY <1>1, <1>2, <1>5, <2>1
<1>6. ASSUME n <= 1, NEW a \in Kids(t, x), NEW b \in Kids(t, x) PROVE a = b
  <2>1. \A i, j \in 1..n : i = j
    BY <1>1, <1>6
  <2> QED BY <1>1, <1>6, <2>1
<1>7. \A a, b \in Kids(t, x) : a # b => n >= 2
  BY <1>1, <1>6
<1>8. ASSUME Kids(t, x) # {} PROVE n >= 1
  <2>1. PICK i \in 1..n : TRUE
    BY <1>1, <1>8
  <2> QED BY <1>1, <2>1
<1> QED BY <1>3, <1>4, <1>5, <1>6, <1>7, <1>8 DEF s, n

LEMMA OneElement ==
  ASSUME NEW S, IsFiniteSet(S), Cardinality(S) = 1
  PROVE  \E a : S = {a}
BY FS_Singleton

LEMMA TwoElements ==
  ASSUME NEW S, IsFiniteSet(S), Cardinality(S) = 2
  PROVE  \E a, b : S = {a, b} /\ a # b
<1>1. PICK a \in S : TRUE
  BY FS_EmptySet
<1>2. IsFiniteSet(S \ {a}) /\ Cardinality(S \ {a}) = 1
  <2>1. IsFiniteSet(S \ {a}) /\ Cardinality(S \ {a}) = 2 - 1
    BY <1>1, FS_RemoveElement
  <2> QED BY <2>1
<1>3. PICK b : S \ {a} = {b}
  BY <1>2, OneElement
<1>4. S = {a, b} /\ a # b
  BY <1>1, <1>3
<1> QED BY <1>4

\* The size of a set, by its elements.
LEMMA ThreeElements ==
  ASSUME NEW S, IsFiniteSet(S)
  PROVE  /\ Cardinality(S) \in Nat
         /\ \A a, b, c \in S : a # b /\ a # c /\ b # c => Cardinality(S) >= 3
         /\ \A a, b \in S : a # b => Cardinality(S) >= 2
         /\ Cardinality(S) = 0 <=> S = {}
         /\ \A a : S = {a} => Cardinality(S) = 1
         /\ \A a, b : S = {a, b} /\ a # b => Cardinality(S) = 2
         /\ Cardinality(S) > 2 => \A a, b : \E c \in S : c # a /\ c # b
<1>1. Cardinality(S) \in Nat
  BY FS_CardinalityType
<1>2. Cardinality(S) = 0 <=> S = {}
  BY FS_EmptySet
<1>3. \A a : S = {a} => Cardinality(S) = 1
  BY FS_Singleton
<1>4. ASSUME NEW a, NEW b, a # b
      PROVE  IsFiniteSet({a, b}) /\ Cardinality({a, b}) = 2
  <2>1. IsFiniteSet({a}) /\ Cardinality({a}) = 1
    BY FS_Singleton
  <2>2. {a, b} = {a} \cup {b} /\ b \notin {a}
    BY <1>4
  <2>3. Cardinality({a} \cup {b}) = 1 + 1 /\ IsFiniteSet({a} \cup {b})
    BY <2>1, <2>2, FS_AddElement
  <2> QED BY <2>2, <2>3
<1>5. ASSUME NEW a, NEW b, NEW c, a # b, a # c, b # c
      PROVE  IsFiniteSet({a, b, c}) /\ Cardinality({a, b, c}) = 3
  <2>1. IsFiniteSet({a, b}) /\ Cardinality({a, b}) = 2
    BY <1>4, <1>5
  <2>2. {a, b, c} = {a, b} \cup {c} /\ c \notin {a, b}
    BY <1>5
  <2>3. Cardinality({a, b} \cup {c}) = 2 + 1 /\ IsFiniteSet({a, b} \cup {c})
    BY <2>1, <2>2, FS_AddElement
  <2> QED BY <2>2, <2>3
<1>6. ASSUME NEW a \in S, NEW b \in S, NEW c \in S, a # b, a # c, b # c
      PROVE  Cardinality(S) >= 3
  <2>1. {a, b, c} \in SUBSET S /\ Cardinality({a, b, c}) = 3
    BY <1>5, <1>6
  <2>2. Cardinality({a, b, c}) <= Cardinality(S)
    BY <2>1, FS_Subset
  <2> QED BY <1>1, <2>1, <2>2
<1>7. ASSUME NEW a \in S, NEW b \in S, a # b PROVE Cardinality(S) >= 2
  <2>1. {a, b} \in SUBSET S /\ Cardinality({a, b}) = 2
    BY <1>4, <1>7
  <2>2. Cardinality({a, b}) <= Cardinality(S)
    BY <2>1, FS_Subset
  <2> QED BY <1>1, <2>1, <2>2
<1>9. ASSUME Cardinality(S) > 2, NEW a, NEW b, ~ \E c \in S : c # a /\ c # b PROVE FALSE
  <2>1. S \in SUBSET {a, b}
    BY <1>9
  <2>2. IsFiniteSet({a, b}) /\ Cardinality({a, b}) <= 2
    <3>1. CASE a = b
      <4>1. {a, b} = {a}
        BY <3>1
      <4>2. IsFiniteSet({a}) /\ Cardinality({a}) = 1
        BY FS_Singleton
      <4> QED BY <4>1, <4>2
    <3>2. CASE a # b
      BY <1>4, <3>2
    <3> QED BY <3>1, <3>2
  <2>3. Cardinality(S) <= Cardinality({a, b})
    BY <2>1, <2>2, FS_Subset
  <2>4. Cardinality({a, b}) \in Nat
    BY <2>2, FS_CardinalityType
  <2> QED BY <1>1, <1>9, <2>2, <2>3, <2>4
<1>10. \A a, b : S = {a, b} /\ a # b => Cardinality(S) = 2
  BY <1>4
<1>11. Cardinality(S) > 2 => \A a, b : \E c \in S : c # a /\ c # b
  BY <1>9
<1> QED BY <1>1, <1>2, <1>3, <1>6, <1>7, <1>10, <1>11

HasKid(t, x) == \E a \in Node : t.parent[a] = x

HasTwoKids(t, x) == \E a, b \in Node : a # b /\ t.parent[a] = x /\ t.parent[b] = x

\* The children of a node, by the parents alone.
LEMMA KidsCounted ==
  ASSUME NEW t, Forest(t), NEW x \in Node
  PROVE  /\ Len(t.kids[x]) \in Nat
         /\ Kids(t, x) = {c \in Node : t.parent[c] = x}
         /\ HasTwoKids(t, x) <=> Len(t.kids[x]) >= 2
         /\ HasKid(t, x) <=> Len(t.kids[x]) >= 1
         /\ ~HasKid(t, x) <=> t.kids[x] = <<>>
         /\ Len(t.kids[x]) = 1 => \E a \in Node : a = Head(t.kids[x]) /\ Kids(t, x) = {a}
         /\ t.type[x] = "leaf" => ~HasTwoKids(t, x)
         /\ t.type[x] = "leaf" /\ t.parent[x] # Nil => ~HasKid(t, x)
<1> DEFINE n == Len(t.kids[x])
<1>1. t \in ForestType /\ Arranged(t) /\ Distinct(t.kids[x]) /\ n \in Nat
  BY ForestKids DEF Forest, Arranged
<1>2. Kids(t, x) = {c \in Node : t.parent[c] = x}
  BY <1>1, ForestKids DEF Arranged
<1>3. n = 0 <=> Kids(t, x) = {}
  BY <1>1, ForestKids
<1>4. n = 0 <=> t.kids[x] = <<>>
  BY <1>1, ForestKids
<1>5. /\ n >= 2 => \E a, b \in Kids(t, x) : a # b
      /\ n = 1 => \E a \in Node : Kids(t, x) = {a} /\ a = Head(t.kids[x])
      /\ \A a, b \in Kids(t, x) : a # b => n >= 2
      /\ Kids(t, x) # {} => n >= 1
  BY <1>1, TwoPlaces
<1>6. t.type[x] = "leaf" => n <= (IF t.parent[x] = Nil THEN 1 ELSE 0)
  BY <1>1 DEF Arranged
<1> HIDE DEF n
<1>7. HasTwoKids(t, x) <=> n >= 2
  BY <1>2, <1>5 DEF HasTwoKids
<1>8. HasKid(t, x) <=> Kids(t, x) # {}
  BY <1>2 DEF HasKid
<1>9. HasKid(t, x) <=> n >= 1
  BY <1>1, <1>3, <1>8
<1>10. /\ t.type[x] = "leaf" => ~(n >= 2)
       /\ t.type[x] = "leaf" /\ t.parent[x] # Nil => ~(n >= 1)
  BY <1>1, <1>6
<1> QED BY <1>1, <1>2, <1>3, <1>4, <1>5, <1>7, <1>8, <1>9, <1>10 DEF n

(***************************************************************************)
(* Sequences that are edited: a part is taken out, put in or replaced.     *)
(***************************************************************************)
LEMMA TailDistinct ==
  ASSUME NEW S, NEW s \in Seq(S), Distinct(s), s # <<>>
  PROVE  /\ Head(s) \in ToSet(s) /\ Tail(s) \in Seq(S) /\ Distinct(Tail(s))
         /\ ToSet(Tail(s)) = ToSet(s) \ {Head(s)}
<1> DEFINE n == Len(s)
           u == Tail(s)
<1>1. n \in Nat /\ n >= 1 /\ DOMAIN s = 1..n /\ Head(s) = s[1]
  OBVIOUS
<1>2. u \in Seq(S) /\ DOMAIN u = 1..(n - 1) /\ \A i \in 1..(n - 1) : u[i] = s[i + 1]
  OBVIOUS
<1> HIDE DEF u, n
<1>3. Distinct(u)
  <2> SUFFICES ASSUME NEW i \in 1..(n - 1), NEW j \in 1..(n - 1), u[i] = u[j] PROVE i = j
    BY <1>2 DEF Distinct
  <2>1. i + 1 \in 1..n /\ j + 1 \in 1..n /\ s[i + 1] = s[j + 1]
    BY <1>1, <1>2
  <2>2. i + 1 = j + 1
    BY <1>1, <2>1 DEF Distinct
  <2> QED BY <2>2
<1>4. ToSet(u) = {s[i] : i \in 2..n}
  <2>1. ToSet(u) = {u[i] : i \in 1..(n - 1)}
    BY <1>2 DEF ToSet
  <2>2. \A i \in 1..(n - 1) : i + 1 \in 2..n /\ u[i] = s[i + 1]
    BY <1>1, <1>2
  <2>3. \A i \in 2..n : i - 1 \in 1..(n - 1) /\ u[i - 1] = s[i]
    BY <1>1, <1>2
  <2> QED BY <2>1, <2>2, <2>3
<1>5. ToSet(s) = {s[i] : i \in 1..n}
  BY <1>1 DEF ToSet
<1>6. 1 \in 1..n /\ \A i \in 1..n : i = 1 \/ i \in 2..n
  BY <1>1
<1>7. \A i \in 2..n : i \in 1..n /\ s[i] # s[1]
  BY <1>1 DEF Distinct
<1>8. ToSet(u) = ToSet(s) \ {s[1]}
  BY <1>4, <1>5, <1>6, <1>7
<1> QED BY <1>1, <1>2, <1>3, <1>5, <1>6, <1>8 DEF u

LEMMA ExcludingIs ==
  ASSUME NEW A, NEW s \in Seq(A), Distinct(s), NEW S, NEW w, w = Excluding(s, S)
  PROVE  w \in Seq(A) /\ Distinct(w) /\ ToSet(w) = ToSet(s) \ S
<1> DEFINE left    == {i \in DOMAIN s : s[i] \notin S}
           n       == Cardinality(left)
           upto(i) == {j \in left : j <= i}
           rank    == [i \in left |-> Cardinality(upto(i))]
           at      == [k \in 1..n |-> CHOOSE i \in left : Cardinality(upto(i)) = k]
<1>1. /\ Len(s) \in Nat /\ DOMAIN s = 1..Len(s) /\ left \subseteq 1..Len(s)
      /\ \A i \in DOMAIN s : s[i] \in A
  OBVIOUS
<1>2. IsFiniteSet(left) /\ n \in Nat
  <2>1. IsFiniteSet(1..Len(s))
    BY <1>1, FS_Interval
  <2> QED BY <1>1, <2>1, FS_Subset, FS_CardinalityType
<1>3. ASSUME NEW i \in left
      PROVE  /\ IsFiniteSet(upto(i)) /\ rank[i] = Cardinality(upto(i)) /\ rank[i] \in 1..n
  <2>1. upto(i) \in SUBSET left
    OBVIOUS
  <2>2. IsFiniteSet(upto(i)) /\ Cardinality(upto(i)) <= n
    BY <1>2, <2>1, FS_Subset
  <2>3. i \in upto(i)
    BY <1>1
  <2>4. Cardinality(upto(i)) \in Nat /\ Cardinality(upto(i)) # 0
    BY <2>2, <2>3, FS_CardinalityType, FS_EmptySet
  <2> QED BY <1>2, <2>2, <2>4
<1>a. \A i \in left : i \in Nat /\ rank[i] \in Nat
  <2> TAKE i \in left
  <2>1. i \in 1..Len(s) /\ rank[i] \in 1..n
    BY <1>1, <1>3
  <2> HIDE DEF rank, n
  <2> QED BY <2>1, <1>1, <1>2
<1>4. ASSUME NEW i \in left, NEW j \in left, i < j PROVE rank[i] < rank[j]
  <2>1. upto(i) \in SUBSET upto(j) /\ j \in upto(j) /\ j \notin upto(i)
    BY <1>1, <1>4
  <2>2. Cardinality(upto(i)) <= Cardinality(upto(j)) /\ Cardinality(upto(i)) # Cardinality(upto(j))
    BY <1>3, <2>1, FS_Subset
  <2>3. rank[i] \in Nat /\ rank[j] \in Nat
    BY ONLY <1>a, <1>4
  <2> QED BY <1>3, <2>2, <2>3
<1>5. \A i, j \in left : rank[i] = rank[j] => i = j
  <2> TAKE i \in left, j \in left
  <2>1. i \in Nat /\ j \in Nat /\ rank[i] \in Nat /\ rank[j] \in Nat
    BY ONLY <1>a, i \in left, j \in left
  <2>2. i < j => rank[i] < rank[j]
    BY <1>4
  <2>3. j < i => rank[j] < rank[i]
    BY <1>4
  <2> QED BY <2>1, <2>2, <2>3
<1>6. \A k \in 1..n : \E i \in left : rank[i] = k
  <2> HIDE DEF rank
  <2>1. rank \in [left -> 1..n]
    BY <1>3 DEF rank
  <2>2. rank \in Injection(left, 1..n)
    BY <2>1, <1>5 DEF Injection, IsInjective
  <2>3. IsFiniteSet(1..n) /\ Cardinality(1..n) = n
    BY <1>2, FS_Interval
  <2>4. rank \in Surjection(left, 1..n)
    BY <2>2, <2>3, FS_Injection
  <2> QED BY <2>4 DEF Surjection
<1>7. \A k \in 1..n : at[k] \in left /\ rank[at[k]] = k
  <2> HIDE DEF rank
  <2>1. \A i \in left : rank[i] = Cardinality(upto(i))
    BY <1>3
  <2> HIDE DEF upto, left, n
  <2> QED BY <1>6, <2>1
<1>8. w = [k \in 1..n |-> s[at[k]]]
  BY DEF Excluding
<1> HIDE DEF rank, at, n
<1>9. w \in Seq(A) /\ DOMAIN w = 1..n /\ \A k \in 1..n : w[k] = s[at[k]] /\ w[k] \notin S
  <2>1. \A k \in 1..n : at[k] \in DOMAIN s /\ s[at[k]] \in A /\ s[at[k]] \notin S
    BY <1>1, <1>7
  <2> QED BY <1>2, <1>8, <2>1
<1>10. Distinct(w)
  <2> SUFFICES ASSUME NEW i \in 1..n, NEW j \in 1..n, w[i] = w[j] PROVE i = j
    BY <1>9 DEF Distinct
  <2>1. at[i] \in DOMAIN s /\ at[j] \in DOMAIN s /\ s[at[i]] = s[at[j]]
    BY <1>7, <1>9
  <2>2. at[i] = at[j]
    BY <2>1 DEF Distinct
  <2> QED BY <1>7, <2>2
<1>11. ToSet(w) = ToSet(s) \ S
  <2>1. \A k \in 1..n : w[k] \in ToSet(s) \ S
    BY <1>7, <1>9 DEF ToSet
  <2>2. \A i \in left : \E k \in 1..n : w[k] = s[i]
    <3> TAKE i \in left
    <3>1. rank[i] \in 1..n /\ at[rank[i]] = i
      BY <1>3, <1>5, <1>7
    <3> QED BY <1>9, <3>1
  <2>3. \A y \in ToSet(w) : \E k \in 1..n : y = w[k]
    BY <1>9 DEF ToSet
  <2>4. \A k \in 1..n : w[k] \in ToSet(w)
    BY <1>9 DEF ToSet
  <2>5. \A y \in ToSet(s) \ S : \E i \in left : y = s[i]
    BY DEF ToSet
  <2> QED BY ONLY <2>1, <2>2, <2>3, <2>4, <2>5
<1> QED BY <1>9, <1>10, <1>11

\* What is between two positions of a sequence.
LEMMA SubSeqDistinct ==
  ASSUME NEW S, NEW s \in Seq(S), Distinct(s), NEW i \in 1..(Len(s) + 1), NEW j \in 0..Len(s)
  PROVE  /\ SubSeq(s, i, j) \in Seq(S) /\ Distinct(SubSeq(s, i, j))
         /\ \A x : x \in ToSet(SubSeq(s, i, j)) <=> \E m \in i..j : x = s[m]
<1> DEFINE n == Len(s)
           u == SubSeq(s, i, j)
           k == IF i <= j THEN j - i + 1 ELSE 0
<1>1. n \in Nat /\ DOMAIN s = 1..n /\ i \in 1..(n + 1) /\ j \in 0..n /\ k \in Nat
      /\ \A m \in 1..n : s[m] \in S
  OBVIOUS
<1>2. u \in Seq(S) /\ DOMAIN u = 1..k /\ \A m \in 1..k : u[m] = s[i + m - 1]
  OBVIOUS
<1> HIDE DEF n, u
<1>3. /\ \A m \in 1..k : i + m - 1 \in i..j /\ i + m - 1 \in 1..n
      /\ \A m \in i..j : m - i + 1 \in 1..k /\ i + (m - i + 1) - 1 = m
  BY <1>1
<1>4. Distinct(u)
  <2> SUFFICES ASSUME NEW m \in 1..k, NEW l \in 1..k, u[m] = u[l] PROVE m = l
    BY <1>2 DEF Distinct
  <2>1. i + m - 1 = i + l - 1
    BY <1>1, <1>2, <1>3 DEF Distinct
  <2> QED BY <1>1, <2>1
<1>5. \A x : x \in ToSet(u) <=> \E m \in 1..k : x = u[m]
  BY <1>2 DEF ToSet
<1>6. \A x : x \in ToSet(u) <=> \E m \in i..j : x = s[m]
  <2>1. \A m \in 1..k : \E l \in i..j : u[m] = s[l]
    BY <1>2, <1>3
  <2>2. ASSUME NEW l \in i..j PROVE \E m \in 1..k : s[l] = u[m]
    <3>1. u[l - i + 1] = s[i + (l - i + 1) - 1] /\ l - i + 1 \in 1..k
      BY <1>2, <1>3
    <3> QED BY <1>3, <3>1
  <2> HIDE DEF k
  <2> TAKE x
  <2>3. x \in ToSet(u) => \E m \in i..j : x = s[m]
    BY ONLY <1>5, <2>1
  <2>4. (\E m \in i..j : x = s[m]) => x \in ToSet(u)
    BY ONLY <1>5, <2>2
  <2> QED BY ONLY <2>3, <2>4
<1> QED BY <1>2, <1>4, <1>6 DEF u

LEMMA InsertDistinct ==
  ASSUME NEW S, NEW s \in Seq(S), Distinct(s), NEW k \in 1..Len(s), NEW e \in S, e \notin ToSet(s),
         NEW w, w = InsertAt(s, k, e)
  PROVE  w \in Seq(S) /\ Distinct(w) /\ ToSet(w) = ToSet(s) \cup {e}
<1> DEFINE i == k - 1
           a == SubSeq(s, 1, i)
           b == SubSeq(s, k, Len(s))
           d == <<e>>
           v == a \o d
<1>1. Len(s) \in Nat /\ k \in Nat /\ i \in Nat /\ i < k /\ k <= Len(s) + 1 /\ ToSet(s) = {s[m] : m \in 1..Len(s)}
  BY DEF ToSet
<1>2. \A m : m \in 1..Len(s) <=> m \in 1..i \/ m \in k..Len(s)
  BY <1>1
<1>3. d \in Seq(S) /\ Distinct(d) /\ ToSet(d) = {e}
  BY DEF Distinct, ToSet
<1>4. w = v \o b /\ a = SubSeq(s, 1, i) /\ b = SubSeq(s, k, Len(s))
  BY DEF InsertAt
<1> HIDE DEF a, b, d, i
<1>5. /\ a \in Seq(S) /\ Distinct(a) /\ (\A x : x \in ToSet(a) <=> \E m \in 1..i : x = s[m])
      /\ b \in Seq(S) /\ Distinct(b) /\ (\A x : x \in ToSet(b) <=> \E m \in k..Len(s) : x = s[m])
      /\ ToSet(a) \cap ToSet(b) = {}
  <2>1. 1 \in 1..(Len(s) + 1) /\ i \in 0..Len(s) /\ k \in 1..(Len(s) + 1) /\ Len(s) \in 0..Len(s)
    BY <1>1
  <2>2. /\ a \in Seq(S) /\ Distinct(a) /\ \A x : x \in ToSet(a) <=> \E m \in 1..i : x = s[m]
    BY <2>1, SubSeqDistinct DEF a
  <2>3. /\ b \in Seq(S) /\ Distinct(b) /\ \A x : x \in ToSet(b) <=> \E m \in k..Len(s) : x = s[m]
    BY <2>1, SubSeqDistinct DEF b
  <2>4. \A l \in 1..i, m \in k..Len(s) : s[l] # s[m]
    <3>1. \A l \in 1..i, m \in k..Len(s) : l \in DOMAIN s /\ m \in DOMAIN s /\ l # m
      BY <1>1
    <3> QED BY <3>1 DEF Distinct
  <2> QED BY ONLY <2>2, <2>3, <2>4
<1>6. ToSet(a) \cup ToSet(b) = ToSet(s)
  <2>1. \A x : x \in ToSet(s) <=> \E m \in 1..Len(s) : x = s[m]
    BY <1>1
  <2> QED BY ONLY <2>1, <1>2, <1>5
<1>7. a \o d \in Seq(S) /\ Distinct(a \o d) /\ ToSet(a \o d) = ToSet(a) \cup ToSet(d)
  <2>1. a \in Seq(S) /\ d \in Seq(S) /\ Distinct(a) /\ Distinct(d)
    BY <1>3, <1>5
  <2>2. ToSet(a) \cap ToSet(d) = {}
    BY <1>3, <1>6
  <2> QED BY ONLY <2>1, <2>2, ConcatDistinct
<1> HIDE DEF v
<1>8. v \o b \in Seq(S) /\ Distinct(v \o b) /\ ToSet(v \o b) = ToSet(v) \cup ToSet(b)
  <2>1. v \in Seq(S) /\ b \in Seq(S) /\ Distinct(v) /\ Distinct(b)
    BY <1>5, <1>7 DEF v
  <2>2. ToSet(v) \cap ToSet(b) = {}
    BY <1>3, <1>5, <1>6, <1>7 DEF v
  <2> QED BY ONLY <2>1, <2>2, ConcatDistinct
<1> QED BY <1>3, <1>4, <1>6, <1>7, <1>8 DEF v

\* The elements of one sequence take the place of an element of another.
Spliced(s, k, r) == SubSeq(s, 1, k - 1) \o r \o SubSeq(s, k + 1, Len(s))

LEMMA SpliceDistinct ==
  ASSUME NEW S, NEW s \in Seq(S), Distinct(s), NEW e \in ToSet(s), NEW k, k = PositionOf(s, e),
         NEW r \in Seq(S), Distinct(r), ToSet(r) \cap ToSet(s) = {},
         NEW w, w = Spliced(s, k, r)
  PROVE  w \in Seq(S) /\ Distinct(w) /\ ToSet(w) = (ToSet(s) \ {e}) \cup ToSet(r)
<1> DEFINE i == k - 1
           j == k + 1
           a == SubSeq(s, 1, i)
           b == SubSeq(s, j, Len(s))
           v == a \o r
<1>0. k \in DOMAIN s /\ s[k] = e
  BY PositionIs
<1>1. /\ Len(s) \in Nat /\ k \in 1..Len(s) /\ i \in Nat /\ j \in Nat /\ i < j /\ j <= Len(s) + 1
      /\ ToSet(s) = {s[m] : m \in 1..Len(s)}
  <2>1. Len(s) \in Nat /\ DOMAIN s = 1..Len(s)
    OBVIOUS
  <2>2. k \in 1..Len(s)
    BY <1>0, <2>1
  <2>3. ToSet(s) = {s[m] : m \in 1..Len(s)}
    BY <2>1 DEF ToSet
  <2> QED BY <2>1, <2>2, <2>3
<1>2. \A m : m \in 1..Len(s) /\ m # k <=> m \in 1..i \/ m \in j..Len(s)
  <2>1. Len(s) \in Nat /\ k \in 1..Len(s)
    BY <1>1
  <2> QED BY ONLY <2>1
<1>3. \A m \in 1..Len(s) : s[m] = e => m = k
  BY <1>0, <1>1 DEF Distinct
<1>4. w = v \o b /\ a = SubSeq(s, 1, i) /\ b = SubSeq(s, j, Len(s))
  BY DEF Spliced
<1> HIDE DEF a, b, i, j
<1>5. /\ a \in Seq(S) /\ Distinct(a) /\ (\A x : x \in ToSet(a) <=> \E m \in 1..i : x = s[m])
      /\ b \in Seq(S) /\ Distinct(b) /\ (\A x : x \in ToSet(b) <=> \E m \in j..Len(s) : x = s[m])
      /\ ToSet(a) \cap ToSet(b) = {}
  <2>1. 1 \in 1..(Len(s) + 1) /\ i \in 0..Len(s) /\ j \in 1..(Len(s) + 1) /\ Len(s) \in 0..Len(s)
    BY <1>1
  <2>2. /\ a \in Seq(S) /\ Distinct(a) /\ \A x : x \in ToSet(a) <=> \E m \in 1..i : x = s[m]
    BY <2>1, SubSeqDistinct DEF a
  <2>3. /\ b \in Seq(S) /\ Distinct(b) /\ \A x : x \in ToSet(b) <=> \E m \in j..Len(s) : x = s[m]
    BY <2>1, SubSeqDistinct DEF b
  <2>4. \A l \in 1..i, m \in j..Len(s) : s[l] # s[m]
    <3>1. \A l \in 1..i, m \in j..Len(s) : l \in DOMAIN s /\ m \in DOMAIN s /\ l # m
      BY <1>1
    <3> QED BY <3>1 DEF Distinct
  <2> QED BY ONLY <2>2, <2>3, <2>4
<1>6. ToSet(a) \cup ToSet(b) = ToSet(s) \ {e}
  <2>1. \A x : x \in ToSet(s) <=> \E m \in 1..Len(s) : x = s[m]
    BY <1>1
  <2>2. s[k] = e /\ k \in 1..Len(s)
    BY <1>0, <1>1
  <2> QED BY ONLY ZenonT(40), <2>1, <2>2, <1>2, <1>3, <1>5
<1>7. a \o r \in Seq(S) /\ Distinct(a \o r) /\ ToSet(a \o r) = ToSet(a) \cup ToSet(r)
  <2>1. a \in Seq(S) /\ r \in Seq(S) /\ Distinct(a) /\ Distinct(r)
    BY <1>5
  <2>2. ToSet(a) \cap ToSet(r) = {}
    BY <1>6
  <2> QED BY ONLY <2>1, <2>2, ConcatDistinct
<1> HIDE DEF v
<1>8. v \o b \in Seq(S) /\ Distinct(v \o b) /\ ToSet(v \o b) = ToSet(v) \cup ToSet(b)
  <2>1. v \in Seq(S) /\ b \in Seq(S) /\ Distinct(v) /\ Distinct(b)
    BY <1>5, <1>7 DEF v
  <2>2. ToSet(v) \cap ToSet(b) = {}
    BY <1>5, <1>6, <1>7 DEF v
  <2> QED BY ONLY <2>1, <2>2, ConcatDistinct
<1> QED BY <1>4, <1>6, <1>7, <1>8 DEF v

(***************************************************************************)
(* CheckValid node by node, by types and parents alone.                    *)
(***************************************************************************)
Branches(t, x) ==
  \E a, b, c \in Node : /\ a # b /\ a # c /\ b # c
                        /\ Adjacent(t, x, a) /\ Adjacent(t, x, b) /\ Adjacent(t, x, c)

Sturdy(t) ==
  /\ Forest(t)
  /\ Tops(t) = {t.root}
  /\ \A x \in Node : t.type[x] = "leaf" <=> x \in Leaves
  /\ \A x \in InUse(t) \cap Inner : Branches(t, x)
  /\ t.root \in Leaves => HasKid(t, t.root)

\* A node that is not in use has no links.
Unlinked(t) == \A x \in Node : t.type[x] = "free" => t.kids[x] = <<>> /\ t.parent[x] = Nil

LEMMA DegreeThree ==
  ASSUME NEW t, Forest(t), NEW x \in Node
  PROVE  Branches(t, x) <=> Degree(t, x) >= 3
<1>1. /\ t \in ForestType /\ Distinct(t.kids[x]) /\ t.kids[x] \in Seq(Node)
      /\ Len(t.kids[x]) \in Nat /\ Kids(t, x) = {c \in Node : t.parent[c] = x}
  BY KidsCounted, ForestKids DEF Forest, Arranged
<1>2. /\ Len(t.kids[x]) >= 3 => \E a, b, c \in Kids(t, x) : a # b /\ a # c /\ b # c
      /\ Len(t.kids[x]) >= 2 => \E a, b \in Kids(t, x) : a # b
      /\ \A a, b \in Kids(t, x) : a # b => Len(t.kids[x]) >= 2
  BY <1>1, TwoPlaces
<1>3. \A a, b, c \in Kids(t, x) : a # b /\ a # c /\ b # c => Len(t.kids[x]) >= 3
  <2>1. IsFiniteSet(Kids(t, x)) /\ Cardinality(Kids(t, x)) = Len(t.kids[x])
    BY <1>1, DistinctLength DEF Kids
  <2> QED BY <2>1, ThreeElements
<1>4. x # Nil /\ Nil \notin Node
  BY NodesAssumption DEF Node
<1>5. CASE t.parent[x] = Nil
  <2>1. Degree(t, x) = Len(t.kids[x])
    BY <1>1, <1>5 DEF Degree
  <2>2. \A a \in Node : Adjacent(t, x, a) <=> a \in Kids(t, x)
    BY <1>1, <1>4, <1>5 DEF Adjacent
  <2> QED BY ONLY <2>1, <2>2, <1>1, <1>2, <1>3 DEF Branches
<1>6. CASE t.parent[x] # Nil
  <2>1. t.parent[x] \in Node /\ t.parent[x] # x /\ t.parent[t.parent[x]] # x
    BY <1>6, InUseFacts
  <2>2. Degree(t, x) = Len(t.kids[x]) + 1
    BY <1>1, <1>6 DEF Degree
  <2>3. \A a \in Node : Adjacent(t, x, a) <=> a \in Kids(t, x) \/ a = t.parent[x]
    BY <1>1 DEF Adjacent
  <2>4. t.parent[x] \notin Kids(t, x)
    BY <1>1, <2>1
  <2>5. Degree(t, x) >= 3 <=> Len(t.kids[x]) >= 2
    BY <1>1, <2>2
  <2>6. Branches(t, x) => \E a, b \in Kids(t, x) : a # b
    BY ONLY <2>3 DEF Branches
  <2>7. ASSUME NEW a \in Kids(t, x), NEW b \in Kids(t, x), a # b PROVE Branches(t, x)
    BY <2>1, <2>3, <2>4, <2>7, <1>1 DEF Branches
  <2> QED BY ONLY <2>5, <2>6, <2>7, <1>2
<1> QED BY <1>5, <1>6

\* The nodes above one another in a tree are on different levels.
LEMMA ValidIsAcyclic ==
  ASSUME NEW t, Tree(t), Unlinked(t)
  PROVE  t.parent \in Parents /\ Acyclic(t.parent)
<1>1. t.parent \in Parents /\ Nil \notin Node
  BY NodesAssumption DEF Tree, TreeType, Parents, Node
<1>2. ASSUME NEW S \in SUBSET Node, S # {} PROVE \E x \in S : t.parent[x] \notin S
  <2>1. CASE \E x \in S : x \notin InUse(t)
    BY <2>1, <1>1, <1>2 DEF InUse, Unlinked
  <2>2. CASE S \subseteq InUse(t)
    <3>1. \A x \in S : Depth(t, x) \in Nat
      BY <2>2, DepthExists
    <3>2. PICK x \in S : \A y \in S : Depth(t, x) <= Depth(t, y)
      <4> DEFINE D == {Depth(t, y) : y \in S}
      <4>1. D \subseteq Nat /\ D # {}
        BY <3>1, <1>2
      <4>2. \E n \in D : \A m \in D : n <= m
        <5> HIDE DEF D
        <5> QED BY <4>1, LeastOf
      <4> QED BY <4>2
    <3>3. CASE x = t.root
      BY <3>3, <2>2, <1>1, OfTree
    <3>4. CASE x # t.root
      <4> DEFINE p == t.parent[x]
      <4>1. p \in InUse(t) /\ x \in Kids(t, p)
        BY <3>4, <2>2, OfTree
      <4>2. Depth(t, x) = Depth(t, p) + 1
        BY <4>1, DepthOfChild
      <4>3. p \notin S
        BY <4>2, <3>1, <3>2
      <4> QED BY <4>3
    <3> QED BY <3>3, <3>4
  <2> QED BY <2>1, <2>2, <1>2
<1> QED BY <1>1, <1>2 DEF Acyclic

LEMMA ValidIsSturdy ==
  ASSUME NEW t, Tree(t), Unlinked(t), Leaves \subseteq InUse(t)
  PROVE  Sturdy(t)
<1>1. t.parent \in Parents /\ Acyclic(t.parent)
  BY ValidIsAcyclic
<1>2. t \in ForestType /\ t.root \in Node /\ Nil \notin Node
  BY NodesAssumption DEF Tree, TreeType, ForestType, Parents, Node
<1>3. ASSUME NEW x \in Node
      PROVE  /\ Distinct(t.kids[x])
             /\ \A c \in Node : t.parent[c] = x <=> c \in Kids(t, x)
             /\ t.type[x] = "free" => t.kids[x] = <<>> /\ t.parent[x] = Nil
             /\ t.type[x] = "leaf" => Len(t.kids[x]) <= (IF t.parent[x] = Nil THEN 1 ELSE 0)
  <2>1. CASE x \notin InUse(t)
    <3>1. t.type[x] = "free" /\ t.kids[x] = <<>> /\ t.parent[x] = Nil
      BY <2>1 DEF InUse, Unlinked
    <3>2. \A c \in Node : t.parent[c] # x
      <4> TAKE c \in Node
      <4>1. CASE c \in InUse(t)
        BY <4>1, <2>1, <1>2, OfTree
      <4>2. CASE c \notin InUse(t)
        BY <4>2, <1>2 DEF InUse, Unlinked
      <4> QED BY <4>1, <4>2
    <3>3. Kids(t, x) = {} /\ Distinct(t.kids[x])
      BY <3>1 DEF Kids, ToSet, Distinct
    <3> QED BY <3>1, <3>2, <3>3
  <2>2. CASE x \in InUse(t)
    <3>1. \A c \in Node : t.parent[c] = x => c \in Kids(t, x)
      <4> TAKE c \in Node
      <4>1. CASE c \in InUse(t)
        BY <4>1, <2>2, <1>2, OfTree
      <4>2. CASE c \notin InUse(t)
        BY <4>2, <1>2 DEF InUse, Unlinked
      <4> QED BY <4>1, <4>2
    <3>2. \A c \in Kids(t, x) : t.parent[c] = x
      BY <2>2, OfTree
    <3>3. Distinct(t.kids[x])
      BY <2>2, OfTree DEF Distinct
    <3>4. t.type[x] # "free"
      BY <2>2 DEF InUse
    <3>5. t.type[x] = "leaf" => Len(t.kids[x]) = (IF x = t.root THEN 1 ELSE 0)
      BY <2>2 DEF Tree, CheckValid
    <3>6. x = t.root <=> t.parent[x] = Nil
      BY <2>2, OfTree
    <3> QED BY <3>1, <3>2, <3>3, <3>4, <3>5, <3>6
  <2> QED BY <2>1, <2>2
<1>4. Forest(t)
  BY <1>1, <1>2, <1>3 DEF Forest, Arranged
<1>5. Tops(t) = {t.root}
  BY OfTree DEF Tops, Tree, CheckValid
<1>6. \A x \in Node : t.type[x] = "leaf" <=> x \in Leaves
  <2> TAKE x \in Node
  <2>1. CASE x \in InUse(t)
    BY <2>1, OfTree
  <2>2. CASE x \notin InUse(t)
    BY <2>2 DEF InUse
  <2> QED BY <2>1, <2>2
<1>7. \A x \in InUse(t) \cap Inner : Branches(t, x)
  <2> TAKE x \in InUse(t) \cap Inner
  <2>1. x \in Node /\ t.type[x] # "leaf"
    BY <1>6, NodesAssumption DEF Node
  <2>2. Degree(t, x) >= 3
    BY <2>1 DEF Tree, CheckValid
  <2> QED BY <2>1, <2>2, <1>4, DegreeThree
<1>8. t.root \in Leaves => HasKid(t, t.root)
  <2>1. t.root \in InUse(t)
    BY <1>5 DEF Tops
  <2>2. t.type[t.root] = "leaf" => Len(t.kids[t.root]) = 1
    BY <2>1 DEF Tree, CheckValid
  <2>3. HasKid(t, t.root) <=> Len(t.kids[t.root]) >= 1
    BY <1>2, <1>4, KidsCounted
  <2> QED BY <2>2, <2>3, <1>2, <1>6
<1> QED BY <1>4, <1>5, <1>6, <1>7, <1>8 DEF Sturdy

LEMMA SturdyFacts ==
  ASSUME NEW t, Sturdy(t)
  PROVE  /\ Forest(t) /\ t \in TreeType /\ t.parent \in Parents /\ Acyclic(t.parent)
         /\ t.root \in Node /\ t.root \in InUse(t) /\ t.parent[t.root] = Nil
         /\ \A x \in InUse(t) : t.parent[x] = Nil <=> x = t.root
         /\ Leaves \subseteq InUse(t)
<1>1. Forest(t) /\ t \in ForestType /\ t.parent \in Parents /\ Acyclic(t.parent)
  BY DEF Sturdy, Forest, ForestType
<1>2. /\ t.root \in InUse(t) /\ t.parent[t.root] = Nil
      /\ \A x \in InUse(t) : t.parent[x] = Nil <=> x = t.root
  BY DEF Sturdy, Tops
<1>3. t.root \in Node
  BY <1>2 DEF InUse
<1>4. t \in TreeType
  BY <1>1, <1>3 DEF ForestType, TreeType, Parents
<1>5. Leaves \subseteq InUse(t)
  BY DEF Sturdy, InUse, Node
<1> QED BY <1>1, <1>2, <1>3, <1>4, <1>5

\* The walk down comes to every node in as many levels as there are above it.
LEMMA LevelsCoverTree ==
  ASSUME NEW t, Sturdy(t)
  PROVE  InUse(t) \subseteq Levels(t)[Cardinality(Node)]
<1> DEFINE pa == t.parent
           N == Cardinality(Node)
           L == Levels(t)
           S == {x \in Node : x \in InUse(t) => x \in L[Cardinality(Up(pa, x))]}
<1>1. /\ pa \in Parents /\ Acyclic(pa) /\ t \in TreeType /\ N \in Nat /\ IsFiniteSet(Node)
      /\ t.root \in Node /\ t.parent[t.root] = Nil
      /\ \A x \in InUse(t) : pa[x] = Nil <=> x = t.root
  BY SturdyFacts, NodeIsFinite
<1>2. /\ L[0] = {t.root}
      /\ \A k \in Nat : L[k + 1] = L[k] \cup UNION {Kids(t, x) : x \in L[k]}
  BY <1>1, LevelsAre
<1>3. \A x \in Node : /\ IsFiniteSet(Up(pa, x)) /\ Cardinality(Up(pa, x)) \in Nat
                      /\ Cardinality(Up(pa, x)) <= N
  <2> TAKE x \in Node
  <2>1. Up(pa, x) \subseteq Node
    BY DEF Up
  <2> QED BY <2>1, <1>1, FS_Subset, FS_CardinalityType
<1>4. ASSUME NEW x \in Node, pa[x] = Nil \/ pa[x] \in S PROVE x \in S
  <2> SUFFICES ASSUME x \in InUse(t) PROVE x \in L[Cardinality(Up(pa, x))]
    OBVIOUS
  <2>1. CASE pa[x] = Nil
    <3>1. x = t.root
      BY <2>1, <1>1
    <3>2. Up(pa, x) = {x}
      BY <2>1, <1>1, UpIs
    <3>3. Cardinality(Up(pa, x)) = 1
      BY <3>2, FS_Singleton
    <3>4. L[0 + 1] = L[0] \cup UNION {Kids(t, y) : y \in L[0]}
      BY <1>2
    <3>5. 0 + 1 = 1
      OBVIOUS
    <3> QED BY <1>2, <3>1, <3>3, <3>4, <3>5
  <2>2. CASE pa[x] # Nil
    <3> DEFINE p == pa[x]
               k == Cardinality(Up(pa, p))
    <3>1. p \in Node /\ p \in InUse(t) /\ x \in Kids(t, p)
      BY <2>2, <1>1, SturdyFacts, ForestFacts DEF Parents
    <3>2. Up(pa, x) = {x} \cup Up(pa, p) /\ x \notin Up(pa, p)
      BY <2>2, <1>1, UpIs, NotAboveItself
    <3>3. k \in Nat /\ Cardinality(Up(pa, x)) = k + 1
      <4>1. IsFiniteSet(Up(pa, p)) /\ k \in Nat
        BY <3>1, <1>3
      <4>2. Up(pa, x) = Up(pa, p) \cup {x}
        BY <3>2
      <4> QED BY <3>2, <4>1, <4>2, FS_AddElement
    <3>4. p \in L[k]
      BY <3>1, <2>2, <1>4
    <3>5. L[k + 1] = L[k] \cup UNION {Kids(t, y) : y \in L[k]}
      BY <3>3, <1>2
    <3> HIDE DEF k, p, L, pa
    <3> QED BY <3>1, <3>3, <3>4, <3>5
  <2> QED BY <2>1, <2>2
<1>5. Node \subseteq S
  <2> HIDE DEF S, pa
  <2> QED BY <1>1, <1>4, FromTops
<1>6. ASSUME NEW k \in Nat PROVE \A j \in Nat : j <= k => L[j] \subseteq L[k]
  <2> DEFINE T == {n \in Nat : \A j \in Nat : j <= n => L[j] \subseteq L[n]}
  <2>1. 0 \in T
    BY SMT
  <2>2. ASSUME NEW n \in Nat, n \in T PROVE n + 1 \in T
    <3>1. L[n] \subseteq L[n + 1]
      BY <1>2
    <3>2. \A j \in Nat : j <= n + 1 => j <= n \/ j = n + 1
      OBVIOUS
    <3> HIDE DEF L
    <3> QED BY <2>2, <3>1, <3>2
  <2>3. Nat \subseteq T
    <3> HIDE DEF T
    <3> QED BY <2>1, <2>2, NatSetInduction
  <2> QED BY <2>3
<1>7. ASSUME NEW x \in InUse(t) PROVE x \in L[N]
  <2>1. x \in Node
    BY DEF InUse
  <2> DEFINE k == Cardinality(Up(pa, x))
  <2>2. x \in L[k] /\ k \in Nat /\ k <= N
    BY <1>3, <1>5, <2>1
  <2> HIDE DEF k, L, N
  <2> QED BY <1>1, <1>6, <2>2
<1> QED BY <1>7

LEMMA SturdyIsValid ==
  ASSUME NEW t, Sturdy(t)
  PROVE  Tree(t) /\ Unlinked(t) /\ Leaves \subseteq InUse(t)
<1>1. /\ t \in TreeType /\ Forest(t) /\ t \in ForestType /\ Arranged(t)
      /\ t.root \in Node /\ t.root \in InUse(t) /\ t.parent[t.root] = Nil
      /\ \A x \in InUse(t) : t.parent[x] = Nil <=> x = t.root
      /\ Leaves \subseteq InUse(t)
  BY SturdyFacts DEF Forest
<1>2. Unlinked(t)
  BY <1>1 DEF Arranged, Unlinked
<1>3. InUse(t) \subseteq Levels(t)[Cardinality(Node)]
  BY LevelsCoverTree
<1>4. ASSUME NEW x \in InUse(t)
      PROVE  /\ x # t.root => /\ t.parent[x] \in InUse(t)
                              /\ x \in ToSet(t.kids[t.parent[x]])
             /\ t.type[x] = "leaf" <=> x \in Leaves
             /\ IsInjective(t.kids[x])
             /\ \A c \in ToSet(t.kids[x]) : c \in InUse(t) /\ t.parent[c] = x
             /\ t.type[x] = "leaf" => Len(t.kids[x]) = (IF x = t.root THEN 1 ELSE 0)
             /\ t.type[x] # "leaf" => Degree(t, x) >= 3
  <2>1. x \in Node
    BY DEF InUse
  <2>2. x # t.root => t.parent[x] \in InUse(t) /\ x \in Kids(t, t.parent[x])
    BY <1>1, <2>1, ForestFacts
  <2>3. t.type[x] = "leaf" <=> x \in Leaves
    BY <2>1 DEF Sturdy
  <2>4. IsInjective(t.kids[x])
    BY <1>1, <2>1, DistinctIsInjective DEF Arranged
  <2>5. \A c \in Kids(t, x) : c \in InUse(t) /\ t.parent[c] = x
    BY <1>1, <2>1, ForestFacts
  <2>6. ASSUME t.type[x] = "leaf" PROVE Len(t.kids[x]) = (IF x = t.root THEN 1 ELSE 0)
    <3>1. Len(t.kids[x]) \in Nat /\ (HasKid(t, x) <=> Len(t.kids[x]) >= 1)
      BY <1>1, <2>1, KidsCounted
    <3>2. Len(t.kids[x]) <= (IF t.parent[x] = Nil THEN 1 ELSE 0)
      BY <1>1, <2>1, <2>6 DEF Arranged
    <3>3. x = t.root => HasKid(t, x)
      BY <2>3, <2>6 DEF Sturdy
    <3>4. t.parent[x] = Nil <=> x = t.root
      BY <1>1
    <3> QED BY ONLY <3>1, <3>2, <3>3, <3>4
  <2>7. ASSUME t.type[x] # "leaf" PROVE Degree(t, x) >= 3
    <3>1. x \in Inner
      BY <2>1, <2>3, <2>7 DEF Node
    <3>2. Branches(t, x)
      BY <3>1 DEF Sturdy
    <3> QED BY <1>1, <2>1, <3>2, DegreeThree
  <2> QED BY <2>2, <2>3, <2>4, <2>5, <2>6, <2>7 DEF Kids
<1>5. CheckValid(t)
  BY <1>1, <1>3, <1>4 DEF CheckValid
<1> QED BY <1>1, <1>2, <1>5 DEF Tree

\* changeRoot keeps every neighborhood.
LEMMA ChangeRootSturdy ==
  ASSUME NEW t, Sturdy(t), NEW x \in InUse(t), x # t.root, NEW mirrored,
         NEW u, u = ChangeRoot(t, x, mirrored)
  PROVE  Sturdy(u)
<1>1. x \in Node /\ Forest(t) /\ t.root \in Tops(t) /\ t.parent \in Parents /\ Acyclic(t.parent)
  BY SturdyFacts DEF InUse, Sturdy
<1>2. t.root \in Up(t.parent, x)
  <2>1. PICK y \in Up(t.parent, x) : t.parent[y] = Nil
    BY <1>1, OneTop
  <2>2. y \in InUse(t)
    BY <1>1, <2>1, InUseAbove
  <2> QED BY <2>1, <2>2, SturdyFacts
<1>3. /\ Forest(u) /\ u.root = x /\ u.type = t.type
      /\ Tops(u) = (Tops(t) \ {t.root}) \cup {x}
      /\ \A y, z \in Node : Adjacent(t, y, z) <=> Adjacent(u, y, z)
  BY <1>1, <1>2, ChangeRootIs DEF Adjacent
<1>4. Tops(u) = {u.root}
  BY <1>3 DEF Sturdy
<1>5. \A y \in Node : u.type[y] = "leaf" <=> y \in Leaves
  BY <1>3 DEF Sturdy
<1>6. \A y \in InUse(u) \cap Inner : Branches(u, y)
  <2> TAKE y \in InUse(u) \cap Inner
  <2>1. y \in InUse(t) \cap Inner /\ y \in Node
    BY <1>3 DEF InUse
  <2>2. Branches(t, y)
    BY <2>1 DEF Sturdy
  <2> QED BY <1>3, <2>1, <2>2 DEF Branches
<1>7. HasKid(u, x)
  <2>1. t.parent[x] # Nil /\ t.parent[x] \in Node
    BY <1>1, SturdyFacts, InUseFacts
  <2>2. Adjacent(u, x, t.parent[x])
    BY <1>1, <1>3, <2>1 DEF Adjacent
  <2>3. u.parent[x] = Nil
    BY <1>3 DEF Tops
  <2> QED BY <2>1, <2>2, <2>3 DEF Adjacent, HasKid
<1> QED BY <1>3, <1>4, <1>5, <1>6, <1>7 DEF Sturdy

(***************************************************************************)
(* Counting: a tree has fewer inner nodes than leaves.                     *)
(***************************************************************************)
\* Nodes above each other.
LEMMA OneAboveOther ==
  ASSUME NEW pa \in Parents, Acyclic(pa), NEW x \in Node, NEW y \in Node,
         x \in Up(pa, y), y \in Up(pa, x)
  PROVE  x = y
<1> SUFFICES ASSUME x # y PROVE FALSE
  OBVIOUS
<1>1. pa[x] # Nil /\ y \in Up(pa, pa[x])
  BY UpIs
<1>2. pa[x] \in Node /\ x \notin Up(pa, pa[x])
  BY <1>1, NotAboveItself
<1>3. Up(pa, y) \subseteq Up(pa, pa[x])
  BY <1>1, <1>2, UpTransitive
<1> QED BY <1>2, <1>3

Eldest(t) == {y \in Node : t.parent[y] # Nil /\ y = t.kids[t.parent[y]][1]}

\* The way from y down to the leaf l goes through eldest children only.
EldestWay(t, y, l) ==
  /\ l \in Leaves /\ y \in Up(t.parent, l)
  /\ \A z \in Up(t.parent, l) : z \in Up(t.parent, y) \/ z \in Eldest(t)

LEMMA EldestWayExists ==
  ASSUME NEW t, Sturdy(t), NEW x \in InUse(t)
  PROVE  \E l \in Leaves : EldestWay(t, x, l)
<1> DEFINE pa == t.parent
           S == {y \in Node : y \in InUse(t) => \E l \in Leaves : EldestWay(t, y, l)}
<1>1. pa \in Parents /\ Acyclic(pa) /\ Forest(t) /\ Nil \notin Node
  BY SturdyFacts, NodesAssumption DEF Node
<1>2. ASSUME NEW y \in Node, \A c \in Node : pa[c] = y => c \in S PROVE y \in S
  <2> SUFFICES ASSUME y \in InUse(t) PROVE \E l \in Leaves : EldestWay(t, y, l)
    OBVIOUS
  <2>1. CASE HasKid(t, y)
    <3> DEFINE c == t.kids[y][1]
    <3>1. c \in Node /\ pa[c] = y
      <4>1. Len(t.kids[y]) >= 1 /\ Len(t.kids[y]) \in Nat /\ Kids(t, y) = {d \in Node : pa[d] = y}
        BY <2>1, <1>1, KidsCounted
      <4>2. c \in Kids(t, y)
        BY <4>1, <1>1, ForestKids DEF Forest
      <4> QED BY <4>1, <4>2
    <3>2. c \in Eldest(t) /\ c \in InUse(t)
      BY <3>1, <1>1, InUseFacts DEF Eldest
    <3>3. PICK l \in Leaves : EldestWay(t, c, l)
      BY <3>1, <3>2, <1>2
    <3>4. y \in Up(pa, c) /\ Up(pa, c) = {c} \cup Up(pa, y)
      BY <3>1, <1>1, UpIs
    <3>5. l \in Node /\ y \in Up(pa, l)
      BY <3>3, <3>4, <1>1, UpTransitive DEF EldestWay, Node
    <3>6. \A z \in Up(pa, l) : z \in Up(pa, y) \/ z \in Eldest(t)
      BY <3>2, <3>3, <3>4 DEF EldestWay
    <3> QED BY <3>5, <3>6 DEF EldestWay
  <2>2. CASE ~HasKid(t, y)
    <3>1. y \in Leaves
      <4> SUFFICES ASSUME y \in Inner PROVE FALSE
        BY DEF Node
      <4>1. Branches(t, y)
        BY DEF Sturdy
      <4> QED BY <4>1, <2>2 DEF Branches, Adjacent, HasKid
    <3>2. EldestWay(t, y, y)
      BY <3>1, <1>1, UpIs DEF EldestWay
    <3> QED BY <3>1, <3>2
  <2> QED BY <2>1, <2>2
<1>3. Node \subseteq S
  <2> HIDE DEF S, pa
  <2> QED BY <1>1, <1>2, FromEnds
<1> QED BY <1>3 DEF InUse

LEMMA EldestWayIsOne ==
  ASSUME NEW t, Sturdy(t), NEW x \in Node, NEW y \in Node, NEW l, EldestWay(t, x, l),
         EldestWay(t, y, l), x \notin Eldest(t), y \notin Eldest(t)
  PROVE  x = y
<1>1. x \in Up(t.parent, y) /\ y \in Up(t.parent, x)
  BY DEF EldestWay
<1> QED BY <1>1, SturdyFacts, OneAboveOther

\* Every inner node has a child that is not the eldest.
LEMMA YoungerKid ==
  ASSUME NEW t, Sturdy(t), NEW x \in InUse(t) \cap Inner
  PROVE  \E c \in Node : t.parent[c] = x /\ c \notin Eldest(t)
<1>1. PICK a \in Node, b \in Node, c \in Node :
         /\ a # b /\ a # c /\ b # c
         /\ Adjacent(t, x, a) /\ Adjacent(t, x, b) /\ Adjacent(t, x, c)
  BY DEF Sturdy, Branches
<1>2. x \in Node /\ x # Nil
  BY NodesAssumption DEF Node
<1>3. PICK d \in Node, e \in Node : d # e /\ t.parent[d] = x /\ t.parent[e] = x
  BY <1>1 DEF Adjacent
<1> QED BY <1>2, <1>3 DEF Eldest

LEMMA TwoFreeNodes ==
  ASSUME NEW t, Sturdy(t), Cardinality(Leaves) < Cardinality(Inner)
  PROVE  \E a, b \in Inner : a # b /\ t.type[a] = "free" /\ t.type[b] = "free"
<1> DEFINE I == InUse(t) \cap Inner
           H(x, l) == \E c \in Node : /\ c \notin Eldest(t) /\ EldestWay(t, c, l)
                                      /\ t.parent[c] = x
           h == [x \in I \cup {Nil} |-> CHOOSE l \in Leaves : H(x, l)]
<1>1. /\ Nil \notin Node /\ I \subseteq Node /\ Nil \notin I
      /\ IsFiniteSet(Leaves) /\ IsFiniteSet(Inner) /\ IsFiniteSet(I)
  BY NodesAssumption, FS_Intersection DEF Node
<1>2. ASSUME NEW x \in I \cup {Nil} PROVE h[x] \in Leaves /\ H(x, h[x])
  <2>1. \E c \in InUse(t) : c \notin Eldest(t) /\ t.parent[c] = x
    <3>1. CASE x = Nil
      BY <3>1, SturdyFacts DEF Eldest
    <3>2. CASE x \in I
      <4>1. PICK c \in Node : t.parent[c] = x /\ c \notin Eldest(t)
        BY <3>2, YoungerKid
      <4>2. c \in InUse(t)
        BY <4>1, <3>2, <1>1, SturdyFacts, InUseFacts
      <4> QED BY <4>1, <4>2
    <3> QED BY <3>1, <3>2
  <2>2. PICK c \in InUse(t) : c \notin Eldest(t) /\ t.parent[c] = x
    BY <2>1
  <2>3. PICK l \in Leaves : EldestWay(t, c, l)
    BY <2>2, EldestWayExists
  <2>4. c \in Node
    BY DEF InUse
  <2>5. H(x, l)
    BY <2>2, <2>3, <2>4
  <2> HIDE DEF H
  <2> QED BY <2>5
<1>3. \A x, y \in I \cup {Nil} : h[x] = h[y] => x = y
  <2> TAKE x \in I \cup {Nil}, y \in I \cup {Nil}
  <2> HAVE h[x] = h[y]
  <2>1. H(x, h[x]) /\ H(y, h[x])
    BY <1>2
  <2> HIDE DEF h
  <2>2. PICK c \in Node : c \notin Eldest(t) /\ EldestWay(t, c, h[x]) /\ t.parent[c] = x
    BY <2>1
  <2>3. PICK d \in Node : d \notin Eldest(t) /\ EldestWay(t, d, h[x]) /\ t.parent[d] = y
    BY <2>1
  <2>4. c = d
    BY <2>2, <2>3, EldestWayIsOne
  <2> QED BY <2>2, <2>3, <2>4
<1>4. h \in [I \cup {Nil} -> Leaves]
  BY <1>2
<1>5. IsFiniteSet(I \cup {Nil}) /\ Cardinality(I \cup {Nil}) = Cardinality(I) + 1
  BY <1>1, FS_AddElement
<1>6. Cardinality(I \cup {Nil}) <= Cardinality(Leaves)
  <2>1. Cardinality(Leaves) \in Nat /\ Cardinality(I \cup {Nil}) \in Nat
    BY <1>1, <1>5, FS_CardinalityType
  <2>2. ASSUME Cardinality(Leaves) < Cardinality(I \cup {Nil}) PROVE FALSE
    <3> DEFINE K == I \cup {Nil}
    <3> HIDE DEF h, I, K
    <3>1. \E x, y \in K : x # y /\ h[x] = h[y]
      BY <2>2, <1>1, <1>4, <1>5, FS_PigeonHole DEF K
    <3> QED BY <3>1, <1>3 DEF K
  <2> QED BY <2>1, <2>2
<1> DEFINE F == Inner \ I
<1>7. /\ IsFiniteSet(F) /\ Cardinality(F) = Cardinality(Inner) - Cardinality(Inner \cap I)
      /\ Inner \cap I = I
  BY <1>1, FS_Difference
<1>8. Cardinality(F) >= 2
  <2>1. Cardinality(Leaves) \in Nat /\ Cardinality(I) \in Nat /\ Cardinality(Inner) \in Nat
    BY <1>1, FS_CardinalityType
  <2>2. Cardinality(F) = Cardinality(Inner) - Cardinality(I)
    BY <1>7
  <2> HIDE DEF F, I
  <2> QED BY <2>1, <2>2, <1>5, <1>6
<1>9. PICK a \in F : TRUE
  BY <1>7, <1>8, FS_EmptySet
<1>10. Cardinality(F \ {a}) >= 1 /\ IsFiniteSet(F \ {a})
  <2> HIDE DEF F
  <2>1. IsFiniteSet(F \ {a}) /\ Cardinality(F \ {a}) = Cardinality(F) - 1
    BY <1>7, <1>9, FS_RemoveElement
  <2>2. Cardinality(F) \in Nat
    BY <1>7, FS_CardinalityType
  <2> QED BY <2>1, <2>2, <1>8
<1>11. PICK b \in F \ {a} : TRUE
  BY <1>10, FS_EmptySet
<1> QED BY <1>9, <1>11 DEF InUse, Node

(***************************************************************************)
(* A node is hung in below another; some children move below a new node.   *)
(***************************************************************************)
\* When the children and the parents of a forest have been changed alike.
LEMMA ForestAgain ==
  ASSUME NEW t, Forest(t), NEW u \in ForestType, u.type = t.type, Acyclic(u.parent),
         \A x \in Node : Distinct(u.kids[x]),
         \A x, c \in Node : u.parent[c] = x <=> c \in Kids(u, x),
         \A x \in Node : u.parent[x] # Nil => x \in InUse(t) /\ u.parent[x] \in InUse(t),
         \A x \in Node : t.type[x] = "leaf" =>
           u.kids[x] = <<>> \/ (u.kids[x] = t.kids[x] /\ u.parent[x] = t.parent[x])
  PROVE  Forest(u)
<1> SUFFICES ASSUME NEW x \in Node
    PROVE  /\ u.type[x] = "free" => u.kids[x] = <<>> /\ u.parent[x] = Nil
           /\ u.type[x] = "leaf" => Len(u.kids[x]) <= (IF u.parent[x] = Nil THEN 1 ELSE 0)
  BY DEF Forest, Arranged
<1>1. u.type[x] = "free" => u.kids[x] = <<>> /\ u.parent[x] = Nil
  <2> SUFFICES ASSUME u.type[x] = "free" PROVE u.kids[x] = <<>> /\ u.parent[x] = Nil
    OBVIOUS
  <2>1. x \notin InUse(t) /\ x # Nil
    BY NodesAssumption DEF InUse, Node
  <2>2. u.parent[x] = Nil /\ \A c \in Node : u.parent[c] # x
    BY <2>1
  <2>3. Kids(u, x) = {}
    BY <2>2, ForestKids
  <2> QED BY <2>2, <2>3, ForestKids
<1>2. u.type[x] = "leaf" => Len(u.kids[x]) <= (IF u.parent[x] = Nil THEN 1 ELSE 0)
  <2>1. t.type[x] = "leaf" => Len(t.kids[x]) <= (IF t.parent[x] = Nil THEN 1 ELSE 0)
    BY DEF Forest, Arranged
  <2>2. u.kids[x] = <<>> => Len(u.kids[x]) = 0
    BY ForestKids
  <2> QED BY <2>1, <2>2
<1> QED BY <1>1, <1>2

\* u is t with the top c hung below p.
Hangs(t, u, p, c) ==
  /\ Forest(u) /\ u.root = t.root /\ u.type = t.type /\ Tops(u) = Tops(t) \ {c}
  /\ u.parent[c] = p
  /\ \A x \in Node : x # c => u.parent[x] = t.parent[x]

\* A top that may hang below p.
MayHang(t, p, c) ==
  /\ p \in InUse(t) /\ t.type[p] # "leaf" /\ c \in Tops(t) /\ c \notin Up(t.parent, p)
  /\ t.type[c] = "leaf" => t.kids[c] = <<>>

HungWith(t, p, c, w) == [t EXCEPT !.parent[c] = p, !.kids[p] = w]

LEMMA HungIs ==
  ASSUME NEW t, Forest(t), NEW p, NEW c, MayHang(t, p, c),
         NEW w \in Seq(Node), Distinct(w), ToSet(w) = Kids(t, p) \cup {c},
         NEW u, u = HungWith(t, p, c, w)
  PROVE  Hangs(t, u, p, c)
<1> DEFINE pa == [t.parent EXCEPT ![c] = p]
           ki == [t.kids EXCEPT ![p] = w]
<1>1. /\ t \in ForestType /\ Arranged(t) /\ Acyclic(t.parent) /\ t.parent \in Parents
      /\ p \in Node /\ c \in Node /\ t.parent[c] = Nil /\ Nil \notin Node /\ c \in InUse(t)
      /\ p \in InUse(t) /\ c \notin Up(t.parent, p)
  BY NodesAssumption DEF Forest, ForestType, InUse, Tops, Node, MayHang
<1>2. c # p
  BY <1>1, UpIs
<1>4. u = [t EXCEPT !.parent = pa, !.kids = ki]
  BY DEF HungWith, ki, pa
<1>5. pa \in Parents /\ Acyclic(pa)
  BY <1>1, OneMoreEdge
<1>6. /\ ki \in [Node -> Seq(Node)] /\ ki[p] = w
      /\ \A x \in Node : /\ x # p => ki[x] = t.kids[x]
                         /\ pa[x] = IF x = c THEN p ELSE t.parent[x]
  BY <1>1 DEF ForestType, Parents
<1> HIDE DEF pa, ki
<1>7. u \in ForestType /\ u.root = t.root /\ u.type = t.type /\ u.parent = pa /\ u.kids = ki
  BY <1>1, <1>4, <1>5, <1>6 DEF ForestType
<1>8. /\ Kids(u, p) = Kids(t, p) \cup {c}
      /\ \A x \in Node : x # p => Kids(u, x) = Kids(t, x)
  BY <1>1, <1>6, <1>7 DEF Kids
<1>9. \A x \in Node : Distinct(u.kids[x])
  BY ZenonT(40), <1>1, <1>6, <1>7 DEF Arranged
<1>10. ASSUME NEW x \in Node, NEW y \in Node PROVE u.parent[y] = x <=> y \in Kids(u, x)
  <2>1. t.parent[y] = x <=> y \in Kids(t, x)
    BY <1>1 DEF Arranged
  <2>2. x # Nil /\ t.parent[c] = Nil /\ (y \in Kids(u, x) <=> y \in Kids(t, x) \/ (x = p /\ y = c))
    BY <1>1, <1>8
  <2>3. u.parent[y] = IF y = c THEN p ELSE t.parent[y]
    BY <1>6, <1>7
  <2> QED BY <2>1, <2>2, <2>3
<1>11. \A x \in Node : u.parent[x] # Nil => x \in InUse(t) /\ u.parent[x] \in InUse(t)
  BY <1>1, <1>6, <1>7, InUseFacts
<1>12. \A x \in Node : t.type[x] = "leaf" =>
         u.kids[x] = <<>> \/ (u.kids[x] = t.kids[x] /\ u.parent[x] = t.parent[x])
  <2>1. t.type[p] # "leaf" /\ (t.type[c] = "leaf" => t.kids[c] = <<>>)
    BY DEF MayHang
  <2> QED BY <1>2, <1>6, <1>7, <2>1
<1>13. Forest(u)
  BY <1>5, <1>7, <1>9, <1>10, <1>11, <1>12, ForestAgain
<1>14. Tops(u) = Tops(t) \ {c}
  <2>1. \A x \in Node : u.parent[x] = Nil <=> t.parent[x] = Nil /\ x # c
    BY <1>1, <1>6, <1>7
  <2>2. InUse(u) = InUse(t)
    BY <1>7 DEF InUse
  <2> QED BY <2>1, <2>2 DEF Tops, InUse
<1> QED BY <1>1, <1>6, <1>7, <1>13, <1>14 DEF Hangs

\* A node becomes the first or the last child.
LEMMA AppendEndIs ==
  ASSUME NEW t, Forest(t), NEW p, NEW c, MayHang(t, p, c), NEW begin,
         NEW u, u = AppendChild(t, p, c, begin)
  PROVE  Hangs(t, u, p, c)
<1> DEFINE w == IF begin THEN <<c>> \o t.kids[p] ELSE Append(t.kids[p], c)
           d == <<c>>
<1>1. /\ t \in ForestType /\ Arranged(t) /\ p \in Node /\ c \in Node /\ t.parent[c] = Nil /\ Nil \notin Node
  BY NodesAssumption DEF Forest, ForestType, InUse, Tops, Node, MayHang
<1>2. /\ t.kids[p] \in Seq(Node) /\ Distinct(t.kids[p]) /\ c \notin ToSet(t.kids[p])
      /\ Kids(t, p) = ToSet(t.kids[p])
  BY <1>1, ForestKids DEF Arranged, Kids
<1>3. d \in Seq(Node) /\ Distinct(d) /\ ToSet(d) = {c}
  BY <1>1 DEF Distinct, ToSet
<1>4. u = HungWith(t, p, c, w)
  BY <1>1 DEF HungWith, AppendChild, ForestType
<1> HIDE DEF d
<1>5. w \in Seq(Node) /\ Distinct(w) /\ ToSet(w) = Kids(t, p) \cup {c}
  <2>1. CASE begin
    <3>1. ToSet(d) \cap ToSet(t.kids[p]) = {}
      BY <1>2, <1>3
    <3>2. /\ d \o t.kids[p] \in Seq(Node) /\ Distinct(d \o t.kids[p])
          /\ ToSet(d \o t.kids[p]) = ToSet(d) \cup ToSet(t.kids[p])
      BY ONLY <1>2, <1>3, <3>1, ConcatDistinct
    <3>3. w = d \o t.kids[p]
      BY <2>1 DEF d
    <3> QED BY ONLY <1>2, <1>3, <3>2, <3>3
  <2>2. CASE ~begin
    <3>1. /\ Append(t.kids[p], c) \in Seq(Node) /\ Distinct(Append(t.kids[p], c))
          /\ ToSet(Append(t.kids[p], c)) = ToSet(t.kids[p]) \cup {c}
      BY <1>1, <1>2, AppendDistinct
    <3>2. w = Append(t.kids[p], c)
      BY <2>2
    <3> QED BY ONLY <1>2, <3>1, <3>2
  <2> QED BY <2>1, <2>2
<1> HIDE DEF w
<1> QED BY <1>4, <1>5, HungIs

\* Where insertBetween hangs a node.
BetweenBelow(t, sib1, sib2) ==
  LET p == t.parent[sib1]
  IN  IF p # Nil /\ (t.parent[sib2] = p \/ t.parent[p] = sib2) THEN p ELSE t.parent[sib2]

LEMMA InsertBetweenIs ==
  ASSUME NEW t, Forest(t), NEW sib1 \in Node, NEW sib2 \in Node, NEW x,
         NEW q, q = BetweenBelow(t, sib1, sib2), q # Nil, MayHang(t, q, x),
         NEW u, u = InsertBetween(t, x, sib1, sib2)
  PROVE  Hangs(t, u, q, x)
<1> DEFINE p == t.parent[sib1]
           i == PositionOf(t.kids[p], sib1)
           j == PositionOf(t.kids[p], sib2)
           k == IF i < j THEN j ELSE i
           w == InsertAt(t.kids[p], k, x)
           next == j = i + 1 \/ i = j + 1
<1>1. CASE p # Nil /\ t.parent[sib2] = p /\ next
  <2>1. q = p
    BY <1>1 DEF BetweenBelow
  <2>2. /\ t \in ForestType /\ Arranged(t) /\ p \in Node /\ x \in Node /\ t.parent[x] = Nil
        /\ Nil \notin Node
    BY <2>1, NodesAssumption DEF Forest, ForestType, InUse, Tops, Node, MayHang
  <2>3. /\ t.kids[p] \in Seq(Node) /\ Distinct(t.kids[p]) /\ x \notin ToSet(t.kids[p])
        /\ sib1 \in ToSet(t.kids[p]) /\ sib2 \in ToSet(t.kids[p])
    BY <1>1, <2>2, ForestKids DEF Arranged, Kids
  <2>4. i \in DOMAIN t.kids[p] /\ j \in DOMAIN t.kids[p]
    BY <2>3, PositionIs
  <2>5. k \in 1..Len(t.kids[p])
    BY <2>3, <2>4
  <2>6. u = HungWith(t, p, x, w)
    <3>1. u = [t EXCEPT !.parent[x] = p, !.kids[p] = InsertAt(@, k, x)]
      BY <1>1 DEF InsertBetween
    <3> QED BY <2>2, <3>1 DEF HungWith, ForestType
  <2> HIDE DEF k, i, j
  <2>7. w \in Seq(Node) /\ Distinct(w) /\ ToSet(w) = Kids(t, p) \cup {x}
    <3>1. w = InsertAt(t.kids[p], k, x)
      OBVIOUS
    <3> HIDE DEF w
    <3> QED BY <2>2, <2>3, <2>5, <3>1, InsertDistinct DEF Kids
  <2> HIDE DEF w
  <2>8. Hangs(t, u, p, x)
    <3>1. MayHang(t, p, x)
      BY <2>1
    <3> HIDE DEF p
    <3> QED BY ONLY Forest(t), <2>6, <2>7, <3>1, HungIs
  <2> QED BY <2>1, <2>8
<1>2. CASE p # Nil /\ (t.parent[sib2] = p \/ t.parent[p] = sib2) /\ ~(t.parent[sib2] = p /\ next)
  <2>1. q = p
    BY <1>2 DEF BetweenBelow
  <2>2. u = AppendBeside(t, p, x, sib1)
    BY <1>2 DEF InsertBetween
  <2>3. u = AppendChild(t, q, x, sib1 = Head(t.kids[p]))
    BY <2>1, <2>2 DEF AppendBeside
  <2> QED BY ONLY Forest(t), MayHang(t, q, x), <2>3, AppendEndIs
<1>3. CASE ~(p # Nil /\ (t.parent[sib2] = p \/ t.parent[p] = sib2))
  <2>1. q = t.parent[sib2]
    BY <1>3 DEF BetweenBelow
  <2>2. u = AppendBeside(t, t.parent[sib2], x, sib2)
    BY <1>3 DEF InsertBetween
  <2>3. u = AppendChild(t, q, x, sib2 = Head(t.kids[t.parent[sib2]]))
    BY <2>1, <2>2 DEF AppendBeside
  <2> QED BY ONLY Forest(t), MayHang(t, q, x), <2>3, AppendEndIs
<1> HIDE DEF next, p
<1> QED BY <1>1, <1>2, <1>3

\* The children of x in another order.
LEMMA ReorderedIs ==
  ASSUME NEW t, Forest(t), NEW x \in Node, NEW w \in Seq(Node), Distinct(w), ToSet(w) = Kids(t, x),
         t.type[x] # "leaf", NEW u, u = [t EXCEPT !.kids[x] = w]
  PROVE  /\ Forest(u) /\ u.root = t.root /\ u.type = t.type /\ u.parent = t.parent
         /\ Tops(u) = Tops(t)
<1> DEFINE ki == [t.kids EXCEPT ![x] = w]
<1>1. /\ t \in ForestType /\ Arranged(t) /\ Acyclic(t.parent)
  BY DEF Forest
<1>2. u = [t EXCEPT !.kids = ki]
  OBVIOUS
<1>3. ki \in [Node -> Seq(Node)] /\ ki[x] = w /\ \A y \in Node : y # x => ki[y] = t.kids[y]
  BY <1>1 DEF ForestType
<1> HIDE DEF ki
<1>4. u \in ForestType /\ u.root = t.root /\ u.type = t.type /\ u.parent = t.parent /\ u.kids = ki
  BY <1>1, <1>2, <1>3 DEF ForestType
<1>5. \A y \in Node : Kids(u, y) = Kids(t, y)
  BY <1>3, <1>4 DEF Kids
<1>6. \A y \in Node : Distinct(u.kids[y])
  BY <1>1, <1>3, <1>4 DEF Arranged
<1>7. \A y, c \in Node : u.parent[c] = y <=> c \in Kids(u, y)
  BY <1>1, <1>4, <1>5 DEF Arranged
<1>8. \A y \in Node : u.parent[y] # Nil => y \in InUse(t) /\ u.parent[y] \in InUse(t)
  BY <1>4, InUseFacts
<1>9. \A y \in Node : t.type[y] = "leaf" =>
         u.kids[y] = <<>> \/ (u.kids[y] = t.kids[y] /\ u.parent[y] = t.parent[y])
  BY <1>3, <1>4
<1>10. Forest(u)
  BY ZenonT(40), <1>1, <1>4, <1>6, <1>7, <1>8, <1>9, ForestAgain
<1> QED BY <1>4, <1>10 DEF Tops, InUse

\* Some of the children of x are given to n, which had none.
Moved(t, x, n, moved, rest) ==
  [t EXCEPT !.kids   = [@ EXCEPT ![n] = moved, ![x] = rest],
            !.parent = [c \in Node |-> IF c \in ToSet(moved) THEN n ELSE @[c]]]

LEMMA MovedIs ==
  ASSUME NEW t, Forest(t), NEW x \in InUse(t), NEW n \in Tops(t), n # x, t.kids[n] = <<>>,
         t.type[x] # "leaf", t.type[n] # "leaf",
         NEW moved \in Seq(Node), Distinct(moved), ToSet(moved) \subseteq Kids(t, x),
         NEW rest \in Seq(Node), Distinct(rest), ToSet(rest) = Kids(t, x) \ ToSet(moved),
         NEW u, u = Moved(t, x, n, moved, rest)
  PROVE  /\ Forest(u) /\ u.root = t.root /\ u.type = t.type /\ Tops(u) = Tops(t)
         /\ \A c \in Node : u.parent[c] = IF c \in ToSet(moved) THEN n ELSE t.parent[c]
         /\ u.kids[n] = moved /\ u.kids[x] = rest
<1> DEFINE M == ToSet(moved)
           pa == [c \in Node |-> IF c \in M THEN n ELSE t.parent[c]]
           ki == [t.kids EXCEPT ![n] = moved, ![x] = rest]
<1>1. /\ t \in ForestType /\ Arranged(t) /\ Acyclic(t.parent) /\ t.parent \in Parents
      /\ x \in Node /\ n \in Node /\ t.parent[n] = Nil /\ Nil \notin Node
      /\ x \in InUse(t) /\ n \in InUse(t)
  BY NodesAssumption DEF Forest, ForestType, InUse, Tops, Node
<1>2. u = [t EXCEPT !.kids = ki, !.parent = pa] /\ M = ToSet(moved)
  BY <1>1 DEF Moved
<1>3. /\ M \subseteq Node /\ n \notin M
      /\ \A c \in M : t.parent[c] = x /\ c \in InUse(t)
  BY <1>1, InUseFacts, ForestKids DEF Arranged
<1>4. /\ ki \in [Node -> Seq(Node)] /\ ki[n] = moved /\ ki[x] = rest
      /\ \A y \in Node : y # n /\ y # x => ki[y] = t.kids[y]
  BY <1>1 DEF ForestType
<1>5. pa \in Parents /\ \A c \in Node : pa[c] = IF c \in M THEN n ELSE t.parent[c]
  BY <1>1 DEF Parents
<1> HIDE DEF M, pa, ki
<1>6. Acyclic(pa)
  <2> SUFFICES ASSUME NEW S \in SUBSET Node, S # {} PROVE \E z \in S : pa[z] \notin S
    BY DEF Acyclic
  <2>1. CASE n \in S
    BY <1>1, <1>3, <1>5, <2>1
  <2>2. CASE n \notin S
    <3>1. PICK z \in S : t.parent[z] \notin S
      BY <1>1 DEF Acyclic
    <3> QED BY <1>5, <2>2, <3>1
  <2> QED BY <2>1, <2>2
<1>7. u \in ForestType /\ u.root = t.root /\ u.type = t.type /\ u.parent = pa /\ u.kids = ki
  BY <1>1, <1>2, <1>4, <1>5 DEF ForestType
<1>8. /\ Kids(u, n) = M /\ Kids(u, x) = Kids(t, x) \ M
      /\ \A y \in Node : y # n /\ y # x => Kids(u, y) = Kids(t, y)
  BY <1>1, <1>2, <1>4, <1>7 DEF Kids
<1>9. \A y \in Node : Distinct(u.kids[y])
  <2>1. \A y \in Node : Distinct(t.kids[y])
    BY <1>1 DEF Arranged
  <2>2. \A y \in Node : u.kids[y] = moved \/ u.kids[y] = rest \/ u.kids[y] = t.kids[y]
    BY <1>4, <1>7
  <2> QED BY ONLY <2>1, <2>2, Distinct(moved), Distinct(rest)
<1>10. ASSUME NEW y \in Node, NEW c \in Node PROVE u.parent[c] = y <=> c \in Kids(u, y)
  <2>1. (t.parent[c] = y <=> c \in Kids(t, y)) /\ (t.parent[c] = x <=> c \in Kids(t, x))
    BY <1>1 DEF Arranged
  <2>2. t.parent[c] = n => FALSE
    <3>1. Kids(t, n) = {}
      BY <1>1, ForestKids
    <3> QED BY <1>1, <3>1 DEF Arranged
  <2>3. u.parent[c] = IF c \in M THEN n ELSE t.parent[c]
    BY <1>5, <1>7
  <2>4. /\ y = n => (c \in Kids(u, y) <=> c \in M)
        /\ y = x => (c \in Kids(u, y) <=> c \in Kids(t, x) /\ c \notin M)
        /\ y # n /\ y # x => (c \in Kids(u, y) <=> c \in Kids(t, y))
    BY <1>8
  <2> QED BY <1>3, <2>1, <2>2, <2>3, <2>4
<1>11. \A y \in Node : u.parent[y] # Nil => y \in InUse(t) /\ u.parent[y] \in InUse(t)
  BY <1>1, <1>3, <1>5, <1>7, InUseFacts
<1>12. \A y \in Node : t.type[y] = "leaf" =>
         u.kids[y] = <<>> \/ (u.kids[y] = t.kids[y] /\ u.parent[y] = t.parent[y])
  <2> SUFFICES ASSUME NEW y \in Node, t.type[y] = "leaf"
      PROVE u.kids[y] = <<>> \/ (u.kids[y] = t.kids[y] /\ u.parent[y] = t.parent[y])
    OBVIOUS
  <2>1. y # n /\ y # x /\ u.kids[y] = t.kids[y]
    BY <1>4, <1>7
  <2>2. y \notin M => u.parent[y] = t.parent[y]
    BY <1>5, <1>7
  <2>3. y \in M => t.parent[y] # Nil
    BY <1>1, <1>3
  <2>4. t.parent[y] # Nil => t.kids[y] = <<>>
    <3>1. Len(t.kids[y]) <= (IF t.parent[y] = Nil THEN 1 ELSE 0)
      BY <1>1 DEF Arranged
    <3> QED BY <1>1, <3>1, ForestKids
  <2> QED BY <2>1, <2>2, <2>3, <2>4
<1>13. Forest(u)
  BY <1>6, <1>7, <1>9, <1>10, <1>11, <1>12, ForestAgain
<1>14. Tops(u) = Tops(t)
  <2>1. \A y \in Node : u.parent[y] = Nil <=> t.parent[y] = Nil
    BY <1>1, <1>3, <1>5, <1>7
  <2>2. InUse(u) = InUse(t)
    BY <1>7 DEF InUse
  <2> QED BY <2>1, <2>2 DEF Tops, InUse
<1> QED BY <1>2, <1>4, <1>5, <1>7, <1>13, <1>14

(***************************************************************************)
(* A node gives its children to its parent (mergeIntoParent).              *)
(***************************************************************************)
\* The children of x take its place.
LEMMA MergeIntoParentIs ==
  ASSUME NEW t, Forest(t), NEW x \in Node, NEW p, p = t.parent[x], p # Nil,
         t.type[x] # "leaf", t.type[p] # "leaf", NEW next2,
         NEW u, u = MergeIntoParent(t, x, next2)
  PROVE  /\ Forest(u) /\ u.root = t.root /\ u.type = t.type /\ Tops(u) = Tops(t) \cup {x}
         /\ u.parent[x] = Nil /\ u.kids[x] = <<>>
         /\ \A c \in Node : c # x => u.parent[c] = IF t.parent[c] = x THEN p ELSE t.parent[c]
<1> DEFINE i == PositionOf(t.kids[p], x)
           mid == IF RingAt(Neighbors(t, p), PositionOf(Neighbors(t, p), x) + 1) = next2
                  THEN t.kids[x] ELSE Reverse(t.kids[x])
           w == SubSeq(t.kids[p], 1, i - 1) \o mid \o SubSeq(t.kids[p], i + 1, Len(t.kids[p]))
           pa == [c \in Node |-> IF c = x THEN Nil ELSE IF t.parent[c] = x THEN p ELSE t.parent[c]]
           ki == [t.kids EXCEPT ![p] = w, ![x] = <<>>]
<1>1. /\ t \in ForestType /\ Arranged(t) /\ Acyclic(t.parent) /\ t.parent \in Parents
      /\ x \in Node /\ p \in Node /\ Nil \notin Node /\ x # p
      /\ x \in InUse(t) /\ p \in InUse(t) /\ x \in Kids(t, p) /\ t.parent[p] # x
  BY NodesAssumption, InUseFacts, ForestFacts DEF Forest, ForestType, Node
<1>2. /\ t.kids[p] \in Seq(Node) /\ Distinct(t.kids[p]) /\ Kids(t, p) = ToSet(t.kids[p])
      /\ t.kids[x] \in Seq(Node) /\ Distinct(t.kids[x]) /\ Kids(t, x) = ToSet(t.kids[x])
      /\ Kids(t, x) \cap Kids(t, p) = {}
  <2>1. \A y \in {p, x} : t.kids[y] \in Seq(Node) /\ Distinct(t.kids[y])
    BY ONLY <1>1, ForestKids DEF Arranged
  <2>2. \A c \in Node : (c \in Kids(t, x) => t.parent[c] = x) /\ (c \in Kids(t, p) => t.parent[c] = p)
    BY ONLY <1>1 DEF Arranged
  <2>3. Kids(t, x) \subseteq Node
    BY ONLY <1>1, ForestKids
  <2> QED BY ONLY <1>1, <2>1, <2>2, <2>3 DEF Kids
<1>3. mid \in Seq(Node) /\ Distinct(mid) /\ ToSet(mid) = Kids(t, x)
  <2>1. Reverse(t.kids[x]) \in Seq(Node) /\ Distinct(Reverse(t.kids[x]))
        /\ ToSet(Reverse(t.kids[x])) = ToSet(t.kids[x])
    BY ONLY <1>2, ReverseDistinct
  <2>2. mid = t.kids[x] \/ mid = Reverse(t.kids[x])
    OBVIOUS
  <2> HIDE DEF mid
  <2> QED BY ONLY <1>2, <2>1, <2>2
<1>4. u = [t EXCEPT !.kids = ki, !.parent = pa]
  <2>1. u = [t EXCEPT !.parent = pa, !.kids[p] = w, !.kids[x] = <<>>]
    BY DEF MergeIntoParent
  <2> HIDE DEF w, pa
  <2> QED BY <1>1, <2>1 DEF ForestType
<1>5. i = PositionOf(t.kids[p], x)
      /\ w = SubSeq(t.kids[p], 1, i - 1) \o mid \o SubSeq(t.kids[p], i + 1, Len(t.kids[p]))
  OBVIOUS
<1> HIDE DEF i, mid, w
<1>6. w \in Seq(Node) /\ Distinct(w) /\ ToSet(w) = (Kids(t, p) \ {x}) \cup Kids(t, x)
  <2>1. x \in ToSet(t.kids[p]) /\ ToSet(mid) \cap ToSet(t.kids[p]) = {}
    BY <1>1, <1>2, <1>3
  <2>2. w \in Seq(Node) /\ Distinct(w) /\ ToSet(w) = (ToSet(t.kids[p]) \ {x}) \cup ToSet(mid)
    <3> DEFINE ps == t.kids[p]
    <3>1. /\ ps \in Seq(Node) /\ Distinct(ps) /\ x \in ToSet(ps) /\ ToSet(mid) \cap ToSet(ps) = {}
          /\ i = PositionOf(ps, x) /\ w = Spliced(ps, i, mid)
      BY ONLY <1>2, <1>5, <2>1 DEF Spliced
    <3> HIDE DEF ps
    <3>2. w \in Seq(Node) /\ Distinct(w) /\ ToSet(w) = (ToSet(ps) \ {x}) \cup ToSet(mid)
      <4>1. /\ ps \in Seq(Node) /\ Distinct(ps) /\ x \in ToSet(ps) /\ i = PositionOf(ps, x)
            /\ mid \in Seq(Node) /\ Distinct(mid) /\ ToSet(mid) \cap ToSet(ps) = {}
            /\ w = Spliced(ps, i, mid)
        BY ONLY <1>3, <3>1
      <4> QED BY ONLY <4>1, SpliceDistinct
    <3> QED BY ONLY <3>2 DEF ps
  <2> QED BY ONLY <2>2, <1>2, <1>3
<1>7. /\ ki \in [Node -> Seq(Node)] /\ ki[p] = w /\ ki[x] = <<>>
      /\ \A y \in Node : y # p /\ y # x => ki[y] = t.kids[y]
  <2> DEFINE e == <<>>
  <2>1. e \in Seq(Node) /\ w \in Seq(Node) /\ t.kids \in [Node -> Seq(Node)]
        /\ ki = [t.kids EXCEPT ![p] = w, ![x] = e]
    BY <1>1, <1>6 DEF ForestType
  <2>2. e = <<>>
    OBVIOUS
  <2> HIDE DEF e, ki
  <2>3. /\ ki \in [Node -> Seq(Node)] /\ ki[p] = w /\ ki[x] = e
        /\ \A y \in Node : y # p /\ y # x => ki[y] = t.kids[y]
    BY ONLY <1>1, <2>1
  <2> QED BY ONLY <2>2, <2>3
<1>8. /\ pa \in Parents
      /\ \A c \in Node : pa[c] = IF c = x THEN Nil ELSE IF t.parent[c] = x THEN p ELSE t.parent[c]
  BY <1>1 DEF Parents
<1> HIDE DEF pa, ki
<1>9. Acyclic(pa)
  <2> SUFFICES ASSUME NEW S \in SUBSET Node, S # {} PROVE \E z \in S : pa[z] \notin S
    BY DEF Acyclic
  <2>1. CASE x \in S
    BY <1>1, <1>8, <2>1
  <2>2. CASE x \notin S /\ p \notin S
    <3>1. PICK z \in S : t.parent[z] \notin S
      BY <1>1 DEF Acyclic
    <3> QED BY <1>8, <2>2, <3>1
  <2>3. CASE x \notin S /\ p \in S
    <3>1. PICK z \in S \cup {x} : t.parent[z] \notin S \cup {x}
      BY <1>1 DEF Acyclic
    <3>2. z # x
      BY <2>3, <3>1
    <3> QED BY <1>8, <3>1, <3>2
  <2> QED BY <2>1, <2>2, <2>3
<1>10. u \in ForestType /\ u.root = t.root /\ u.type = t.type /\ u.parent = pa /\ u.kids = ki
  BY <1>1, <1>4, <1>7, <1>8 DEF ForestType
<1>11. Kids(u, x) = {}
  <2>1. u.kids[x] = <<>>
    BY <1>7, <1>10
  <2> QED BY <1>10, <2>1, ForestKids
<1>12. /\ Kids(u, p) = (Kids(t, p) \ {x}) \cup Kids(t, x)
       /\ \A y \in Node : y # p /\ y # x => Kids(u, y) = Kids(t, y)
  BY <1>1, <1>6, <1>7, <1>10 DEF Kids
<1>13. \A y \in Node : Distinct(u.kids[y])
  <2>1. Distinct(<<>>)
    BY DEF Distinct
  <2> QED BY ZenonT(40), <1>1, <1>6, <1>7, <1>10, <2>1 DEF Arranged
<1>14. ASSUME NEW y \in Node, NEW c \in Node PROVE u.parent[c] = y <=> c \in Kids(u, y)
  <2>1. \A z \in Node : t.parent[c] = z <=> c \in Kids(t, z)
    BY <1>1 DEF Arranged
  <2>2. u.parent[c] = IF c = x THEN Nil ELSE IF t.parent[c] = x THEN p ELSE t.parent[c]
    BY <1>8, <1>10
  <2>3. y = x => (c \notin Kids(u, y))
    BY <1>11
  <2>4. /\ y = p => (c \in Kids(u, y) <=> (c \in Kids(t, p) /\ c # x) \/ c \in Kids(t, x))
        /\ y # p /\ y # x => (c \in Kids(u, y) <=> c \in Kids(t, y))
    BY <1>12
  <2> QED BY <1>1, <2>1, <2>2, <2>3, <2>4
<1>15. \A y \in Node : u.parent[y] # Nil => y \in InUse(t) /\ u.parent[y] \in InUse(t)
  BY <1>1, <1>8, <1>10, InUseFacts
<1>16. \A y \in Node : t.type[y] = "leaf" =>
         u.kids[y] = <<>> \/ (u.kids[y] = t.kids[y] /\ u.parent[y] = t.parent[y])
  <2> SUFFICES ASSUME NEW y \in Node, t.type[y] = "leaf"
      PROVE u.kids[y] = <<>> \/ (u.kids[y] = t.kids[y] /\ u.parent[y] = t.parent[y])
    OBVIOUS
  <2>1. y # p /\ y # x /\ u.kids[y] = t.kids[y]
    BY <1>7, <1>10
  <2>2. t.parent[y] # x => u.parent[y] = t.parent[y]
    BY <1>8, <1>10, <2>1
  <2>3. t.parent[y] = x => t.kids[y] = <<>>
    <3>1. Len(t.kids[y]) <= (IF t.parent[y] = Nil THEN 1 ELSE 0)
      BY <1>1 DEF Arranged
    <3> QED BY <1>1, <3>1, ForestKids
  <2> QED BY <2>1, <2>2, <2>3
<1>17. Forest(u)
  BY <1>9, <1>10, <1>13, <1>14, <1>15, <1>16, ForestAgain
<1>18. Tops(u) = Tops(t) \cup {x}
  <2>1. \A y \in Node : u.parent[y] = Nil <=> t.parent[y] = Nil \/ y = x
    BY <1>1, <1>8, <1>10
  <2>2. InUse(u) = InUse(t)
    BY <1>10 DEF InUse
  <2> QED BY <1>1, <2>1, <2>2 DEF Tops, InUse
<1> QED BY <1>7, <1>8, <1>10, <1>17, <1>18

(***************************************************************************)
(* The full neighbors of a node are split off as a node of their own.      *)
(***************************************************************************)
\* v is t with the children M of x out from under it: the new top n is the
\* only one of them or a new P-node above them.
SplitFrom(t, v, x, n, M) ==
  /\ Forest(v) /\ v.root = t.root /\ Tops(v) = Tops(t) \cup {n} /\ n \notin Tops(t)
  /\ n \in InUse(v) /\ n \in Node /\ n # x /\ n \notin Up(v.parent, x) /\ v.parent[n] = Nil
  /\ v.type[n] = "leaf" => v.kids[n] = <<>>
  /\ \A y \in Node : y # n => v.type[y] = t.type[y]
  /\ \A y \in Node : y \notin M /\ y # n => v.parent[y] = t.parent[y]
  /\ \/ M = {n} /\ v.type = t.type
     \/ t.type[n] = "free" /\ n \in Inner /\ v.type[n] = "P" /\ \A y \in M : v.parent[y] = n

LEMMA FreeInnerIs ==
  ASSUME NEW t, \E y \in Inner : t.type[y] = "free"
  PROVE  FreeInner(t) \in Inner /\ t.type[FreeInner(t)] = "free"
BY DEF FreeInner

LEMMA TakenOne ==
  ASSUME NEW t, Forest(t), NEW x \in InUse(t), NEW n \in Kids(t, x), NEW v, v = Detach(t, n)
  PROVE  SplitFrom(t, v, x, n, {n})
<1>1. /\ x \in Node /\ n \in Node /\ t.parent[n] = x /\ x # Nil /\ n # x /\ n \in InUse(t)
      /\ t.parent \in Parents /\ Acyclic(t.parent) /\ t \in ForestType /\ Arranged(t)
  BY ZenonT(40), ForestFacts, ForestKids DEF Forest, ForestType, InUse
<1>2. /\ Forest(v) /\ v.root = t.root /\ v.type = t.type /\ v.parent[n] = Nil
      /\ \A y \in Node : y # n => v.parent[y] = t.parent[y]
      /\ \A y \in Node : y # x => v.kids[y] = t.kids[y]
      /\ Tops(v) = Tops(t) \cup {n}
  BY <1>1, DetachIs
<1>3. n \notin Up(v.parent, x)
  <2>1. n \notin Up(t.parent, x)
    BY <1>1, NotAboveItself
  <2>2. \A y \in Node : v.parent[y] \in {t.parent[y], Nil}
    BY <1>2
  <2>3. v.parent \in Parents
    BY <1>2 DEF Forest, ForestType
  <2> QED BY <1>1, <2>1, <2>2, <2>3, FewerEdges
<1>4. v.type[n] = "leaf" => v.kids[n] = <<>>
  <2>1. t.type[n] = "leaf" => Len(t.kids[n]) <= 0
    BY <1>1 DEF Arranged
  <2> QED BY <1>1, <1>2, <2>1, ForestKids
<1>5. n \notin Tops(t) /\ n \in InUse(v)
  BY <1>1, <1>2 DEF Tops, InUse
<1> QED BY <1>1, <1>2, <1>3, <1>4, <1>5 DEF SplitFrom

LEMMA TakenSeveral ==
  ASSUME NEW t, Forest(t), NEW x \in InUse(t), t.type[x] # "leaf", NEW n \in Inner, t.type[n] = "free",
         NEW moved \in Seq(Node), Distinct(moved), ToSet(moved) \subseteq Kids(t, x),
         NEW u, u = NewNode(t, n, "P"),
         NEW rest, rest = Excluding(t.kids[x], ToSet(moved)),
         NEW v, v = Moved(u, x, n, moved, rest)
  PROVE  SplitFrom(t, v, x, n, ToSet(moved))
<1>1. /\ x \in Node /\ n \in Node /\ n \notin InUse(t) /\ n # x
      /\ t.parent \in Parents /\ Acyclic(t.parent) /\ t \in ForestType /\ Arranged(t)
  BY DEF Forest, ForestType, InUse, Node
<1>2. /\ Forest(u) /\ u.root = t.root /\ u.parent = t.parent /\ u.kids = t.kids
      /\ u.type[n] = "P" /\ \A y \in Node : y # n => u.type[y] = t.type[y]
      /\ Tops(u) = Tops(t) \cup {n}
  BY <1>1, NewNodeIs
<1>3. /\ t.kids[n] = <<>> /\ t.parent[n] = Nil /\ n \notin Tops(t)
  BY <1>1, ForestFacts DEF Tops
<1>4. rest \in Seq(Node) /\ Distinct(rest) /\ ToSet(rest) = Kids(t, x) \ ToSet(moved)
  <2>1. t.kids[x] \in Seq(Node) /\ Distinct(t.kids[x])
    BY <1>1, ForestKids DEF Arranged
  <2> QED BY <2>1, ExcludingIs DEF Kids
<1>5. /\ x \in InUse(u) /\ n \in Tops(u) /\ u.kids[n] = <<>> /\ u.type[x] # "leaf" /\ u.type[n] # "leaf"
      /\ Kids(u, x) = Kids(t, x)
  BY <1>1, <1>2, <1>3 DEF InUse, Kids
<1>6. /\ Forest(v) /\ v.root = u.root /\ v.type = u.type /\ Tops(v) = Tops(u)
      /\ \A c \in Node : v.parent[c] = IF c \in ToSet(moved) THEN n ELSE u.parent[c]
  BY <1>1, <1>2, <1>4, <1>5, MovedIs
<1>7. \A c \in ToSet(moved) : c \in Node /\ t.parent[c] = x /\ c # n /\ c \in InUse(t)
  BY <1>1, <1>3, ForestFacts, ForestKids
<1>8. n \notin Up(v.parent, x)
  <2> DEFINE C == Up(t.parent, x)
  <2>1. x \in C /\ UpClosed(t.parent, C) /\ C \in SUBSET Node
    BY <1>1, UpIs
  <2>2. n \notin C
    BY <1>1, InUseAbove
  <2>3. \A y \in C : t.parent[y] # x
    BY <1>1, OneWay
  <2> HIDE DEF C
  <2>4. UpClosed(v.parent, C)
    BY <1>2, <1>6, <1>7, <2>1, <2>3 DEF UpClosed
  <2>5. v.parent \in Parents
    BY <1>6 DEF Forest, ForestType
  <2> QED BY <1>1, <2>1, <2>2, <2>4, <2>5, UpIs
<1>9. n \in InUse(v)
  BY <1>1, <1>2, <1>6 DEF InUse
<1>10. v.parent[n] = Nil
  BY <1>1, <1>2, <1>3, <1>6, <1>7
<1> QED BY <1>1, <1>2, <1>3, <1>6, <1>7, <1>8, <1>9, <1>10 DEF SplitFrom

(***************************************************************************)
(* What keeps a tree sturdy.                                               *)
(***************************************************************************)
\* A node keeps its three neighbors if b takes the place of a.
LEMMA BranchesKept ==
  ASSUME NEW t, NEW u, NEW y \in Node, Branches(t, y), NEW a \in Node, NEW b \in Node,
         \A z \in Node : Adjacent(t, y, z) /\ z # a => Adjacent(u, y, z),
         Adjacent(t, y, a) => Adjacent(u, y, b),
         a # b => ~Adjacent(t, y, b)
  PROVE  Branches(u, y)
<1>1. PICK d, e, f \in Node : /\ d # e /\ d # f /\ e # f
                              /\ Adjacent(t, y, d) /\ Adjacent(t, y, e) /\ Adjacent(t, y, f)
  BY DEF Branches
<1>2. CASE a # d /\ a # e /\ a # f
  BY <1>1, <1>2 DEF Branches
<1>3. CASE a = d
  <2>1. b # e /\ b # f /\ Adjacent(u, y, b) /\ Adjacent(u, y, e) /\ Adjacent(u, y, f)
    BY <1>1, <1>3
  <2> QED BY <1>1, <2>1 DEF Branches
<1>4. CASE a = e
  <2>1. b # d /\ b # f /\ Adjacent(u, y, b) /\ Adjacent(u, y, d) /\ Adjacent(u, y, f)
    BY <1>1, <1>4
  <2> QED BY <1>1, <2>1 DEF Branches
<1>5. CASE a = f
  <2>1. b # d /\ b # e /\ Adjacent(u, y, b) /\ Adjacent(u, y, d) /\ Adjacent(u, y, e)
    BY <1>1, <1>5
  <2> QED BY <1>1, <2>1 DEF Branches
<1> QED BY <1>2, <1>3, <1>4, <1>5

\* insertBetween beside x and another neighbor of its parent.
LEMMA BesideIs ==
  ASSUME NEW t, Forest(t), NEW x \in Node, NEW c, c = t.parent[x], c # Nil, NEW fn \in Node,
         Adjacent(t, c, fn)
  PROVE  BetweenBelow(t, x, fn) = c /\ BetweenBelow(t, fn, x) = c
<1>1. t.parent \in Parents /\ Acyclic(t.parent) /\ c \in Node /\ t.parent[fn] \in Node \cup {Nil}
  BY DEF Forest, ForestType, Parents
<1>2. BetweenBelow(t, x, fn) = c
  BY DEF Adjacent, BetweenBelow
<1>3. BetweenBelow(t, fn, x) = c
  <2>1. CASE t.parent[fn] = c
    BY <2>1 DEF BetweenBelow
  <2>2. CASE t.parent[c] = fn
    <3>1. c \in Up(t.parent, c) /\ UpClosed(t.parent, Up(t.parent, c)) /\ x \notin Up(t.parent, c)
      BY <1>1, UpIs, NotAboveItself
    <3>2. fn \in Up(t.parent, c)
      BY <2>2, <3>1, NodesAssumption DEF UpClosed, Node
    <3>3. t.parent[fn] # Nil => t.parent[fn] \in Up(t.parent, c) /\ t.parent[t.parent[fn]] # x
      BY <3>1, <3>2, NodesAssumption DEF UpClosed, Node
    <3>4. t.parent[fn] # c
      BY <1>1, <2>2, InUseFacts
    <3> QED BY <3>3, <3>4 DEF BetweenBelow
  <2> QED BY <2>1, <2>2 DEF Adjacent
<1> QED BY <1>2, <1>3

(***************************************************************************)
(* A P-node of the path below the central node: its full children and the  *)
(* next node of the path move to its parent.                               *)
(***************************************************************************)
\* The new neighbor n of c, if M is not empty, is the only one of M or stands
\* for several of them.
GroupedUnder(t, u, c, n, M) ==
  \/ M = {} /\ n = Nil
  \/ M = {n} /\ n \in Node /\ u.type[n] = t.type[n] /\ u.parent[n] = c
  \/ /\ t.type[n] = "free" /\ n \in Inner /\ u.type[n] = "P" /\ u.parent[n] = c
     /\ \A y \in M : u.parent[y] = n
     /\ \E a, b \in M : a # b

\* u is t after the full children M of x and next have gone to c.
MovedOut(t, u, x, c, n, next, M) ==
  /\ Forest(u) /\ u.root = t.root /\ Tops(u) = Tops(t)
  /\ u.parent[x] = c
  /\ \A y \in Node : y # n => u.type[y] = t.type[y]
  /\ \A y \in Node : y \notin M /\ y # n /\ y # next => u.parent[y] = t.parent[y]
  /\ next \in Node => u.parent[next] = c
  /\ GroupedUnder(t, u, c, n, M)

\* Where the path goes on from x, and which of its children are full.
OnTheWay(t, x, c, fn, M, next) ==
  /\ Forest(t) /\ x \in InUse(t) /\ t.type[x] # "leaf"
  /\ c = t.parent[x] /\ c # Nil /\ t.type[c] # "leaf"
  /\ fn \in Node /\ fn # x /\ Adjacent(t, c, fn)
  /\ M \subseteq Kids(t, x)
  /\ next # Nil => next \in Kids(t, x) /\ next \notin M
  /\ M = {} => next # Nil

LEMMA WayFacts ==
  ASSUME NEW t, NEW x, NEW c, NEW fn, NEW M, NEW next, OnTheWay(t, x, c, fn, M, next)
  PROVE  /\ Forest(t) /\ t.parent \in Parents /\ Acyclic(t.parent) /\ x \in Node /\ c \in Node
         /\ x \in InUse(t) /\ c \in InUse(t) /\ c # x /\ x # Nil /\ t.type[x] # "leaf" /\ t.type[c] # "leaf"
         /\ t.parent[x] = c /\ c # Nil /\ t.parent[c] # x
         /\ \A y \in Kids(t, x) : y \in Node /\ t.parent[y] = x /\ y # x /\ y # c /\ y \in InUse(t)
                                  /\ t.parent[c] # y /\ y # Nil
         /\ M \subseteq Kids(t, x) /\ (next # Nil => next \in Kids(t, x) /\ next \notin M)
         /\ fn \in Node /\ fn # x /\ fn \notin Kids(t, x) /\ Adjacent(t, c, fn)
<1>1. /\ Forest(t) /\ t.parent \in Parents /\ Acyclic(t.parent) /\ x \in Node /\ x \in InUse(t)
      /\ t.type[x] # "leaf" /\ t.type[c] # "leaf" /\ t \in ForestType
  BY DEF OnTheWay, Forest, ForestType, InUse
<1>2. t.parent[x] = c /\ c # Nil
  BY DEF OnTheWay
<1>3. /\ c \in Node /\ c \in InUse(t) /\ c # x /\ x # Nil /\ t.parent[c] # x
  BY <1>1, <1>2, InUseFacts
<1>4. x \notin Up(t.parent, c) /\ c \in Up(t.parent, c) /\ UpClosed(t.parent, Up(t.parent, c))
  BY <1>1, <1>2, <1>3, NotAboveItself, UpIs
<1>5. \A y \in Kids(t, x) : y \in Node /\ t.parent[y] = x /\ y # x /\ y \in InUse(t) /\ y # Nil
  BY <1>1, <1>3, ForestFacts, ForestKids, NodesAssumption DEF Node
<1>6. \A y \in Up(t.parent, c) : t.parent[y] # x
  BY <1>3, <1>4 DEF UpClosed
<1>7. \A y \in Kids(t, x) : y \notin Up(t.parent, c)
  BY <1>5, <1>6
<1>8. \A y \in Kids(t, x) : y # c /\ t.parent[c] # y
  BY <1>4, <1>5, <1>7 DEF UpClosed
<1>9. fn \in Node /\ fn # x /\ Adjacent(t, c, fn)
  BY DEF OnTheWay
<1>10. fn \notin Kids(t, x)
  BY <1>3, <1>5, <1>8, <1>9 DEF Adjacent
<1>11. M \subseteq Kids(t, x) /\ (next # Nil => next \in Kids(t, x) /\ next \notin M)
  BY DEF OnTheWay
<1> QED BY <1>1, <1>2, <1>3, <1>5, <1>8, <1>9, <1>10, <1>11

\* The full children move out next to fn.
LEMMA FullMovedOut ==
  ASSUME NEW t, NEW x, NEW c, NEW fn, NEW M, NEW next, OnTheWay(t, x, c, fn, M, next),
         NEW n, NEW v, SplitFrom(t, v, x, n, M), M = {n} \/ \E a, b \in M : a # b,
         NEW u, u = InsertBetween(v, n, x, fn)
  PROVE  MovedOut(t, u, x, c, n, Nil, M) /\ Adjacent(u, c, n) /\ n \in Node
<1>1. /\ Forest(t) /\ t.parent \in Parents /\ Acyclic(t.parent) /\ x \in Node /\ c \in Node
      /\ x \in InUse(t) /\ c \in InUse(t) /\ c # x /\ x # Nil /\ t.type[c] # "leaf"
      /\ t.parent[x] = c /\ c # Nil
      /\ \A y \in Kids(t, x) : y \in Node /\ t.parent[y] = x /\ y # x /\ y # c /\ t.parent[c] # y
      /\ M \subseteq Kids(t, x)
      /\ fn \in Node /\ fn # x /\ fn \notin Kids(t, x) /\ Adjacent(t, c, fn)
  BY WayFacts
<1>2. /\ Forest(v) /\ v.root = t.root /\ Tops(v) = Tops(t) \cup {n} /\ n \notin Tops(t)
      /\ n \in InUse(v) /\ n \in Node /\ n # x /\ n \notin Up(v.parent, x) /\ v.parent[n] = Nil
      /\ v.type[n] = "leaf" => v.kids[n] = <<>>
      /\ \A y \in Node : y # n => v.type[y] = t.type[y]
      /\ \A y \in Node : y \notin M /\ y # n => v.parent[y] = t.parent[y]
      /\ \/ M = {n} /\ v.type = t.type
         \/ t.type[n] = "free" /\ n \in Inner /\ v.type[n] = "P" /\ \A y \in M : v.parent[y] = n
  BY DEF SplitFrom
<1>3. x \notin M /\ c \notin M /\ fn \notin M
  BY <1>1
<1>4. n # c /\ n # fn
  <2>1. CASE M = {n}
    BY <1>3, <2>1
  <2>2. CASE t.type[n] = "free"
    <3>1. fn \in InUse(t)
      BY <1>1, InUseFacts DEF Adjacent
    <3> QED BY <1>1, <2>2, <3>1 DEF InUse
  <2> QED BY <1>2, <2>1, <2>2
<1>5. v.parent[x] = c /\ v.type[c] = t.type[c] /\ Adjacent(v, c, fn) /\ v.parent \in Parents
  <2>1. v.parent[x] = c /\ v.type[c] = t.type[c] /\ v.parent[c] = t.parent[c] /\ v.parent[fn] = t.parent[fn]
    BY <1>1, <1>2, <1>3, <1>4
  <2> QED BY <1>1, <1>2, <2>1 DEF Adjacent, Forest, ForestType
<1>6. BetweenBelow(v, x, fn) = c
  BY <1>1, <1>2, <1>5, BesideIs
<1>7. MayHang(v, c, n)
  <2>1. Up(v.parent, c) \subseteq Up(v.parent, x)
    BY <1>1, <1>5, UpIs
  <2>2. n \in Tops(v) /\ c \in InUse(v)
    BY <1>1, <1>2, <1>5 DEF InUse
  <2> QED BY <1>1, <1>2, <1>5, <2>1, <2>2 DEF MayHang
<1>8. Hangs(v, u, c, n)
  BY <1>1, <1>2, <1>6, <1>7, InsertBetweenIs
<1>9. /\ Forest(u) /\ u.root = v.root /\ u.type = v.type /\ Tops(u) = Tops(v) \ {n}
      /\ u.parent[n] = c
      /\ \A y \in Node : y # n => u.parent[y] = v.parent[y]
  BY <1>8 DEF Hangs
<1>10. GroupedUnder(t, u, c, n, M)
  <2>1. CASE M = {n} /\ v.type = t.type
    BY <1>2, <1>9, <2>1 DEF GroupedUnder
  <2>2. CASE t.type[n] = "free" /\ n \in Inner /\ v.type[n] = "P" /\ \A y \in M : v.parent[y] = n
    <3>1. n \notin M
      BY <1>2, <2>2, NodesAssumption DEF Node
    <3>2. \A y \in M : u.parent[y] = n
      BY <1>1, <1>9, <2>2, <3>1
    <3>3. \E a, b \in M : a # b
      BY <3>1
    <3> QED BY <1>9, <2>2, <3>2, <3>3 DEF GroupedUnder
  <2> QED BY <1>2, <2>1, <2>2
<1>11. Tops(u) = Tops(t)
  BY <1>2, <1>9
<1>12. u.parent[x] = c
  BY <1>1, <1>2, <1>5, <1>9
<1>13. \A y \in Node : y # n => u.type[y] = t.type[y]
  BY <1>2, <1>9
<1>14. \A y \in Node : y \notin M /\ y # n => u.parent[y] = t.parent[y]
  BY <1>2, <1>9
<1>15. Nil \notin Node
  BY NodesAssumption DEF Node
<1> QED BY <1>2, <1>9, <1>10, <1>11, <1>12, <1>13, <1>14, <1>15 DEF MovedOut, Adjacent

LEMMA NothingMovedOut ==
  ASSUME NEW t, NEW x, NEW c, NEW fn, NEW next, OnTheWay(t, x, c, fn, {}, next)
  PROVE  MovedOut(t, t, x, c, Nil, Nil, {})
<1>1. Nil \notin Node
  BY NodesAssumption DEF Node
<1> QED BY <1>1, WayFacts DEF MovedOut, GroupedUnder

\* The new neighbor is none of the other nodes.
LEMMA NewNeighbor ==
  ASSUME NEW t, NEW x, NEW c, NEW fn, NEW M, NEW next, OnTheWay(t, x, c, fn, M, next),
         NEW v, NEW n, NEW next2, MovedOut(t, v, x, c, n, next2, M)
  PROVE  /\ n # x /\ n # c /\ (next # Nil => n # next)
         /\ n \in Kids(t, x) => n \in M
         /\ n \in InUse(t) => M = {n}
<1>1. /\ x \in InUse(t) /\ c \in InUse(t) /\ M \subseteq Kids(t, x) /\ x # Nil /\ c # Nil
      /\ \A y \in Kids(t, x) : y # x /\ y # c /\ y \in InUse(t) /\ y # Nil
      /\ (next # Nil => next \in Kids(t, x) /\ next \notin M)
  BY WayFacts
<1>2. n = Nil \/ M = {n} \/ t.type[n] = "free"
  BY DEF MovedOut, GroupedUnder
<1>3. Nil \notin InUse(t)
  BY NodesAssumption DEF InUse, Node
<1>4. CASE n = Nil
  BY <1>1, <1>3, <1>4
<1>5. CASE M = {n}
  BY <1>1, <1>5
<1>6. CASE t.type[n] = "free"
  <2>1. n \notin InUse(t)
    BY <1>6 DEF InUse
  <2> QED BY <1>1, <2>1
<1> QED BY <1>2, <1>4, <1>5, <1>6

\* The rest of the path follows.
LEMMA NextMovedOut ==
  ASSUME NEW t, NEW x, NEW c, NEW fn, NEW M, NEW next, OnTheWay(t, x, c, fn, M, next), next # Nil,
         NEW n, NEW v, MovedOut(t, v, x, c, n, Nil, M),
         NEW full \in Node, Adjacent(v, c, full), full # next,
         NEW w, w = Detach(v, next), NEW u, u = InsertBetween(w, next, full, x)
  PROVE  MovedOut(t, u, x, c, n, next, M)
<1>1. /\ Forest(t) /\ t.parent \in Parents /\ Acyclic(t.parent) /\ x \in Node /\ c \in Node
      /\ x \in InUse(t) /\ c \in InUse(t) /\ c # x /\ x # Nil /\ t.type[c] # "leaf"
      /\ t.parent[x] = c /\ c # Nil /\ t.parent[c] # x
      /\ \A y \in Kids(t, x) : y \in Node /\ t.parent[y] = x /\ y # x /\ y # c /\ t.parent[c] # y
      /\ M \subseteq Kids(t, x) /\ next \in Kids(t, x) /\ next \notin M
  BY WayFacts
<1>2. n # x /\ n # c /\ n # next
  BY NewNeighbor
<1>3. /\ Forest(v) /\ v.root = t.root /\ Tops(v) = Tops(t) /\ v.parent[x] = c
      /\ \A y \in Node : y # n => v.type[y] = t.type[y]
      /\ \A y \in Node : y \notin M /\ y # n /\ y # Nil => v.parent[y] = t.parent[y]
      /\ GroupedUnder(t, v, c, n, M)
  BY DEF MovedOut
<1>4. next \in Node /\ next # c /\ next # x /\ next # Nil /\ v.parent[next] = x /\ v.type[c] = t.type[c]
      /\ v.type[next] = t.type[next]
  BY <1>1, <1>2, <1>3, NodesAssumption DEF Node
<1>5. v.parent \in Parents /\ Acyclic(v.parent) /\ v \in ForestType
  BY <1>3 DEF Forest, ForestType
<1>6. /\ Forest(w) /\ w.root = v.root /\ w.type = v.type /\ w.parent[next] = Nil
      /\ \A y \in Node : y # next => w.parent[y] = v.parent[y]
      /\ \A y \in Node : y # x => w.kids[y] = v.kids[y]
      /\ Tops(w) = Tops(v) \cup {next}
  BY <1>1, <1>3, <1>4, DetachIs
<1>7. w.parent[x] = c /\ w.parent \in Parents
  BY <1>1, <1>3, <1>4, <1>6 DEF Forest, ForestType
<1>8. Adjacent(w, c, full)
  <2>1. w.parent[full] = v.parent[full] /\ w.parent[c] = v.parent[c]
    BY <1>1, <1>4, <1>6
  <2> QED BY <2>1 DEF Adjacent
<1>9. BetweenBelow(w, full, x) = c
  BY <1>1, <1>6, <1>7, <1>8, BesideIs
<1>10. MayHang(w, c, next)
  <2>1. next \notin Up(v.parent, x)
    BY <1>1, <1>4, <1>5, NotAboveItself
  <2>2. Up(v.parent, c) \subseteq Up(v.parent, x)
    BY <1>1, <1>3, <1>5, UpIs
  <2>3. Up(w.parent, c) \subseteq Up(v.parent, c)
    <3>1. \A y \in Node : w.parent[y] \in {v.parent[y], Nil}
      BY <1>6
    <3> QED BY <1>1, <1>5, <1>7, <3>1, FewerEdges
  <2>4. next \in Tops(w)
    BY <1>6
  <2>5. c \in InUse(w)
    BY <1>1, <1>4, <1>6 DEF InUse
  <2>6. w.type[next] = "leaf" => w.kids[next] = <<>>
    <3>1. v.type[next] = "leaf" => Len(v.kids[next]) <= 0
      BY <1>1, <1>3, <1>4 DEF Forest, Arranged
    <3> QED BY <1>4, <1>5, <1>6, <3>1, ForestKids
  <2> QED BY <1>1, <1>4, <1>6, <2>1, <2>2, <2>3, <2>4, <2>5, <2>6 DEF MayHang
<1>11. Hangs(w, u, c, next)
  BY <1>1, <1>6, <1>9, <1>10, InsertBetweenIs
<1>12. /\ Forest(u) /\ u.root = w.root /\ u.type = w.type /\ Tops(u) = Tops(w) \ {next}
       /\ u.parent[next] = c
       /\ \A y \in Node : y # next => u.parent[y] = w.parent[y]
  BY <1>11 DEF Hangs
<1>13. \A y \in Node : y # next => u.parent[y] = v.parent[y]
  BY <1>6, <1>12
<1>14. GroupedUnder(t, u, c, n, M)
  <2>1. \A y \in M : y \in Node /\ y # next
    BY <1>1
  <2>2. n \in Node => u.parent[n] = v.parent[n]
    BY <1>2, <1>13
  <2>3. \A y \in M : u.parent[y] = v.parent[y]
    BY <1>13, <2>1
  <2>4. u.type = v.type
    BY <1>6, <1>12
  <2>5. n \in Inner => n \in Node
    BY DEF Node
  <2> QED BY <1>3, <2>2, <2>3, <2>4, <2>5 DEF GroupedUnder
<1>15. Tops(u) = Tops(t)
  <2>1. next \notin Tops(t)
    BY <1>1, <1>4 DEF Tops
  <2> QED BY <1>3, <1>6, <1>12, <2>1
<1>16. Nil \notin Node
  BY NodesAssumption DEF Node
<1>17. u.root = t.root /\ u.parent[x] = c
  BY <1>1, <1>3, <1>4, <1>6, <1>12, <1>13
<1>18. \A y \in Node : y # n => u.type[y] = t.type[y]
  BY <1>3, <1>6, <1>12
<1>19. \A y \in Node : y \notin M /\ y # n /\ y # next => u.parent[y] = t.parent[y]
  BY <1>3, <1>13, <1>16
<1> QED BY <1>12, <1>14, <1>15, <1>17, <1>18, <1>19 DEF MovedOut

\* u is t after the node x below c has been merged.
NodeMerged(t, u, x, c, n, next, M) ==
  /\ Forest(u) /\ u.root = t.root /\ Tops(u) = Tops(t)
  /\ \A y \in Node : y # n /\ y # x => u.type[y] = t.type[y]
  /\ \A y \in Node : y # n /\ y # x /\ t.parent[y] # x => u.parent[y] = t.parent[y]
  /\ next \in Node => u.parent[next] = c
  /\ GroupedUnder(t, u, c, n, M)
  /\ \/ /\ u.type[x] = t.type[x] /\ u.parent[x] = c
        /\ \A y \in Kids(t, x) : y \notin M /\ y # next => u.parent[y] = x
        /\ \E a, b \in Kids(t, x) : a # b /\ a \notin M /\ b \notin M /\ a # next /\ b # next
     \/ /\ u.type[x] = "free" /\ u.parent[x] = Nil
        /\ \A y \in Kids(t, x) : y \notin M /\ y # next => u.parent[y] = c

LEMMA NodeMergedSturdy ==
  ASSUME NEW t, Sturdy(t), NEW x \in Inner, NEW c \in Inner, NEW fn, NEW M, NEW next,
         OnTheWay(t, x, c, fn, M, next), NEW n, NEW u, NodeMerged(t, u, x, c, n, next, M)
  PROVE  Sturdy(u)
<1>1. /\ Forest(t) /\ x \in Node /\ c \in Node /\ t.parent \in Parents
      /\ x \in InUse(t) /\ c \in InUse(t) /\ c # x /\ x # Nil /\ t.type[x] # "leaf" /\ t.type[c] # "leaf"
      /\ t.parent[x] = c /\ c # Nil /\ t.parent[c] # x
      /\ \A y \in Kids(t, x) : /\ y \in Node /\ t.parent[y] = x /\ y # x /\ y # c /\ y \in InUse(t)
                               /\ t.parent[c] # y
      /\ M \subseteq Kids(t, x)
      /\ (next # Nil => next \in Kids(t, x) /\ next \notin M)
  BY WayFacts
<1>2. /\ Forest(u) /\ u.root = t.root /\ Tops(u) = Tops(t)
      /\ \A y \in Node : y # n /\ y # x => u.type[y] = t.type[y]
      /\ \A y \in Node : y # n /\ y # x /\ t.parent[y] # x => u.parent[y] = t.parent[y]
      /\ next \in Node => u.parent[next] = c
      /\ GroupedUnder(t, u, c, n, M)
  BY DEF NodeMerged
<1>3. \/ /\ u.type[x] = t.type[x] /\ u.parent[x] = c
         /\ \A y \in Kids(t, x) : y \notin M /\ y # next => u.parent[y] = x
         /\ \E a, b \in Kids(t, x) : a # b /\ a \notin M /\ b \notin M /\ a # next /\ b # next
      \/ /\ u.type[x] = "free" /\ u.parent[x] = Nil
         /\ \A y \in Kids(t, x) : y \notin M /\ y # next => u.parent[y] = c
  BY DEF NodeMerged
<1>4. \A y \in Node : t.parent[y] = x <=> y \in Kids(t, x)
  BY <1>1 DEF Forest, Arranged
<1>5. /\ Tops(t) = {t.root} /\ t.root \in Node /\ t.root \in InUse(t) /\ t.parent[t.root] = Nil
      /\ \A y \in Node : t.type[y] = "leaf" <=> y \in Leaves
      /\ \A y \in InUse(t) \cap Inner : Branches(t, y)
      /\ t.root \in Leaves => HasKid(t, t.root)
  BY SturdyFacts DEF Sturdy
<1>6. Nil \notin Node /\ Leaves \cap Inner = {} /\ Inner \subseteq Node
  BY NodesAssumption DEF Node
<1>7. /\ n \notin {x, c} /\ (n = Nil \/ n \in Kids(t, x) \/ (n \notin InUse(t) /\ n \in Inner))
      /\ n \in Kids(t, x) => n \in M /\ M = {n} /\ u.type[n] = t.type[n]
      /\ n # Nil => u.parent[n] = c /\ n \in Node
  <2>1. CASE M = {} /\ n = Nil
    BY <1>1, <1>6, <2>1
  <2>2. CASE M = {n} /\ n \in Node /\ u.type[n] = t.type[n] /\ u.parent[n] = c
    BY <1>1, <2>2
  <2>3. CASE t.type[n] = "free" /\ n \in Inner /\ u.type[n] = "P" /\ u.parent[n] = c
    <3>1. n \notin InUse(t)
      BY <2>3 DEF InUse
    <3> QED BY <1>1, <1>6, <2>3, <3>1
  <2> QED BY <1>2, <2>1, <2>2, <2>3 DEF GroupedUnder
<1>8. \A y \in Kids(t, x) : y \in M => \/ y = n /\ u.parent[y] = c
                                       \/ u.parent[y] = n /\ n \notin InUse(t) /\ n \in Node
  <2>1. CASE M = {} /\ n = Nil
    BY <2>1
  <2>2. CASE M = {n} /\ u.parent[n] = c
    BY <2>2
  <2>3. CASE t.type[n] = "free" /\ n \in Inner /\ \A y \in M : u.parent[y] = n
    <3>1. n \notin InUse(t)
      BY <2>3 DEF InUse
    <3> QED BY <1>6, <2>3, <3>1
  <2> QED BY <1>2, <2>1, <2>2, <2>3 DEF GroupedUnder
<1>9. \A y \in Node : t.type[y] # "free" <=> y \in InUse(t)
  BY DEF InUse
<1>10. \A y, z \in Node : y \notin {x, n} /\ z \notin {x, n} /\ Adjacent(t, y, z) => Adjacent(u, y, z)
  <2> SUFFICES ASSUME NEW y \in Node, NEW z \in Node, y \notin {x, n}, z \notin {x, n}, t.parent[y] = z
      PROVE  u.parent[y] = z
    BY DEF Adjacent
  <2> QED BY <1>2
<1>11. ASSUME NEW y \in Node, y \in InUse(t), y \notin {x, c, n}
       PROVE  \A z \in Node : Adjacent(t, y, z) /\ z # x => Adjacent(u, y, z)
  <2> SUFFICES ASSUME NEW z \in Node, Adjacent(t, y, z), z # x PROVE Adjacent(u, y, z)
    OBVIOUS
  <2>1. z \in InUse(t)
    BY <1>1, <1>6, <1>11, InUseFacts DEF Adjacent
  <2>2. CASE z # n
    BY <1>10, <1>11, <2>2
  <2>3. CASE z = n
    <3>1. n \in Kids(t, x)
      BY <1>6, <1>7, <2>1, <2>3
    <3>2. t.parent[y] = n
      BY <1>1, <1>11, <2>3, <3>1 DEF Adjacent
    <3>3. t.parent[y] # x
      BY <1>1, <3>1, <3>2
    <3> QED BY <1>2, <1>11, <2>3, <3>2, <3>3 DEF Adjacent
  <2> QED BY <2>2, <2>3
<1>12. ASSUME NEW y \in InUse(t) \cap Inner, y \notin {x, c, n} PROVE Branches(u, y)
  <2>1. y \in Node /\ Branches(t, y)
    BY <1>5, <1>6
  <2>2. CASE t.parent[y] # x
    <3>1. ~Adjacent(t, y, x)
      BY <1>1, <1>12, <2>2 DEF Adjacent
    <3> QED BY <1>1, <1>11, <1>12, <2>1, <3>1, BranchesKept
  <2>3. CASE t.parent[y] = x
    <3>1. y \in Kids(t, x)
      BY <1>4, <2>1, <2>3
    <3>2. u.parent[y] \in {x, c} \/ (u.parent[y] = n /\ n \notin InUse(t) /\ n \in Node)
      <4>1. y = next => u.parent[y] = c
        BY <1>2, <2>1
      <4> QED BY <1>3, <1>8, <3>1, <4>1
    <3>3. PICK b \in Node : b = u.parent[y]
      BY <1>1, <3>2
    <3>4. b # x => ~Adjacent(t, y, b)
      <4>1. CASE b = c
        BY <1>1, <3>1, <4>1 DEF Adjacent
      <4>2. CASE b \notin InUse(t)
        BY <1>1, <1>6, <2>1, <4>2, InUseFacts DEF Adjacent
      <4> QED BY <3>2, <3>3, <4>1, <4>2
    <3>5. Adjacent(u, y, b)
      BY <3>3 DEF Adjacent
    <3> HIDE DEF Branches, Adjacent
    <3> QED BY <1>1, <1>11, <1>12, <2>1, <3>4, <3>5, BranchesKept
  <2> QED BY <2>2, <2>3
<1>13. Branches(u, c)
  <2>1. Branches(t, c)
    BY <1>1, <1>5
  <2>2. \A z \in Node : Adjacent(t, c, z) /\ z # x => Adjacent(u, c, z)
    <3> SUFFICES ASSUME NEW z \in Node, Adjacent(t, c, z), z # x PROVE Adjacent(u, c, z)
      OBVIOUS
    <3>1. z \in InUse(t)
      BY <1>1, <1>6, InUseFacts DEF Adjacent
    <3>2. z \notin Kids(t, x)
      BY <1>1 DEF Adjacent
    <3>3. z # n
      BY <1>6, <1>7, <3>1, <3>2
    <3> QED BY <1>1, <1>7, <1>10, <3>3
  <2>3. \E b \in Node : Adjacent(u, c, b) /\ (b # x => ~Adjacent(t, c, b))
    <3>1. CASE u.parent[x] = c
      BY <1>1, <3>1 DEF Adjacent
    <3>2. CASE u.parent[x] # c
      <4>1. \A y \in Kids(t, x) : y \notin M /\ y # next => u.parent[y] = c
        BY <1>3, <3>2
      <4>2. CASE n # Nil
        <5>1. ~Adjacent(t, c, n)
          <6>1. CASE n \in Kids(t, x)
            BY <1>1, <6>1 DEF Adjacent
          <6>2. CASE n \notin InUse(t)
            BY <1>1, <1>6, <1>7, <4>2, <6>2, InUseFacts DEF Adjacent
          <6> QED BY <1>7, <4>2, <6>1, <6>2
        <5> QED BY <1>7, <4>2, <5>1 DEF Adjacent
      <4>3. CASE n = Nil
        <5>1. M = {}
          BY <1>2, <1>6, <4>3 DEF GroupedUnder
        <5>2. next \in Kids(t, x)
          BY <1>1, <5>1 DEF OnTheWay
        <5>3. u.parent[next] = c /\ ~Adjacent(t, c, next) /\ next \in Node
          BY <1>1, <1>2, <5>2 DEF Adjacent
        <5> QED BY <5>3 DEF Adjacent
      <4> QED BY <4>2, <4>3
    <3> QED BY <3>1, <3>2
  <2>4. PICK b \in Node : Adjacent(u, c, b) /\ (b # x => ~Adjacent(t, c, b))
    BY <2>3
  <2> QED BY <1>1, <2>1, <2>2, <2>4, BranchesKept
<1>14. x \in InUse(u) => Branches(u, x)
  <2> SUFFICES ASSUME x \in InUse(u) PROVE Branches(u, x)
    OBVIOUS
  <2>1. /\ u.parent[x] = c
        /\ \A y \in Kids(t, x) : y \notin M /\ y # next => u.parent[y] = x
        /\ \E a, b \in Kids(t, x) : a # b /\ a \notin M /\ b \notin M /\ a # next /\ b # next
    BY <1>3 DEF InUse
  <2>2. PICK a, b \in Kids(t, x) : a # b /\ a \notin M /\ b \notin M /\ a # next /\ b # next
    BY <2>1
  <2>3. u.parent[a] = x /\ u.parent[b] = x /\ a # c /\ b # c /\ a \in Node /\ b \in Node
    BY <1>1, <2>1, <2>2
  <2> QED BY <1>1, <2>1, <2>2, <2>3 DEF Branches, Adjacent
<1>15. n \in InUse(u) \cap Inner => Branches(u, n)
  <2> SUFFICES ASSUME n \in InUse(u) \cap Inner PROVE Branches(u, n)
    OBVIOUS
  <2>1. n \in Node /\ n # Nil
    BY <1>6
  <2>2. CASE M = {n}
    <3>1. n \in Kids(t, x) /\ u.parent[n] = c /\ t.parent[n] = x /\ n # next
      BY <1>1, <1>7, <2>1, <2>2, <1>6
    <3>2. n \in InUse(t)
      BY <1>1, <3>1
    <3>3. \A z \in Node : Adjacent(t, n, z) /\ z # x => Adjacent(u, n, z)
      <4> SUFFICES ASSUME NEW z \in Node, Adjacent(t, n, z), z # x PROVE Adjacent(u, n, z)
        OBVIOUS
      <4>1. t.parent[z] = n
        BY <3>1 DEF Adjacent
      <4>2. z # n
        BY <1>6, <4>1, <2>1, <1>1, InUseFacts
      <4>3. t.parent[z] # x
        BY <1>7, <4>1
      <4> QED BY <1>2, <4>1, <4>2, <4>3 DEF Adjacent
    <3>4. Adjacent(u, n, c) /\ ~Adjacent(t, n, c)
      BY <1>1, <3>1 DEF Adjacent
    <3>5. Branches(t, n)
      BY <1>5, <3>2
    <3> QED BY <1>1, <2>1, <3>3, <3>4, <3>5, BranchesKept
  <2>3. CASE u.parent[n] = c /\ (\A y \in M : u.parent[y] = n) /\ \E a, b \in M : a # b
    <3>1. PICK a, b \in M : a # b
      BY <2>3
    <3>2. a \in Node /\ b \in Node /\ a # c /\ b # c /\ u.parent[a] = n /\ u.parent[b] = n
      BY <1>1, <2>3, <3>1
    <3> QED BY <1>1, <2>3, <3>1, <3>2 DEF Branches, Adjacent
  <2> QED BY <1>2, <2>1, <2>2, <2>3 DEF GroupedUnder
<1>16. \A y \in InUse(u) \cap Inner : Branches(u, y)
  <2> SUFFICES ASSUME NEW y \in InUse(u) \cap Inner PROVE Branches(u, y)
    OBVIOUS
  <2>1. y \notin {x, n} => y \in InUse(t)
    BY <1>2 DEF InUse
  <2> QED BY <1>12, <1>13, <1>14, <1>15, <2>1
<1>17. \A y \in Node : u.type[y] = "leaf" <=> y \in Leaves
  <2> SUFFICES ASSUME NEW y \in Node PROVE u.type[y] = "leaf" <=> y \in Leaves
    OBVIOUS
  <2>1. CASE y = x
    BY <1>1, <1>3, <1>5, <1>6, <2>1
  <2>2. CASE y = n
    <3>1. u.type[n] = t.type[n] \/ (u.type[n] = "P" /\ n \in Inner)
      BY <1>2, <1>6, <2>2 DEF GroupedUnder
    <3> QED BY <1>5, <1>6, <2>2, <3>1
  <2>3. CASE y # x /\ y # n
    BY <1>2, <1>5, <2>3
  <2> QED BY <2>1, <2>2, <2>3
<1>18. t.root \in Leaves => HasKid(u, t.root)
  <2> SUFFICES ASSUME t.root \in Leaves PROVE HasKid(u, t.root)
    OBVIOUS
  <2>1. PICK k \in Node : t.parent[k] = t.root
    BY <1>5 DEF HasKid
  <2>2. t.root # c /\ t.root # x
    BY <1>6
  <2>3. k # x /\ t.parent[k] # x
    BY <1>1, <2>1, <2>2
  <2>4. k # n
    <3>1. k \in InUse(t) /\ k \notin Kids(t, x)
      BY <1>1, <1>5, <1>6, <2>1, <2>3, InUseFacts
    <3> QED BY <1>6, <1>7, <3>1
  <2> QED BY <1>2, <2>1, <2>3, <2>4 DEF HasKid
<1> QED BY <1>2, <1>5, <1>16, <1>17, <1>18 DEF Sturdy

(***************************************************************************)
(* A C-node of the path is merged into the central node.                   *)
(***************************************************************************)
LEMMA HasAKid ==
  ASSUME NEW t, NEW x \in Node, Branches(t, x)
  PROVE  HasTwoKids(t, x)
<1>1. PICK a, b, c \in Node : /\ a # b /\ a # c /\ b # c
                              /\ Adjacent(t, x, a) /\ Adjacent(t, x, b) /\ Adjacent(t, x, c)
  BY DEF Branches
<1>2. CASE t.parent[a] = x /\ t.parent[b] = x
  BY <1>1, <1>2 DEF HasTwoKids
<1>3. CASE t.parent[a] = x /\ t.parent[c] = x
  BY <1>1, <1>3 DEF HasTwoKids
<1>4. CASE t.parent[b] = x /\ t.parent[c] = x
  BY <1>1, <1>4 DEF HasTwoKids
<1> QED BY <1>1, <1>2, <1>3, <1>4 DEF Adjacent

\* u is t with the children of x in the place of x.
Flattened(t, u, x, c) ==
  /\ u.root = t.root /\ u.type[x] = "free"
  /\ \A y \in Node : y # x => /\ u.type[y] = t.type[y]
                              /\ u.parent[y] = IF t.parent[y] = x THEN c ELSE t.parent[y]

LEMMA FlattenedIs ==
  ASSUME NEW t, Forest(t), NEW x \in Node, NEW c, c = t.parent[x], c # Nil,
         t.type[x] # "leaf", t.type[c] # "leaf", NEW reverse, NEW fn,
         NEW v, v = IF reverse THEN [t EXCEPT !.kids[x] = Reverse(@)] ELSE t,
         NEW u, u = DestroyNode(MergeIntoParent(v, x, fn), x)
  PROVE  Flattened(t, u, x, c) /\ Forest(u) /\ Tops(u) = Tops(t)
<1>1. /\ c \in Node /\ x # c /\ t.kids[x] \in Seq(Node) /\ Distinct(t.kids[x]) /\ x \notin Tops(t)
      /\ t.parent \in Parents
  BY ZenonT(40), InUseFacts, ForestKids DEF Forest, Arranged, Tops, ForestType
<1>2. Forest(v) /\ v.root = t.root /\ v.type = t.type /\ v.parent = t.parent /\ Tops(v) = Tops(t)
  <2>1. CASE reverse
    <3> DEFINE w == Reverse(t.kids[x])
    <3>1. w \in Seq(Node) /\ Distinct(w) /\ ToSet(w) = Kids(t, x)
      BY <1>1, ReverseDistinct DEF Kids
    <3>2. v = [t EXCEPT !.kids[x] = w]
      BY <2>1
    <3> HIDE DEF w
    <3> QED BY <3>1, <3>2, ReorderedIs
  <2>2. CASE ~reverse
    BY <2>2
  <2> QED BY <2>1, <2>2
<1> DEFINE w == MergeIntoParent(v, x, fn)
<1>3. u = DestroyNode(w, x) /\ w = MergeIntoParent(v, x, fn)
  OBVIOUS
<1> HIDE DEF w
<1>4. c = v.parent[x] /\ v.type[x] # "leaf" /\ v.type[c] # "leaf"
  BY <1>2
<1>5. /\ Forest(w) /\ w.root = v.root /\ w.type = v.type /\ Tops(w) = Tops(v) \cup {x}
      /\ w.parent[x] = Nil /\ w.kids[x] = <<>>
      /\ \A y \in Node : y # x => w.parent[y] = IF v.parent[y] = x THEN c ELSE v.parent[y]
  <2>1. Forest(v) /\ x \in Node /\ c # Nil
    BY <1>2
  <2>2. w = MergeIntoParent(v, x, fn)
    BY <1>3
  <2> QED BY ONLY <2>1, <2>2, <1>4, MergeIntoParentIs
<1>6. x \in Tops(w)
  BY <1>5
<1>7. /\ Forest(u) /\ u.root = w.root /\ u.parent = w.parent /\ u.kids = w.kids
      /\ u.type[x] = "free" /\ \A y \in Node : y # x => u.type[y] = w.type[y]
      /\ Tops(u) = Tops(w) \ {x}
  BY <1>3, <1>5, <1>6, DestroyNodeIs
<1>8. Tops(u) = Tops(t)
  BY ZenonT(40), <1>1, <1>2, <1>5, <1>7
<1> QED BY <1>2, <1>5, <1>7, <1>8 DEF Flattened

LEMMA FlattenedSturdy ==
  ASSUME NEW t, Sturdy(t), NEW x \in Inner, x \in InUse(t), NEW c \in Inner, c = t.parent[x],
         NEW u, Flattened(t, u, x, c), Forest(u), Tops(u) = Tops(t)
  PROVE  Sturdy(u)
<1>1. /\ Forest(t) /\ x \in Node /\ c \in Node /\ Nil \notin Node /\ Leaves \cap Inner = {}
      /\ c \in InUse(t) /\ c # x /\ t.parent[c] # x /\ t.parent[x] = c
  <2>1. x \in Node /\ c \in Node /\ Nil \notin Node /\ Leaves \cap Inner = {}
    BY NodesAssumption DEF Node
  <2>2. Forest(t)
    BY DEF Sturdy
  <2> QED BY <2>1, <2>2, InUseFacts
<1>2. /\ Tops(t) = {t.root} /\ t.root \in Node /\ t.root \in InUse(t) /\ t.parent[t.root] = Nil
      /\ \A y \in Node : t.type[y] = "leaf" <=> y \in Leaves
      /\ \A y \in InUse(t) \cap Inner : Branches(t, y)
      /\ t.root \in Leaves => HasKid(t, t.root)
  BY SturdyFacts DEF Sturdy
<1>3. /\ u.root = t.root /\ u.type[x] = "free"
      /\ \A y \in Node : y # x => /\ u.type[y] = t.type[y]
                                  /\ u.parent[y] = IF t.parent[y] = x THEN c ELSE t.parent[y]
  BY DEF Flattened
<1>4. \A y, z \in Node : y # x /\ z # x /\ Adjacent(t, y, z) => Adjacent(u, y, z)
  BY <1>1, <1>3 DEF Adjacent
<1>5. ASSUME NEW y \in InUse(t) \cap Inner, y # x PROVE Branches(u, y)
  <2>1. y \in Node /\ Branches(t, y)
    BY <1>2 DEF InUse
  <2>2. CASE y = c
    <3>1. PICK b \in Node : t.parent[b] = x
      BY <1>1, <1>2, HasAKid DEF HasTwoKids
    <3>2. b # x /\ Adjacent(u, c, b) /\ ~Adjacent(t, c, b)
      BY <1>1, <1>3, <3>1, InUseFacts DEF Adjacent
    <3> QED BY <1>1, <1>4, <2>1, <2>2, <3>2, BranchesKept
  <2>3. CASE y # c /\ t.parent[y] = x
    <3>1. Adjacent(u, y, c) /\ ~Adjacent(t, y, c)
      BY <1>1, <1>3, <1>5, <2>1, <2>3, InUseFacts DEF Adjacent
    <3> QED BY <1>1, <1>4, <1>5, <2>1, <3>1, BranchesKept
  <2>4. CASE y # c /\ t.parent[y] # x
    <3>1. ~Adjacent(t, y, x)
      BY <1>1, <2>4 DEF Adjacent
    <3> QED BY <1>1, <1>4, <1>5, <2>1, <3>1, BranchesKept
  <2> QED BY <2>2, <2>3, <2>4
<1>6. \A y \in InUse(u) \cap Inner : Branches(u, y)
  BY <1>3, <1>5 DEF InUse
<1>7. \A y \in Node : u.type[y] = "leaf" <=> y \in Leaves
  BY <1>1, <1>2, <1>3
<1>8. t.root \in Leaves => HasKid(u, t.root)
  BY <1>1, <1>2, <1>3 DEF HasKid
<1> QED BY <1>2, <1>3, <1>6, <1>7, <1>8 DEF Sturdy

\* The nodes that a merge of x, the first node of an arm, leaves alone.
LeavesAlone(t, u, x, n) ==
  \A y \in Node : y # x /\ y # n =>
    u.type[y] = t.type[y] /\ (t.parent[y] # x => u.parent[y] = t.parent[y])

LEMMA SturdyInner ==
  ASSUME NEW t, Sturdy(t), NEW x \in InUse(t)
  PROVE  /\ x \in Node
         /\ x \in Inner <=> t.type[x] # "leaf"
         /\ x \in Inner <=> t.type[x] \in {"P", "C"}
<1>1. x \in Node /\ t.type[x] # "free" /\ (t.type[x] = "leaf" <=> x \in Leaves)
  BY DEF InUse, Sturdy
<1>2. t.type[x] \in {"free", "leaf", "P", "C"}
  BY <1>1 DEF Sturdy, Forest, ForestType
<1> QED BY <1>1, <1>2, NodesAssumption DEF Node

(***************************************************************************)
(* The central node is rebuilt from its parts: what is left of the apex,   *)
(* the node of the full neighbors, and the stubs of the arms.              *)
(***************************************************************************)
\* The neighborhood of a is built anew, with the nodes in New.
Rebuilt(t, u, a, New) ==
  /\ Forest(u) /\ Tops(u) = {u.root}
  /\ New \subseteq Inner /\ New \cap InUse(t) = {}
  /\ \A y \in Node : y \notin New /\ y # a =>
       /\ u.type[y] = t.type[y]
       /\ t.parent[y] # a => u.parent[y] = t.parent[y]
       /\ t.parent[y] = a => u.parent[y] \in New \cup {a}
  /\ u.type[a] \in {t.type[a], "free"}
  /\ t.parent[a] # Nil => \E b \in New \cup {a} : u.parent[b] = t.parent[a]
  /\ \A b \in New : u.type[b] \in {"P", "C"}

LEMMA RebuiltSturdy ==
  ASSUME NEW t, Sturdy(t), NEW a \in InUse(t) \cap Inner, NEW New, NEW u, Rebuilt(t, u, a, New),
         \A b \in New \cup {a} : u.type[b] # "free" => Branches(u, b)
  PROVE  Sturdy(u)
<1>1. /\ Forest(t) /\ Tops(t) = {t.root} /\ t.root \in Node /\ t.parent[t.root] = Nil
      /\ \A y \in Node : t.type[y] = "leaf" <=> y \in Leaves
      /\ \A y \in InUse(t) \cap Inner : Branches(t, y)
      /\ t.root \in Leaves => HasKid(t, t.root)
      /\ \A y \in InUse(t) : t.parent[y] = Nil <=> y = t.root
  BY SturdyFacts DEF Sturdy
<1>2. /\ Forest(u) /\ Tops(u) = {u.root}
      /\ New \subseteq Inner /\ New \cap InUse(t) = {}
      /\ \A y \in Node : y \notin New /\ y # a =>
           /\ u.type[y] = t.type[y]
           /\ t.parent[y] # a => u.parent[y] = t.parent[y]
           /\ t.parent[y] = a => u.parent[y] \in New \cup {a}
      /\ u.type[a] \in {t.type[a], "free"}
      /\ t.parent[a] # Nil => \E b \in New \cup {a} : u.parent[b] = t.parent[a]
      /\ \A b \in New : u.type[b] \in {"P", "C"}
  BY DEF Rebuilt
<1>3. /\ Nil \notin Node /\ Leaves \cap Inner = {} /\ Inner \subseteq Node
      /\ \A y \in Node : y \in Leaves \/ y \in Inner
  BY NodesAssumption DEF Node
<1>4. /\ a \in Node /\ a \notin New /\ New \subseteq Node /\ t.type[a] # "leaf" /\ t.type[a] # "free"
      /\ \A y \in Node : y \in InUse(t) <=> t.type[y] # "free"
  BY <1>1, <1>2, <1>3 DEF InUse
<1>5. \A x \in Node :
        /\ x # Nil
        /\ t.parent[x] # Nil => /\ t.parent[x] \in Node /\ t.parent[x] \in InUse(t)
                                /\ x \in InUse(t) /\ t.parent[x] # x
                                /\ t.parent[t.parent[x]] # x
  BY <1>1, InUseFacts
<1>6. \A y \in Node : u.type[y] = "leaf" <=> y \in Leaves
  <2>1. \A y \in New : u.type[y] # "leaf" /\ y \notin Leaves
    BY <1>2, <1>3
  <2>2. u.type[a] # "leaf" /\ a \notin Leaves
    BY <1>2, <1>3, <1>4
  <2> QED BY <1>1, <1>2, <2>1, <2>2
<1>7. \A y, z \in Node : y \notin New /\ z \notin New /\ y # a /\ z # a /\ Adjacent(t, y, z)
                          => Adjacent(u, y, z)
  BY <1>2 DEF Adjacent
<1>8. ASSUME NEW y \in InUse(u) \cap Inner PROVE Branches(u, y)
  <2>1. y \in Node /\ u.type[y] # "free"
    BY DEF InUse
  <2>2. CASE y \in New \cup {a}
    BY <2>1, <2>2
  <2>3. CASE y \notin New \cup {a}
    <3>1. y \in InUse(t) /\ Branches(t, y)
      BY <1>1, <1>2, <1>4, <2>1, <2>3
    <3>2. \A z \in Node : Adjacent(t, y, z) /\ z # a => Adjacent(u, y, z)
      <4>1. \A z \in Node : Adjacent(t, y, z) => z \in InUse(t)
        BY <2>1, <1>5, <1>3 DEF Adjacent
      <4> QED BY <1>2, <1>7, <2>1, <2>3, <4>1
    <3>3. CASE ~Adjacent(t, y, a)
      <4> HIDE DEF Branches, Adjacent
      <4> QED BY <1>4, <2>1, <3>1, <3>2, <3>3, BranchesKept
    <3>4. CASE Adjacent(t, y, a)
      <4>1. PICK b \in New \cup {a} : Adjacent(u, y, b)
        BY <1>2, <1>3, <2>1, <2>3, <3>4 DEF Adjacent
      <4>2. b # a => ~Adjacent(t, y, b)
        BY <1>2, <1>3, <1>5, <2>1 DEF Adjacent
      <4>3. b \in Node
        BY <1>4
      <4> HIDE DEF Branches, Adjacent
      <4> QED BY <1>4, <2>1, <3>1, <3>2, <4>1, <4>2, <4>3, BranchesKept
    <3> QED BY <3>3, <3>4
  <2> QED BY <2>2, <2>3
<1>9. u.root \in Leaves => HasKid(u, u.root)
  <2> SUFFICES ASSUME u.root \in Leaves PROVE HasKid(u, u.root)
    OBVIOUS
  <2> DEFINE l == u.root
  <2>1. l \in Node /\ l \notin New \cup {a} /\ u.parent[l] = Nil
    BY <1>2, <1>3 DEF Tops, InUse
  <2>2. t.parent[l] # a
    BY <1>2, <1>3, <1>4, <2>1
  <2>3. t.parent[l] = Nil /\ l \in InUse(t)
    BY <1>2, <1>4, <1>1, <2>1, <2>2
  <2>4. l = t.root
    BY <1>1, <2>3
  <2>5. PICK k \in Node : t.parent[k] = l
    BY <1>1, <2>4 DEF HasKid
  <2>6. k \in InUse(t) /\ l # a
    BY <1>5, <2>1, <2>5
  <2>7. CASE k # a
    BY <1>2, <2>5, <2>6, <2>7 DEF HasKid
  <2>8. CASE k = a
    <3>1. t.parent[a] = l /\ l # Nil
      BY <1>3, <2>1, <2>5, <2>8
    <3>2. PICK b \in New \cup {a} : u.parent[b] = l
      BY <1>2, <3>1
    <3>3. b \in Node
      BY <1>4, <3>2
    <3> QED BY ONLY <3>2, <3>3 DEF HasKid, l
  <2> QED BY <2>7, <2>8
<1> QED BY <1>2, <1>6, <1>8, <1>9 DEF Sturdy

\* The neighbors of a node and its degree.
LEMMA NeighborsCounted ==
  ASSUME NEW t, Forest(t), NEW a \in Node, NEW A, A = {y \in Node : Adjacent(t, a, y)}
  PROVE  IsFiniteSet(A) /\ Cardinality(A) = Degree(t, a)
<1>1. /\ Len(t.kids[a]) \in Nat /\ Kids(t, a) = {c \in Node : t.parent[c] = a}
  BY KidsCounted
<1>2. t.kids[a] \in Seq(Node) /\ Distinct(t.kids[a]) /\ t.parent[a] \in Node \cup {Nil}
  BY DEF Forest, ForestType, Arranged, Parents
<1>3. IsFiniteSet(Kids(t, a)) /\ Cardinality(Kids(t, a)) = Len(t.kids[a])
  BY <1>2, DistinctLength DEF Kids
<1>4. CASE t.parent[a] = Nil
  <2>1. A = Kids(t, a)
    BY <1>1, <1>4, NodesAssumption DEF Adjacent, Node
  <2>2. Degree(t, a) = Len(t.kids[a])
    BY <1>1, <1>4 DEF Degree
  <2> QED BY ONLY <1>3, <2>1, <2>2
<1>5. CASE t.parent[a] # Nil
  <2>1. A = Kids(t, a) \cup {t.parent[a]}
    BY <1>1, <1>2, <1>5 DEF Adjacent
  <2>2. t.parent[a] \notin Kids(t, a)
    BY <1>1, <1>5, InUseFacts
  <2>3. IsFiniteSet(A) /\ Cardinality(A) = Cardinality(Kids(t, a)) + 1
    <3>1. Cardinality(Kids(t, a) \cup {t.parent[a]}) = Cardinality(Kids(t, a)) + 1
      BY ONLY <1>3, <2>2, FS_AddElement
    <3>2. IsFiniteSet(Kids(t, a) \cup {t.parent[a]})
      BY ONLY <1>3, FS_AddElement
    <3> QED BY ONLY <2>1, <3>1, <3>2
  <2>4. Degree(t, a) = Len(t.kids[a]) + 1
    BY <1>5 DEF Degree
  <2> QED BY ONLY <1>3, <2>3, <2>4
<1> QED BY <1>4, <1>5

\* The neighbors of the apex that are neither full nor on a path.
EmptyAround(t, a, f, S) == {y \in Node : Adjacent(t, a, y) /\ y \notin ToSet(f) /\ y \notin S}

LEMMA EmptyCounted ==
  ASSUME NEW t, Forest(t), NEW a \in Node, NEW f \in Seq(Node), Distinct(f),
         \A y \in ToSet(f) : Adjacent(t, a, y),
         NEW S, S \subseteq Node, IsFiniteSet(S), \A y \in S : Adjacent(t, a, y) /\ y \notin ToSet(f),
         NEW E, E = EmptyAround(t, a, f, S)
  PROVE  /\ IsFiniteSet(E) /\ Cardinality(E) \in Nat
         /\ Degree(t, a) = Cardinality(E) + Len(f) + Cardinality(S)
<1> DEFINE A == {y \in Node : Adjacent(t, a, y)}
           F == ToSet(f)
<1>1. IsFiniteSet(A) /\ Cardinality(A) = Degree(t, a)
  BY NeighborsCounted
<1>2. IsFiniteSet(F) /\ Cardinality(F) = Len(f) /\ Len(f) \in Nat /\ F \subseteq Node
  <2>1. ToSet(f) \subseteq Node
    BY DEF ToSet
  <2> QED BY <2>1, DistinctLength
<1>3. A = (E \cup F) \cup S /\ E \cap F = {} /\ (E \cup F) \cap S = {}
  BY <1>2 DEF EmptyAround
<1> HIDE DEF A, F
<1>4. IsFiniteSet(E)
  BY <1>1, <1>3, FS_Subset
<1>5. IsFiniteSet(E \cup F) /\ Cardinality(E \cup F) = Cardinality(E) + Cardinality(F) - Cardinality(E \cap F)
  BY <1>2, <1>4, FS_Union
<1>6. Cardinality(A) = Cardinality(E \cup F) + Cardinality(S) - Cardinality((E \cup F) \cap S)
  BY <1>3, <1>5, FS_Union
<1>7. Cardinality({}) = 0
  BY FS_EmptySet
<1>8. Cardinality(E) \in Nat /\ Cardinality(S) \in Nat
  BY <1>4, FS_CardinalityType
<1>9. Cardinality(E \cap F) = 0 /\ Cardinality((E \cup F) \cap S) = 0
  BY ONLY <1>3, <1>7
<1>10. \A m, k, l, d, b \in Nat : d = b + l - 0 /\ b = m + k - 0 => d = m + k + l
  OBVIOUS
<1>11. Cardinality(E \cup F) \in Nat /\ Cardinality(A) \in Nat
  BY ONLY <1>1, <1>5, FS_CardinalityType
<1>12. Cardinality(A) = Cardinality(E) + Len(f) + Cardinality(S)
  BY ONLY <1>2, <1>5, <1>6, <1>8, <1>9, <1>10, <1>11
<1> QED BY ONLY <1>1, <1>4, <1>8, <1>12

\* The P-node a, its parent p, its full neighbors f, whether p is one of them,
\* and the stubs S of the paths among its children.
AtApex(t, a, p, f, S, pf) ==
  /\ Forest(t) /\ Tops(t) = {t.root} /\ t.root \in Node
  /\ a \in InUse(t) /\ a \in Inner /\ t.type[a] = "P" /\ p = t.parent[a]
  /\ f \in Seq(Node) /\ Distinct(f) /\ \A y \in ToSet(f) : Adjacent(t, a, y)
  /\ \A y \in S : y \in Node /\ t.parent[y] = a /\ y \notin ToSet(f) /\ t.type[y] # "leaf"
  /\ pf <=> p # Nil /\ p \in ToSet(f)

ApexPlace(t, a, p, f) ==
  /\ a \in Node /\ t.type[a] = "P" /\ t.parent[a] = p /\ p # a /\ a # Nil
  /\ p # Nil => p \in Node /\ p \in InUse(t) /\ t.parent[p] # a
  /\ \A y \in Node : t.parent[y] = a => /\ y \in InUse(t) /\ y # a /\ y # p /\ y # Nil /\ y \in Kids(t, a)
  /\ \A y \in ToSet(f) : y \in Node /\ y \in InUse(t) /\ (y = p \/ t.parent[y] = a)
  /\ p = Nil => a = t.root
  /\ p # Nil => a # t.root
  /\ t.root \in InUse(t) /\ t.parent[t.root] = Nil

LEMMA AtApexFacts ==
  ASSUME NEW t, NEW a, NEW p, NEW f, NEW S, NEW pf, AtApex(t, a, p, f, S, pf)
  PROVE  ApexPlace(t, a, p, f)
<1>1. /\ Forest(t) /\ Tops(t) = {t.root} /\ t.root \in Node
      /\ a \in InUse(t) /\ a \in Node /\ p = t.parent[a]
      /\ f \in Seq(Node) /\ \A y \in ToSet(f) : Adjacent(t, a, y)
  BY DEF AtApex, InUse
<1>2. \A x \in Node :
        /\ x # Nil
        /\ t.parent[x] # Nil => /\ t.parent[x] \in Node /\ t.parent[x] \in InUse(t)
                                /\ x \in InUse(t) /\ t.parent[x] # x
                                /\ t.parent[t.parent[x]] # x
  BY <1>1, InUseFacts
<1>3. ToSet(f) \subseteq Node
  BY <1>1 DEF ToSet
<1>4. \A y \in Node : t.parent[y] = a => y \in Kids(t, a)
  BY <1>1 DEF Forest, Arranged
<1>5. t.type[a] = "P"
  BY DEF AtApex
<1>6. p = Nil => a = t.root
  BY <1>1 DEF Tops
<1>7. t.root \in InUse(t) /\ t.parent[t.root] = Nil
  BY <1>1 DEF Tops
<1> QED BY <1>1, <1>2, <1>3, <1>4, <1>5, <1>6, <1>7 DEF Adjacent, ApexPlace

\* What lies beyond the parent of a stays as it is.
OutsideKept(t, u, a, New) ==
  \A y \in Node : y \notin New /\ y # a /\ t.parent[y] # a => u.parent[y] = t.parent[y]

AboveStays(t, u, a, p, New) ==
  /\ UpClosed(u.parent, Up(t.parent, p)) /\ Up(t.parent, p) \subseteq Node /\ p \in Up(t.parent, p)
  /\ \A y \in Up(t.parent, p) : y \in InUse(t) /\ y # a /\ t.parent[y] # a /\ y \notin New

LEMMA AboveKept ==
  ASSUME NEW t, Forest(t), NEW a \in Node, NEW p, p = t.parent[a], p # Nil,
         NEW New, New \cap InUse(t) = {}, NEW u, OutsideKept(t, u, a, New)
  PROVE  AboveStays(t, u, a, p, New)
<1>1. t.parent \in Parents /\ Acyclic(t.parent) /\ p \in Node /\ p \in InUse(t)
  BY InUseFacts DEF Forest, ForestType
<1>2. p \in Up(t.parent, p) /\ UpClosed(t.parent, Up(t.parent, p)) /\ Up(t.parent, p) \subseteq Node
  BY <1>1, UpIs
<1>3. a \notin Up(t.parent, p)
  BY <1>1, NotAboveItself
<1>4. Up(t.parent, p) \subseteq InUse(t)
  BY <1>1, InUseAbove
<1>5. a # Nil
  BY NodesAssumption DEF Node
<1>6. \A y \in Up(t.parent, p) : t.parent[y] # a
  BY <1>2, <1>3, <1>5 DEF UpClosed
<1>7. \A y \in Up(t.parent, p) : u.parent[y] = t.parent[y]
  BY <1>2, <1>3, <1>4, <1>6 DEF OutsideKept
<1> QED BY <1>2, <1>3, <1>4, <1>6, <1>7 DEF UpClosed, AboveStays

\* The stubs are isolated, the first becomes a child of the new node c.
Opened(t, v, c, stub1, stub2) ==
  /\ Forest(v) /\ v.root = t.root /\ v.type[c] = "C"
  /\ \A y \in Node : y # c => v.type[y] = t.type[y]
  /\ v.parent[stub1] = c /\ (stub2 # Nil => v.parent[stub2] = Nil)
  /\ \A y \in Node : y # stub1 /\ y # stub2 => v.parent[y] = t.parent[y]
  /\ Tops(v) = Tops(t) \cup {c} \cup ({stub2} \ {Nil})

LEMMA FirstStubIs ==
  ASSUME NEW t, NEW a, NEW p, NEW f, NEW S, NEW pf, AtApex(t, a, p, f, S, pf),
         NEW c \in Inner, t.type[c] = "free", NEW stub1, NEW stub2, S = {stub1, stub2} \ {Nil},
         stub1 # Nil, stub1 # stub2,
         NEW apart, apart = Detach(IF stub2 = Nil THEN t ELSE Detach(t, stub2), stub1),
         NEW v, v = AppendChild(NewNode(apart, c, "C"), c, stub1, FALSE)
  PROVE  Opened(t, v, c, stub1, stub2)
<1>1. /\ Forest(t) /\ a \in Node
      /\ stub1 \in Node /\ t.parent[stub1] = a /\ t.type[stub1] # "leaf"
      /\ stub2 # Nil => stub2 \in Node /\ t.parent[stub2] = a /\ t.type[stub2] # "leaf"
  BY DEF AtApex, InUse
<1>2. a # Nil /\ c \in Node
  BY <1>1, NodesAssumption DEF Node
<1>3. c \notin InUse(t) /\ t.parent[c] = Nil /\ t.kids[c] = <<>>
  BY <1>1, <1>2, ForestFacts DEF InUse
<1> DEFINE t0 == IF stub2 = Nil THEN t ELSE Detach(t, stub2)
<1>4. /\ Forest(t0) /\ t0.root = t.root /\ t0.type = t.type
      /\ stub2 # Nil => t0.parent[stub2] = Nil
      /\ \A y \in Node : y # stub2 => t0.parent[y] = t.parent[y]
      /\ Tops(t0) = Tops(t) \cup ({stub2} \ {Nil})
  <2>1. CASE stub2 = Nil
    BY <1>1, <2>1
  <2>2. CASE stub2 # Nil
    <3>1. t0 = Detach(t, stub2) /\ t.parent[stub2] # Nil /\ stub2 \in Node
      BY <1>1, <1>2, <2>2
    <3> HIDE DEF t0
    <3>2. /\ Forest(t0) /\ t0.root = t.root /\ t0.type = t.type /\ t0.parent[stub2] = Nil
          /\ \A x \in Node : x # stub2 => t0.parent[x] = t.parent[x]
          /\ Tops(t0) = Tops(t) \cup {stub2}
      BY <1>1, <3>1, DetachIs
    <3> QED BY <2>2, <3>2
  <2> QED BY <2>1, <2>2
<1>5. apart = Detach(t0, stub1)
  OBVIOUS
<1> HIDE DEF t0
<1>6. /\ Forest(apart) /\ apart.root = t.root /\ apart.type = t.type /\ apart.parent[stub1] = Nil
      /\ \A y \in Node : y # stub1 => apart.parent[y] = t0.parent[y]
      /\ Tops(apart) = Tops(t0) \cup {stub1}
  <2>1. t0.parent[stub1] # Nil
    BY <1>1, <1>2, <1>4
  <2>2. /\ Forest(apart) /\ apart.root = t0.root /\ apart.type = t0.type /\ apart.parent[stub1] = Nil
        /\ \A x \in Node : x # stub1 => apart.parent[x] = t0.parent[x]
        /\ Tops(apart) = Tops(t0) \cup {stub1}
    BY <1>1, <1>4, <1>5, <2>1, DetachIs
  <2> QED BY <1>4, <2>2
<1> DEFINE w == NewNode(apart, c, "C")
<1>7. /\ Forest(w) /\ w.root = t.root /\ w.parent = apart.parent
      /\ w.type[c] = "C" /\ \A y \in Node : y # c => w.type[y] = t.type[y]
      /\ Tops(w) = Tops(apart) \cup {c}
  <2>1. apart.type[c] = "free"
    BY <1>6
  <2>2. w = NewNode(apart, c, "C")
    OBVIOUS
  <2> HIDE DEF w
  <2>3. /\ Forest(w) /\ w.root = apart.root /\ w.parent = apart.parent
        /\ w.type[c] = "C" /\ \A y \in Node : y # c => w.type[y] = apart.type[y]
        /\ Tops(w) = Tops(apart) \cup {c}
    BY <1>2, <1>6, <2>1, <2>2, NewNodeIs
  <2> QED BY <1>6, <2>3
<1>8. v = AppendChild(w, c, stub1, FALSE)
  OBVIOUS
<1> HIDE DEF w
<1>9. c # stub1 /\ c # stub2 /\ c # Nil
  BY <1>1, <1>2, <1>3, NodesAssumption DEF Node
<1>10. MayHang(w, c, stub1)
  <2>1. c \in Tops(w) /\ stub1 \in Tops(w)
    BY <1>6, <1>7
  <2>2. w.parent[c] = Nil /\ w.parent \in Parents
    BY <2>1, <1>7 DEF Tops, Forest, ForestType
  <2>3. Up(w.parent, c) = {c}
    BY <1>2, <2>2, UpIs
  <2>4. w.type[stub1] # "leaf"
    BY <1>1, <1>7, <1>9
  <2> QED BY <1>7, <1>9, <2>1, <2>3, <2>4 DEF MayHang, Tops
<1>11. Hangs(w, v, c, stub1)
  BY <1>7, <1>8, <1>10, AppendEndIs
<1>12. /\ Forest(v) /\ v.root = t.root /\ v.type = w.type /\ Tops(v) = Tops(w) \ {stub1}
       /\ v.parent[stub1] = c /\ \A x \in Node : x # stub1 => v.parent[x] = w.parent[x]
  BY <1>11, <1>7 DEF Hangs
<1>13. stub1 \notin Tops(t) /\ stub1 # stub2
  BY <1>1, <1>2 DEF Tops
<1>14. Tops(v) = Tops(t) \cup {c} \cup ({stub2} \ {Nil})
  BY ONLY <1>4, <1>6, <1>7, <1>9, <1>12, <1>13
<1>15. \A y \in Node : y # stub1 /\ y # stub2 => v.parent[y] = t.parent[y]
  BY ONLY <1>4, <1>6, <1>7, <1>12
<1>16. stub2 # Nil => v.parent[stub2] = Nil
  BY ONLY <1>1, <1>4, <1>6, <1>7, <1>12, <1>13
<1> QED BY ONLY <1>7, <1>12, <1>14, <1>15, <1>16 DEF Opened

\* The full neighbors f of a are grouped around the new node c, at the node n;
\* the stubs in S are children of c, those in W still isolated.
GroupedFrame(t, v, a, c, n, New, S, W, f) ==
  /\ Forest(v) /\ v.root = t.root
  /\ c \in New /\ New \subseteq {c, n} /\ New \subseteq Inner /\ New \cap InUse(t) = {}
  /\ v.type[c] = "C" /\ (n \in New /\ n # c => v.type[n] = "P")
  /\ \A y \in Node : y \notin New => v.type[y] = t.type[y]
  /\ OutsideKept(t, v, a, New)
  /\ \A y \in S : v.parent[y] = c
  /\ \A y \in W : v.parent[y] = Nil
  /\ \A y \in Node : /\ t.parent[y] = a /\ y \notin S /\ y \notin W
                     => /\ y \notin ToSet(f) => v.parent[y] = a
                        /\ y \in ToSet(f) => (y = n /\ v.parent[y] = c) \/ (n \in New /\ n # c /\ v.parent[y] = n)

\* The parent is full: c comes between it and a.
GroupedAbove(t, v, a, p, c, n, New, W, f) ==
  /\ v.parent[a] = Nil /\ Tops(v) = {t.root, a} \cup W
  /\ \/ New = {c} /\ n = p /\ v.parent[c] = p
     \/ n \in New /\ n # c /\ v.parent[c] = n /\ v.parent[n] = p /\ \E y \in ToSet(f) : t.parent[y] = a

\* It is not: c is isolated.
GroupedBeside(t, v, a, p, c, n, New, W, f) ==
  /\ v.parent[a] = p /\ v.parent[c] = Nil /\ Tops(v) = {t.root, c} \cup W
  /\ f = <<>> => n = Nil
  /\ f # <<>> => /\ n \in Node /\ n # c /\ v.parent[n] = c
                 /\ n \in New => \E y, z \in ToSet(f) : y # z
                 /\ n \notin New => n \in ToSet(f)

Grouped(t, v, a, p, c, n, New, S, W, f, pf) ==
  /\ GroupedFrame(t, v, a, c, n, New, S, W, f)
  /\ pf => GroupedAbove(t, v, a, p, c, n, New, W, f)
  /\ ~pf => GroupedBeside(t, v, a, p, c, n, New, W, f)

OpenPlace(t, v, a, p, c, S, f, stub2) ==
  /\ c \in Node /\ c # a /\ c # p /\ c # Nil /\ c \notin InUse(t) /\ c \notin S /\ c \notin ToSet(f)
  /\ v.parent[c] = Nil /\ c \in Tops(v) /\ c \in InUse(v) /\ v.parent[a] = p /\ a \in InUse(v)
  /\ v.type[a] = "P"
  /\ \A y \in Node : t.parent[y] = a /\ y \notin S => v.parent[y] = a
  /\ OutsideKept(t, v, a, {c})
  /\ {c} \cap InUse(t) = {}
  /\ Tops(v) = {t.root, c} \cup ({stub2} \ {Nil})

LEMMA OpenedFacts ==
  ASSUME NEW t, NEW a, NEW p, NEW f, NEW S, NEW pf, AtApex(t, a, p, f, S, pf),
         NEW c \in Inner, t.type[c] = "free", NEW stub1, NEW stub2, S = {stub1, stub2} \ {Nil},
         stub1 # Nil, stub1 # stub2,
         NEW v, Opened(t, v, c, stub1, stub2)
  PROVE  OpenPlace(t, v, a, p, c, S, f, stub2)
<1>1. /\ a \in Node /\ t.type[a] = "P" /\ t.parent[a] = p /\ p # a /\ a # Nil
      /\ p # Nil => p \in Node /\ p \in InUse(t) /\ t.parent[p] # a
      /\ \A y \in Node : t.parent[y] = a => /\ y \in InUse(t) /\ y # a /\ y # p /\ y # Nil /\ y \in Kids(t, a)
      /\ \A y \in ToSet(f) : y \in Node /\ y \in InUse(t) /\ (y = p \/ t.parent[y] = a)
      /\ t.root \in InUse(t) /\ t.parent[t.root] = Nil
  <2>1. ApexPlace(t, a, p, f)
    BY AtApexFacts
  <2> QED BY ONLY <2>1 DEF ApexPlace
<1>2. /\ Forest(t) /\ Tops(t) = {t.root} /\ a \in InUse(t)
      /\ \A y \in S : y \in Node /\ t.parent[y] = a /\ y \notin ToSet(f)
  BY DEF AtApex
<1>3. /\ Forest(v) /\ v.type[c] = "C"
      /\ \A y \in Node : y # c => v.type[y] = t.type[y]
      /\ \A y \in Node : y # stub1 /\ y # stub2 => v.parent[y] = t.parent[y]
      /\ Tops(v) = Tops(t) \cup {c} \cup ({stub2} \ {Nil})
  BY DEF Opened
<1>4. c \in Node /\ c # Nil
  BY NodesAssumption DEF Node
<1>5. c \notin InUse(t)
  BY DEF InUse
<1>6. t.parent[c] = Nil
  BY <1>2, <1>4, <1>5, ForestFacts
<1>7. c # a /\ c # p /\ c \notin S /\ c \notin ToSet(f)
  BY <1>1, <1>2, <1>4, <1>5
<1>8. a \notin S
  BY <1>1, <1>2
<1>9. v.parent[c] = Nil /\ v.parent[a] = p /\ v.type[a] = "P"
  BY <1>1, <1>3, <1>4, <1>6, <1>7, <1>8
<1>10. c \in Tops(v) /\ c \in InUse(v) /\ a \in InUse(v)
  BY <1>1, <1>3, <1>4, <1>9 DEF InUse
<1>11. \A y \in Node : t.parent[y] = a /\ y \notin S => v.parent[y] = a
  BY <1>1, <1>3
<1>12. OutsideKept(t, v, a, {c})
  <2>1. \A y \in Node : t.parent[y] # a => y # stub1 /\ y # stub2
    BY <1>2, NodesAssumption DEF Node
  <2> QED BY <2>1, <1>3 DEF OutsideKept
<1>13. Tops(v) = {t.root, c} \cup ({stub2} \ {Nil})
  BY <1>2, <1>3
<1> QED BY <1>4, <1>5, <1>7, <1>9, <1>10, <1>11, <1>12, <1>13 DEF OpenPlace

\* No neighbor of a is full.
LEMMA NoFullNode ==
  ASSUME NEW t, NEW a, NEW p, NEW f, NEW S, NEW pf, AtApex(t, a, p, f, S, pf),
         NEW c \in Inner, t.type[c] = "free", NEW stub1, NEW stub2, S = {stub1, stub2} \ {Nil},
         stub1 # Nil, stub1 # stub2,
         NEW v, Opened(t, v, c, stub1, stub2), f = <<>>
  PROVE  Grouped(t, v, a, p, c, Nil, {c}, {stub1}, {stub2} \ {Nil}, f, pf)
<1>1. /\ c \in Node /\ c # a /\ c # p /\ c # Nil /\ c \notin InUse(t)
      /\ v.parent[c] = Nil /\ v.parent[a] = p
      /\ \A y \in Node : t.parent[y] = a /\ y \notin S => v.parent[y] = a
      /\ OutsideKept(t, v, a, {c}) /\ {c} \cap InUse(t) = {}
      /\ Tops(v) = {t.root, c} \cup ({stub2} \ {Nil})
  <2>1. OpenPlace(t, v, a, p, c, S, f, stub2)
    BY OpenedFacts
  <2> QED BY ONLY <2>1 DEF OpenPlace
<1>2. /\ Forest(v) /\ v.root = t.root /\ v.type[c] = "C"
      /\ \A y \in Node : y # c => v.type[y] = t.type[y]
      /\ v.parent[stub1] = c /\ (stub2 # Nil => v.parent[stub2] = Nil)
  BY DEF Opened
<1>3. ~pf /\ \A y : y \notin ToSet(f)
  BY DEF AtApex, ToSet
<1>4. GroupedFrame(t, v, a, c, Nil, {c}, {stub1}, {stub2} \ {Nil}, f)
  BY <1>1, <1>2, <1>3 DEF GroupedFrame
<1>5. GroupedBeside(t, v, a, p, c, Nil, {c}, {stub2} \ {Nil}, f)
  BY <1>1 DEF GroupedBeside
<1> QED BY <1>3, <1>4, <1>5 DEF Grouped

\* Only the parent is full.
LEMMA FullParentOnly ==
  ASSUME NEW t, NEW a, NEW p, NEW f, NEW S, NEW pf, AtApex(t, a, p, f, S, pf),
         NEW c \in Inner, t.type[c] = "free", NEW stub1, NEW stub2, S = {stub1, stub2} \ {Nil},
         stub1 # Nil, stub1 # stub2,
         NEW v, Opened(t, v, c, stub1, stub2), Len(f) = 1, pf,
         NEW w, w = ReplaceWith(v, a, c)
  PROVE  Grouped(t, w, a, p, c, p, {c}, {stub1}, {stub2} \ {Nil}, f, pf)
<1>1. /\ c \in Node /\ c # a /\ c # p /\ c # Nil /\ c \notin InUse(t)
      /\ v.parent[c] = Nil /\ c \in Tops(v) /\ v.parent[a] = p
      /\ \A y \in Node : t.parent[y] = a /\ y \notin S => v.parent[y] = a
      /\ OutsideKept(t, v, a, {c}) /\ {c} \cap InUse(t) = {}
      /\ Tops(v) = {t.root, c} \cup ({stub2} \ {Nil})
  <2>1. OpenPlace(t, v, a, p, c, S, f, stub2)
    BY OpenedFacts
  <2> QED BY ONLY <2>1 DEF OpenPlace
<1>2. /\ Forest(v) /\ v.root = t.root /\ v.type[c] = "C"
      /\ \A y \in Node : y # c => v.type[y] = t.type[y]
      /\ v.parent[stub1] = c /\ (stub2 # Nil => v.parent[stub2] = Nil)
  BY DEF Opened
<1>3. /\ a \in Node /\ t.parent[a] = p /\ p # a /\ a # Nil
      /\ p # Nil => p \in Node /\ p \in InUse(t) /\ t.parent[p] # a
      /\ \A y \in Node : t.parent[y] = a => /\ y \in InUse(t) /\ y # a /\ y # p /\ y # Nil /\ y \in Kids(t, a)
      /\ t.root \in InUse(t) /\ t.parent[t.root] = Nil
  <2>1. ApexPlace(t, a, p, f)
    BY AtApexFacts
  <2> QED BY ONLY <2>1 DEF ApexPlace
<1>4. /\ Forest(t) /\ p # Nil /\ p \in ToSet(f) /\ f \in Seq(Node)
      /\ \A y \in S : y \in Node /\ t.parent[y] = a /\ y \notin ToSet(f)
  BY DEF AtApex
<1>5. \A y \in ToSet(f) : y = p
  <2>1. ToSet(f) = {f[1]}
    BY <1>4 DEF ToSet
  <2> QED BY <1>4, <2>1
<1>6. c \notin Up(v.parent, p)
  <2>1. /\ UpClosed(v.parent, Up(t.parent, p)) /\ Up(t.parent, p) \subseteq Node /\ p \in Up(t.parent, p)
        /\ \A y \in Up(t.parent, p) : y \in InUse(t) /\ y # a /\ t.parent[y] # a /\ y \notin {c}
    <3>1. AboveStays(t, v, a, p, {c})
      BY <1>1, <1>3, <1>4, AboveKept
    <3> QED BY ONLY <3>1 DEF AboveStays
  <2>2. v.parent \in Parents
    BY <1>2 DEF Forest, ForestType
  <2>3. Up(v.parent, p) \subseteq Up(t.parent, p)
    BY <1>3, <1>4, <2>1, <2>2, UpIs
  <2> QED BY <2>1, <2>3
<1>7. /\ Forest(w) /\ w.root = v.root /\ w.type = v.type /\ Tops(w) = (Tops(v) \ {c}) \cup {a}
      /\ w.parent[a] = Nil /\ w.parent[c] = p
      /\ \A y \in Node : y # a /\ y # c => w.parent[y] = v.parent[y]
  <2>1. v.parent[a] # Nil /\ c \notin Up(v.parent, v.parent[a]) /\ v.type[c] # "leaf"
    BY <1>1, <1>2, <1>4, <1>6
  <2> QED BY <1>1, <1>2, <1>3, <2>1, ReplaceWithIs
<1>8. c # stub1 /\ c # stub2 /\ a # stub1 /\ a # stub2
  <2>1. \A y \in S : t.parent[y] = a /\ y \in Node
    BY <1>4
  <2>2. \A y \in S : y # a /\ y # c
    BY <2>1, <1>1, <1>3
  <2> QED BY <2>2, <1>1, <1>3
<1>9. OutsideKept(t, w, a, {c})
  BY <1>1, <1>7 DEF OutsideKept
<1>10. \A y \in {stub2} \ {Nil} : w.parent[y] = Nil
  BY <1>2, <1>4, <1>7, <1>8
<1>11. w.parent[stub1] = c
  BY <1>2, <1>4, <1>7, <1>8
<1>12. \A y \in Node : t.parent[y] = a /\ y \notin S => w.parent[y] = a /\ y \notin ToSet(f)
  BY <1>1, <1>3, <1>5, <1>7
<1>13. GroupedFrame(t, w, a, c, p, {c}, {stub1}, {stub2} \ {Nil}, f)
  <2>1. \A y \in Node : y \notin {c} => w.type[y] = t.type[y]
    BY <1>2, <1>7
  <2> QED BY <1>1, <1>2, <1>7, <1>9, <1>10, <1>11, <1>12, <2>1 DEF GroupedFrame
<1>14. GroupedAbove(t, w, a, p, c, p, {c}, {stub2} \ {Nil}, f)
  <2>1. t.root # c
    BY <1>1, <1>3
  <2>2. Tops(w) = {t.root, a} \cup ({stub2} \ {Nil})
    BY ONLY <1>1, <1>7, <1>8, <2>1
  <2> QED BY <1>7, <2>2 DEF GroupedAbove
<1> QED BY <1>13, <1>14 DEF Grouped

\* The node n of the full neighbors, split off from a.
SplitPlace(t, v, x, a, c, n, M, S, stub2) ==
  /\ Forest(x) /\ x.root = t.root /\ Tops(x) = {t.root, c, n} \cup ({stub2} \ {Nil})
  /\ n \in Tops(x) /\ n \in Node /\ n # a /\ n # c /\ n # Nil /\ n # t.root /\ n # stub2 /\ n \notin S
  /\ n \notin Up(x.parent, a) /\ x.parent[n] = Nil
  /\ x.type[n] = "leaf" => x.kids[n] = <<>>
  /\ x.type[c] = "C" /\ x.parent[c] = Nil /\ c \in Tops(x) /\ x.type[a] = "P"
  /\ \A y \in Node : y # c /\ y # n => x.type[y] = t.type[y]
  /\ \A y \in Node : y \notin M /\ y # n => x.parent[y] = v.parent[y]
  /\ \/ M = {n} /\ n \in InUse(t) /\ x.type[n] = t.type[n]
     \/ /\ n \notin InUse(t) /\ n \in Inner /\ x.type[n] = "P"
        /\ (\A y \in M : x.parent[y] = n)

LEMMA SplitPlaced ==
  ASSUME NEW t, NEW a, NEW p, NEW f, NEW S, NEW pf, AtApex(t, a, p, f, S, pf),
         NEW c \in Inner, t.type[c] = "free", NEW stub1, NEW stub2, S = {stub1, stub2} \ {Nil},
         stub1 # Nil, stub1 # stub2,
         NEW v, Opened(t, v, c, stub1, stub2),
         NEW M, M \subseteq ToSet(f), \A y \in M : t.parent[y] = a,
         NEW x, NEW n, SplitFrom(v, x, a, n, M)
  PROVE  SplitPlace(t, v, x, a, c, n, M, S, stub2)
<1>1. /\ c \in Node /\ c # a /\ c # p /\ c # Nil /\ c \notin InUse(t) /\ c \notin ToSet(f)
      /\ v.parent[c] = Nil /\ c \in Tops(v) /\ v.parent[a] = p /\ v.type[a] = "P"
      /\ Tops(v) = {t.root, c} \cup ({stub2} \ {Nil})
  <2>1. OpenPlace(t, v, a, p, c, S, f, stub2)
    BY OpenedFacts
  <2> QED BY ONLY <2>1 DEF OpenPlace
<1>2. /\ Forest(v) /\ v.root = t.root /\ v.type[c] = "C"
      /\ \A y \in Node : y # c => v.type[y] = t.type[y]
      /\ v.parent[stub1] = c
  BY DEF Opened
<1>3. /\ a \in Node /\ t.type[a] = "P"
      /\ \A y \in Node : t.parent[y] = a => y \in InUse(t) /\ y # a /\ y # Nil
      /\ \A y \in ToSet(f) : y \in Node /\ y \in InUse(t)
  <2>1. ApexPlace(t, a, p, f)
    BY AtApexFacts
  <2> QED BY ONLY <2>1 DEF ApexPlace
<1>4. \A y \in S : y \in Node /\ t.parent[y] = a /\ y \notin ToSet(f)
  BY DEF AtApex
<1>5. /\ Forest(x) /\ x.root = v.root /\ Tops(x) = Tops(v) \cup {n} /\ n \notin Tops(v)
      /\ n \in InUse(x) /\ n \in Node /\ n # a /\ n \notin Up(x.parent, a) /\ x.parent[n] = Nil
      /\ x.type[n] = "leaf" => x.kids[n] = <<>>
      /\ \A y \in Node : y # n => x.type[y] = v.type[y]
      /\ \A y \in Node : y \notin M /\ y # n => x.parent[y] = v.parent[y]
      /\ \/ M = {n} /\ x.type = v.type
         \/ v.type[n] = "free" /\ n \in Inner /\ x.type[n] = "P" /\ \A y \in M : x.parent[y] = n
  BY DEF SplitFrom
<1>6. n # c /\ n # t.root /\ n # Nil /\ n # stub2
  BY <1>1, <1>5, NodesAssumption DEF Node
<1>7. /\ n \in Tops(x) /\ c \in Tops(x) /\ c \notin M
      /\ Tops(x) = {t.root, c, n} \cup ({stub2} \ {Nil})
  BY <1>1, <1>5
<1>8. x.parent[c] = Nil /\ x.type[c] = "C" /\ x.type[a] = "P"
  BY <1>1, <1>2, <1>3, <1>5, <1>6, <1>7
<1>9. \A y \in Node : y # c /\ y # n => x.type[y] = t.type[y]
  BY <1>2, <1>5
<1>10. \/ M = {n} /\ n \in InUse(t) /\ x.type[n] = t.type[n]
       \/ n \notin InUse(t) /\ n \in Inner /\ x.type[n] = "P" /\ \A y \in M : x.parent[y] = n
  <2>1. CASE M = {n} /\ x.type = v.type
    BY <2>1, <1>2, <1>3, <1>5, <1>6
  <2>2. CASE v.type[n] = "free" /\ n \in Inner /\ x.type[n] = "P" /\ \A y \in M : x.parent[y] = n
    <3>1. t.type[n] = "free"
      BY <2>2, <1>2, <1>5, <1>6
    <3> QED BY <2>2, <3>1 DEF InUse
  <2> QED BY <1>5, <2>1, <2>2
<1>11. n \notin S
  <2>1. CASE M = {n}
    BY <2>1, <1>4
  <2>2. CASE n \notin InUse(t)
    BY <2>2, <1>3, <1>4
  <2> QED BY <1>10, <2>1, <2>2
<1>12. x.root = t.root
  BY <1>2, <1>5
<1> QED BY ONLY <1>5, <1>6, <1>7, <1>8, <1>9, <1>10, <1>11, <1>12 DEF SplitPlace

\* The node of the full neighbors comes below c.
LEMMA FullNodeBelow ==
  ASSUME NEW t, NEW a, NEW p, NEW f, NEW S, NEW pf, AtApex(t, a, p, f, S, pf),
         NEW c \in Inner, t.type[c] = "free", NEW stub1, NEW stub2, S = {stub1, stub2} \ {Nil},
         stub1 # Nil, stub1 # stub2,
         NEW v, Opened(t, v, c, stub1, stub2), ~pf, f # <<>>,
         NEW M, M = ToSet(f), NEW x, NEW n, SplitFrom(v, x, a, n, M),
         M = {n} \/ \E y, z \in M : y # z,
         NEW w, w = AppendChild(x, c, n, FALSE)
  PROVE  \E New : Grouped(t, w, a, p, c, n, New, {stub1}, {stub2} \ {Nil}, f, pf)
<1>1. /\ c \in Node /\ c # a /\ c # p /\ c # Nil /\ c \notin InUse(t) /\ c \notin S /\ c \notin ToSet(f)
      /\ v.parent[c] = Nil /\ v.parent[a] = p
      /\ \A y \in Node : t.parent[y] = a /\ y \notin S => v.parent[y] = a
      /\ OutsideKept(t, v, a, {c})
  <2>1. OpenPlace(t, v, a, p, c, S, f, stub2)
    BY OpenedFacts
  <2> QED BY ONLY <2>1 DEF OpenPlace
<1>2. v.parent[stub1] = c /\ (stub2 # Nil => v.parent[stub2] = Nil)
  BY DEF Opened
<1>3. /\ a \in Node /\ t.parent[a] = p /\ p # a /\ a # Nil /\ t.type[a] = "P"
      /\ \A y \in Node : t.parent[y] = a => y \in InUse(t) /\ y # a /\ y # Nil
      /\ \A y \in ToSet(f) : y \in Node /\ y \in InUse(t) /\ (y = p \/ t.parent[y] = a)
      /\ t.root \in InUse(t)
  <2>1. ApexPlace(t, a, p, f)
    BY AtApexFacts
  <2> QED BY ONLY <2>1 DEF ApexPlace
<1>4. \A y \in S : y \in Node /\ t.parent[y] = a /\ y \notin ToSet(f)
  BY DEF AtApex
<1>5. p \notin ToSet(f)
  BY <1>3, NodesAssumption DEF AtApex, Node
<1>6. \A y \in M : t.parent[y] = a
  BY <1>3, <1>5
<1>7. SplitPlace(t, v, x, a, c, n, M, S, stub2)
  BY <1>6, SplitPlaced
<1>8. /\ Forest(x) /\ x.root = t.root /\ Tops(x) = {t.root, c, n} \cup ({stub2} \ {Nil})
      /\ n \in Tops(x) /\ n \in Node /\ n # a /\ n # c /\ n # Nil /\ n # t.root /\ n # stub2 /\ n \notin S
      /\ n \notin Up(x.parent, a) /\ x.parent[n] = Nil
      /\ x.type[n] = "leaf" => x.kids[n] = <<>>
      /\ x.type[c] = "C" /\ x.parent[c] = Nil /\ c \in Tops(x) /\ x.type[a] = "P"
      /\ \A y \in Node : y # c /\ y # n => x.type[y] = t.type[y]
      /\ \A y \in Node : y \notin M /\ y # n => x.parent[y] = v.parent[y]
      /\ \/ M = {n} /\ n \in InUse(t) /\ x.type[n] = t.type[n]
         \/ n \notin InUse(t) /\ n \in Inner /\ x.type[n] = "P" /\ \A y \in M : x.parent[y] = n
  BY ONLY <1>7 DEF SplitPlace
<1>9. MayHang(x, c, n)
  <2>1. x.parent \in Parents
    BY <1>8 DEF Forest, ForestType
  <2>2. Up(x.parent, c) = {c}
    BY <1>1, <1>8, <2>1, UpIs
  <2> QED BY <1>8, <2>2 DEF MayHang, Tops
<1>10. Hangs(x, w, c, n)
  BY <1>8, <1>9, AppendEndIs
<1>11. /\ Forest(w) /\ w.root = t.root /\ w.type = x.type /\ Tops(w) = Tops(x) \ {n}
       /\ w.parent[n] = c /\ \A y \in Node : y # n => w.parent[y] = x.parent[y]
  BY <1>8, <1>10 DEF Hangs
<1> DEFINE New == IF n \in InUse(t) THEN {c} ELSE {c, n}
<1>12. /\ New \subseteq {c, n} /\ c \in New /\ New \subseteq Inner /\ New \cap InUse(t) = {}
       /\ n \in New <=> n \notin InUse(t)
  BY <1>1, <1>8
<1>13. n \in InUse(t) => M = {n}
  BY <1>8
<1>14. n \notin InUse(t) => w.type[n] = "P" /\ (\A y \in M : w.parent[y] = n) /\ \E y, z \in M : y # z
  <2> SUFFICES ASSUME n \notin InUse(t)
               PROVE  w.type[n] = "P" /\ (\A y \in M : w.parent[y] = n) /\ \E y, z \in M : y # z
    OBVIOUS
  <2>1. x.type[n] = "P" /\ (\A y \in M : x.parent[y] = n) /\ n \notin M
    BY <1>3, <1>8
  <2>2. \E y, z \in M : y # z
    BY <2>1
  <2>3. \A y \in M : w.parent[y] = n
    BY <2>1, <1>3, <1>11
  <2> QED BY <1>11, <2>1, <2>2, <2>3
<1> HIDE DEF New
<1>15. \A y \in Node : y \notin New => w.type[y] = t.type[y]
  BY <1>8, <1>11, <1>12
<1>16. \A y \in S : w.parent[y] = v.parent[y]
  BY ZenonT(40), <1>4, <1>8, <1>11
<1>17. OutsideKept(t, w, a, New)
  <2> SUFFICES ASSUME NEW y \in Node, y \notin New, y # a, t.parent[y] # a PROVE w.parent[y] = t.parent[y]
    BY DEF OutsideKept
  <2>1. y \notin M /\ y # c
    BY <1>6, <1>12
  <2>2. y # n
    BY <2>1, <1>12, <1>13
  <2> QED BY ZenonT(40), <2>1, <2>2, <1>1, <1>8, <1>11 DEF OutsideKept
<1>18. ASSUME NEW y \in Node, t.parent[y] = a, y \notin S
       PROVE  /\ y \notin ToSet(f) => w.parent[y] = a
              /\ y \in ToSet(f) => (y = n /\ w.parent[y] = c) \/ (n \in New /\ n # c /\ w.parent[y] = n)
  <2>1. y \in InUse(t)
    BY <1>18, <1>3
  <2>2. CASE y \notin ToSet(f)
    <3>1. y # n
      BY <2>1, <2>2, <1>13
    <3> QED BY <2>2, <3>1, <1>1, <1>8, <1>11, <1>18
  <2>3. CASE y \in ToSet(f)
    BY ZenonT(40), <2>3, <1>8, <1>11, <1>12, <1>13, <1>14
  <2> QED BY <2>2, <2>3
<1>19. GroupedFrame(t, w, a, c, n, New, {stub1}, {stub2} \ {Nil}, f)
  <2>1. w.type[c] = "C" /\ (n \in New /\ n # c => w.type[n] = "P")
    BY <1>8, <1>11, <1>12, <1>14
  <2>2. w.parent[stub1] = c /\ \A y \in {stub2} \ {Nil} : w.parent[y] = Nil
    BY <1>2, <1>16
  <2>3. \A y \in Node : y \notin {stub1} /\ y \notin {stub2} \ {Nil} => y \notin S
    OBVIOUS
  <2> QED BY ONLY <1>11, <1>12, <1>15, <1>17, <1>18, <2>1, <2>2, <2>3 DEF GroupedFrame
<1>20. GroupedBeside(t, w, a, p, c, n, New, {stub2} \ {Nil}, f)
  <2>1. w.parent[a] = p /\ w.parent[c] = Nil
    BY <1>1, <1>3, <1>6, <1>8, <1>11
  <2>2. Tops(w) = {t.root, c} \cup ({stub2} \ {Nil})
    BY ONLY <1>8, <1>11
  <2>3. n \notin New => n \in ToSet(f)
    BY <1>12, <1>13
  <2> QED BY <1>8, <1>11, <1>12, <1>14, <2>1, <2>2, <2>3 DEF GroupedBeside
<1> QED BY <1>19, <1>20 DEF Grouped

\* The node of the full neighbors, one of which is the parent of a, comes
\* between the parent and c.
LEMMA FullNodeAbove ==
  ASSUME NEW t, NEW a, NEW p, NEW f, NEW S, NEW pf, AtApex(t, a, p, f, S, pf),
         NEW c \in Inner, t.type[c] = "free", NEW stub1, NEW stub2, S = {stub1, stub2} \ {Nil},
         stub1 # Nil, stub1 # stub2,
         NEW v, Opened(t, v, c, stub1, stub2), pf,
         NEW M, M = ToSet(f) \ {p}, M # {}, NEW x, NEW n, SplitFrom(v, x, a, n, M), n \notin InUse(t),
         NEW x2, x2 = ReplaceWith(x, a, n),
         NEW w, w = AppendChild(x2, n, c, FALSE)
  PROVE  \E New : Grouped(t, w, a, p, c, n, New, {stub1}, {stub2} \ {Nil}, f, pf)
<1>1. /\ c \in Node /\ c # a /\ c # p /\ c # Nil /\ c \notin InUse(t) /\ c \notin S /\ c \notin ToSet(f)
      /\ v.parent[c] = Nil /\ v.parent[a] = p
      /\ \A y \in Node : t.parent[y] = a /\ y \notin S => v.parent[y] = a
      /\ OutsideKept(t, v, a, {c})
  <2>1. OpenPlace(t, v, a, p, c, S, f, stub2)
    BY OpenedFacts
  <2> QED BY ONLY <2>1 DEF OpenPlace
<1>2. v.parent[stub1] = c /\ (stub2 # Nil => v.parent[stub2] = Nil)
  BY DEF Opened
<1>3. /\ a \in Node /\ t.parent[a] = p /\ p # a /\ a # Nil /\ t.type[a] = "P"
      /\ \A y \in Node : t.parent[y] = a => y \in InUse(t) /\ y # a /\ y # Nil
      /\ \A y \in ToSet(f) : y \in Node /\ y \in InUse(t) /\ (y = p \/ t.parent[y] = a)
      /\ t.root \in InUse(t)
      /\ p # Nil => p \in Node /\ p \in InUse(t) /\ t.parent[p] # a /\ a # t.root
  <2>1. ApexPlace(t, a, p, f)
    BY AtApexFacts
  <2> QED BY ONLY <2>1 DEF ApexPlace
<1>4. /\ \A y \in S : y \in Node /\ t.parent[y] = a /\ y \notin ToSet(f)
      /\ p # Nil /\ p \in ToSet(f) /\ Forest(t)
  BY DEF AtApex
<1>6. \A y \in M : t.parent[y] = a
  BY <1>3
<1>7. SplitPlace(t, v, x, a, c, n, M, S, stub2)
  BY <1>6, SplitPlaced
<1>8. /\ Forest(x) /\ x.root = t.root /\ Tops(x) = {t.root, c, n} \cup ({stub2} \ {Nil})
      /\ n \in Tops(x) /\ n \in Node /\ n # a /\ n # c /\ n # Nil /\ n # t.root /\ n # stub2 /\ n \notin S
      /\ n \notin Up(x.parent, a) /\ x.parent[n] = Nil
      /\ n \in Inner /\ x.type[n] = "P" /\ \A y \in M : x.parent[y] = n
      /\ x.type[c] = "C" /\ x.parent[c] = Nil /\ c \in Tops(x) /\ x.type[a] = "P"
      /\ \A y \in Node : y # c /\ y # n => x.type[y] = t.type[y]
      /\ \A y \in Node : y \notin M /\ y # n => x.parent[y] = v.parent[y]
  BY ONLY <1>7, M # {}, n \notin InUse(t) DEF SplitPlace
<1>9. x.parent[a] = p
  BY <1>1, <1>3, <1>6, <1>8
<1>10. /\ Forest(x2) /\ x2.root = t.root /\ x2.type = x.type
       /\ Tops(x2) = (Tops(x) \ {n}) \cup {a} /\ x2.parent[a] = Nil /\ x2.parent[n] = p
       /\ \A y \in Node : y # a /\ y # n => x2.parent[y] = x.parent[y]
  <2>1. x.parent[a] # Nil /\ x.type[n] # "leaf"
    BY <1>4, <1>8, <1>9
  <2>2. x.parent \in Parents
    BY <1>8 DEF Forest, ForestType
  <2>3. Up(x.parent, p) \subseteq Up(x.parent, a)
    BY <1>3, <1>4, <1>9, <2>2, UpIs
  <2>4. n \notin Up(x.parent, x.parent[a])
    BY <1>8, <1>9, <2>3
  <2>5. /\ Forest(x2) /\ x2.root = x.root /\ x2.type = x.type
        /\ Tops(x2) = (Tops(x) \ {n}) \cup {a} /\ x2.parent[a] = Nil /\ x2.parent[n] = x.parent[a]
        /\ \A y \in Node : y # a /\ y # n => x2.parent[y] = x.parent[y]
    BY <1>3, <1>8, <2>1, <2>4, ReplaceWithIs
  <2> QED BY <1>8, <1>9, <2>5
<1> DEFINE New == {c, n}
<1>11. New \cap InUse(t) = {} /\ New \subseteq Inner
  BY <1>1, <1>8
<1>12. OutsideKept(t, x2, a, New)
  <2> SUFFICES ASSUME NEW y \in Node, y \notin New, y # a, t.parent[y] # a PROVE x2.parent[y] = t.parent[y]
    BY DEF OutsideKept
  <2>1. y \notin M /\ y # c /\ y # n
    BY <1>6
  <2> QED BY <2>1, <1>1, <1>8, <1>10 DEF OutsideKept
<1>13. c \notin Up(x2.parent, n)
  <2>1. AboveStays(t, x2, a, p, New)
    BY <1>3, <1>4, <1>11, <1>12, AboveKept
  <2>2. x2.parent \in Parents
    BY <1>10 DEF Forest, ForestType
  <2>3. Up(x2.parent, n) = {n} \cup Up(x2.parent, p)
    BY <1>4, <1>8, <1>10, <2>2, UpIs
  <2>4. Up(x2.parent, p) \subseteq Up(t.parent, p)
    BY <1>3, <1>4, <2>1, <2>2, UpIs DEF AboveStays
  <2> QED BY <1>8, <2>1, <2>3, <2>4 DEF AboveStays
<1>14. MayHang(x2, n, c)
  <2>1. n \in InUse(x2)
    BY <1>8, <1>10 DEF InUse
  <2>2. c \in Tops(x2) /\ x2.type[c] # "leaf" /\ x2.type[n] # "leaf"
    BY <1>8, <1>10
  <2> QED BY <1>13, <2>1, <2>2 DEF MayHang
<1>15. Hangs(x2, w, n, c)
  BY <1>10, <1>14, AppendEndIs
<1>16. /\ Forest(w) /\ w.root = t.root /\ w.type = x.type /\ Tops(w) = Tops(x2) \ {c}
       /\ w.parent[c] = n /\ \A y \in Node : y # c => w.parent[y] = x2.parent[y]
  BY <1>10, <1>15 DEF Hangs
<1>17. \A y \in Node : y \notin New => w.type[y] = t.type[y]
  BY ZenonT(40), <1>8, <1>16
<1>18. OutsideKept(t, w, a, New)
  BY <1>12, <1>16 DEF OutsideKept
<1>19. \A y \in S : w.parent[y] = v.parent[y]
  <2> SUFFICES ASSUME NEW y \in S PROVE w.parent[y] = v.parent[y]
    OBVIOUS
  <2>1. y # a /\ y # c /\ y # n /\ y \notin M /\ y \in Node
    BY <1>1, <1>3, <1>4, <1>8
  <2> QED BY ONLY <2>1, <1>8, <1>10, <1>16
<1>20. ASSUME NEW y \in Node, t.parent[y] = a, y \notin S
       PROVE  /\ y \notin ToSet(f) => w.parent[y] = a
              /\ y \in ToSet(f) => w.parent[y] = n
  <2>1. y \in InUse(t) /\ y # c /\ y # n /\ y # a /\ y # p
    BY <1>20, <1>1, <1>3
  <2>2. w.parent[y] = x.parent[y]
    BY <2>1, <1>10, <1>16
  <2> QED BY <2>1, <2>2, <1>1, <1>8, <1>20
<1>21. GroupedFrame(t, w, a, c, n, New, {stub1}, {stub2} \ {Nil}, f)
  <2>1. w.type[c] = "C" /\ w.type[n] = "P" /\ n # c /\ n \in New /\ c \in New /\ New \subseteq {c, n}
    BY <1>8, <1>16
  <2>2. w.parent[stub1] = c /\ \A y \in {stub2} \ {Nil} : w.parent[y] = Nil
    BY <1>2, <1>19
  <2>3. \A y \in Node : y \notin {stub1} /\ y \notin {stub2} \ {Nil} => y \notin S
    OBVIOUS
  <2> QED BY ONLY <1>11, <1>16, <1>17, <1>18, <1>20, <2>1, <2>2, <2>3 DEF GroupedFrame
<1>22. GroupedAbove(t, w, a, p, c, n, New, {stub2} \ {Nil}, f)
  <2>1. w.parent[a] = Nil /\ w.parent[n] = p
    BY <1>1, <1>3, <1>8, <1>10, <1>16
  <2>2. stub2 # c
    BY <1>1
  <2>3. t.root # c
    BY <1>1, <1>3
  <2>4. Tops(w) = {t.root, a} \cup ({stub2} \ {Nil})
    BY ONLY <1>8, <1>10, <1>16, <2>2, <2>3
  <2>5. \E y \in ToSet(f) : t.parent[y] = a
    BY <1>6
  <2> QED BY <1>8, <1>16, <2>1, <2>4, <2>5 DEF GroupedAbove
<1> QED BY <1>21, <1>22 DEF Grouped

\* Up from c the apex and its children are not met.
LEMMA UpFromNew ==
  ASSUME NEW t, NEW a, NEW p, NEW f, NEW S0, NEW pf, AtApex(t, a, p, f, S0, pf),
         NEW v, NEW c, NEW n, NEW New, NEW S, NEW W, Grouped(t, v, a, p, c, n, New, S, W, f, pf)
  PROVE  /\ c \in Node /\ \A y \in Up(v.parent, c) : y # a /\ (y \in Node => t.parent[y] # a)
         /\ ~pf => \A y \in Up(v.parent, a) : y \notin New
<1>1. /\ a \in Node /\ t.parent[a] = p /\ p # a /\ a # Nil
      /\ \A y \in Node : t.parent[y] = a => y \in InUse(t) /\ y # a /\ y # Nil
      /\ p # Nil => p \in Node /\ p \in InUse(t) /\ t.parent[p] # a /\ a # t.root
  <2>1. ApexPlace(t, a, p, f)
    BY AtApexFacts
  <2> QED BY ONLY <2>1 DEF ApexPlace
<1>2. Forest(t) /\ a \in InUse(t) /\ t.parent \in Parents /\ (pf => p # Nil)
  BY DEF AtApex, Forest, ForestType
<1>3. /\ Forest(v) /\ c \in New /\ New \subseteq {c, n} /\ New \subseteq Inner /\ New \cap InUse(t) = {}
      /\ OutsideKept(t, v, a, New)
  BY DEF Grouped, GroupedFrame
<1>4. c \in Node /\ v.parent \in Parents
  BY <1>3 DEF Forest, ForestType, Node
<1>5. \A y \in New : y \in Node /\ t.parent[y] # a /\ y # a
  BY <1>1, <1>2, <1>3 DEF Node
<1>6. p # Nil => AboveStays(t, v, a, p, New)
  BY <1>1, <1>2, <1>3, AboveKept
<1>7. CASE pf
  <2> DEFINE C == New \cup Up(t.parent, p)
  <2>1. GroupedAbove(t, v, a, p, c, n, New, W, f)
    BY <1>7 DEF Grouped
  <2>2. \A y \in New : v.parent[y] \in New \cup {p}
    BY <1>3, <2>1 DEF GroupedAbove
  <2>3. C \subseteq Node /\ c \in C
    BY <1>2, <1>3, <1>5, <1>6, <1>7 DEF AboveStays
  <2>4. UpClosed(v.parent, C)
    BY <1>2, <1>6, <1>7, <2>2 DEF AboveStays, UpClosed
  <2>5. \A y \in C : y # a /\ t.parent[y] # a
    BY <1>2, <1>5, <1>6, <1>7 DEF AboveStays
  <2> HIDE DEF C
  <2>6. Up(v.parent, c) \subseteq C
    BY <1>4, <2>3, <2>4, UpIs
  <2> QED BY <1>4, <1>7, <2>5, <2>6
<1>8. CASE ~pf
  <2>1. v.parent[a] = p /\ v.parent[c] = Nil
    BY <1>8 DEF Grouped, GroupedBeside
  <2>2. Up(v.parent, c) = {c}
    BY <1>4, <2>1, UpIs
  <2>3. \A y \in Up(v.parent, c) : y # a /\ t.parent[y] # a
    BY <1>3, <1>5, <2>2
  <2>4. \A y \in Up(v.parent, a) : y \notin New
    <3>1. CASE p = Nil
      <4>1. Up(v.parent, a) = {a}
        BY <1>1, <1>4, <2>1, <3>1, UpIs
      <4> QED BY <1>5, <4>1
    <3>2. CASE p # Nil
      <4>1. Up(v.parent, a) = {a} \cup Up(v.parent, p)
        BY <1>1, <1>4, <2>1, <3>2, UpIs
      <4>2. Up(v.parent, p) \subseteq Up(t.parent, p)
        BY <1>1, <1>4, <1>6, <3>2, UpIs DEF AboveStays
      <4> QED BY <1>5, <1>6, <3>2, <4>1, <4>2 DEF AboveStays
    <3> QED BY <3>1, <3>2
  <2> QED BY <1>4, <1>8, <2>3, <2>4
<1> QED BY <1>7, <1>8

\* The second stub becomes a child of c.
LEMMA SecondStubIs ==
  ASSUME NEW t, NEW a, NEW p, NEW f, NEW S, NEW pf, AtApex(t, a, p, f, S, pf),
         NEW stub1, NEW stub2, S = {stub1, stub2} \ {Nil}, stub1 # Nil, stub2 # Nil, stub1 # stub2,
         NEW v, NEW c, NEW n, NEW New, Grouped(t, v, a, p, c, n, New, {stub1}, {stub2} \ {Nil}, f, pf),
         NEW begin, NEW w, w = AppendChild(v, c, stub2, begin)
  PROVE  Grouped(t, w, a, p, c, n, New, S, {}, f, pf)
<1>1. /\ a \in Node /\ a # Nil /\ t.root \in InUse(t) /\ t.parent[t.root] = Nil
      /\ \A y \in Node : t.parent[y] = a => y \in InUse(t) /\ y # a /\ y # p /\ y # Nil
      /\ \A y \in ToSet(f) : y \in Node /\ y \in InUse(t) /\ (y = p \/ t.parent[y] = a)
  <2>1. ApexPlace(t, a, p, f)
    BY AtApexFacts
  <2> QED BY ONLY <2>1 DEF ApexPlace
<1>2. \A y \in S : y \in Node /\ t.parent[y] = a /\ y \notin ToSet(f) /\ t.type[y] # "leaf"
  BY DEF AtApex
<1>3. /\ Forest(v) /\ v.root = t.root
      /\ c \in New /\ New \subseteq {c, n} /\ New \subseteq Inner /\ New \cap InUse(t) = {}
      /\ v.type[c] = "C" /\ (n \in New /\ n # c => v.type[n] = "P")
      /\ \A y \in Node : y \notin New => v.type[y] = t.type[y]
      /\ OutsideKept(t, v, a, New)
      /\ v.parent[stub1] = c /\ v.parent[stub2] = Nil
      /\ \A y \in Node : t.parent[y] = a /\ y # stub1 /\ y # stub2 =>
              /\ y \notin ToSet(f) => v.parent[y] = a
              /\ y \in ToSet(f) => (y = n /\ v.parent[y] = c) \/ (n \in New /\ n # c /\ v.parent[y] = n)
  <2>1. GroupedFrame(t, v, a, c, n, New, {stub1}, {stub2} \ {Nil}, f)
    BY DEF Grouped
  <2> QED BY ONLY <2>1, stub2 # Nil DEF GroupedFrame
<1>4. c \in Node /\ \A y \in Up(v.parent, c) : y # a /\ (y \in Node => t.parent[y] # a)
  BY UpFromNew
<1>5. stub2 \in Node /\ t.parent[stub2] = a /\ stub2 \in InUse(t) /\ stub2 \notin New /\ stub2 # c
  BY <1>1, <1>2, <1>3
<1>6. stub2 \in Tops(v) /\ v.type[stub2] # "leaf"
  BY <1>2, <1>3, <1>5 DEF Tops, InUse
<1>7. MayHang(v, c, stub2)
  <2>1. c \in InUse(v)
    BY <1>3, <1>4 DEF InUse
  <2> QED BY <1>3, <1>4, <1>5, <1>6, <2>1 DEF MayHang
<1>8. Hangs(v, w, c, stub2)
  BY <1>3, <1>7, AppendEndIs
<1>9. /\ Forest(w) /\ w.root = t.root /\ w.type = v.type /\ Tops(w) = Tops(v) \ {stub2}
      /\ w.parent[stub2] = c /\ \A y \in Node : y # stub2 => w.parent[y] = v.parent[y]
  BY <1>3, <1>8 DEF Hangs
<1>10. a # stub2 /\ stub1 \in Node /\ c # stub2 /\ p # stub2 /\ n # stub2
  <2>1. n # stub2
    <3>1. CASE pf
      BY <3>1, <1>1, <1>3, <1>5 DEF Grouped, GroupedAbove
    <3>2. CASE ~pf
      BY <3>2, <1>1, <1>2, <1>3, <1>5 DEF Grouped, GroupedBeside
    <3> QED BY <3>1, <3>2
  <2> QED BY <2>1, <1>1, <1>2, <1>5
<1>11. OutsideKept(t, w, a, New)
  BY <1>1, <1>3, <1>5, <1>9 DEF OutsideKept
<1>12. \A y \in S : w.parent[y] = c
  BY <1>2, <1>3, <1>9
<1>13. GroupedFrame(t, w, a, c, n, New, S, {}, f)
  <2>1. \A y \in Node : y \notin New => w.type[y] = t.type[y]
    BY <1>3, <1>9
  <2>2. \A y \in Node : t.parent[y] = a /\ y \notin S =>
              /\ y \notin ToSet(f) => w.parent[y] = a
              /\ y \in ToSet(f) => (y = n /\ w.parent[y] = c) \/ (n \in New /\ n # c /\ w.parent[y] = n)
    <3> SUFFICES ASSUME NEW y \in Node, t.parent[y] = a, y \notin S
                 PROVE  /\ y \notin ToSet(f) => w.parent[y] = a
                        /\ y \in ToSet(f) => (y = n /\ w.parent[y] = c) \/ (n \in New /\ n # c /\ w.parent[y] = n)
      OBVIOUS
    <3>1. y # stub1 /\ y # stub2
      OBVIOUS
    <3> QED BY ONLY <3>1, <1>3, <1>9, t.parent[y] = a, y \in Node
  <2>3. w.type[c] = "C" /\ (n \in New /\ n # c => w.type[n] = "P")
    BY <1>3, <1>9
  <2> QED BY ONLY <2>1, <2>2, <2>3, <1>3, <1>9, <1>11, <1>12 DEF GroupedFrame
<1>14. c # stub2 /\ a # stub2 /\ t.root # stub2
  BY <1>1, <1>5, <1>10
<1>15. ASSUME pf PROVE GroupedAbove(t, w, a, p, c, n, New, {}, f)
  <2>1. GroupedAbove(t, v, a, p, c, n, New, {stub2} \ {Nil}, f)
    BY <1>15 DEF Grouped
  <2>2. Tops(w) = {t.root, a} \cup {}
    BY ONLY <2>1, <1>9, <1>14 DEF GroupedAbove
  <2>3. w.parent[a] = Nil /\ w.parent[c] = v.parent[c] /\ (n \in Node => w.parent[n] = v.parent[n])
    BY <2>1, <1>1, <1>4, <1>9, <1>10 DEF GroupedAbove
  <2>4. n \in New => n \in Node
    BY <1>3 DEF Node
  <2> QED BY <2>1, <2>2, <2>3, <2>4 DEF GroupedAbove
<1>16. ASSUME ~pf PROVE GroupedBeside(t, w, a, p, c, n, New, {}, f)
  <2>1. GroupedBeside(t, v, a, p, c, n, New, {stub2} \ {Nil}, f)
    BY <1>16 DEF Grouped
  <2>2. Tops(w) = {t.root, c} \cup {}
    BY ONLY <2>1, <1>9, <1>14 DEF GroupedBeside
  <2>3. w.parent[a] = v.parent[a] /\ w.parent[c] = v.parent[c] /\ (n \in Node => w.parent[n] = v.parent[n])
    BY <2>1, <1>1, <1>4, <1>9, <1>10
  <2> QED BY <2>1, <2>2, <2>3 DEF GroupedBeside
<1> QED BY <1>13, <1>15, <1>16 DEF Grouped

\* The empty neighbors E of a are back: at a, or the only one at c.
Closed(t, v, u, a, p, c, n, New, E, f) ==
  /\ Forest(u) /\ Tops(u) = {u.root}
  /\ \A y \in Node : y # a => u.type[y] = v.type[y]
  /\ u.type[a] \in {v.type[a], "free"}
  /\ \A y \in Node : y # a /\ y # c /\ (y \notin E \/ t.parent[y] # a) => u.parent[y] = v.parent[y]
  /\ \A y \in E : t.parent[y] = a => u.parent[y] \in {a, c}
  /\ p # Nil => \E b \in New \cup {a} : u.parent[b] = p
  /\ E # {} => \E e \in E \cup {a} : Adjacent(u, c, e)
  /\ u.type[a] # "free" => /\ Adjacent(u, a, c)
                           /\ \E y, z \in E : y # z /\ Adjacent(u, a, y) /\ Adjacent(u, a, z)
  /\ f # <<>> => Adjacent(u, c, n)
  /\ n \in New /\ n # c => Adjacent(u, n, c)

\* The new neighborhood of a is as it should be.
Renewed(t, u, a, c, n, New, S, f) ==
  /\ Sturdy(u) /\ c \in New /\ New \subseteq Inner /\ New \cap InUse(t) = {} /\ u.type[c] = "C"
  /\ \A y \in Node : y \notin New /\ y # a => u.type[y] = t.type[y]
  /\ OutsideKept(t, u, a, New)
  /\ \A y \in S : u.parent[y] = c
  /\ f # <<>> => n \in Node /\ n \notin S /\ Adjacent(u, c, n)

LEMMA ClosedFrame ==
  ASSUME NEW t, NEW a, NEW p, NEW f, NEW S, NEW pf, AtApex(t, a, p, f, S, pf),
         NEW v, NEW c, NEW n, NEW New, Grouped(t, v, a, p, c, n, New, S, {}, f, pf),
         NEW E, E = EmptyAround(t, a, f, S), NEW u, Closed(t, v, u, a, p, c, n, New, E, f)
  PROVE  /\ Rebuilt(t, u, a, New) /\ u.type[c] = "C" /\ OutsideKept(t, u, a, New)
         /\ \A y \in S : u.parent[y] = c
         /\ f # <<>> => n \in Node /\ n \notin S /\ n \notin E /\ n # a
<1>1. /\ a \in Node /\ a # Nil /\ t.parent[a] = p /\ p # a
      /\ \A y \in Node : t.parent[y] = a => y \in InUse(t) /\ y # a /\ y # p /\ y # Nil
      /\ \A y \in ToSet(f) : y \in Node /\ y \in InUse(t) /\ (y = p \/ t.parent[y] = a)
      /\ p # Nil => p \in Node
  <2>1. ApexPlace(t, a, p, f)
    BY AtApexFacts
  <2> QED BY ONLY <2>1 DEF ApexPlace
<1>2. /\ \A y \in S : y \in Node /\ t.parent[y] = a /\ y \notin ToSet(f)
      /\ Forest(t) /\ f \in Seq(Node)
      /\ \A y \in ToSet(f) : Adjacent(t, a, y)
      /\ pf <=> p # Nil /\ p \in ToSet(f)
      /\ a \in InUse(t) /\ t.type[a] = "P"
  BY DEF AtApex
<1>3. /\ c \in New /\ New \subseteq {c, n} /\ New \subseteq Inner /\ New \cap InUse(t) = {}
      /\ v.type[c] = "C" /\ (n \in New /\ n # c => v.type[n] = "P")
      /\ \A y \in Node : y \notin New => v.type[y] = t.type[y]
      /\ OutsideKept(t, v, a, New)
      /\ \A y \in S : v.parent[y] = c
      /\ \A y \in Node : t.parent[y] = a /\ y \notin S =>
              /\ y \notin ToSet(f) => v.parent[y] = a
              /\ y \in ToSet(f) => (y = n /\ v.parent[y] = c) \/ (n \in New /\ n # c /\ v.parent[y] = n)
  <2>1. GroupedFrame(t, v, a, c, n, New, S, {}, f)
    BY DEF Grouped
  <2> QED BY ONLY <2>1 DEF GroupedFrame
<1>4. /\ Forest(u) /\ Tops(u) = {u.root}
      /\ \A y \in Node : y # a => u.type[y] = v.type[y]
      /\ u.type[a] \in {v.type[a], "free"}
      /\ \A y \in Node : y # a /\ y # c /\ (y \notin E \/ t.parent[y] # a) => u.parent[y] = v.parent[y]
      /\ \A y \in E : t.parent[y] = a => u.parent[y] \in {a, c}
      /\ p # Nil => \E b \in New \cup {a} : u.parent[b] = p
  BY DEF Closed
<1>5. /\ New \subseteq Node /\ a \notin New /\ c # a
      /\ \A y \in Node : t.parent[y] = a => y \notin New
  BY <1>1, <1>2, <1>3 DEF Node
<1>6. \A y \in E : y \in Node /\ y \notin S /\ y \notin ToSet(f) /\ (t.parent[y] = a \/ y = p)
  BY <1>1 DEF EmptyAround, Adjacent
<1>7. \A y \in Node : t.parent[y] = a => y \in S \/ y \in ToSet(f) \/ y \in E
  BY DEF EmptyAround, Adjacent
<1>8. \A y \in S : u.parent[y] = c
  BY <1>1, <1>2, <1>3, <1>4, <1>5, <1>6
<1>9. OutsideKept(t, u, a, New)
  BY <1>3, <1>4 DEF OutsideKept
<1>10. \A y \in Node : y \notin New /\ y # a /\ t.parent[y] = a => u.parent[y] \in New \cup {a}
  <2> SUFFICES ASSUME NEW y \in Node, y \notin New, y # a, t.parent[y] = a PROVE u.parent[y] \in New \cup {a}
    OBVIOUS
  <2>1. CASE y \in S
    BY <2>1, <1>3, <1>8
  <2>2. CASE y \in E
    BY <2>2, <1>3, <1>4
  <2>3. CASE y \in ToSet(f) /\ y \notin S /\ y \notin E
    <3>1. u.parent[y] = v.parent[y]
      BY <2>3, <1>3, <1>4
    <3> QED BY <2>3, <3>1, <1>3
  <2> QED BY <1>7, <2>1, <2>2, <2>3
<1>11. \A b \in New : u.type[b] \in {"P", "C"}
  BY <1>3, <1>4, <1>5
<1>12. u.type[a] \in {t.type[a], "free"}
  BY <1>1, <1>3, <1>4, <1>5
<1>13. \A y \in Node : y \notin New /\ y # a => u.type[y] = t.type[y]
  BY <1>3, <1>4
<1>14. Rebuilt(t, u, a, New)
  BY ONLY <1>1, <1>3, <1>4, <1>9, <1>10, <1>11, <1>12, <1>13 DEF Rebuilt, OutsideKept
<1>15. f # <<>> => n \in Node /\ n \notin S /\ n \notin E /\ n # a
  <2> SUFFICES ASSUME f # <<>> PROVE n \in Node /\ n \notin S /\ n \notin E /\ n # a
    OBVIOUS
  <2>1. CASE n \in New
    <3>1. n \in Node /\ n \notin InUse(t) /\ n # a
      BY <2>1, <1>3, <1>5
    <3>2. n \notin S
      BY <3>1, <1>1, <1>2
    <3>3. n \notin E
      <4>1. p # Nil => p \in InUse(t)
        BY <1>1, <1>2, InUseFacts
      <4>2. p # n
        BY <4>1, <3>1, NodesAssumption DEF Node
      <4> QED BY <3>1, <4>2, <1>1, <1>6
    <3> QED BY <3>1, <3>2, <3>3
  <2>2. CASE n \notin New
    <3>1. n \in ToSet(f)
      <4>1. CASE pf
        BY <4>1, <2>2, <1>2 DEF Grouped, GroupedAbove
      <4>2. CASE ~pf
        BY <4>2, <2>2 DEF Grouped, GroupedBeside
      <4> QED BY <4>1, <4>2
    <3> QED BY <3>1, <1>1, <1>2, <1>6
  <2> QED BY <2>1, <2>2
<1>16. u.type[c] = "C"
  BY <1>3, <1>4, <1>5
<1> QED BY <1>8, <1>9, <1>14, <1>15, <1>16

LEMMA ClosedSturdy ==
  ASSUME NEW t, Sturdy(t), NEW a, NEW p, NEW f, NEW S, NEW pf, AtApex(t, a, p, f, S, pf),
         NEW stub1, NEW stub2, S = {stub1, stub2} \ {Nil}, stub1 # Nil, stub1 # stub2,
         NEW v, NEW c, NEW n, NEW New, Grouped(t, v, a, p, c, n, New, S, {}, f, pf),
         NEW E, E = EmptyAround(t, a, f, S), NEW u, Closed(t, v, u, a, p, c, n, New, E, f),
         f = <<>> => stub2 # Nil /\ E # {}, stub2 = Nil => f # <<>> /\ E # {}
  PROVE  Renewed(t, u, a, c, n, New, S, f)
<1>1. /\ Rebuilt(t, u, a, New) /\ u.type[c] = "C" /\ OutsideKept(t, u, a, New)
      /\ \A y \in S : u.parent[y] = c
      /\ f # <<>> => n \in Node /\ n \notin S /\ n \notin E /\ n # a
  BY ClosedFrame
<1>2. /\ a \in Node /\ a # Nil /\ t.parent[a] = p /\ p # a
      /\ \A y \in Node : t.parent[y] = a => y \in InUse(t) /\ y # a /\ y # p /\ y # Nil
      /\ \A y \in ToSet(f) : y \in Node /\ y \in InUse(t) /\ (y = p \/ t.parent[y] = a)
      /\ p # Nil => p \in Node /\ p \in InUse(t)
  <2>1. ApexPlace(t, a, p, f)
    BY AtApexFacts
  <2> QED BY ONLY <2>1 DEF ApexPlace
<1>3. /\ \A y \in S : y \in Node /\ t.parent[y] = a /\ y \notin ToSet(f)
      /\ a \in InUse(t) /\ a \in Inner
      /\ pf <=> p # Nil /\ p \in ToSet(f)
  BY DEF AtApex
<1>4. /\ c \in New /\ New \subseteq {c, n} /\ New \subseteq Inner /\ New \cap InUse(t) = {}
      /\ \A y \in Node : t.parent[y] = a /\ y \notin S /\ y \in ToSet(f) =>
              (y = n /\ v.parent[y] = c) \/ (n \in New /\ n # c /\ v.parent[y] = n)
  <2>1. GroupedFrame(t, v, a, c, n, New, S, {}, f)
    BY DEF Grouped
  <2> QED BY ONLY <2>1 DEF GroupedFrame
<1>5. /\ \A y \in Node : y # a /\ y # c /\ (y \notin E \/ t.parent[y] # a) => u.parent[y] = v.parent[y]
      /\ E # {} => \E e \in E \cup {a} : Adjacent(u, c, e)
      /\ u.type[a] # "free" => /\ Adjacent(u, a, c)
                               /\ \E y, z \in E : y # z /\ Adjacent(u, a, y) /\ Adjacent(u, a, z)
      /\ f # <<>> => Adjacent(u, c, n)
      /\ n \in New /\ n # c => Adjacent(u, n, c)
  BY DEF Closed
<1>6. \A y \in E : y \in Node /\ y \notin S /\ y \notin ToSet(f) /\ y \in InUse(t)
  BY <1>2, NodesAssumption DEF EmptyAround, Adjacent, Node
<1>7. c \in Node /\ c \notin InUse(t) /\ c # a /\ c \notin E /\ c \notin S
  BY ZenonT(40), <1>2, <1>3, <1>4, <1>6 DEF Node
<1>8. Branches(u, c)
  <2>1. stub1 \in S /\ stub1 \in Node /\ Adjacent(u, c, stub1)
    BY <1>1, <1>3 DEF Adjacent
  <2>2. stub2 # Nil => stub2 \in S /\ stub2 \in Node /\ Adjacent(u, c, stub2)
    BY <1>1, <1>3 DEF Adjacent
  <2>3. E # {} => \E e \in Node : e \notin S /\ Adjacent(u, c, e) /\ (f # <<>> => e # n)
    <3> SUFFICES ASSUME E # {} PROVE \E e \in Node : e \notin S /\ Adjacent(u, c, e) /\ (f # <<>> => e # n)
      OBVIOUS
    <3>1. PICK e \in E \cup {a} : Adjacent(u, c, e)
      BY <1>5
    <3>2. e \in Node /\ e \notin S /\ (f # <<>> => e # n)
      BY <1>1, <1>2, <1>3, <1>6
    <3> QED BY <3>1, <3>2
  <2>4. f # <<>> => n \in Node /\ n \notin S /\ Adjacent(u, c, n)
    BY <1>1, <1>5
  <2>5. CASE E = {}
    BY ONLY <2>5, <2>1, <2>2, <2>4, stub1 # stub2, stub2 = Nil => f # <<>> /\ E # {}, f = <<>> => stub2 # Nil /\ E # {}
      DEF Branches
  <2>6. CASE E # {}
    <3>1. PICK e \in Node : e \notin S /\ Adjacent(u, c, e) /\ (f # <<>> => e # n)
      BY <2>3, <2>6
    <3>2. CASE f # <<>>
      BY ONLY <3>1, <3>2, <2>1, <2>4 DEF Branches
    <3>3. CASE f = <<>>
      BY ONLY <3>1, <3>3, <2>1, <2>2, stub1 # stub2, f = <<>> => stub2 # Nil /\ E # {} DEF Branches
    <3> QED BY <3>2, <3>3
  <2> QED BY <2>5, <2>6
<1>9. ASSUME u.type[a] # "free" PROVE Branches(u, a)
  <2>1. PICK y, z \in E : y # z /\ Adjacent(u, a, y) /\ Adjacent(u, a, z)
    BY <1>5, <1>9
  <2>2. y \in Node /\ z \in Node /\ y # c /\ z # c /\ Adjacent(u, a, c)
    BY <1>5, <1>6, <1>7, <1>9, <2>1
  <2> QED BY ONLY <1>7, <2>1, <2>2 DEF Branches
<1>10. ASSUME n \in New, n # c PROVE Branches(u, n)
  <2>1. n \in Node /\ n \notin InUse(t) /\ Adjacent(u, n, c) /\ n # a
    BY <1>3, <1>4, <1>5, <1>10 DEF Node
  <2>2. \A y \in ToSet(f) : t.parent[y] = a => y \in Node /\ y # c /\ y # n /\ Adjacent(u, n, y)
    <3> SUFFICES ASSUME NEW y \in ToSet(f), t.parent[y] = a
                 PROVE  y \in Node /\ y # c /\ y # n /\ Adjacent(u, n, y)
      OBVIOUS
    <3>1. y \in Node /\ y \in InUse(t) /\ y # a /\ y # c /\ y # n /\ y \notin S /\ y \notin E
      BY <1>2, <1>3, <1>6, <1>7, <2>1
    <3>2. v.parent[y] = n
      BY <3>1, <1>4
    <3> QED BY <3>1, <3>2, <1>5 DEF Adjacent
  <2>3. CASE pf
    <3>1. GroupedAbove(t, v, a, p, c, n, New, {}, f)
      BY <2>3 DEF Grouped
    <3>2. p # Nil /\ p \in Node /\ p \in InUse(t) /\ v.parent[n] = p
      <4>1. p # n
        BY <1>2, <2>1, NodesAssumption DEF Node
      <4> QED BY <3>1, <4>1, <1>2, <1>3, <1>10, <2>3 DEF GroupedAbove
    <3>3. u.parent[n] = p
      BY <1>5, <1>6, <1>10, <2>1, <3>2
    <3>4. PICK y \in ToSet(f) : t.parent[y] = a
      BY <1>10, <3>1 DEF GroupedAbove
    <3>5. y \in Node /\ y # c /\ y # p /\ Adjacent(u, n, y) /\ p # c /\ Adjacent(u, n, p)
      BY <1>2, <1>7, <2>2, <3>2, <3>3, <3>4 DEF Adjacent
    <3> QED BY ONLY <1>7, <2>1, <3>2, <3>5 DEF Branches
  <2>4. CASE ~pf
    <3>1. GroupedBeside(t, v, a, p, c, n, New, {}, f)
      BY <2>4 DEF Grouped
    <3>2. f # <<>>
      BY <1>10, <2>1, <3>1, NodesAssumption DEF GroupedBeside, Node
    <3>3. PICK y, z \in ToSet(f) : y # z
      BY <1>10, <3>1, <3>2 DEF GroupedBeside
    <3>4. t.parent[y] = a /\ t.parent[z] = a
      BY <1>2, <1>3, <2>4, NodesAssumption DEF Node
    <3>5. y \in Node /\ y # c /\ z \in Node /\ z # c /\ Adjacent(u, n, y) /\ Adjacent(u, n, z)
      BY <2>2, <3>4
    <3> QED BY ONLY <1>7, <2>1, <3>3, <3>5 DEF Branches
  <2> QED BY <2>3, <2>4
<1>11. Sturdy(u)
  <2>1. \A b \in New \cup {a} : u.type[b] # "free" => Branches(u, b)
    BY <1>4, <1>8, <1>9, <1>10
  <2> QED BY <1>1, <1>3, <2>1, RebuiltSturdy
<1>12. \A y \in Node : y \notin New /\ y # a => u.type[y] = t.type[y]
  BY <1>1 DEF Rebuilt
<1> QED BY <1>1, <1>4, <1>5, <1>11, <1>12 DEF Renewed

(***************************************************************************)
(* The apex is put aside, or hung in again.                                *)
(***************************************************************************)
Dropped(t, a, c) == DestroyNode([t EXCEPT !.root = IF a = @ THEN c ELSE @], a)

LEMMA DroppedIs ==
  ASSUME NEW t, Forest(t), NEW a \in Tops(t), \A y \in Node : t.parent[y] # a, NEW c \in Node,
         NEW u, u = Dropped(t, a, c)
  PROVE  /\ Forest(u) /\ u.parent = t.parent /\ u.type[a] = "free"
         /\ \A y \in Node : y # a => u.type[y] = t.type[y]
         /\ Tops(u) = Tops(t) \ {a}
         /\ a = t.root => u.root = c
         /\ a # t.root => u.root = t.root
<1> DEFINE w == [t EXCEPT !.root = IF a = @ THEN c ELSE @]
           r == IF a = t.root THEN c ELSE t.root
<1>1. t \in ForestType /\ a \in Node
  BY DEF Forest, Tops, InUse
<1>2. w = [t EXCEPT !.root = r] /\ r \in Node \cup {Nil}
  BY <1>1 DEF ForestType
<1>3. u = DestroyNode(w, a)
  BY DEF Dropped
<1>4. (a = t.root => r = c) /\ (a # t.root => r = t.root)
  OBVIOUS
<1> HIDE DEF w, r
<1>5. /\ Forest(w) /\ w.root = r /\ w.type = t.type /\ w.parent = t.parent /\ w.kids = t.kids
      /\ Tops(w) = Tops(t)
  BY <1>2, RootedIs
<1>6. ~HasKid(t, a)
  BY DEF HasKid
<1>7. w.kids[a] = <<>>
  BY <1>1, <1>5, <1>6, KidsCounted
<1>8. /\ Forest(u) /\ u.root = w.root /\ u.parent = w.parent
      /\ u.type[a] = "free" /\ \A y \in Node : y # a => u.type[y] = w.type[y]
      /\ Tops(u) = Tops(w) \ {a}
  BY <1>3, <1>5, <1>7, DestroyNodeIs
<1> QED BY <1>4, <1>5, <1>8

\* What the cases below read off a grouped tree.
GroupedView(t, v, a, p, c, n, New, S, E, f, pf) ==
  /\ Forest(v) /\ v.root = t.root /\ v.parent \in Parents
  /\ a \in Node /\ a # Nil /\ c \in Node /\ c # a /\ c # Nil /\ c # t.root /\ c \in New /\ New \subseteq Node
  /\ t.root \in Node
  /\ a \in InUse(v) /\ c \in InUse(v) /\ v.type[c] = "C" /\ v.type[a] = "P"
  /\ p # Nil => p \in Node /\ p # a /\ p # c /\ a # t.root
  /\ p = Nil => a = t.root
  /\ p # Nil => t.parent[p] # a
  /\ pf => p # Nil /\ v.parent[a] = Nil /\ Tops(v) = {t.root, a} /\ \E b \in New : b # a /\ v.parent[b] = p
  /\ pf => v.parent[c] = n
  /\ ~pf => v.parent[a] = p /\ v.parent[c] = Nil /\ Tops(v) = {t.root, c}
  /\ ~pf /\ p # Nil => p \in E
  /\ ~pf /\ f # <<>> => n \in Node /\ v.parent[n] = c
  /\ ~pf /\ n \in New /\ n # c => v.parent[n] = c
  /\ f # <<>> => n # a /\ n \notin E
  /\ n \in New => n # a /\ n \notin E /\ n \in Node
  /\ a \notin Up(v.parent, c)
  /\ \A y \in E : y \in Node /\ y # c /\ y # a /\ (y = p \/ (t.parent[y] = a /\ v.parent[y] = a))
  /\ \A y \in E : y \notin Up(v.parent, c) \/ t.parent[y] # a
  /\ pf => p \notin E
  /\ ~pf => c \notin Up(v.parent, a)
  /\ \A y \in Node : v.parent[y] = a => y \in E /\ t.parent[y] = a

LEMMA GroupedViewIs ==
  ASSUME NEW t, NEW a, NEW p, NEW f, NEW S, NEW pf, AtApex(t, a, p, f, S, pf),
         NEW v, NEW c, NEW n, NEW New, Grouped(t, v, a, p, c, n, New, S, {}, f, pf),
         NEW E, E = EmptyAround(t, a, f, S)
  PROVE  GroupedView(t, v, a, p, c, n, New, S, E, f, pf)
<1>1. /\ a \in Node /\ a # Nil /\ t.parent[a] = p /\ p # a /\ t.type[a] = "P"
      /\ \A y \in Node : t.parent[y] = a => y \in InUse(t) /\ y # a /\ y # p /\ y # Nil
      /\ \A y \in ToSet(f) : y \in Node /\ y \in InUse(t) /\ (y = p \/ t.parent[y] = a)
      /\ p # Nil => p \in Node /\ p \in InUse(t) /\ a # t.root
      /\ p = Nil => a = t.root
      /\ t.root \in InUse(t)
  <2>1. ApexPlace(t, a, p, f)
    BY AtApexFacts
  <2> QED BY ONLY <2>1 DEF ApexPlace
<1>2. /\ \A y \in S : y \in Node /\ t.parent[y] = a /\ y \notin ToSet(f)
      /\ Forest(t) /\ a \in InUse(t) /\ t.root \in Node
      /\ pf <=> p # Nil /\ p \in ToSet(f)
  BY DEF AtApex
<1>3. /\ c \in New /\ New \subseteq {c, n} /\ New \subseteq Inner /\ New \cap InUse(t) = {}
      /\ Forest(v) /\ v.root = t.root
      /\ v.type[c] = "C" /\ (n \in New /\ n # c => v.type[n] = "P")
      /\ \A y \in Node : y \notin New => v.type[y] = t.type[y]
      /\ OutsideKept(t, v, a, New)
      /\ \A y \in S : v.parent[y] = c
      /\ \A y \in Node : t.parent[y] = a /\ y \notin S =>
              /\ y \notin ToSet(f) => v.parent[y] = a
              /\ y \in ToSet(f) => (y = n /\ v.parent[y] = c) \/ (n \in New /\ n # c /\ v.parent[y] = n)
  <2>1. GroupedFrame(t, v, a, c, n, New, S, {}, f)
    BY DEF Grouped
  <2> QED BY ONLY <2>1 DEF GroupedFrame
<1>4. /\ New \subseteq Node /\ a \notin New /\ c # a /\ c \in Node /\ c # Nil /\ c # t.root /\ c \notin InUse(t)
      /\ p \notin New
  BY <1>1, <1>2, <1>3, NodesAssumption DEF Node
<1>5. v.parent \in Parents /\ a \in InUse(v) /\ c \in InUse(v) /\ v.type[a] = "P"
  <2>1. v.parent \in Parents
    BY <1>3 DEF Forest, ForestType
  <2>2. v.type[a] = "P"
    BY <1>1, <1>3, <1>4
  <2> QED BY <2>1, <2>2, <1>1, <1>3, <1>4 DEF InUse
<1>6. \A y \in E : /\ y \in Node /\ y \notin S /\ y \notin ToSet(f) /\ y # a /\ y # c
                   /\ y = p \/ (t.parent[y] = a /\ v.parent[y] = a)
  <2> SUFFICES ASSUME NEW y \in E
               PROVE  /\ y \in Node /\ y \notin S /\ y \notin ToSet(f) /\ y # a /\ y # c
                      /\ y = p \/ (t.parent[y] = a /\ v.parent[y] = a)
    OBVIOUS
  <2>1. y \in Node /\ y \notin S /\ y \notin ToSet(f) /\ (t.parent[y] = a \/ y = p)
    BY <1>1 DEF EmptyAround, Adjacent
  <2>2. t.parent[y] = a => v.parent[y] = a /\ y # c /\ y # a
    BY <2>1, <1>1, <1>3, <1>4
  <2>3. y = p => y # a /\ y # c
    BY <2>1, <1>1, <1>4, NodesAssumption DEF Node
  <2> QED BY ONLY <2>1, <2>2, <2>3
<1>7. /\ a \notin Up(v.parent, c) /\ (\A y \in Up(v.parent, c) : y \in Node => t.parent[y] # a)
      /\ ~pf => c \notin Up(v.parent, a)
  BY <1>3, UpFromNew
<1>8. pf => p # Nil /\ p \notin E
  BY <1>2, <1>6
<1>9. ~pf /\ p # Nil => p \in E
  <2> SUFFICES ASSUME ~pf, p # Nil PROVE p \in E
    OBVIOUS
  <2>1. p \in Node /\ p \notin ToSet(f) /\ p \notin S
    BY <1>1, <1>2
  <2> QED BY <2>1, <1>1 DEF EmptyAround, Adjacent
<1>10. pf => /\ v.parent[a] = Nil /\ Tops(v) = {t.root, a} /\ v.parent[c] = n
             /\ \E b \in New : b # a /\ v.parent[b] = p
  <2> SUFFICES ASSUME pf PROVE /\ v.parent[a] = Nil /\ Tops(v) = {t.root, a} /\ v.parent[c] = n
                               /\ \E b \in New : b # a /\ v.parent[b] = p
    OBVIOUS
  <2>1. GroupedAbove(t, v, a, p, c, n, New, {}, f)
    BY DEF Grouped
  <2>2. /\ v.parent[a] = Nil /\ Tops(v) = {t.root, a}
        /\ \/ New = {c} /\ n = p /\ v.parent[c] = p
           \/ n \in New /\ v.parent[c] = n /\ v.parent[n] = p
    BY ONLY <2>1 DEF GroupedAbove
  <2> QED BY <2>2, <1>3, <1>4
<1>11. ~pf => /\ v.parent[a] = p /\ v.parent[c] = Nil /\ Tops(v) = {t.root, c}
              /\ f # <<>> => n \in Node /\ v.parent[n] = c
              /\ f = <<>> => n = Nil
  BY DEF Grouped, GroupedBeside
<1>12. ~pf /\ n \in New /\ n # c => v.parent[n] = c
  BY <1>4, <1>11, NodesAssumption DEF Node
<1>13. n \in New => n # a /\ n \notin E /\ n \in Node
  <2>1. n \in New => n # p /\ n \notin InUse(t) /\ n \in Node /\ n # a
    BY <1>3, <1>4
  <2> QED BY <2>1, <1>1, <1>6
<1>14. f # <<>> => n # a /\ n \notin E
  <2>1. CASE n \in New
    BY <2>1, <1>13
  <2>2. CASE n \notin New
    <3>1. f # <<>> => n \in ToSet(f)
      <4>1. CASE pf
        BY <4>1, <2>2, <1>2 DEF Grouped, GroupedAbove
      <4>2. CASE ~pf
        BY <4>2, <2>2 DEF Grouped, GroupedBeside
      <4> QED BY <4>1, <4>2
    <3> QED BY <3>1, <1>1, <1>6
  <2> QED BY <2>1, <2>2
<1>15. \A y \in Node : v.parent[y] = a => y \in E /\ t.parent[y] = a
  <2> SUFFICES ASSUME NEW y \in Node, v.parent[y] = a PROVE y \in E /\ t.parent[y] = a
    OBVIOUS
  <2>1. y # a
    BY <1>3, <1>1, InUseFacts
  <2>2. y # c
    <3>1. pf => f # <<>>
      <4>1. pf => p \in ToSet(f)
        BY <1>2
      <4>2. f = <<>> => ToSet(f) = {}
        BY DEF ToSet
      <4> QED BY ONLY <4>1, <4>2
    <3>2. pf => n # a
      BY <3>1, <1>14
    <3> QED BY ONLY <3>2, <1>1, <1>10, <1>11, v.parent[y] = a
  <2>3. y \notin New
    <3>1. CASE y = n /\ y # c /\ y \in New
      <4>1. pf => v.parent[n] = p
        <5> SUFFICES ASSUME pf PROVE v.parent[n] = p
          OBVIOUS
        <5>1. GroupedAbove(t, v, a, p, c, n, New, {}, f)
          BY DEF Grouped
        <5> QED BY <5>1, <3>1, <1>4 DEF GroupedAbove
      <4> QED BY <3>1, <4>1, <1>1, <1>12, <1>4
    <3> QED BY <3>1, <2>2, <1>3
  <2>4. t.parent[y] = a
    BY <2>1, <2>3, <1>3 DEF OutsideKept
  <2>5. y \notin S
    BY <1>3, <1>4
  <2>6. y \notin ToSet(f)
    <3>1. n \in New => n # a
      BY <1>13
    <3> QED BY ONLY <2>4, <2>5, <3>1, <1>3, <1>4, v.parent[y] = a, y \in Node
  <2> QED BY <2>4, <2>5, <2>6 DEF EmptyAround, Adjacent
<1>16. \A y \in E : y \notin Up(v.parent, c) \/ t.parent[y] # a
  BY <1>6, <1>7
<1>17. p # Nil => p # c
  BY <1>1, <1>4
<1>18. t.root \in Node
  BY <1>2
<1>19. p # Nil => t.parent[p] # a
  <2>1. ApexPlace(t, a, p, f)
    BY AtApexFacts
  <2> QED BY ONLY <2>1 DEF ApexPlace
<1> QED BY <1>19, <1>1, <1>3, <1>4, <1>5, <1>6, <1>7, <1>8, <1>9, <1>10, <1>11, <1>12, <1>13, <1>14, <1>15, <1>16, <1>17, <1>18
    DEF GroupedView

LEMMA LooseMayHang ==
  ASSUME NEW v, Forest(v), NEW e \in Node, v.parent[e] # Nil,
         NEW c \in InUse(v), v.type[c] # "leaf", e \notin Up(v.parent, c), NEW w, w = Detach(v, e)
  PROVE  MayHang(w, c, e)
<1>1. v.parent \in Parents /\ c \in Node /\ v.type[c] # "free" /\ v.parent[e] \in Node
      /\ e \in InUse(v) /\ e # v.parent[e]
  BY InUseFacts DEF Forest, ForestType, InUse
<1>2. /\ Forest(w) /\ w.type = v.type /\ w.parent[e] = Nil
      /\ \A x \in Node : /\ x # e => w.parent[x] = v.parent[x]
                         /\ x # v.parent[e] => w.kids[x] = v.kids[x]
      /\ Tops(w) = Tops(v) \cup {e}
  BY DetachIs
<1>3. w.parent \in Parents
  BY <1>2 DEF Forest, ForestType
<1>4. Up(w.parent, c) \subseteq Up(v.parent, c)
  BY <1>1, <1>2, <1>3, FewerEdges
<1>5. v.type[e] = "leaf" => v.kids[e] = <<>>
  <2>1. v.type[e] = "leaf" => Len(v.kids[e]) <= 0
    BY DEF Forest, Arranged
  <2>2. v.kids[e] = <<>> <=> Len(v.kids[e]) = 0
    BY ForestKids DEF Forest
  <2>3. Len(v.kids[e]) \in Nat
    BY ForestKids DEF Forest
  <2> QED BY <2>1, <2>2, <2>3
<1>6. w.kids[e] = v.kids[e]
  BY <1>1, <1>2
<1> QED BY <1>1, <1>2, <1>4, <1>5, <1>6 DEF MayHang, InUse

\* Several empty neighbors below a full parent: a goes below c.
LEMMA ClosedBelow ==
  ASSUME NEW t, NEW v, NEW a, NEW p, NEW c, NEW n, NEW New, NEW S, NEW E, NEW f, NEW pf,
         GroupedView(t, v, a, p, c, n, New, S, E, f, pf), pf,
         NEW y1 \in E, NEW y2 \in E, y1 # y2, NEW u, Hangs(v, u, c, a)
  PROVE  Closed(t, v, u, a, p, c, n, New, E, f)
<1>1. /\ a \in Node /\ c # a /\ c \in New /\ New \subseteq Node /\ v.type[a] = "P"
      /\ v.root = t.root /\ a # t.root /\ Tops(v) = {t.root, a}
      /\ p # Nil /\ \E b \in New : b # a /\ v.parent[b] = p
      /\ v.parent[c] = n
      /\ f # <<>> => n # a /\ n \notin E
      /\ n \in New => n # a /\ n \notin E /\ n \in Node
      /\ \A y \in E : y \in Node /\ y # c /\ y # a /\ (y = p \/ (t.parent[y] = a /\ v.parent[y] = a))
      /\ p \notin E
  BY ONLY GroupedView(t, v, a, p, c, n, New, S, E, f, pf), pf DEF GroupedView
<1>2. /\ Forest(u) /\ u.root = v.root /\ u.type = v.type /\ Tops(u) = Tops(v) \ {a}
      /\ u.parent[a] = c
      /\ \A x \in Node : x # a => u.parent[x] = v.parent[x]
  BY DEF Hangs
<1>3. \A y \in E : y # p /\ v.parent[y] = a /\ u.parent[y] = a /\ y \in Node
  BY <1>1, <1>2
<1>4. Forest(u) /\ Tops(u) = {u.root}
  BY <1>1, <1>2
<1>5. (\A y \in Node : y # a => u.type[y] = v.type[y]) /\ u.type[a] \in {v.type[a], "free"}
  BY <1>2
<1>6. \A y \in Node : y # a /\ y # c /\ (y \notin E \/ t.parent[y] # a) => u.parent[y] = v.parent[y]
  BY <1>2
<1>7. \A y \in E : t.parent[y] = a => u.parent[y] \in {a, c}
  BY <1>3
<1>8. p # Nil => \E b \in New \cup {a} : u.parent[b] = p
  <2>1. PICK b \in New : b # a /\ v.parent[b] = p
    BY <1>1
  <2> QED BY <1>1, <1>2, <2>1
<1>9. Adjacent(u, a, c) /\ Adjacent(u, c, a)
  BY <1>2 DEF Adjacent
<1>10. Adjacent(u, a, y1) /\ Adjacent(u, a, y2)
  BY <1>3 DEF Adjacent
<1>11. u.parent[c] = n
  BY <1>1, <1>2
<1>12. Adjacent(u, c, n) /\ Adjacent(u, n, c)
  BY <1>11 DEF Adjacent
<1>13. \E e \in E \cup {a} : Adjacent(u, c, e)
  BY <1>9
<1>14. \E y, z \in E : y # z /\ Adjacent(u, a, y) /\ Adjacent(u, a, z)
  BY <1>10
<1> QED BY ONLY <1>4, <1>5, <1>6, <1>7, <1>8, <1>9, <1>12, <1>13, <1>14 DEF Closed

\* Several empty neighbors and no full parent: c goes below a.
LEMMA ClosedAbove ==
  ASSUME NEW t, NEW v, NEW a, NEW p, NEW c, NEW n, NEW New, NEW S, NEW E, NEW f, NEW pf,
         GroupedView(t, v, a, p, c, n, New, S, E, f, pf), ~pf,
         NEW y1 \in E, NEW y2 \in E, y1 # y2, NEW u, Hangs(v, u, a, c)
  PROVE  Closed(t, v, u, a, p, c, n, New, E, f)
<1>1. /\ a \in Node /\ c \in Node /\ c # a /\ c \in New /\ New \subseteq Node
      /\ v.root = t.root /\ c # t.root /\ Tops(v) = {t.root, c} /\ v.parent[a] = p
      /\ f # <<>> => n \in Node /\ v.parent[n] = c
      /\ n \in New /\ n # c => v.parent[n] = c
      /\ n \in New => n \in Node
      /\ \A y \in E : y \in Node /\ y # c /\ y # a /\ (y = p \/ (t.parent[y] = a /\ v.parent[y] = a))
      /\ v.parent[c] = Nil /\ c # Nil
  BY ONLY GroupedView(t, v, a, p, c, n, New, S, E, f, pf), ~pf DEF GroupedView
<1>0. p # Nil => p \in E
  BY ONLY GroupedView(t, v, a, p, c, n, New, S, E, f, pf), ~pf DEF GroupedView
<1>2. /\ Forest(u) /\ u.root = v.root /\ u.type = v.type /\ Tops(u) = Tops(v) \ {c}
      /\ u.parent[c] = a
      /\ \A x \in Node : x # c => u.parent[x] = v.parent[x]
  BY DEF Hangs
<1>3. u.parent[a] = p
  BY <1>1, <1>2
<1>4. Forest(u) /\ Tops(u) = {u.root}
  BY <1>1, <1>2
<1>5. (\A y \in Node : y # a => u.type[y] = v.type[y]) /\ u.type[a] \in {v.type[a], "free"}
  BY <1>2
<1>6. \A y \in Node : y # a /\ y # c /\ (y \notin E \/ t.parent[y] # a) => u.parent[y] = v.parent[y]
  BY <1>2
<1>7. \A y \in E : /\ t.parent[y] = a => u.parent[y] \in {a, c}
                   /\ Adjacent(u, a, y)
  <2> SUFFICES ASSUME NEW y \in E
               PROVE  (t.parent[y] = a => u.parent[y] \in {a, c}) /\ Adjacent(u, a, y)
    OBVIOUS
  <2>1. y \in Node /\ y # c /\ y # a /\ (y = p \/ (t.parent[y] = a /\ v.parent[y] = a))
    BY <1>1
  <2>2. CASE v.parent[y] = a
    BY <2>1, <2>2, <1>2 DEF Adjacent
  <2>3. CASE y = p /\ v.parent[y] # a
    <3>1. Adjacent(u, a, y)
      BY <2>3, <1>3 DEF Adjacent
    <3>2. p # Nil /\ u.parent[a] = p
      BY <2>1, <2>3, <1>3, NodesAssumption DEF Node
    <3>3. t.parent[y] # a
      BY ONLY GroupedView(t, v, a, p, c, n, New, S, E, f, pf), <2>3, <3>2 DEF GroupedView
    <3> QED BY <3>1, <3>3
  <2> QED BY <2>1, <2>2, <2>3
<1>8. p # Nil => \E b \in New \cup {a} : u.parent[b] = p
  BY <1>3
<1>9. Adjacent(u, a, c) /\ Adjacent(u, c, a)
  BY <1>2 DEF Adjacent
<1>10. Adjacent(u, a, y1) /\ Adjacent(u, a, y2)
  BY <1>7
<1>11. f # <<>> => Adjacent(u, c, n)
  <2> SUFFICES ASSUME f # <<>> PROVE Adjacent(u, c, n)
    OBVIOUS
  <2>1. n \in Node /\ v.parent[n] = c
    BY <1>1
  <2>2. n # c
    BY <2>1, <1>1
  <2> QED BY <2>1, <2>2, <1>2 DEF Adjacent
<1>12. n \in New /\ n # c => Adjacent(u, n, c)
  BY <1>1, <1>2 DEF Adjacent
<1>13. \E e \in E \cup {a} : Adjacent(u, c, e)
  BY <1>9
<1>14. \E y, z \in E : y # z /\ Adjacent(u, a, y) /\ Adjacent(u, a, z)
  BY <1>10
<1> QED BY ONLY <1>4, <1>5, <1>6, <1>7, <1>8, <1>9, <1>11, <1>12, <1>13, <1>14 DEF Closed

\* No empty neighbor: a goes.
LEMMA ClosedAlone ==
  ASSUME NEW t, NEW v, NEW a, NEW p, NEW c, NEW n, NEW New, NEW S, NEW E, NEW f, NEW pf,
         GroupedView(t, v, a, p, c, n, New, S, E, f, pf), E = {},
         NEW u, u = Dropped(v, a, c)
  PROVE  Closed(t, v, u, a, p, c, n, New, E, f)
<1>1. /\ Forest(v) /\ v.root = t.root /\ a \in Node /\ c \in Node /\ c # a /\ c # t.root /\ c # Nil
      /\ p = Nil => a = t.root
      /\ p # Nil => a # t.root
      /\ f # <<>> => n # a
      /\ n \in New => n # a /\ n \in Node
      /\ \A y \in Node : v.parent[y] # a
      /\ a \in InUse(v)
  BY ONLY GroupedView(t, v, a, p, c, n, New, S, E, f, pf), E = {} DEF GroupedView
<1>2. pf => /\ p # Nil /\ v.parent[a] = Nil /\ Tops(v) = {t.root, a} /\ v.parent[c] = n
            /\ \E b \in New : v.parent[b] = p
  BY ONLY GroupedView(t, v, a, p, c, n, New, S, E, f, pf) DEF GroupedView
<1>3. ~pf => /\ p = Nil /\ v.parent[a] = p /\ Tops(v) = {t.root, c} /\ v.parent[c] = Nil
             /\ f # <<>> => n \in Node /\ v.parent[n] = c
             /\ n \in New /\ n # c => v.parent[n] = c
  BY ONLY GroupedView(t, v, a, p, c, n, New, S, E, f, pf), E = {} DEF GroupedView
<1>4. a \in Tops(v)
  BY <1>1, <1>2, <1>3 DEF Tops
<1>5. /\ Forest(u) /\ u.parent = v.parent /\ u.type[a] = "free"
      /\ \A y \in Node : y # a => u.type[y] = v.type[y]
      /\ Tops(u) = Tops(v) \ {a}
      /\ a = v.root => u.root = c
      /\ a # v.root => u.root = v.root
  BY <1>1, <1>4, DroppedIs
<1>6. Tops(u) = {u.root}
  BY <1>1, <1>2, <1>3, <1>5
<1>7. f # <<>> => Adjacent(u, c, n)
  BY <1>2, <1>3, <1>5 DEF Adjacent
<1>8. n \in New /\ n # c => Adjacent(u, n, c)
  BY <1>2, <1>3, <1>5 DEF Adjacent
<1>9. p # Nil => \E b \in New \cup {a} : u.parent[b] = p
  BY <1>2, <1>3, <1>5
<1> QED BY ONLY <1>5, <1>6, <1>7, <1>8, <1>9, E = {} DEF Closed

\* One empty neighbor, a child: it goes below c in place of a.
LEMMA ClosedChild ==
  ASSUME NEW t, NEW v, NEW a, NEW p, NEW c, NEW n, NEW New, NEW S, NEW E, NEW f, NEW pf,
         GroupedView(t, v, a, p, c, n, New, S, E, f, pf), pf \/ p = Nil, NEW e, E = {e},
         NEW v1, v1 = Detach(v, e), NEW v2, Hangs(v1, v2, c, e), NEW u, u = Dropped(v2, a, c)
  PROVE  Closed(t, v, u, a, p, c, n, New, E, f)
<1>1. /\ Forest(v) /\ v.root = t.root /\ a \in Node /\ c \in Node /\ c # a /\ c # t.root /\ c # Nil
      /\ p = Nil => a = t.root
      /\ p # Nil => a # t.root /\ p # a
      /\ f # <<>> => n # a /\ n # e
      /\ n \in New => n # a /\ n # e /\ n \in Node
      /\ \A y \in Node : v.parent[y] = a => y = e
      /\ a \in InUse(v) /\ a # Nil
      /\ New \subseteq Node
  BY ONLY GroupedView(t, v, a, p, c, n, New, S, E, f, pf), E = {e} DEF GroupedView
<1>0. /\ e \in Node /\ e # c /\ e # a /\ (e = p \/ (t.parent[e] = a /\ v.parent[e] = a)) /\ e # p
  <2>1. /\ e \in Node /\ e # c /\ e # a /\ (e = p \/ (t.parent[e] = a /\ v.parent[e] = a))
        /\ pf => p # e
    BY ONLY GroupedView(t, v, a, p, c, n, New, S, E, f, pf), E = {e} DEF GroupedView
  <2>2. p = Nil => p # e
    BY <2>1, NodesAssumption DEF Node
  <2> QED BY <2>1, <2>2
<1>2. pf => /\ p # Nil /\ v.parent[a] = Nil /\ Tops(v) = {t.root, a} /\ v.parent[c] = n
            /\ \E b \in New : b # a /\ v.parent[b] = p
  BY ONLY GroupedView(t, v, a, p, c, n, New, S, E, f, pf) DEF GroupedView
<1>3. ~pf => /\ p = Nil /\ v.parent[a] = p /\ Tops(v) = {t.root, c} /\ v.parent[c] = Nil
             /\ f # <<>> => n \in Node /\ v.parent[n] = c
             /\ n \in New /\ n # c => v.parent[n] = c
  BY ONLY GroupedView(t, v, a, p, c, n, New, S, E, f, pf), pf \/ p = Nil DEF GroupedView
<1>4. t.parent[e] = a /\ v.parent[e] = a /\ e \notin Tops(v)
  BY <1>0, <1>1 DEF Tops
<1>5. /\ Forest(v1) /\ v1.root = v.root /\ v1.type = v.type
      /\ \A x \in Node : x # e => v1.parent[x] = v.parent[x]
      /\ Tops(v1) = Tops(v) \cup {e}
  BY <1>0, <1>1, <1>4, DetachIs
<1>6. /\ Forest(v2) /\ v2.root = v.root /\ v2.type = v.type /\ v2.parent[e] = c
      /\ \A x \in Node : x # e => v2.parent[x] = v.parent[x]
      /\ Tops(v2) = Tops(v)
  BY <1>4, <1>5 DEF Hangs
<1>7. \A y \in Node : v2.parent[y] # a
  BY <1>1, <1>6
<1>8. a \in Tops(v2)
  BY <1>1, <1>2, <1>3, <1>6 DEF Tops
<1>9. /\ Forest(u) /\ u.parent = v2.parent /\ u.type[a] = "free"
      /\ \A y \in Node : y # a => u.type[y] = v.type[y]
      /\ Tops(u) = Tops(v) \ {a}
      /\ a = v.root => u.root = c
      /\ a # v.root => u.root = v.root
  BY <1>1, <1>6, <1>7, <1>8, DroppedIs
<1>10. Tops(u) = {u.root}
  BY <1>1, <1>2, <1>3, <1>9
<1>11. u.parent[c] = v.parent[c]
  BY <1>0, <1>1, <1>6, <1>9
<1>12. f # <<>> => Adjacent(u, c, n)
  BY <1>1, <1>2, <1>3, <1>6, <1>9, <1>11 DEF Adjacent
<1>13. n \in New /\ n # c => Adjacent(u, n, c)
  BY <1>1, <1>2, <1>3, <1>6, <1>9, <1>11 DEF Adjacent
<1>14. p # Nil => \E b \in New \cup {a} : u.parent[b] = p
  <2> SUFFICES ASSUME p # Nil PROVE \E b \in New \cup {a} : u.parent[b] = p
    OBVIOUS
  <2>1. PICK b \in New : b # a /\ v.parent[b] = p
    BY <1>2, <1>3
  <2>2. b # e
    BY <2>1, <1>1, <1>4
  <2> QED BY <2>1, <2>2, <1>1, <1>6, <1>9
<1>15. \A y \in Node : y # a /\ y # c /\ (y \notin E \/ t.parent[y] # a) => u.parent[y] = v.parent[y]
  BY <1>4, <1>6, <1>9
<1>16. \A y \in E : t.parent[y] = a => u.parent[y] \in {a, c}
  BY <1>6, <1>9
<1>17. \E y \in E \cup {a} : Adjacent(u, c, y)
  BY <1>6, <1>9 DEF Adjacent
<1> QED BY ONLY <1>9, <1>10, <1>12, <1>13, <1>14, <1>15, <1>16, <1>17 DEF Closed

\* One empty neighbor, the parent: c takes the place of a.
LEMMA ClosedParent ==
  ASSUME NEW t, NEW v, NEW a, NEW p, NEW c, NEW n, NEW New, NEW S, NEW E, NEW f, NEW pf,
         GroupedView(t, v, a, p, c, n, New, S, E, f, pf), ~pf, p # Nil, NEW e, E = {e},
         NEW v1, v1 = ReplaceWith(v, a, c), NEW u, u = Dropped(v1, a, c)
  PROVE  Closed(t, v, u, a, p, c, n, New, E, f)
<1>1. /\ Forest(v) /\ v.root = t.root /\ a \in Node /\ c \in Node /\ c # a /\ c # t.root /\ c # Nil
      /\ a # t.root /\ p # a
      /\ f # <<>> => n # a
      /\ n \in New => n # a /\ n \in Node
      /\ \A y \in Node : v.parent[y] = a => y = e /\ t.parent[y] = a
      /\ a \in InUse(v) /\ a # Nil /\ c \in InUse(v) /\ v.type[c] = "C"
      /\ New \subseteq Node /\ p \in E /\ c \in New
      /\ v.parent[a] = p /\ Tops(v) = {t.root, c} /\ v.parent[c] = Nil
      /\ f # <<>> => n \in Node /\ v.parent[n] = c
      /\ n \in New /\ n # c => v.parent[n] = c
      /\ c \notin Up(v.parent, a)
      /\ t.parent[p] # a /\ v.parent \in Parents /\ p \in Node
  BY ONLY GroupedView(t, v, a, p, c, n, New, S, E, f, pf), ~pf, p # Nil, E = {e} DEF GroupedView
<1>2. p = e
  BY <1>1
<1>3. \A y \in Node : v.parent[y] # a
  BY <1>1, <1>2
<1>4. Up(v.parent, a) = {a} \cup Up(v.parent, p) /\ c \in Tops(v)
  BY <1>1, UpIs
<1>5. /\ Forest(v1) /\ v1.root = v.root /\ v1.type = v.type /\ Tops(v1) = (Tops(v) \ {c}) \cup {a}
      /\ v1.parent[a] = Nil /\ v1.parent[c] = p
      /\ \A y \in Node : y # a /\ y # c => v1.parent[y] = v.parent[y]
  <2>1. v.parent[a] # Nil /\ c \notin Up(v.parent, v.parent[a]) /\ c \in Tops(v)
    BY <1>1, <1>4, UpIs
  <2>2. v.type[c] # "leaf"
    BY <1>1
  <2> QED BY ONLY <1>1, <2>1, <2>2, v1 = ReplaceWith(v, a, c), ReplaceWithIs
<1>6. \A y \in Node : v1.parent[y] # a
  BY <1>1, <1>3, <1>5
<1>7. a \in Tops(v1)
  BY <1>5
<1>9. /\ Forest(u) /\ u.parent = v1.parent /\ u.type[a] = "free"
      /\ \A y \in Node : y # a => u.type[y] = v.type[y]
      /\ Tops(u) = Tops(v1) \ {a}
      /\ a # v.root => u.root = v.root
  BY <1>1, <1>5, <1>6, <1>7, DroppedIs
<1>10. Tops(u) = {u.root}
  BY <1>1, <1>5, <1>9
<1>12. f # <<>> => Adjacent(u, c, n)
  <2> SUFFICES ASSUME f # <<>> PROVE Adjacent(u, c, n)
    OBVIOUS
  <2>1. n \in Node /\ v.parent[n] = c /\ n # a /\ n # c
    BY <1>1
  <2> QED BY <2>1, <1>5, <1>9 DEF Adjacent
<1>13. n \in New /\ n # c => Adjacent(u, n, c)
  BY <1>1, <1>5, <1>9 DEF Adjacent
<1>14. p # Nil => \E b \in New \cup {a} : u.parent[b] = p
  BY <1>1, <1>5, <1>9
<1>15. \A y \in Node : y # a /\ y # c /\ (y \notin E \/ t.parent[y] # a) => u.parent[y] = v.parent[y]
  BY <1>5, <1>9
<1>16. \A y \in E : t.parent[y] # a
  BY <1>1, <1>2
<1>17. \E y \in E \cup {a} : Adjacent(u, c, y)
  BY <1>2, <1>5, <1>9 DEF Adjacent
<1> QED BY ONLY <1>9, <1>10, <1>12, <1>13, <1>14, <1>15, <1>16, <1>17 DEF Closed

TwoIn(M) == \E y, z \in M : y # z

LEMMA SeveralElements ==
  ASSUME NEW f \in Seq(Node), Distinct(f), f # <<>>, Len(f) # 1
  PROVE  TwoIn(ToSet(f)) /\ \A p : ToSet(f) \ {p} # {}
<1>1. Len(f) \in Nat /\ Len(f) >= 2
  <2>1. Len(f) \in Nat /\ Len(f) # 0
    OBVIOUS
  <2> QED BY <2>1
<1>2. 1 \in DOMAIN f /\ 2 \in DOMAIN f
  BY <1>1
<1>3. f[1] # f[2]
  BY <1>2 DEF Distinct
<1>4. f[1] \in ToSet(f) /\ f[2] \in ToSet(f)
  BY <1>2 DEF ToSet
<1>5. TwoIn(ToSet(f))
  BY <1>3, <1>4 DEF TwoIn
<1> QED BY <1>3, <1>4, <1>5

(***************************************************************************)
(* A path of one P-node: the full neighbors get a node of their own.       *)
(***************************************************************************)
\* The full neighbors of a, other than its parent, below a node n of their own.
Halved(t, u, a, p, n, M, pf) ==
  /\ Forest(u) /\ u.root = t.root /\ Tops(u) = Tops(t)
  /\ n \in Inner /\ n \in Node /\ n \notin InUse(t) /\ n # a /\ u.type[n] = "P"
  /\ \A y \in Node : y # n => u.type[y] = t.type[y]
  /\ \A y \in M : u.parent[y] = n
  /\ \A y \in Node : y \notin M /\ y # n /\ y # a => u.parent[y] = t.parent[y]
  /\ pf => u.parent[n] = p /\ u.parent[a] = n
  /\ ~pf => u.parent[n] = a /\ u.parent[a] = p

LEMMA HalvedAbove ==
  ASSUME NEW t, NEW a, NEW p, NEW f, NEW pf, AtApex(t, a, p, f, {}, pf), pf,
         NEW M, \A y \in M : t.parent[y] = a /\ y \in Node, M # {}, M # {a},
         NEW v, NEW n, SplitFrom(t, v, a, n, M), n \notin InUse(t),
         NEW x2, x2 = ReplaceWith(v, a, n), NEW u, u = AppendChild(x2, n, a, FALSE)
  PROVE  Halved(t, u, a, p, n, M, pf)
<1>1. /\ a \in Node /\ t.parent[a] = p /\ p # a /\ a # Nil /\ t.type[a] = "P"
      /\ \A y \in Node : t.parent[y] = a => y \in InUse(t) /\ y # a /\ y # Nil
      /\ p # Nil => p \in Node /\ p \in InUse(t) /\ t.parent[p] # a /\ a # t.root
  <2>1. ApexPlace(t, a, p, f)
    BY AtApexFacts
  <2> QED BY ONLY <2>1 DEF ApexPlace
<1>2. p # Nil /\ Forest(t) /\ Tops(t) = {t.root} /\ a \in InUse(t)
  BY DEF AtApex
<1>3. /\ Forest(v) /\ v.root = t.root /\ Tops(v) = Tops(t) \cup {n} /\ n \notin Tops(t)
      /\ n \in InUse(v) /\ n \in Node /\ n # a /\ n \notin Up(v.parent, a) /\ v.parent[n] = Nil
      /\ \A y \in Node : y # n => v.type[y] = t.type[y]
      /\ \A y \in Node : y \notin M /\ y # n => v.parent[y] = t.parent[y]
      /\ n \in Inner /\ v.type[n] = "P" /\ \A y \in M : v.parent[y] = n
  <2>1. M # {n}
    BY <1>1
  <2> QED BY ONLY <2>1, SplitFrom(t, v, a, n, M) DEF SplitFrom
<1>4. v.parent[a] = p
  BY <1>1, <1>3
<1>5. /\ Forest(x2) /\ x2.root = t.root /\ x2.type = v.type
      /\ Tops(x2) = {t.root, a} /\ x2.parent[a] = Nil /\ x2.parent[n] = p
      /\ \A y \in Node : y # a /\ y # n => x2.parent[y] = v.parent[y]
  <2>1. v.parent[a] # Nil /\ v.type[n] # "leaf" /\ n \in Tops(v)
    BY <1>2, <1>3, <1>4
  <2>2. v.parent \in Parents
    BY <1>3 DEF Forest, ForestType
  <2>3. Up(v.parent, p) \subseteq Up(v.parent, a)
    BY <1>1, <1>2, <1>4, <2>2, UpIs
  <2>4. n \notin Up(v.parent, v.parent[a])
    BY <1>3, <1>4, <2>3
  <2>5. /\ Forest(x2) /\ x2.root = v.root /\ x2.type = v.type
        /\ Tops(x2) = (Tops(v) \ {n}) \cup {a} /\ x2.parent[a] = Nil /\ x2.parent[n] = v.parent[a]
        /\ \A y \in Node : y # a /\ y # n => x2.parent[y] = v.parent[y]
    BY ONLY <1>1, <1>3, <2>1, <2>4, x2 = ReplaceWith(v, a, n), ReplaceWithIs
  <2> QED BY <1>2, <1>3, <1>4, <2>5
<1>6. {n} \cap InUse(t) = {}
  OBVIOUS
<1>7. OutsideKept(t, x2, a, {n})
  BY <1>3, <1>5 DEF OutsideKept
<1>8. a \notin Up(x2.parent, n)
  <2>1. AboveStays(t, x2, a, p, {n})
    BY <1>1, <1>2, <1>6, <1>7, AboveKept
  <2>2. x2.parent \in Parents
    BY <1>5 DEF Forest, ForestType
  <2>3. Up(x2.parent, n) = {n} \cup Up(x2.parent, p)
    BY <1>2, <1>3, <1>5, <2>2, UpIs
  <2>4. Up(x2.parent, p) \subseteq Up(t.parent, p)
    BY <1>1, <1>2, <2>1, <2>2, UpIs DEF AboveStays
  <2> QED BY <1>3, <2>1, <2>3, <2>4 DEF AboveStays
<1>9. MayHang(x2, n, a)
  <2>1. n \in InUse(x2)
    BY <1>3, <1>5 DEF InUse
  <2>2. a \in Tops(x2) /\ x2.type[a] # "leaf" /\ x2.type[n] # "leaf"
    BY <1>1, <1>3, <1>5
  <2> QED BY <1>8, <2>1, <2>2 DEF MayHang
<1>10. Hangs(x2, u, n, a)
  BY <1>5, <1>9, AppendEndIs
<1>11. /\ Forest(u) /\ u.root = t.root /\ u.type = v.type /\ Tops(u) = Tops(x2) \ {a}
       /\ u.parent[a] = n /\ \A y \in Node : y # a => u.parent[y] = x2.parent[y]
  BY <1>5, <1>10 DEF Hangs
<1>12. Tops(u) = Tops(t)
  BY ZenonT(40), <1>1, <1>2, <1>5, <1>11
<1>13. \A y \in M : y # a /\ y # n /\ y \in Node
  BY <1>1
<1>14. \A y \in M : u.parent[y] = n
  BY <1>3, <1>5, <1>11, <1>13
<1>15. \A y \in Node : y \notin M /\ y # n /\ y # a => u.parent[y] = t.parent[y]
  BY <1>3, <1>5, <1>11
<1>16. u.parent[n] = p /\ u.parent[a] = n
  BY <1>3, <1>5, <1>11
<1>17. n \notin InUse(t)
  OBVIOUS
<1> QED BY ONLY <1>3, <1>11, <1>12, <1>14, <1>15, <1>16, <1>17, pf DEF Halved

LEMMA HalvedBelow ==
  ASSUME NEW t, NEW a, NEW p, NEW f, NEW pf, AtApex(t, a, p, f, {}, pf), ~pf,
         NEW M, \A y \in M : t.parent[y] = a /\ y \in Node, M # {},
         NEW v, NEW n, SplitFrom(t, v, a, n, M), n \notin InUse(t),
         NEW u, u = AppendChild(v, a, n, FALSE)
  PROVE  Halved(t, u, a, p, n, M, pf)
<1>1. /\ a \in Node /\ t.parent[a] = p /\ p # a /\ a # Nil /\ t.type[a] = "P"
      /\ \A y \in Node : t.parent[y] = a => y \in InUse(t) /\ y # a /\ y # Nil
  <2>1. ApexPlace(t, a, p, f)
    BY AtApexFacts
  <2> QED BY ONLY <2>1 DEF ApexPlace
<1>3. /\ Forest(v) /\ v.root = t.root /\ Tops(v) = Tops(t) \cup {n} /\ n \notin Tops(t)
      /\ n \in InUse(v) /\ n \in Node /\ n # a /\ n \notin Up(v.parent, a) /\ v.parent[n] = Nil
      /\ \A y \in Node : y # n => v.type[y] = t.type[y]
      /\ \A y \in Node : y \notin M /\ y # n => v.parent[y] = t.parent[y]
      /\ n \in Inner /\ v.type[n] = "P" /\ \A y \in M : v.parent[y] = n
  <2>1. M # {n}
    BY <1>1
  <2> QED BY ONLY <2>1, SplitFrom(t, v, a, n, M) DEF SplitFrom
<1>4. v.parent[a] = p /\ v.type[a] = "P" /\ a \in InUse(v)
  BY <1>1, <1>3 DEF InUse
<1>5. MayHang(v, a, n)
  BY <1>3, <1>4 DEF MayHang
<1>6. Hangs(v, u, a, n)
  BY <1>3, <1>5, AppendEndIs
<1>7. /\ Forest(u) /\ u.root = t.root /\ u.type = v.type /\ Tops(u) = Tops(v) \ {n}
      /\ u.parent[n] = a /\ \A y \in Node : y # n => u.parent[y] = v.parent[y]
  BY <1>3, <1>6 DEF Hangs
<1>8. Tops(u) = Tops(t)
  BY ZenonT(40), <1>3, <1>7
<1>9. \A y \in M : u.parent[y] = n
  BY ZenonT(40), <1>1, <1>3, <1>7
<1>10. \A y \in Node : y \notin M /\ y # n /\ y # a => u.parent[y] = t.parent[y]
  BY <1>3, <1>7
<1>11. u.parent[n] = a /\ u.parent[a] = p
  BY <1>1, <1>3, <1>4, <1>7
<1>12. n \notin InUse(t)
  OBVIOUS
<1> QED BY ONLY <1>3, <1>7, <1>8, <1>9, <1>10, <1>11, <1>12, ~pf DEF Halved

LEMMA HalvedSturdy ==
  ASSUME NEW t, Sturdy(t), NEW a, NEW p, NEW f, NEW pf, AtApex(t, a, p, f, {}, pf),
         NEW M, M = ToSet(f) \ {p}, M # {}, ~pf => TwoIn(M), TwoIn(EmptyAround(t, a, f, {})),
         NEW n, NEW u, Halved(t, u, a, p, n, M, pf)
  PROVE  Sturdy(u)
<1>1. /\ a \in Node /\ t.parent[a] = p /\ p # a /\ a # Nil /\ t.type[a] = "P"
      /\ \A y \in Node : t.parent[y] = a => y \in InUse(t) /\ y # a /\ y # Nil /\ y # p
      /\ p # Nil => p \in Node /\ p \in InUse(t) /\ t.parent[p] # a /\ a # t.root
      /\ \A y \in ToSet(f) : y \in Node /\ y \in InUse(t) /\ (y = p \/ t.parent[y] = a)
  <2>1. ApexPlace(t, a, p, f)
    BY AtApexFacts
  <2> QED BY ONLY <2>1 DEF ApexPlace
<1>2. /\ Forest(t) /\ Tops(t) = {t.root} /\ a \in InUse(t) /\ a \in Inner
      /\ pf <=> p # Nil /\ p \in ToSet(f)
  BY DEF AtApex
<1>3. /\ Forest(u) /\ u.root = t.root /\ Tops(u) = Tops(t)
      /\ n \in Inner /\ n \in Node /\ n \notin InUse(t) /\ n # a /\ u.type[n] = "P"
      /\ \A y \in Node : y # n => u.type[y] = t.type[y]
      /\ \A y \in M : u.parent[y] = n
      /\ \A y \in Node : y \notin M /\ y # n /\ y # a => u.parent[y] = t.parent[y]
      /\ pf => u.parent[n] = p /\ u.parent[a] = n
      /\ ~pf => u.parent[n] = a /\ u.parent[a] = p
  BY DEF Halved
<1>4. \A y \in M : y \in Node /\ t.parent[y] = a /\ y # p /\ y # a /\ y # n
  BY <1>1, <1>3
<1>5. Rebuilt(t, u, a, {n})
  <2>1. \A y \in Node : y \notin {n} /\ y # a =>
          /\ u.type[y] = t.type[y]
          /\ t.parent[y] # a => u.parent[y] = t.parent[y]
          /\ t.parent[y] = a => u.parent[y] \in {n} \cup {a}
    BY <1>3, <1>4
  <2>2. u.type[a] = t.type[a]
    BY <1>1, <1>3
  <2>3. \E b \in {n} \cup {a} : u.parent[b] = t.parent[a]
    BY <1>1, <1>3
  <2> QED BY <1>2, <1>3, <2>1, <2>2, <2>3 DEF Rebuilt
<1>6. Branches(u, n)
  <2>1. CASE pf
    <3>1. PICK m \in M : TRUE
      OBVIOUS
    <3>2. Adjacent(u, n, p) /\ Adjacent(u, n, a) /\ Adjacent(u, n, m)
      BY <2>1, <1>3 DEF Adjacent
    <3>3. p # a /\ p # m /\ a # m /\ p \in Node /\ m \in Node
      BY <2>1, <1>1, <1>2, <1>4
    <3> QED BY <3>2, <3>3, <1>1 DEF Branches
  <2>2. CASE ~pf
    <3>1. PICK m1 \in M, m2 \in M : m1 # m2
      BY <2>2 DEF TwoIn
    <3>2. Adjacent(u, n, a) /\ Adjacent(u, n, m1) /\ Adjacent(u, n, m2)
      BY <2>2, <1>3 DEF Adjacent
    <3> QED BY <3>1, <3>2, <1>1, <1>4 DEF Branches
  <2> QED BY <2>1, <2>2
<1>7. Branches(u, a)
  <2>1. PICK y1 \in EmptyAround(t, a, f, {}), y2 \in EmptyAround(t, a, f, {}) : y1 # y2
    BY DEF TwoIn
  <2>2. ASSUME NEW y \in EmptyAround(t, a, f, {}) PROVE y \in Node /\ y # n /\ Adjacent(u, a, y)
    <3>1. y \in Node /\ Adjacent(t, a, y) /\ y \notin ToSet(f)
      BY <2>2 DEF EmptyAround
    <3>2. CASE t.parent[y] = a
      <4>1. y # n /\ y # a /\ y \notin M
        BY <3>1, <3>2, <1>1, <1>3
      <4> QED BY <3>1, <3>2, <4>1, <1>3 DEF Adjacent
    <3>3. CASE y = p
      <4>1. p # Nil
        BY <3>1, <3>3, NodesAssumption DEF Node
      <4>2. ~pf /\ p # n
        BY <3>1, <3>3, <4>1, <1>1, <1>2, <1>3
      <4> QED BY <3>1, <3>3, <4>2, <1>3 DEF Adjacent
    <3> QED BY <3>1, <3>2, <3>3, <1>1 DEF Adjacent
  <2>3. Adjacent(u, a, n)
    BY <1>3 DEF Adjacent
  <2> QED BY <2>1, <2>2, <2>3, <1>3 DEF Branches
<1>8. \A b \in {n} \cup {a} : u.type[b] # "free" => Branches(u, b)
  BY <1>6, <1>7
<1>9. a \in InUse(t) \cap Inner
  BY <1>2
<1> QED BY ONLY <1>5, <1>8, <1>9, Sturdy(t), RebuiltSturdy

(***************************************************************************)
(* Ways up.                                                                *)
(***************************************************************************)
LEMMA UpFinite ==
  ASSUME NEW pa \in Parents, NEW x \in Node
  PROVE  IsFiniteSet(Up(pa, x)) /\ Cardinality(Up(pa, x)) \in Nat
<1>1. Up(pa, x) \subseteq Node /\ IsFiniteSet(Node)
  BY UpIs, NodeIsFinite
<1> QED BY <1>1, FS_Subset, FS_CardinalityType

LEMMA UpOneMore ==
  ASSUME NEW pa \in Parents, Acyclic(pa), NEW x \in Node, pa[x] # Nil, NEW p, p = pa[x]
  PROVE  /\ p \in Node /\ Up(pa, x) = {x} \cup Up(pa, p) /\ x \notin Up(pa, p)
         /\ Cardinality(Up(pa, x)) = Cardinality(Up(pa, p)) + 1
<1>1. p \in Node /\ Up(pa, x) = {x} \cup Up(pa, p) /\ x \notin Up(pa, p)
  BY UpIs, NotAboveItself
<1>2. IsFiniteSet(Up(pa, p))
  BY <1>1, UpFinite
<1>3. Up(pa, x) = Up(pa, p) \cup {x}
  BY <1>1
<1> QED BY ZenonT(40), <1>1, <1>2, <1>3, FS_AddElement

\* Of two nodes on the way up from k, one is above the other.
LEMMA UpComparable ==
  ASSUME NEW pa \in Parents, Acyclic(pa), NEW k \in Node, NEW y \in Up(pa, k), NEW z \in Up(pa, k)
  PROVE  y \in Up(pa, z) \/ z \in Up(pa, y)
<1> DEFINE S == {x \in Node : \A v, w \in Up(pa, x) : v \in Up(pa, w) \/ w \in Up(pa, v)}
<1>1. ASSUME NEW x \in Node, pa[x] = Nil \/ pa[x] \in S PROVE x \in S
  <2> SUFFICES ASSUME NEW v \in Up(pa, x), NEW w \in Up(pa, x) PROVE v \in Up(pa, w) \/ w \in Up(pa, v)
    BY <1>1
  <2>1. Up(pa, x) = {x} \cup (IF pa[x] = Nil THEN {} ELSE Up(pa, pa[x]))
    BY UpIs
  <2>2. CASE v = x \/ w = x
    BY <2>2
  <2>3. CASE v # x /\ w # x
    <3>1. pa[x] # Nil /\ v \in Up(pa, pa[x]) /\ w \in Up(pa, pa[x])
      BY <2>1, <2>3
    <3> QED BY <1>1, <3>1
  <2> QED BY <2>2, <2>3
<1> HIDE DEF S
<1>2. k \in S
  BY <1>1, FromTops
<1> QED BY <1>2 DEF S

\* The difference of two ways up of which one is the end of the other.
LEMMA UpDifference ==
  ASSUME NEW pa \in Parents, NEW x \in Node, NEW y \in Node, x \in Up(pa, y)
  PROVE  /\ Up(pa, x) \subseteq Up(pa, y) /\ IsFiniteSet(Up(pa, y) \ Up(pa, x))
         /\ Cardinality(Up(pa, y) \ Up(pa, x)) = Cardinality(Up(pa, y)) - Cardinality(Up(pa, x))
         /\ Cardinality(Up(pa, y) \ Up(pa, x)) \in Nat
<1>1. Up(pa, x) \subseteq Up(pa, y)
  BY UpTransitive
<1>2. IsFiniteSet(Up(pa, y)) /\ IsFiniteSet(Up(pa, x))
  BY UpFinite
<1>3. Up(pa, y) \cap Up(pa, x) = Up(pa, x)
  BY <1>1
<1> QED BY <1>1, <1>2, <1>3, FS_Difference, FS_CardinalityType

(***************************************************************************)
(* findEndOfFullBlock.                                                     *)
(***************************************************************************)
LEMMA ModWithin ==
  ASSUME NEW n \in Nat, n > 0, NEW m \in Nat
  PROVE  m % n \in 0..(n - 1)
OBVIOUS

LEMMA ModSmall ==
  ASSUME NEW n \in Nat, n > 0, NEW m \in 0..(n - 1)
  PROVE  m % n = m /\ (m + n) % n = m
OBVIOUS

\* The position k steps from i on the ring.
StepOn(ring, i, forward, k) == RingAt(ring, IF forward THEN i + k ELSE i + Len(ring) - k)

LEMMA StepIs ==
  ASSUME NEW ring \in Seq(Node), NEW i \in DOMAIN ring, NEW forward \in BOOLEAN
  PROVE  /\ StepOn(ring, i, forward, 0) = ring[i]
         /\ \A k \in 0..Len(ring) : StepOn(ring, i, forward, k) \in ToSet(ring)
         /\ \A j \in DOMAIN ring : j # i => \E k \in 1..Len(ring) : StepOn(ring, i, forward, k) = ring[j]
<1> DEFINE n == Len(ring)
<1>1. n \in Nat /\ n > 0 /\ DOMAIN ring = 1..n /\ i \in 1..n
  OBVIOUS
<1>2. StepOn(ring, i, forward, 0) = ring[i]
  <2>1. i - 1 \in 0..(n - 1)
    BY <1>1
  <2>2. (i - 1) % n = i - 1 /\ ((i - 1) + n) % n = i - 1
    BY ONLY <1>1, <2>1, ModSmall
  <2>3. CASE forward
    <3>1. StepOn(ring, i, forward, 0) = ring[((i + 0 - 1) % n) + 1]
      BY <2>3 DEF StepOn, RingAt
    <3>2. i + 0 - 1 = i - 1 /\ (i - 1) + 1 = i
      BY <1>1
    <3> QED BY <2>2, <3>1, <3>2
  <2>4. CASE ~forward
    <3>1. \A k \in Nat : StepOn(ring, i, forward, k) = ring[((i + n - k - 1) % n) + 1]
      BY <2>4 DEF StepOn, RingAt
    <3>2. i + n - 0 - 1 = (i - 1) + n /\ (i - 1) + 1 = i
      BY <1>1
    <3>3. StepOn(ring, i, forward, 0) = ring[(((i - 1) + n) % n) + 1]
      BY <3>1, <3>2
    <3> QED BY <2>2, <3>2, <3>3
  <2> QED BY <2>3, <2>4
<1>3. ASSUME NEW k \in 0..n PROVE StepOn(ring, i, forward, k) \in ToSet(ring)
  <2>1. \E m \in Nat : StepOn(ring, i, forward, k) = ring[(m % n) + 1]
    <3>1. CASE forward
      <4>1. i + k - 1 \in Nat
        BY <1>1
      <4>2. StepOn(ring, i, forward, k) = ring[((i + k - 1) % n) + 1]
        BY <3>1 DEF StepOn, RingAt
      <4> QED BY ONLY <4>1, <4>2
    <3>2. CASE ~forward
      <4>1. i + n - k - 1 \in Nat
        BY <1>1
      <4>2. StepOn(ring, i, forward, k) = ring[((i + n - k - 1) % n) + 1]
        BY <3>2 DEF StepOn, RingAt
      <4> QED BY ONLY <4>1, <4>2
    <3> QED BY <3>1, <3>2
  <2>2. PICK m \in Nat : StepOn(ring, i, forward, k) = ring[(m % n) + 1]
    BY <2>1
  <2>3. m % n \in 0..(n - 1)
    BY ONLY <1>1, <2>2, ModWithin
  <2>4. (m % n) + 1 \in DOMAIN ring
    BY <1>1, <2>3
  <2> QED BY ONLY <2>2, <2>4 DEF ToSet
<1>4. ASSUME NEW j \in DOMAIN ring, j # i
      PROVE  \E k \in 1..n : StepOn(ring, i, forward, k) = ring[j]
  <2>1. j \in 1..n /\ j - 1 \in 0..(n - 1) /\ (j - 1) + 1 = j
    BY <1>1
  <2>2. (j - 1) % n = j - 1 /\ ((j - 1) + n) % n = j - 1
    BY ONLY <1>1, <2>1, ModSmall
  <2>3. CASE forward
    <3>1. \A k \in Nat : StepOn(ring, i, forward, k) = ring[((i + k - 1) % n) + 1]
      BY <2>3 DEF StepOn, RingAt
    <3>2. CASE j > i
      <4>1. j - i \in 1..n /\ j - i \in Nat /\ i + (j - i) - 1 = j - 1
        BY <1>1, <2>1, <3>2
      <4> QED BY <2>1, <2>2, <3>1, <4>1
    <3>3. CASE ~(j > i)
      <4>1. (j - i) + n \in 1..n /\ (j - i) + n \in Nat /\ i + ((j - i) + n) - 1 = (j - 1) + n
        BY <1>1, <1>4, <2>1, <3>3
      <4> QED BY <2>1, <2>2, <3>1, <4>1
    <3> QED BY <3>2, <3>3
  <2>4. CASE ~forward
    <3>1. \A k \in Nat : StepOn(ring, i, forward, k) = ring[((i + n - k - 1) % n) + 1]
      BY <2>4 DEF StepOn, RingAt
    <3>2. CASE j < i
      <4>1. i - j \in 1..n /\ i - j \in Nat /\ i + n - (i - j) - 1 = (j - 1) + n
        BY <1>1, <2>1, <3>2
      <4> QED BY <2>1, <2>2, <3>1, <4>1
    <3>3. CASE ~(j < i)
      <4>1. (i - j) + n \in 1..n /\ (i - j) + n \in Nat /\ i + n - ((i - j) + n) - 1 = j - 1
        BY <1>1, <1>4, <2>1, <3>3
      <4> QED BY <2>1, <2>2, <3>1, <4>1
    <3> QED BY <3>2, <3>3
  <2> QED BY <2>3, <2>4
<1> QED BY <1>2, <1>3, <1>4

\* The first step off the block F.
LEMMA FirstOff ==
  ASSUME NEW ring \in Seq(Node), NEW i \in DOMAIN ring, NEW forward \in BOOLEAN, NEW F,
         ring[i] \in F, NEW j \in DOMAIN ring, ring[j] \notin F
  PROVE  \E k \in 1..Len(ring) : /\ StepOn(ring, i, forward, k) \notin F
                                 /\ \A m \in 1..(k - 1) : StepOn(ring, i, forward, m) \in F
<1> DEFINE K == {k \in 1..Len(ring) : StepOn(ring, i, forward, k) \notin F}
<1>1. K \subseteq Nat /\ K # {}
  BY StepIs
<1>2. PICK k \in K : \A m \in K : k <= m
  BY <1>1, LeastOf
<1>3. k \in 1..Len(ring) /\ StepOn(ring, i, forward, k) \notin F
  BY <1>2
<1>4. ASSUME NEW m \in 1..(k - 1) PROVE StepOn(ring, i, forward, m) \in F
  <2>1. m \in 1..Len(ring) /\ ~(k <= m)
    BY <1>3
  <2> QED BY <1>2, <2>1
<1> QED BY <1>3, <1>4

LEMMA UpAntisymmetric ==
  ASSUME NEW pa \in Parents, Acyclic(pa), NEW x \in Node, NEW y \in Node, x \in Up(pa, y), y \in Up(pa, x)
  PROVE  x = y
<1> SUFFICES ASSUME x # y PROVE FALSE
  OBVIOUS
<1>1. pa[y] # Nil /\ x \in Up(pa, pa[y])
  BY UpIs
<1>2. pa[y] \in Node /\ y \notin Up(pa, pa[y])
  BY <1>1, NotAboveItself
<1>3. Up(pa, x) \subseteq Up(pa, pa[y])
  BY <1>1, <1>2, UpTransitive
<1> QED BY <1>2, <1>3

(***************************************************************************)
(* The start of the search.                                                *)
(***************************************************************************)
LEMMA AroundIsAdjacent ==
  ASSUME NEW t, Sturdy(t), NEW x \in InUse(t)
  PROVE  \A y \in Node : y \in Around(t, x) <=> Adjacent(t, x, y)
<1>1. Tree(t) /\ Forest(t) /\ x \in Node
  BY SturdyIsValid, SturdyFacts DEF InUse
<1>2. Around(t, x) = Kids(t, x) \cup (IF x = t.root THEN {} ELSE {t.parent[x]})
  BY <1>1, AroundIs
<1>3. t.parent[x] = Nil <=> x = t.root
  BY SturdyFacts
<1>4. \A y \in Node : y # Nil /\ (t.parent[y] = x <=> y \in Kids(t, x))
  BY <1>1, NodesAssumption DEF Forest, Arranged, Node
<1> QED BY <1>2, <1>3, <1>4 DEF Adjacent
==============================================================================
