-------------------------- MODULE ConstructionProofs --------------------------
(***************************************************************************)
(* However trees are built, changed, taken apart and joined, the forest    *)
(* stays in order (NothingLost), and trees of two leaves or more whose     *)
(* inner nodes have three neighbors, the root perhaps two, stay such trees *)
(* (ValidityKept).                                                         *)
(*                                                                         *)
(* The argument is about the parents alone wherever it can be: they have   *)
(* no cycle, which for finitely many nodes is that every set of nodes has  *)
(* one whose parent is not in it.  In this form it is easily seen to       *)
(* survive the turning of edges, and it is what makes the recursive        *)
(* functions NodesBelow and WayUp say what they are meant to say.          *)
(*                                                                         *)
(* Validity counts leaves and degrees over a whole tree.  Of a whole forest*)
(* it can be said node by node, by types and parents alone (Firm, Sound),  *)
(* and this is what the lemmas about the calls show to be kept.  A tree is *)
(* called valid below if it is ValidButRoot: checkValid(false) accepts it, *)
(* or would if its root had a third child.                                 *)
(***************************************************************************)
EXTENDS Construction, PCTreeShapeProofs

(***************************************************************************)
(* The nodes below a node.                                                 *)
(***************************************************************************)
\* The equation of NodesBelow has a solution.
LEMMA NodesBelowIs ==
  ASSUME NEW t \in ForestType, Arranged(t), NEW x \in Node
  PROVE  NodesBelow(t)[x] = {x} \cup UNION {NodesBelow(t)[c] : c \in Kids(t, x)}
<1> DEFINE pa == t.parent
           Step(f, y) == {y} \cup UNION {f[t.kids[y][i]] : i \in DOMAIN t.kids[y]}
           g == [y \in Node |-> {z \in Node : y \in Up(pa, z)}]
           B == NodesBelow(t)
<1>1. B = CHOOSE f : f = [y \in Node |-> Step(f, y)]
  BY Zenon DEF NodesBelow
<1>2. ASSUME NEW f, NEW y \in Node
      PROVE  Step(f, y) = {y} \cup UNION {f[c] : c \in Kids(t, y)}
  BY ForestKids
<1>3. ASSUME NEW y \in Node PROVE g[y] = Step(g, y)
  <2>1. pa \in Parents /\ Kids(t, y) \subseteq Node
    BY ForestKids DEF ForestType
  <2>2. \A c \in Node : \A z : z \in g[c] <=> z \in Node /\ c \in Up(pa, z)
    OBVIOUS
  <2>3. \A c \in Node : c \in Kids(t, y) <=> pa[c] = y
    BY DEF Arranged
  <2> HIDE DEF g, pa
  <2>4. ASSUME NEW z \in g[y] PROVE z = y \/ \E c \in Kids(t, y) : z \in g[c]
    <3> SUFFICES ASSUME z # y, \A c \in Kids(t, y) : z \notin g[c] PROVE FALSE
      OBVIOUS
    <3>1. z \in Node /\ y \in Up(pa, z)
      BY <2>2
    <3>2. \A c \in Up(pa, z) : c \in Node /\ pa[c] # y
      BY <2>1, <2>2, <2>3, <3>1, UpIs
    <3>3. UpClosed(pa, Up(pa, z) \ {y})
      BY <2>1, <3>1, <3>2, UpIs DEF UpClosed
    <3>4. Up(pa, z) \subseteq Up(pa, z) \ {y}
      BY <2>1, <3>1, <3>3, UpIs
    <3> QED BY <3>1, <3>4
  <2>5. y \in g[y]
    BY <2>1, <2>2, UpIs
  <2>6. ASSUME NEW c \in Kids(t, y), NEW z \in g[c] PROVE z \in g[y]
    <3>1. c \in Node /\ pa[c] = y /\ z \in Node /\ c \in Up(pa, z)
      BY <2>1, <2>2, <2>3
    <3>2. y \in Up(pa, z)
      BY <2>1, <3>1, UpIs, NodesAssumption DEF UpClosed, Node
    <3> QED BY <2>2, <3>1, <3>2
  <2>7. g[y] = {y} \cup UNION {g[c] : c \in Kids(t, y)}
    BY <2>4, <2>5, <2>6
  <2> HIDE DEF Step
  <2> QED BY <1>2, <2>7
<1>4. g = [y \in Node |-> Step(g, y)]
  <2> HIDE DEF Step
  <2> QED BY <1>3
<1>5. B = [y \in Node |-> Step(B, y)]
  <2> HIDE DEF Step, g, B
  <2> QED BY Zenon, <1>1, <1>4
<1> HIDE DEF B
<1>6. B[x] = Step(B, x)
  <2> HIDE DEF Step
  <2> QED BY <1>5
<1> HIDE DEF Step
<1> QED BY <1>2, <1>6 DEF B

\* Below a node is whatever the node is above.
LEMMA BelowIsUp ==
  ASSUME NEW t, Forest(t), NEW x \in Node
  PROVE  NodesBelow(t)[x] = {y \in Node : x \in Up(t.parent, y)}
<1> DEFINE pa == t.parent
           B == NodesBelow(t)
           S == {y \in Node : B[y] = {z \in Node : y \in Up(pa, z)}}
<1>1. /\ pa \in Parents /\ Acyclic(pa) /\ t \in ForestType /\ Arranged(t)
      /\ \A y, c \in Node : c \in Kids(t, y) <=> pa[c] = y
      /\ \A y \in Node : Kids(t, y) \subseteq Node
  BY ForestKids DEF Forest, ForestType, Arranged
<1>2. \A y \in Node : B[y] = {y} \cup UNION {B[c] : c \in Kids(t, y)}
  BY <1>1, NodesBelowIs
<1> HIDE DEF B, pa
<1>3. ASSUME NEW y \in Node, \A c \in Node : pa[c] = y => c \in S PROVE y \in S
  <2>1. \A c \in Kids(t, y) : B[c] = {z \in Node : c \in Up(pa, z)}
    BY <1>1, <1>3
  <2>2. ASSUME NEW z \in B[y] PROVE z \in Node /\ y \in Up(pa, z)
    <3>1. CASE z = y
      BY <1>1, <3>1, UpIs
    <3>2. CASE z # y
      <4>1. PICK c \in Kids(t, y) : z \in B[c]
        BY <1>2, <3>2
      <4>2. z \in Node /\ c \in Up(pa, z) /\ pa[c] = y /\ y # Nil
        BY <1>1, <2>1, <4>1, NodesAssumption DEF Node
      <4> QED BY <1>1, <4>2, UpIs DEF UpClosed
    <3> QED BY <3>1, <3>2
  <2>3. ASSUME NEW z \in Node, y \in Up(pa, z), z \notin B[y] PROVE FALSE
    <3>1. z # y
      BY <1>2, <2>3
    <3>2. \A c \in Up(pa, z) : c \in Node /\ pa[c] # y
      <4> TAKE c \in Up(pa, z)
      <4>1. c \in Node
        BY <1>1, UpIs
      <4>2. c \in Kids(t, y) => z \in B[c]
        BY <2>1
      <4> QED BY <1>1, <1>2, <2>3, <4>1, <4>2
    <3>3. UpClosed(pa, Up(pa, z) \ {y})
      BY <1>1, <3>2, UpIs DEF UpClosed
    <3>4. Up(pa, z) \subseteq Up(pa, z) \ {y}
      BY <1>1, <3>1, <3>3, UpIs
    <3> QED BY <2>3, <3>4
  <2>4. B[y] = {z \in Node : y \in Up(pa, z)}
    BY <2>2, <2>3
  <2> QED BY <2>4
<1>4. Node \subseteq S
  <2> HIDE DEF S
  <2> QED BY <1>1, <1>3, FromEnds
<1> QED BY <1>4 DEF B, pa

(***************************************************************************)
(* NothingLost without recursive functions.                                *)
(***************************************************************************)
AsTree(n) == [type |-> n.type, parent |-> n.parent, kids |-> n.kids, root |-> Nil]

NodesType ==
  [type : [Node -> {"free", "leaf", "P", "C"}], parent : Parents, kids : [Node -> Seq(Node)]]

\* The nodes in use that have no parent are the roots of the trees.
InOrder(n, r) ==
  /\ n \in NodesType
  /\ Forest(AsTree(n))
  /\ r \in [Trees -> Node \cup {Nil}]
  /\ \A T, U \in Trees : r[T] # Nil /\ r[T] = r[U] => T = U
  /\ Tops(AsTree(n)) = {r[T] : T \in {U \in Trees : r[U] # Nil}}

\* What the two have in common.
LEMMA LinkedIs ==
  ASSUME NEW n
  PROVE  Linked(n) <=> n \in NodesType /\ AsTree(n) \in ForestType /\ Arranged(AsTree(n))
<1> DEFINE t == AsTree(n)
<1>1. t.type = n.type /\ t.parent = n.parent /\ t.kids = n.kids
  BY DEF AsTree
<1>2. n \in NodesType => t \in ForestType
  BY DEF AsTree, NodesType, ForestType
<1> HIDE DEF t
<1>3. ASSUME NEW x \in Node
      PROVE  /\ IsInjective(n.kids[x]) <=> Distinct(t.kids[x])
             /\ Kids(t, x) = ToSet(n.kids[x])
  BY <1>1, DistinctIsInjective DEF Kids
<1>4. Arranged(t) <=>
        \A x \in Node :
          /\ IsInjective(n.kids[x])
          /\ \A c \in Node : n.parent[c] = x <=> c \in ToSet(n.kids[x])
          /\ n.type[x] = "free" => n.kids[x] = <<>> /\ n.parent[x] = Nil
          /\ n.type[x] = "leaf" => Len(n.kids[x]) <= (IF n.parent[x] = Nil THEN 1 ELSE 0)
  BY <1>1, <1>3 DEF Arranged
<1> QED BY <1>2, <1>4 DEF Linked, NodesType, Parents, t

\* The nodes below a node depend on the children only.
LEMMA SameNodesBelow ==
  ASSUME NEW n, NEW r, NEW T
  PROVE  /\ NodesOf(TreeIn(n, r, T)) = NodesBelow(AsTree(n))[r[T]]
         /\ TreeIn(n, r, T).type = n.type /\ TreeIn(n, r, T).root = r[T]
<1> DEFINE below(ks) == CHOOSE f : f = [x \in Node |-> {x} \cup UNION {f[ks[x][i]] : i \in DOMAIN ks[x]}]
<1>1. \A t : NodesBelow(t) = below(t.kids)
  BY Zenon DEF NodesBelow
<1>2. TreeIn(n, r, T).kids = n.kids /\ TreeIn(n, r, T).root = r[T] /\ TreeIn(n, r, T).type = n.type
  BY DEF TreeIn
<1>3. AsTree(n).kids = n.kids
  BY DEF AsTree
<1> HIDE DEF below
<1>4. NodesBelow(TreeIn(n, r, T)) = NodesBelow(AsTree(n))
  BY <1>1, <1>2, <1>3
<1> QED BY <1>2, <1>4 DEF NodesOf

\* All nodes in use are below roots, so that there are no cycles.
LEMMA WholeIsAcyclic ==
  ASSUME NEW n, NEW r, Whole(n, r)
  PROVE  Acyclic(n.parent)
<1> DEFINE t == AsTree(n)
           pa == n.parent
           B == NodesBelow(t)
           Present == {T \in Trees : r[T] # Nil}
<1>1. /\ t \in ForestType /\ Arranged(t) /\ pa \in Parents /\ t.parent = pa /\ t.type = n.type
      /\ n \in NodesType
  BY LinkedIs DEF Whole, AsTree, NodesType
<1>2. \A T \in Trees : NodesOf(TreeIn(n, r, T)) = B[r[T]]
  BY SameNodesBelow
<1>3. /\ \A T \in Present : r[T] \in Node /\ pa[r[T]] = Nil
      /\ UNION {B[r[T]] : T \in Present} = {x \in Node : n.type[x] # "free"}
  BY <1>2 DEF Whole
<1>4. /\ \A x \in Node : B[x] = {x} \cup UNION {B[c] : c \in Kids(t, x)}
      /\ \A c, x \in Node : c \in Kids(t, x) <=> pa[c] = x
      /\ \A x \in Node : Kids(t, x) \subseteq Node
      /\ \A x \in Node : n.type[x] = "free" => pa[x] = Nil
  BY <1>1, NodesBelowIs, ForestKids DEF Arranged
<1> HIDE DEF B, t, pa
<1> SUFFICES ASSUME NEW S \in SUBSET Node, S # {}, \A x \in S : pa[x] \in S PROVE FALSE
  BY DEF Acyclic, pa
<1>5. PICK y \in S : TRUE
  OBVIOUS
<1>6. n.type[y] # "free" /\ Nil \notin Node
  BY <1>4, NodesAssumption DEF Node
<1>7. PICK T \in Present : y \in B[r[T]]
  BY <1>3, <1>6
<1> DEFINE Z == {x \in Node \ S : y \in B[x]}
<1>8. r[T] \in Z
  BY <1>3, <1>6, <1>7
<1>9. \A x \in Z : \E c \in Z : pa[c] = x
  <2> TAKE x \in Z
  <2>1. PICK c \in Kids(t, x) : y \in B[c]
    BY <1>4
  <2>2. c \in Node /\ pa[c] = x
    BY <1>4, <2>1
  <2> QED BY <2>1, <2>2
<1>10. \A c \in Z : pa[c] \in Z
  <2> HIDE DEF Z
  <2>1. Z \in SUBSET Node
    BY DEF Z
  <2> QED BY <1>1, <1>9, <2>1, ChildrenWithin
<1> QED BY <1>3, <1>6, <1>8, <1>10

LEMMA WholeIs ==
  ASSUME NEW n, NEW r
  PROVE  Whole(n, r) <=> InOrder(n, r)
<1> DEFINE t == AsTree(n)
           pa == n.parent
           B == NodesBelow(t)
           Present == {T \in Trees : r[T] # Nil}
<1>1. t.parent = pa /\ t.type = n.type
  BY DEF AsTree
<1>2. \A T \in Trees : NodesOf(TreeIn(n, r, T)) = B[r[T]]
  BY SameNodesBelow
<1>3. Whole(n, r) <=>
        /\ Linked(n)
        /\ r \in [Trees -> Node \cup {Nil}]
        /\ \A T \in Present : pa[r[T]] = Nil
        /\ \A T, U \in Present : T # U => B[r[T]] \cap B[r[U]] = {}
        /\ UNION {B[r[T]] : T \in Present} = {x \in Node : n.type[x] # "free"}
  <2> DEFINE of(T) == NodesOf(TreeIn(n, r, T))
  <2>1. \A T \in Trees : of(T) = B[r[T]]
    BY <1>2
  <2> HIDE DEF of, B
  <2> QED BY <2>1 DEF Whole, of
<1>4. InOrder(n, r) <=>
        /\ Linked(n) /\ Acyclic(pa)
        /\ r \in [Trees -> Node \cup {Nil}]
        /\ \A T, U \in Present : r[T] = r[U] => T = U
        /\ Tops(t) = {r[T] : T \in Present}
  BY <1>1, LinkedIs DEF InOrder, Forest
<1>5. Whole(n, r) => Acyclic(pa)
  BY WholeIsAcyclic
<1>6. ASSUME Linked(n), Acyclic(pa), r \in [Trees -> Node \cup {Nil}]
      PROVE  /\ (/\ \A T \in Present : pa[r[T]] = Nil
                 /\ \A T, U \in Present : T # U => B[r[T]] \cap B[r[U]] = {}
                 /\ UNION {B[r[T]] : T \in Present} = {x \in Node : n.type[x] # "free"})
             <=> /\ \A T, U \in Present : r[T] = r[U] => T = U
                 /\ Tops(t) = {r[T] : T \in Present}
  <2>1. Forest(t) /\ pa \in Parents
    BY <1>1, <1>6, LinkedIs DEF Forest, NodesType
  <2>2. \A x \in Node : B[x] = {y \in Node : x \in Up(pa, y)}
    BY <1>1, <2>1, BelowIsUp
  <2>3. InUse(t) = {x \in Node : n.type[x] # "free"}
    BY <1>1 DEF InUse
  <2>4. \A x \in Node : x \in Up(pa, x) /\ (pa[x] = Nil => Up(pa, x) = {x})
    BY <2>1, UpIs
  <2>5. \A T \in Present : r[T] \in Node
    BY <1>6
  <2>6. Tops(t) = {x \in Node : n.type[x] # "free" /\ pa[x] = Nil}
    BY <1>1 DEF Tops, InUse
  <2>7. \A x \in Node : \A y, z \in Up(pa, x) : pa[y] = Nil /\ pa[z] = Nil => y = z
    BY <1>6, <2>1, OneTop
  <2>8. \A x \in Node : \E y \in Up(pa, x) : y \in Node /\ pa[y] = Nil
    BY <1>6, <2>1, OneTop, UpIs
  <2>9. \A x \in Node : /\ x \in InUse(t) => Up(pa, x) \subseteq InUse(t)
                        /\ \A y \in Up(pa, x) : y # x => x \in InUse(t)
    BY <1>1, <2>1, InUseAbove
  <2> HIDE DEF B, pa, t, Present
  <2>10. ASSUME \A T \in Present : pa[r[T]] = Nil,
                \A T, U \in Present : T # U => B[r[T]] \cap B[r[U]] = {},
                UNION {B[r[T]] : T \in Present} = {x \in Node : n.type[x] # "free"}
         PROVE  /\ \A T, U \in Present : r[T] = r[U] => T = U
                /\ Tops(t) = {r[T] : T \in Present}
    <3>1. \A T \in Present : r[T] \in B[r[T]]
      BY <2>2, <2>4, <2>5
    <3>2. \A T, U \in Present : r[T] = r[U] => T = U
      BY <2>10, <3>1
    <3>3. \A T \in Present : r[T] \in Tops(t)
      BY <2>5, <2>6, <2>10, <3>1
    <3>4. ASSUME NEW x \in Tops(t) PROVE \E T \in Present : x = r[T]
      <4>1. x \in Node /\ pa[x] = Nil /\ n.type[x] # "free"
        BY <2>6
      <4>2. PICK T \in Present : x \in B[r[T]]
        BY <2>10, <4>1
      <4> QED BY <2>2, <2>4, <2>5, <4>1, <4>2
    <3> QED BY <3>2, <3>3, <3>4
  <2>11. ASSUME \A T, U \in Present : r[T] = r[U] => T = U,
                Tops(t) = {r[T] : T \in Present}
         PROVE  /\ \A T \in Present : pa[r[T]] = Nil
                /\ \A T, U \in Present : T # U => B[r[T]] \cap B[r[U]] = {}
                /\ UNION {B[r[T]] : T \in Present} = {x \in Node : n.type[x] # "free"}
    <3>1. \A T \in Present : r[T] \in Node /\ pa[r[T]] = Nil /\ n.type[r[T]] # "free"
      BY <2>6, <2>11
    <3>2. ASSUME NEW T \in Present, NEW U \in Present, T # U, NEW z \in B[r[T]], z \in B[r[U]]
          PROVE  FALSE
      <4>1. z \in Node /\ r[T] \in Up(pa, z) /\ r[U] \in Up(pa, z)
        BY <2>2, <3>1, <3>2
      <4> QED BY <2>7, <2>11, <3>1, <3>2, <4>1
    <3>3. ASSUME NEW T \in Present, NEW z \in B[r[T]] PROVE z \in InUse(t)
      <4>1. z \in Node /\ r[T] \in Up(pa, z)
        BY <2>2, <3>1
      <4> QED BY <2>3, <2>9, <3>1, <4>1
    <3>4. ASSUME NEW z \in InUse(t) PROVE \E T \in Present : z \in B[r[T]]
      <4>1. z \in Node
        BY <2>3
      <4>2. PICK y \in Up(pa, z) : y \in Node /\ pa[y] = Nil
        BY <2>8, <4>1
      <4>3. y \in Tops(t)
        BY <2>3, <2>6, <2>9, <4>1, <4>2
      <4> QED BY <2>2, <2>11, <4>1, <4>2, <4>3
    <3>5. UNION {B[r[T]] : T \in Present} = InUse(t)
      BY <3>3, <3>4
    <3> QED BY <2>3, <3>1, <3>2, <3>5
  <2> QED BY <2>10, <2>11
<1> HIDE DEF B, pa, t, Present
<1> QED BY <1>3, <1>4, <1>5, <1>6

(***************************************************************************)
(* What the operations of PCNode do to a forest.                           *)
(***************************************************************************)
LEMMA AppendLeavesIs ==
  ASSUME NEW t, Forest(t), NEW p \in InUse(t), t.type[p] # "leaf",
         NEW new \in Seq(Node), Distinct(new), \A x \in ToSet(new) : t.type[x] = "free",
         NEW u, u = AppendLeaves(t, new, p)
  PROVE  /\ Forest(u) /\ u.root = t.root /\ Tops(u) = Tops(t)
         /\ \A x \in Node : /\ x \notin ToSet(new) => u.parent[x] = t.parent[x]
                            /\ x \notin ToSet(new) => u.type[x] = t.type[x]
                            /\ x # p => u.kids[x] = t.kids[x]
         /\ \A x \in ToSet(new) : x \in Node /\ u.parent[x] = p /\ u.type[x] = "leaf"
<1> DEFINE N  == ToSet(new)
           ty == [x \in Node |-> IF x \in N THEN "leaf" ELSE t.type[x]]
           pa == [x \in Node |-> IF x \in N THEN p ELSE t.parent[x]]
           ks == t.kids[p] \o new
           ki == [t.kids EXCEPT ![p] = ks]
<1>1. /\ t \in ForestType /\ Arranged(t) /\ Acyclic(t.parent) /\ t.parent \in Parents
      /\ p \in Node /\ p \notin N /\ N \subseteq Node /\ Nil \notin Node
  BY NodesAssumption DEF Forest, ForestType, InUse, ToSet, Node
<1>2. \A x \in N : t.kids[x] = <<>> /\ t.parent[x] = Nil
  BY <1>1 DEF Arranged
<1>3. ks \in Seq(Node) /\ Distinct(ks) /\ ToSet(ks) = Kids(t, p) \cup N
  <2>1. t.kids[p] \in Seq(Node) /\ Distinct(t.kids[p])
    BY <1>1, ForestKids DEF Arranged
  <2>2. \A x \in Kids(t, p) : t.parent[x] = p /\ x \in Node
    BY <1>1, ForestKids DEF Arranged
  <2>3. ToSet(t.kids[p]) \cap N = {}
    BY <1>1, <1>2, <2>2 DEF Kids
  <2> QED BY <2>1, <2>3, ConcatDistinct DEF Kids
<1>4. u = [t EXCEPT !.type = ty, !.parent = pa, !.kids = ki]
  BY DEF AppendLeaves
<1>5. /\ ty \in [Node -> {"free", "leaf", "P", "C"}] /\ pa \in Parents
      /\ ki \in [Node -> Seq(Node)]
  BY <1>1, <1>3 DEF ForestType, Parents
<1>6. /\ \A x \in Node : /\ ty[x] = IF x \in N THEN "leaf" ELSE t.type[x]
                         /\ pa[x] = IF x \in N THEN p ELSE t.parent[x]
                         /\ x # p => ki[x] = t.kids[x]
      /\ ki[p] = ks
  BY <1>1 DEF ForestType
<1> HIDE DEF ty, pa, ki, ks, N
<1>7. /\ u \in ForestType /\ u.root = t.root /\ u.type = ty /\ u.parent = pa /\ u.kids = ki
  BY <1>1, <1>4, <1>5 DEF ForestType
<1>8. /\ Kids(u, p) = Kids(t, p) \cup N
      /\ \A x \in Node : x # p => Kids(u, x) = Kids(t, x)
  BY <1>1, <1>3, <1>6, <1>7 DEF Kids
<1>9. Arranged(u)
  <2> SUFFICES ASSUME NEW x \in Node
      PROVE  /\ Distinct(u.kids[x])
             /\ \A y \in Node : u.parent[y] = x <=> y \in Kids(u, x)
             /\ u.type[x] = "free" => u.kids[x] = <<>> /\ u.parent[x] = Nil
             /\ u.type[x] = "leaf" => Len(u.kids[x]) <= (IF u.parent[x] = Nil THEN 1 ELSE 0)
    BY DEF Arranged
  <2>1. Distinct(u.kids[x])
    BY <1>1, <1>3, <1>6, <1>7 DEF Arranged
  <2>2. ASSUME NEW y \in Node PROVE u.parent[y] = x <=> y \in Kids(u, x)
    <3>1. t.parent[y] = x <=> y \in Kids(t, x)
      BY <1>1 DEF Arranged
    <3>2. x # Nil
      BY <1>1
    <3> QED BY <1>1, <1>2, <1>6, <1>7, <1>8, <3>1, <3>2
  <2>3. u.type[x] = "free" => u.kids[x] = <<>> /\ u.parent[x] = Nil
    <3>1. t.type[x] = "free" => t.kids[x] = <<>> /\ t.parent[x] = Nil /\ x # p
      BY <1>1 DEF Arranged, InUse
    <3> QED BY <1>6, <1>7, <3>1
  <2>4. u.type[x] = "leaf" => Len(u.kids[x]) <= (IF u.parent[x] = Nil THEN 1 ELSE 0)
    <3>1. t.type[x] = "leaf" => Len(t.kids[x]) <= (IF t.parent[x] = Nil THEN 1 ELSE 0)
      BY <1>1 DEF Arranged
    <3>2. CASE x \in N
      <4>1. u.kids[x] = <<>>
        BY <1>1, <1>2, <1>6, <1>7, <3>2
      <4> QED BY <4>1
    <3>3. CASE x \notin N
      <4>1. u.type[x] = t.type[x] /\ u.parent[x] = t.parent[x]
        BY <1>6, <1>7, <3>3
      <4>2. u.type[x] = "leaf" => u.kids[x] = t.kids[x]
        BY <1>6, <1>7, <4>1
      <4> QED BY <3>1, <4>1, <4>2
    <3> QED BY <3>2, <3>3
  <2> QED BY <2>1, <2>2, <2>3, <2>4
<1>10. Acyclic(u.parent)
  <2> SUFFICES ASSUME NEW S \in SUBSET Node, S # {} PROVE \E x \in S : pa[x] \notin S
    BY <1>7 DEF Acyclic
  <2>1. CASE S \subseteq N
    BY <1>1, <1>6, <2>1
  <2>2. CASE ~(S \subseteq N)
    <3>1. PICK x \in S \ N : t.parent[x] \notin S \ N
      BY <1>1, <2>2 DEF Acyclic
    <3>2. t.parent[x] \notin N
      BY <1>1, <1>2, <3>1, ForestFacts, ForestKids
    <3> QED BY <1>6, <3>1, <3>2
  <2> QED BY <2>1, <2>2
<1>11. Tops(u) = Tops(t)
  <2>1. \A x \in N : t.type[x] = "free" /\ p # Nil
    BY <1>1 DEF N
  <2> QED BY <1>6, <1>7, <2>1 DEF Tops, InUse
<1>12. \A x \in N : x \in Node /\ u.parent[x] = p /\ u.type[x] = "leaf"
  BY <1>1, <1>6, <1>7
<1> QED BY <1>6, <1>7, <1>9, <1>10, <1>11, <1>12 DEF Forest, N

(***************************************************************************)
(* The top of an inserted tree.                                            *)
(***************************************************************************)
\* The way down as long as there is one child only, written as a way up.
OnlyKid(t) ==
  [x \in Node |-> IF Len(t.kids[x]) = 1 THEN t.kids[x][1] ELSE Nil]

LEMMA OnlyKidIs ==
  ASSUME NEW t, Forest(t)
  PROVE  /\ OnlyKid(t) \in Parents /\ Acyclic(OnlyKid(t))
         /\ \A x \in Node : /\ OnlyKid(t)[x] = IF Len(t.kids[x]) = 1 THEN t.kids[x][1] ELSE Nil
                            /\ OnlyKid(t)[x] = Nil <=> Len(t.kids[x]) # 1
                            /\ Len(t.kids[x]) = 1 => /\ t.kids[x][1] \in Node
                                                     /\ t.parent[t.kids[x][1]] = x
<1> DEFINE dn == OnlyKid(t)
<1>1. t \in ForestType /\ t.parent \in Parents /\ Acyclic(t.parent) /\ Nil \notin Node
  BY NodesAssumption DEF Forest, ForestType, Node
<1>2. ASSUME NEW x \in Node, Len(t.kids[x]) = 1
      PROVE  t.kids[x][1] \in Node /\ t.parent[t.kids[x][1]] = x
  <2>1. 1 \in DOMAIN t.kids[x]
    BY <1>1, <1>2, ForestKids
  <2>2. t.kids[x][1] \in Kids(t, x)
    BY <1>1, <2>1, ForestKids
  <2> QED BY <1>1, <2>2, ForestFacts, ForestKids
<1>3. \A x \in Node : dn[x] = IF Len(t.kids[x]) = 1 THEN t.kids[x][1] ELSE Nil
  BY DEF OnlyKid
<1>4. dn \in Parents
  BY <1>2 DEF OnlyKid, Parents
<1> HIDE DEF dn
<1>5. Acyclic(dn)
  <2> SUFFICES ASSUME NEW S \in SUBSET Node, S # {}, \A x \in S : dn[x] \in S
      PROVE  FALSE
    BY DEF Acyclic
  <2>1. \A x \in S : \E c \in S : t.parent[c] = x
    BY <1>1, <1>2, <1>3
  <2>2. \A c \in S : t.parent[c] \in S
    BY <1>1, <2>1, ChildrenWithin
  <2> QED BY <1>1, <2>2 DEF Acyclic
<1>6. \A x \in Node : dn[x] = Nil <=> Len(t.kids[x]) # 1
  BY <1>1, <1>2, <1>3
<1> QED BY <1>2, <1>3, <1>4, <1>5, <1>6 DEF dn

\* What TopOf computes.
LEMMA TopOfIs ==
  ASSUME NEW t, Forest(t), NEW r \in Node
  PROVE  /\ TopOf(t, r) \in Node /\ r \in Up(t.parent, TopOf(t, r))
         /\ Len(t.kids[TopOf(t, r)]) # 1
<1> DEFINE pa == t.parent
           dn == OnlyKid(t)
           Step(f, y) == IF Len(t.kids[y]) = 1 THEN f[t.kids[y][1]] ELSE y
           g == [y \in Node |-> CHOOSE z \in Up(dn, y) : dn[z] = Nil]
           W == CHOOSE f : f = [y \in Node |-> Step(f, y)]
<1>1. TopOf(t, r) = W[r]
  BY Zenon DEF TopOf
<1>2. /\ pa \in Parents /\ dn \in Parents /\ Acyclic(dn)
      /\ \A x \in Node : /\ dn[x] = Nil <=> Len(t.kids[x]) # 1
                         /\ dn[x] # Nil => dn[x] = t.kids[x][1] /\ dn[x] \in Node /\ pa[dn[x]] = x
  BY OnlyKidIs DEF Forest, ForestType
<1> HIDE DEF pa, dn
<1>3. ASSUME NEW y \in Node PROVE g[y] = Step(g, y)
  <2>1. \A z \in Node : g[z] \in Up(dn, z) /\ dn[g[z]] = Nil
    BY <1>2, OneTop
  <2> HIDE DEF g
  <2>2. CASE dn[y] = Nil
    BY <1>2, <2>1, <2>2, UpIs
  <2>3. CASE dn[y] # Nil
    <3>1. dn[y] \in Node /\ Up(dn, dn[y]) \subseteq Up(dn, y)
      BY <1>2, <2>3, UpIs
    <3>2. g[y] = g[dn[y]]
      BY <1>2, <2>1, <3>1, OneTop
    <3> QED BY <1>2, <2>3, <3>2
  <2> QED BY <2>2, <2>3
<1>4. g = [y \in Node |-> Step(g, y)]
  <2> HIDE DEF Step
  <2> QED BY <1>3
<1>5. W = [y \in Node |-> Step(W, y)]
  <2> HIDE DEF Step, g
  <2> QED BY Zenon, <1>4
<1> HIDE DEF W, g
<1>6. ASSUME NEW y \in Node PROVE W[y] = IF dn[y] = Nil THEN y ELSE W[dn[y]]
  <2>1. W[y] = Step(W, y)
    <3> HIDE DEF Step
    <3> QED BY <1>5
  <2> QED BY <1>2, <2>1
<1> HIDE DEF Step
<1> DEFINE S == {y \in Node : W[y] \in Node /\ y \in Up(pa, W[y]) /\ dn[W[y]] = Nil}
<1>7. ASSUME NEW y \in Node, dn[y] = Nil \/ dn[y] \in S PROVE y \in S
  <2>1. CASE dn[y] = Nil
    BY <1>2, <1>6, <2>1, UpIs
  <2>2. CASE dn[y] # Nil
    <3>1. dn[y] \in S /\ W[y] = W[dn[y]] /\ pa[dn[y]] = y /\ dn[y] \in Node
      BY <1>2, <1>6, <1>7, <2>2
    <3>2. y \in Up(pa, W[y])
      BY <1>2, <3>1, UpIs, NodesAssumption DEF UpClosed, Node
    <3> QED BY <3>1, <3>2
  <2> QED BY <2>1, <2>2
<1>8. Node \subseteq S
  <2> HIDE DEF S
  <2> QED BY <1>2, <1>7, FromTops
<1> QED BY <1>1, <1>2, <1>8 DEF pa

\* What is left when the top is taken off: the tree below TopOf(t, r).
LEMMA WithoutTopIs ==
  ASSUME NEW t, Forest(t), NEW r \in Tops(t), NEW h, h = TopOf(t, r),
         NEW u, u = WithoutTop(t, r)
  PROVE  /\ Forest(u) /\ u.root = t.root /\ h \in Tops(u)
         /\ Tops(u) = (Tops(t) \ {r}) \cup {h}
         /\ r \in Up(t.parent, h)
         /\ u.type[h] = "leaf" => u.kids[h] = <<>>
         /\ \A x \in Node : /\ u.parent[x] \in {t.parent[x], Nil}
                            /\ r \notin Up(t.parent, x) => /\ u.type[x] = t.type[x]
                                                           /\ u.kids[x] = t.kids[x]
                                                           /\ u.parent[x] = t.parent[x]
         /\ \A x \in Node : IF r \in Up(t.parent, x) /\ h \notin Up(t.parent, x)
                            THEN u.type[x] = "free"
                            ELSE u.type[x] = t.type[x] /\ (x # h => u.parent[x] = t.parent[x])
<1> DEFINE pa == t.parent
           gone == {y \in Node : r \in Up(pa, y) /\ h \notin Up(pa, y)}
           ty == [x \in Node |-> IF x \in gone THEN "free" ELSE t.type[x]]
           qa == [x \in Node |-> IF x \in gone \cup {h} THEN Nil ELSE pa[x]]
           ki == [x \in Node |-> IF x \in gone THEN <<>> ELSE t.kids[x]]
<1>1. /\ t \in ForestType /\ Arranged(t) /\ Acyclic(pa) /\ pa \in Parents /\ Nil \notin Node
      /\ r \in Node /\ pa[r] = Nil /\ r \in InUse(t)
  BY NodesAssumption DEF Forest, ForestType, Node, Tops, InUse
<1>2. h \in Node /\ r \in Up(pa, h) /\ Len(t.kids[h]) # 1
  BY <1>1, TopOfIs
<1>3. gone = NodesBelow(t)[r] \ NodesBelow(t)[h]
  BY <1>1, <1>2, BelowIsUp
<1>4. u = [t EXCEPT !.type = ty, !.parent = qa, !.kids = ki]
  <2> HIDE DEF gone
  <2> QED BY <1>3 DEF WithoutTop
<1> HIDE DEF pa
<1>5. \A x \in gone : x \in Node /\ r \in Up(pa, x) /\ h \notin Up(pa, x) /\ x # h
  BY <1>1, UpIs
<1>6. ASSUME NEW x \in Node, pa[x] # Nil
      PROVE  /\ pa[x] \in Node /\ x \in gone => pa[x] \in gone
             /\ pa[x] \in gone => x \in gone \/ x = h
  <2>1. Up(pa, x) = {x} \cup Up(pa, pa[x]) /\ pa[x] \in Node
    BY <1>1, <1>6, UpIs DEF Parents
  <2>2. x # r
    BY <1>1, <1>6
  <2> QED BY <2>1, <2>2
<1>7. pa[h] # Nil => pa[h] \in gone
  <2> SUFFICES ASSUME pa[h] # Nil PROVE pa[h] \in gone
    OBVIOUS
  <2>1. Up(pa, h) = {h} \cup Up(pa, pa[h]) /\ pa[h] \in Node
    BY <1>1, <1>2, UpIs DEF Parents
  <2>2. h # r /\ h \notin Up(pa, pa[h])
    BY <1>1, <1>2, NotAboveItself
  <2> QED BY <1>2, <2>1, <2>2
<1>8. h \notin gone /\ (r = h \/ r \in gone)
  <2>1. h \notin gone
    BY <1>5
  <2>2. Up(pa, r) = {r}
    BY <1>1, UpIs
  <2> QED BY <1>1, <2>1, <2>2
<1> HIDE DEF gone
<1>9. ty \in [Node -> {"free", "leaf", "P", "C"}] /\ qa \in Parents /\ ki \in [Node -> Seq(Node)]
  BY <1>1 DEF ForestType, Parents
<1>10. \A x \in Node : /\ ty[x] = IF x \in gone THEN "free" ELSE t.type[x]
                       /\ qa[x] = IF x \in gone \/ x = h THEN Nil ELSE pa[x]
                       /\ ki[x] = IF x \in gone THEN <<>> ELSE t.kids[x]
  OBVIOUS
<1> HIDE DEF ty, qa, ki
<1>11. u \in ForestType /\ u.root = t.root /\ u.type = ty /\ u.parent = qa /\ u.kids = ki
  BY <1>1, <1>4, <1>9 DEF ForestType
<1>12. \A x \in Node : Kids(u, x) = IF x \in gone THEN {} ELSE Kids(t, x)
  <2> TAKE x \in Node
  <2>1. ToSet(<<>>) = {}
    BY DEF ToSet
  <2> QED BY <1>10, <1>11, <2>1 DEF Kids
<1>13. Arranged(u)
  <2> SUFFICES ASSUME NEW x \in Node
      PROVE  /\ Distinct(u.kids[x])
             /\ \A y \in Node : u.parent[y] = x <=> y \in Kids(u, x)
             /\ u.type[x] = "free" => u.kids[x] = <<>> /\ u.parent[x] = Nil
             /\ u.type[x] = "leaf" => Len(u.kids[x]) <= (IF u.parent[x] = Nil THEN 1 ELSE 0)
    BY DEF Arranged
  <2>1. Distinct(u.kids[x])
    <3>1. Distinct(<<>>)
      BY DEF Distinct
    <3> QED BY <1>1, <1>10, <1>11, <3>1 DEF Arranged
  <2>2. ASSUME NEW y \in Node PROVE u.parent[y] = x <=> y \in Kids(u, x)
    <3>1. pa[y] = x <=> y \in Kids(t, x)
      BY <1>1 DEF Arranged, pa
    <3>2. x # Nil
      BY <1>1
    <3> QED BY <1>5, <1>6, <1>7, <1>10, <1>11, <1>12, <3>1, <3>2
  <2>3. u.type[x] = "free" => u.kids[x] = <<>> /\ u.parent[x] = Nil
    <3>1. t.type[x] = "free" => t.kids[x] = <<>> /\ pa[x] = Nil
      BY <1>1 DEF Arranged, pa
    <3> QED BY <1>10, <1>11, <3>1
  <2>4. u.type[x] = "leaf" => Len(u.kids[x]) <= (IF u.parent[x] = Nil THEN 1 ELSE 0)
    <3>1. t.type[x] = "leaf" => Len(t.kids[x]) <= (IF pa[x] = Nil THEN 1 ELSE 0)
      BY <1>1 DEF Arranged, pa
    <3>2. /\ u.type[x] = "leaf" => u.type[x] = t.type[x] /\ u.kids[x] = t.kids[x]
          /\ u.parent[x] = pa[x] \/ u.parent[x] = Nil
      BY <1>10, <1>11
    <3>3. Len(t.kids[x]) \in Nat
      BY <1>1, ForestKids
    <3> QED BY <3>1, <3>2, <3>3
  <2> QED BY <2>1, <2>2, <2>3, <2>4
<1>14. \A x \in Node : qa[x] \in {pa[x], Nil}
  BY <1>10
<1>15. Acyclic(qa)
  BY <1>1, <1>9, <1>14, FewerEdges
<1>16. Tops(u) = (Tops(t) \ {r}) \cup {h}
  <2>1. h \in InUse(t)
    BY <1>1, <1>2, InUseAbove DEF pa
  <2>2. ASSUME NEW x \in Tops(t), x # r PROVE x \notin gone
    <3>1. x \in Node /\ Up(pa, x) = {x}
      BY <1>1, UpIs DEF Tops, InUse, pa
    <3> QED BY <1>5, <2>2, <3>1
  <2>3. \A x \in Node : /\ x \in InUse(u) <=> x \in InUse(t) /\ x \notin gone
                        /\ x \in Tops(t) <=> x \in InUse(t) /\ pa[x] = Nil
                        /\ x \in Tops(u) <=> x \in InUse(u) /\ qa[x] = Nil
    BY <1>10, <1>11 DEF InUse, Tops, pa
  <2>4. Tops(u) \subseteq Node /\ Tops(t) \subseteq Node
    BY DEF Tops, InUse
  <2> QED BY <1>1, <1>2, <1>8, <1>10, <2>1, <2>2, <2>3, <2>4
<1>17. u.type[h] = "leaf" => u.kids[h] = <<>>
  <2> DEFINE n == Len(t.kids[h])
  <2>1. t.type[h] = "leaf" => n <= (IF pa[h] = Nil THEN 1 ELSE 0)
    BY <1>1, <1>2 DEF Arranged, pa
  <2>2. n \in Nat /\ (t.kids[h] = <<>> <=> n = 0) /\ n # 1
    BY <1>1, <1>2, ForestKids
  <2> HIDE DEF n
  <2>3. t.type[h] = "leaf" => n <= 1
    BY <2>1, <2>2
  <2>4. t.type[h] = "leaf" => t.kids[h] = <<>>
    BY <2>2, <2>3
  <2> QED BY <1>2, <1>8, <1>10, <1>11, <2>4
<1>18. ASSUME NEW x \in Node, r \notin Up(pa, x)
       PROVE  u.type[x] = t.type[x] /\ u.kids[x] = t.kids[x] /\ u.parent[x] = pa[x]
  BY <1>2, <1>5, <1>10, <1>11, <1>18
<1>19. \A x \in Node : IF r \in Up(pa, x) /\ h \notin Up(pa, x)
                       THEN u.type[x] = "free"
                       ELSE u.type[x] = t.type[x] /\ (x # h => u.parent[x] = pa[x])
  BY <1>10, <1>11 DEF gone
<1> QED BY <1>2, <1>11, <1>13, <1>14, <1>15, <1>16, <1>17, <1>18, <1>19 DEF Forest, pa

(***************************************************************************)
(* The trees of a forest in order, and what a call has to leave behind.    *)
(***************************************************************************)
LEMMA AtIs ==
  ASSUME InOrder(nodes, roots), NEW T \in Trees
  PROVE  /\ Forest(At(T)) /\ At(T).root = roots[T] /\ roots[T] \in Node \cup {Nil}
         /\ At(T).type = nodes.type /\ At(T).parent = nodes.parent /\ At(T).kids = nodes.kids
         /\ Tops(At(T)) = Tops(AsTree(nodes)) /\ InUse(At(T)) = InUse(AsTree(nodes))
         /\ Exists(T) => /\ roots[T] \in Tops(At(T)) /\ roots[T] \in Node
                         /\ nodes.parent[roots[T]] = Nil
                         /\ NodesOf(At(T)) = {x \in Node : roots[T] \in Up(nodes.parent, x)}
                         /\ NodesOf(At(T)) \subseteq InUse(At(T))
<1> DEFINE n == AsTree(nodes)
<1>1. n.type = nodes.type /\ n.parent = nodes.parent /\ n.kids = nodes.kids /\ Forest(n)
  BY DEF AsTree, InOrder
<1>2. roots[T] \in Node \cup {Nil}
  BY DEF InOrder
<1>3. At(T) = [n EXCEPT !.root = roots[T]]
  BY DEF At, TreeIn, AsTree
<1> HIDE DEF n
<1>4. /\ Forest(At(T)) /\ At(T).root = roots[T] /\ At(T).type = n.type /\ At(T).parent = n.parent
      /\ At(T).kids = n.kids /\ Tops(At(T)) = Tops(n) /\ InUse(At(T)) = InUse(n)
  BY <1>1, <1>2, <1>3, RootedIs
<1>5. ASSUME Exists(T)
      PROVE  /\ roots[T] \in Tops(At(T)) /\ roots[T] \in Node /\ nodes.parent[roots[T]] = Nil
             /\ NodesOf(At(T)) = {x \in Node : roots[T] \in Up(nodes.parent, x)}
             /\ NodesOf(At(T)) \subseteq InUse(At(T))
  <2>1. roots[T] \in Tops(n)
    BY <1>5 DEF Exists, InOrder, n
  <2>2. roots[T] \in Node /\ nodes.parent[roots[T]] = Nil /\ roots[T] \in InUse(n)
    BY <1>1, <2>1 DEF Tops, InUse
  <2>3. NodesOf(At(T)) = NodesBelow(n)[roots[T]]
    BY SameNodesBelow DEF At, n
  <2>4. NodesBelow(n)[roots[T]] = {x \in Node : roots[T] \in Up(nodes.parent, x)}
    BY <1>1, <2>2, BelowIsUp
  <2>5. ASSUME NEW x \in Node, roots[T] \in Up(nodes.parent, x) PROVE x \in InUse(n)
    BY <1>1, <2>2, <2>5, InUseAbove
  <2> QED BY <1>4, <2>1, <2>2, <2>3, <2>4, <2>5
<1> QED BY <1>1, <1>2, <1>4, <1>5 DEF n

\* The node that a call is applied to.
LEMMA NodeOfTree ==
  ASSUME InOrder(nodes, roots), NEW T \in Trees, Exists(T), NEW x \in NodesOf(At(T))
  PROVE  /\ x \in Node /\ x \in InUse(At(T)) /\ roots[T] \in Up(nodes.parent, x)
         /\ x # roots[T] => nodes.parent[x] # Nil
         /\ nodes.parent[x] # Nil => /\ nodes.parent[x] \in NodesOf(At(T))
                                     /\ x # roots[T]
         /\ nodes.type[x] = "leaf" /\ nodes.parent[x] # Nil => nodes.kids[x] = <<>>
<1> DEFINE t == At(T)
<1>1. /\ Forest(t) /\ nodes.parent = t.parent /\ t.parent \in Parents /\ nodes.type = t.type
      /\ nodes.kids = t.kids
      /\ NodesOf(t) = {y \in Node : roots[T] \in Up(t.parent, y)} /\ NodesOf(t) \subseteq InUse(t)
      /\ roots[T] \in Node /\ t.parent[roots[T]] = Nil
  BY AtIs DEF Forest, ForestType
<1> HIDE DEF t
<1>2. x \in Node /\ x \in InUse(t) /\ roots[T] \in Up(t.parent, x)
  BY <1>1 DEF t
<1>3. x # roots[T] => t.parent[x] # Nil
  BY <1>1, <1>2, UpIs
<1>4. t.parent[x] # Nil => x # roots[T] /\ t.parent[x] \in NodesOf(t)
  <2> SUFFICES ASSUME t.parent[x] # Nil PROVE x # roots[T] /\ t.parent[x] \in NodesOf(t)
    OBVIOUS
  <2>1. t.parent[x] \in Node /\ Up(t.parent, x) = {x} \cup Up(t.parent, t.parent[x])
    BY <1>1, <1>2, UpIs DEF Parents
  <2> QED BY <1>1, <1>2, <2>1
<1>5. t.type[x] = "leaf" /\ t.parent[x] # Nil => t.kids[x] = <<>>
  <2> SUFFICES ASSUME t.type[x] = "leaf", t.parent[x] # Nil PROVE t.kids[x] = <<>>
    OBVIOUS
  <2>1. Len(t.kids[x]) <= 0
    BY <1>1, <1>2 DEF Forest, Arranged
  <2>2. Len(t.kids[x]) \in Nat /\ (t.kids[x] = <<>> <=> Len(t.kids[x]) = 0)
    BY <1>1, <1>2, ForestKids DEF Forest
  <2> QED BY <2>1, <2>2
<1> QED BY <1>1, <1>2, <1>3, <1>4, <1>5 DEF t

\* A call that turns T into t, while the trees of G are gone.
LEMMA InOrderAgain ==
  ASSUME InOrder(nodes, roots), NEW T \in Trees, NEW G, G \subseteq Trees, T \notin G,
         NEW t, Forest(t), t.root \in Node,
         t.root \notin Tops(At(T)) \ {roots[V] : V \in G \cup {T}},
         Tops(t) = (Tops(At(T)) \ {roots[V] : V \in G \cup {T}}) \cup {t.root},
         NEW n, n = [type |-> t.type, parent |-> t.parent, kids |-> t.kids],
         NEW r, r = [V \in Trees |-> IF V = T THEN t.root
                                     ELSE IF V \in G THEN Nil ELSE roots[V]]
  PROVE  InOrder(n, r)
<1>1. /\ roots \in [Trees -> Node \cup {Nil}] /\ Nil \notin Node
      /\ \A V, W \in Trees : roots[V] # Nil /\ roots[V] = roots[W] => V = W
      /\ Tops(At(T)) = {roots[V] : V \in {W \in Trees : roots[W] # Nil}}
  BY AtIs, NodesAssumption DEF InOrder, Node
<1>2. /\ t.type \in [Node -> {"free", "leaf", "P", "C"}] /\ t.parent \in Parents
      /\ t.kids \in [Node -> Seq(Node)]
  BY DEF Forest, ForestType
<1>3. n \in NodesType /\ Forest(AsTree(n)) /\ Tops(AsTree(n)) = Tops(t)
  <2>1. n \in NodesType /\ n.type = t.type /\ n.parent = t.parent /\ n.kids = t.kids
    BY <1>2 DEF NodesType
  <2> DEFINE a == AsTree(n)
  <2>2. a \in ForestType /\ a.type = t.type /\ a.parent = t.parent /\ a.kids = t.kids
    BY <1>2, <2>1 DEF AsTree, ForestType
  <2> HIDE DEF a
  <2>3. Forest(a) /\ Tops(a) = Tops(t)
    BY <2>2 DEF Forest, Arranged, Kids, Tops, InUse
  <2> QED BY <2>1, <2>3 DEF a
<1>4. r \in [Trees -> Node \cup {Nil}]
  BY <1>1
<1>5. \A V \in Trees : r[V] = IF V = T THEN t.root ELSE IF V \in G THEN Nil ELSE roots[V]
  OBVIOUS
<1>6. ASSUME NEW V \in Trees, V # T, V \notin G, roots[V] # Nil
      PROVE  roots[V] \in Tops(At(T)) \ {roots[W] : W \in G \cup {T}}
  BY <1>1, <1>6
<1>7. ASSUME NEW V \in Trees, NEW W \in Trees, r[V] # Nil, r[V] = r[W] PROVE V = W
  <2>1. V # T => V \notin G /\ r[V] = roots[V]
    BY <1>5, <1>7
  <2>2. W # T => W \notin G /\ r[W] = roots[W]
    BY <1>5, <1>7
  <2>3. r[T] = t.root
    BY <1>5
  <2> QED BY <1>1, <1>6, <1>7, <2>1, <2>2, <2>3
<1>8. Tops(t) = {r[V] : V \in {W \in Trees : r[W] # Nil}}
  <2>1. ASSUME NEW x \in Tops(t) PROVE \E V \in Trees : r[V] # Nil /\ x = r[V]
    <3>1. CASE x = t.root
      BY <1>1, <1>5, <3>1
    <3>2. CASE x # t.root
      <4>1. x \in Tops(At(T)) /\ x \notin {roots[W] : W \in G \cup {T}}
        BY <2>1, <3>2
      <4>2. PICK V \in Trees : roots[V] # Nil /\ x = roots[V]
        BY <1>1, <4>1
      <4> QED BY <1>5, <4>1, <4>2
    <3> QED BY <3>1, <3>2
  <2>2. ASSUME NEW V \in Trees, r[V] # Nil PROVE r[V] \in Tops(t)
    BY <1>5, <1>6, <2>2
  <2> DEFINE R == {r[V] : V \in {W \in Trees : r[W] # Nil}}
  <2>3. R \subseteq Tops(t)
    BY <2>2
  <2>4. Tops(t) \subseteq R
    BY <2>1
  <2> QED BY <2>3, <2>4
<1> QED BY <1>3, <1>4, <1>7, <1>8 DEF InOrder

\* The leaves that a call adds.
LEMMA NewLeavesAre ==
  ASSUME InOrder(nodes, roots), NEW k \in Nat, Cardinality(Free(Leaves)) >= k
  PROVE  /\ NewLeaves(k) \in Seq(Node) /\ Distinct(NewLeaves(k)) /\ Len(NewLeaves(k)) = k
         /\ \A x \in ToSet(NewLeaves(k)) : nodes.type[x] = "free" /\ x \in Leaves
<1> DEFINE F == Free(Leaves)
           c == Cardinality(F)
<1>1. IsFiniteSet(F) /\ F \subseteq Leaves /\ \A x \in F : nodes.type[x] = "free"
  BY NodesAssumption, FS_Subset DEF Free
<1> HIDE DEF F
<1>2. c \in Nat /\ ExistsBijection(1..c, F)
  BY <1>1, FS_CardinalityType
<1>3. PICK f \in Bijection(1..c, F) : TRUE
  BY <1>2 DEF ExistsBijection
<1>4. f \in [1..c -> F] /\ IsInjective(f)
  BY <1>3 DEF Bijection, Injection
<1> DEFINE s0 == [i \in 1..k |-> f[i]]
<1>5. k <= c
  BY <1>2 DEF F
<1>6. s0 \in [1..k -> F] /\ IsInjective(s0)
  <2> HIDE DEF c
  <2>1. \A i \in 1..k : i \in 1..c
    BY <1>2, <1>5
  <2> QED BY <1>4, <2>1 DEF IsInjective
<1> DEFINE s == NewLeaves(k)
<1>7. s \in [1..k -> F] /\ IsInjective(s)
  <2> HIDE DEF s0
  <2> QED BY <1>6 DEF NewLeaves, F
<1> HIDE DEF s, c
<1>8. s \in Seq(Node) /\ DOMAIN s = 1..k /\ Len(s) = k
  BY <1>1, <1>7 DEF Node
<1>9. \A x \in ToSet(s) : x \in F
  BY <1>7, <1>8 DEF ToSet
<1> QED BY <1>1, <1>7, <1>8, <1>9, DistinctIsInjective DEF s

(***************************************************************************)
(* No call loses or leaks a node.                                          *)
(***************************************************************************)
LEMMA CallIs ==
  ASSUME InOrder(nodes, roots), NEW T \in Trees, NEW t, Forest(t), t.root \in Node,
         t.root \notin Tops(At(T)) \ {roots[T]},
         Tops(t) = (Tops(At(T)) \ {roots[T]}) \cup {t.root}, Call(T, t)
  PROVE  InOrder(nodes', roots')
<1> DEFINE n == [type |-> t.type, parent |-> t.parent, kids |-> t.kids]
           r == [V \in Trees |-> IF V = T THEN t.root ELSE IF V \in {} THEN Nil ELSE roots[V]]
<1>1. nodes' = n /\ roots' = [roots EXCEPT ![T] = t.root]
  BY DEF Call
<1>2. roots \in [Trees -> Node \cup {Nil}]
  BY DEF InOrder
<1>3. roots' = r
  BY <1>1, <1>2
<1>4. {roots[V] : V \in {} \cup {T}} = {roots[T]}
  OBVIOUS
<1>5. InOrder(n, r)
  <2> DEFINE G == {}
  <2>1. /\ n = [type |-> t.type, parent |-> t.parent, kids |-> t.kids]
        /\ r = [V \in Trees |-> IF V = T THEN t.root ELSE IF V \in G THEN Nil ELSE roots[V]]
        /\ G \subseteq Trees /\ T \notin G /\ {roots[V] : V \in G \cup {T}} = {roots[T]}
    BY <1>4
  <2> HIDE DEF n, r, G
  <2> QED BY <2>1, InOrderAgain
<1> QED BY <1>1, <1>3, <1>5

LEMMA NewTreeKeepsOrder ==
  ASSUME InOrder(nodes, roots), NEW T \in Trees, NEW k \in Nat, NewTree(T, k)
  PROVE  InOrder(nodes', roots')
<1> DEFINE r   == CHOOSE x \in Free(Inner) : TRUE
           new == NewLeaves(k)
           t0  == [At(T) EXCEPT !.root = r]
           t1  == NewNode(t0, r, "P")
           t2  == AppendLeaves(t1, new, r)
<1>1. /\ roots[T] = Nil /\ Free(Inner) # {} /\ Cardinality(Free(Leaves)) >= k
      /\ Call(T, t2)
  BY DEF NewTree, Exists
<1>2. r \in Inner /\ nodes.type[r] = "free" /\ r \in Node
  <2>1. r \in Free(Inner)
    BY <1>1
  <2> QED BY <2>1 DEF Free, Node
<1>3. Forest(At(T)) /\ At(T).type = nodes.type
  BY AtIs
<1>4. /\ new \in Seq(Node) /\ Distinct(new)
      /\ \A x \in ToSet(new) : nodes.type[x] = "free" /\ x \in Leaves /\ x # r
  BY <1>1, <1>2, NewLeavesAre, NodesAssumption
<1>5. Forest(t0) /\ t0.type = nodes.type /\ t0.root = r /\ Tops(t0) = Tops(At(T))
  <2> HIDE DEF r
  <2> QED BY <1>2, <1>3, RootedIs
<1> DEFINE P == "P"
<1>12. t1 = NewNode(t0, r, P) /\ t2 = AppendLeaves(t1, new, r) /\ P \in {"P", "C"}
  OBVIOUS
<1> HIDE DEF t0, t1, t2, r, new, P
<1>13. t0.type[r] = "free"
  BY <1>2, <1>5
<1>6. /\ Forest(t1) /\ t1.root = r /\ Tops(t1) = Tops(At(T)) \cup {r}
      /\ t1.type[r] = P /\ \A y \in Node : y # r => t1.type[y] = nodes.type[y]
  BY <1>2, <1>5, <1>12, <1>13, NewNodeIs
<1>8. /\ t1.type[r] # "leaf" /\ r \in InUse(t1)
      /\ \A x \in ToSet(new) : t1.type[x] = "free"
  <2>1. ToSet(new) \subseteq Node
    BY <1>4 DEF Node
  <2> QED BY <1>2, <1>4, <1>6, <2>1 DEF InUse, P
<1>9. Forest(t2) /\ t2.root = r /\ Tops(t2) = Tops(t1)
  BY <1>4, <1>6, <1>8, <1>12, AppendLeavesIs
<1>10. r \notin Tops(At(T)) /\ Nil \notin Tops(At(T))
  BY <1>2, <1>3, NodesAssumption DEF Tops, InUse, Node
<1>11. Tops(t2) = (Tops(At(T)) \ {roots[T]}) \cup {r}
  BY <1>1, <1>6, <1>9, <1>10
<1> QED BY <1>1, <1>2, <1>9, <1>10, <1>11, CallIs

LEMMA InsertLeavesKeepsOrder ==
  ASSUME InOrder(nodes, roots), NEW T \in Trees, NEW k \in Nat, NEW p, InsertLeaves(T, p, k)
  PROVE  InOrder(nodes', roots')
<1> DEFINE new == NewLeaves(k)
           t == AppendLeaves(At(T), new, p)
<1>1. /\ Exists(T) /\ p \in NodesOf(At(T)) /\ At(T).type[p] # "leaf"
      /\ Cardinality(Free(Leaves)) >= k /\ Call(T, t)
  BY DEF InsertLeaves, InnerOf, LeavesOf
<1>2. /\ Forest(At(T)) /\ At(T).type = nodes.type /\ At(T).root = roots[T]
      /\ roots[T] \in Node /\ roots[T] \in Tops(At(T)) /\ p \in InUse(At(T))
  BY <1>1, AtIs, NodeOfTree
<1>3. new \in Seq(Node) /\ Distinct(new) /\ \A x \in ToSet(new) : nodes.type[x] = "free"
  BY <1>1, NewLeavesAre
<1>6. t = AppendLeaves(At(T), new, p)
  OBVIOUS
<1> HIDE DEF t, new
<1>7. \A x \in ToSet(new) : At(T).type[x] = "free"
  BY <1>2, <1>3
<1>8. Forest(t) /\ t.root = At(T).root /\ Tops(t) = Tops(At(T))
  BY <1>1, <1>2, <1>3, <1>6, <1>7, AppendLeavesIs
<1>4. Forest(t) /\ t.root = roots[T] /\ Tops(t) = Tops(At(T))
  BY <1>2, <1>8
<1>5. Tops(t) = (Tops(At(T)) \ {roots[T]}) \cup {t.root}
  BY <1>2, <1>4
<1> QED BY <1>1, <1>2, <1>4, <1>5, CallIs

LEMMA ChangeTypeKeepsOrder ==
  ASSUME InOrder(nodes, roots), NEW T \in Trees, NEW x, NEW newType \in {"P", "C"},
         ChangeNodeType(T, x, newType)
  PROVE  InOrder(nodes', roots')
<1> DEFINE t == [At(T) EXCEPT !.type[x] = newType]
<1>1. Exists(T) /\ x \in NodesOf(At(T)) /\ Call(T, t)
  BY DEF ChangeNodeType, InnerOf
<1>2. /\ Forest(At(T)) /\ At(T).root = roots[T] /\ roots[T] \in Node
      /\ roots[T] \in Tops(At(T)) /\ x \in InUse(At(T))
  BY <1>1, AtIs, NodeOfTree
<1>5. t = [At(T) EXCEPT !.type[x] = newType]
  OBVIOUS
<1> HIDE DEF t
<1>3. Forest(t) /\ t.root = roots[T] /\ Tops(t) = Tops(At(T))
  BY <1>2, <1>5, RetypedIs
<1>4. Tops(t) = (Tops(At(T)) \ {roots[T]}) \cup {t.root}
  BY <1>2, <1>3
<1> QED BY <1>1, <1>2, <1>3, <1>4, CallIs

LEMMA ChangeRootKeepsOrder ==
  ASSUME InOrder(nodes, roots), NEW T \in Trees, NEW x, ChangeRootOf(T, x)
  PROVE  InOrder(nodes', roots')
<1>1. PICK mirrored : Call(T, ChangeRoot(At(T), x, mirrored))
  BY DEF ChangeRootOf
<1> DEFINE t == ChangeRoot(At(T), x, mirrored)
<1>2. Exists(T) /\ x \in NodesOf(At(T)) /\ x # roots[T] /\ Call(T, t)
  BY <1>1 DEF ChangeRootOf
<1>3. /\ Forest(At(T)) /\ At(T).root = roots[T] /\ At(T).parent = nodes.parent
      /\ roots[T] \in Tops(At(T)) /\ x \in Node /\ roots[T] \in Up(nodes.parent, x)
      /\ nodes.parent[x] # Nil
  BY <1>2, AtIs, NodeOfTree
<1>4. /\ Forest(t) /\ t.root = x /\ Tops(t) = (Tops(At(T)) \ {roots[T]}) \cup {x}
  BY <1>2, <1>3, ChangeRootIs
<1> HIDE DEF t
<1>5. x \notin Tops(At(T))
  BY <1>3 DEF Tops
<1> QED BY <1>2, <1>3, <1>4, <1>5, CallIs

LEMMA ReplaceLeafKeepsOrder ==
  ASSUME InOrder(nodes, roots), NEW T \in Trees, NEW k \in Nat, NEW leaf, ReplaceLeaf(T, leaf, k)
  PROVE  InOrder(nodes', roots')
<1> DEFINE new == NewLeaves(k)
           t == At(T)
           u == ReplacedLeaf(t, leaf, new)
           small == Cardinality(LeavesOf(t)) <= 2
           P == "P"
<1>1. /\ Exists(T) /\ leaf \in NodesOf(t) /\ nodes.type[leaf] = "leaf" /\ t.type[leaf] = "leaf"
      /\ small => nodes.parent[leaf] # Nil
      /\ Cardinality(Free(Leaves)) >= k /\ Call(T, u)
  BY AtIs DEF ReplaceLeaf, LeavesOf
<1>2. /\ new \in Seq(Node) /\ Distinct(new)
      /\ \A x \in ToSet(new) : nodes.type[x] = "free" /\ x \in Node
  <2>1. new \in Seq(Node) /\ Distinct(new) /\ \A x \in ToSet(new) : nodes.type[x] = "free"
    BY <1>1, NewLeavesAre
  <2> HIDE DEF new
  <2> QED BY <2>1 DEF ToSet
<1>3. P \in {"P", "C"} /\ P # "leaf" /\ P # "free"
  OBVIOUS
<1>4. /\ small => u = DestroyNode(Detach(AppendLeaves([t EXCEPT !.type[t.parent[leaf]] = P],
                                                      new, t.parent[leaf]), leaf), leaf)
      /\ ~small => u = AppendLeaves([t EXCEPT !.type[leaf] = P], new, leaf)
  BY DEF ReplacedLeaf
<1> HIDE DEF t, u, new, small, P
<1>5. /\ Forest(t) /\ t.root = roots[T] /\ roots[T] \in Node /\ roots[T] \in Tops(t)
      /\ t.type = nodes.type /\ t.parent = nodes.parent /\ t.kids = nodes.kids
  BY <1>1, AtIs DEF t
<1>6. leaf \in Node /\ leaf \in InUse(t) /\ (t.parent[leaf] # Nil => t.kids[leaf] = <<>>)
  BY <1>1, <1>5, NodeOfTree DEF t
<1>7. ASSUME NEW x \in InUse(t), NEW v, v = [t EXCEPT !.type[x] = P], NEW w, w = AppendLeaves(v, new, x)
      PROVE  /\ Forest(w) /\ w.root = t.root /\ Tops(w) = Tops(t)
             /\ \A y \in Node : /\ y # x => w.kids[y] = t.kids[y]
                                /\ y \notin ToSet(new) => w.parent[y] = t.parent[y]
  <2>1. /\ Forest(v) /\ v.root = t.root /\ v.parent = t.parent /\ v.kids = t.kids
        /\ v.type[x] = P /\ \A y \in Node : y # x => v.type[y] = t.type[y]
        /\ Tops(v) = Tops(t) /\ InUse(v) = InUse(t)
    BY <1>3, <1>5, <1>7, RetypedIs
  <2>2. \A y \in ToSet(new) : v.type[y] = "free"
    BY <1>2, <1>5, <1>7, <2>1 DEF InUse
  <2>3. Forest(v) /\ x \in InUse(v) /\ v.type[x] # "leaf"
    BY <1>3, <2>1
  <2>5. w = AppendLeaves(v, new, x) /\ new \in Seq(Node) /\ Distinct(new)
    BY <1>2, <1>7
  <2>4. /\ Forest(w) /\ w.root = v.root /\ Tops(w) = Tops(v)
        /\ \A y \in Node : /\ y # x => w.kids[y] = v.kids[y]
                           /\ y \notin ToSet(new) => w.parent[y] = v.parent[y]
    BY <2>2, <2>3, <2>5, AppendLeavesIs
  <2> QED BY <2>1, <2>4
<1>8. Forest(u) /\ u.root = t.root /\ Tops(u) = Tops(t)
  <2>1. CASE ~small
    <3> DEFINE v == [t EXCEPT !.type[leaf] = P]
    <3>1. v = [t EXCEPT !.type[leaf] = P] /\ u = AppendLeaves(v, new, leaf)
      BY <1>4, <2>1
    <3> HIDE DEF v
    <3> QED BY <1>6, <1>7, <3>1
  <2>2. CASE small
    <3> DEFINE p == t.parent[leaf]
               v == [t EXCEPT !.type[p] = P]
               w == AppendLeaves(v, new, p)
    <3>1. u = DestroyNode(Detach(w, leaf), leaf)
      BY <1>4, <2>2
    <3>2. v = [t EXCEPT !.type[p] = P] /\ w = AppendLeaves(v, new, p)
      OBVIOUS
    <3>3. p \in InUse(t) /\ p # leaf /\ p # Nil
      BY <1>1, <1>5, <1>6, <2>2, ForestFacts
    <3>4. leaf \notin ToSet(new) /\ t.kids[leaf] = <<>>
      BY <1>1, <1>2, <1>6, <3>3
    <3> HIDE DEF v, w
    <3>5. /\ Forest(w) /\ w.root = t.root /\ Tops(w) = Tops(t)
          /\ w.kids[leaf] = t.kids[leaf] /\ w.parent[leaf] = p
      BY <1>6, <1>7, <3>2, <3>3, <3>4
    <3> HIDE DEF p
    <3>6. Forest(u) /\ u.root = w.root /\ Tops(u) = Tops(w)
      BY <1>6, <3>1, <3>3, <3>4, <3>5, LeafTakenOut
    <3> QED BY <3>5, <3>6
  <2> QED BY <2>1, <2>2
<1>9. Tops(u) = (Tops(t) \ {roots[T]}) \cup {u.root}
  BY <1>5, <1>8
<1> QED BY <1>1, <1>5, <1>8, <1>9, CallIs DEF t

LEMMA GiveWayIs ==
  ASSUME NEW v, Forest(v), NEW p \in Node, Len(v.kids[p]) = 1, v.parent[p] # Nil,
         NEW c \in Kids(v, p), NEW u, u = GiveWay(v, p, c)
  PROVE  /\ Forest(u) /\ u.root = v.root /\ Tops(u) = Tops(v)
         /\ u.type[p] = "free" /\ u.parent[p] = Nil /\ u.parent[c] = v.parent[p]
         /\ \A y \in Node : /\ y # p => u.type[y] = v.type[y]
                            /\ y # p /\ y # c => u.parent[y] = v.parent[y]
<1> DEFINE w == Detach(v, c)
           q == ReplaceWith(w, p, c)
<1>1. w = Detach(v, c) /\ q = ReplaceWith(w, p, c) /\ u = DestroyNode(q, p)
  BY DEF GiveWay
<1> HIDE DEF w, q
<1>2. /\ c \in Node /\ v.parent[c] = p /\ c # p
      /\ Forest(w) /\ w.root = v.root /\ w.type = v.type /\ w.parent[c] = Nil
      /\ \A y \in Node : y # c => w.parent[y] = v.parent[y]
      /\ w.kids[p] = <<>> /\ w.kids[c] = v.kids[c]
      /\ Tops(w) = Tops(v) \cup {c} /\ c \notin Tops(v)
  BY <1>1, OnlyChildOut
<1>3. /\ v.parent \in Parents /\ w.parent \in Parents /\ Acyclic(v.parent)
      /\ v \in ForestType /\ Arranged(v)
  BY <1>2 DEF Forest, ForestType
<1>4. w.parent[p] # Nil /\ w.parent[p] = v.parent[p] /\ w.parent[p] \in Node
      /\ p \notin Tops(v)
  BY <1>2, <1>3 DEF Parents, Tops
<1>5. c \notin Up(w.parent, w.parent[p])
  <2>1. c \notin Up(v.parent, p)
    <3>1. v.parent[c] # Nil
      BY <1>2, NodesAssumption DEF Node
    <3> QED BY <1>2, <1>3, <3>1, NotAboveItself
  <2>2. Up(v.parent, v.parent[p]) \subseteq Up(v.parent, p)
    BY <1>3, <1>4, UpIs
  <2>3. \A y \in Node : w.parent[y] \in {v.parent[y], Nil}
    BY <1>2
  <2>4. Up(w.parent, w.parent[p]) \subseteq Up(v.parent, w.parent[p])
    BY <1>3, <1>4, <2>3, FewerEdges
  <2> QED BY <1>4, <2>1, <2>2, <2>4
<1>6. w.type[c] = "leaf" => w.kids[c] = <<>>
  <2>1. v.type[c] = "leaf" => Len(v.kids[c]) <= 0
    <3>1. v.parent[c] # Nil
      BY <1>2, NodesAssumption DEF Node
    <3> QED BY <1>2, <1>3, <3>1 DEF Arranged
  <2>2. Len(v.kids[c]) \in Nat /\ (v.kids[c] = <<>> <=> Len(v.kids[c]) = 0)
    BY <1>2, <1>3, ForestKids
  <2>3. v.type[c] = "leaf" => v.kids[c] = <<>>
    BY <2>1, <2>2
  <2> QED BY <1>2, <2>3
<1>7. /\ Forest(q) /\ q.root = w.root /\ q.type = w.type /\ Tops(q) = (Tops(w) \ {c}) \cup {p}
      /\ \A y \in Node : y # w.parent[p] => q.kids[y] = w.kids[y]
      /\ q.parent[p] = Nil /\ q.parent[c] = w.parent[p]
      /\ \A y \in Node : y # p /\ y # c => q.parent[y] = w.parent[y]
  <2>1. c \in Tops(w)
    BY <1>2
  <2> QED BY <1>1, <1>2, <1>4, <1>5, <1>6, <2>1, ReplaceWithIs
<1>8. q.kids[p] = <<>> /\ p \in Tops(q)
  <2>1. w.parent[p] # p
    BY <1>2, <1>4, ForestFacts
  <2> QED BY <1>2, <1>7, <2>1
<1>9. /\ Forest(u) /\ u.root = q.root /\ Tops(u) = Tops(q) \ {p} /\ u.parent = q.parent
      /\ u.type[p] = "free" /\ \A y \in Node : y # p => u.type[y] = q.type[y]
  BY <1>1, <1>7, <1>8, DestroyNodeIs
<1>11. \A y \in Node : /\ y # p => u.type[y] = v.type[y]
                       /\ y # p /\ y # c => u.parent[y] = v.parent[y]
  BY <1>2, <1>7, <1>9
<1>10. Tops(u) = Tops(v)
  <2>1. Tops(u) = (((Tops(v) \cup {c}) \ {c}) \cup {p}) \ {p}
    BY <1>2, <1>7, <1>9
  <2> QED BY <1>2, <1>4, <2>1
<1> QED BY <1>2, <1>4, <1>7, <1>9, <1>10, <1>11

LEMMA RootGivesWayIs ==
  ASSUME NEW v, Forest(v), v.root \in Tops(v), Len(v.kids[v.root]) = 1,
         NEW c \in Kids(v, v.root), NEW u, u = RootGivesWay(v, c)
  PROVE  /\ Forest(u) /\ u.root = c /\ c \in Node /\ c \notin Tops(v)
         /\ Tops(u) = (Tops(v) \ {v.root}) \cup {c}
         /\ u.type[v.root] = "free" /\ u.parent[c] = Nil
         /\ \A y \in Node : /\ y # v.root => u.type[y] = v.type[y]
                            /\ y # c => u.parent[y] = v.parent[y]
<1> DEFINE p == v.root
           w == Detach(v, c)
           q == [w EXCEPT !.root = c]
<1>8. q = [w EXCEPT !.root = c]
  OBVIOUS
<1>1. w = Detach(v, c) /\ u = DestroyNode(q, p)
  BY DEF RootGivesWay
<1> HIDE DEF w, q
<1>2. p \in Node /\ p \in Tops(v)
  BY DEF Tops, InUse
<1>3. /\ c \in Node /\ c # p /\ Forest(w) /\ w.kids[p] = <<>>
      /\ Tops(w) = Tops(v) \cup {c} /\ c \notin Tops(v)
      /\ w.type = v.type /\ w.parent[c] = Nil /\ \A y \in Node : y # c => w.parent[y] = v.parent[y]
  BY <1>1, <1>2, OnlyChildOut
<1>4. /\ Forest(q) /\ q.root = c /\ q.kids = w.kids /\ Tops(q) = Tops(w)
      /\ q.type = w.type /\ q.parent = w.parent
  BY <1>8, <1>3, RootedIs
<1> HIDE DEF p
<1>5. p \in Tops(q) /\ q.kids[p] = <<>>
  BY <1>2, <1>3, <1>4
<1>6. /\ Forest(u) /\ u.root = q.root /\ Tops(u) = Tops(q) \ {p} /\ u.parent = q.parent
      /\ u.type[p] = "free" /\ \A y \in Node : y # p => u.type[y] = q.type[y]
  BY <1>1, <1>4, <1>5, DestroyNodeIs
<1>7. Tops(u) = (Tops(v) \ {p}) \cup {c}
  BY <1>3, <1>4, <1>6
<1>9. /\ u.type[p] = "free" /\ u.parent[c] = Nil
      /\ \A y \in Node : /\ y # p => u.type[y] = v.type[y]
                         /\ y # c => u.parent[y] = v.parent[y]
  BY <1>3, <1>4, <1>6
<1> QED BY <1>3, <1>4, <1>6, <1>7, <1>9 DEF p

LEMMA WithoutSmallNodeIs ==
  ASSUME NEW v, Forest(v), v.root \in Tops(v), NEW p \in Node,
         p # v.root => v.parent[p] # Nil, NEW u, u = WithoutSmallNode(v, p)
  PROVE  /\ Forest(u) /\ u.root \in Node /\ u.root \notin Tops(v) \ {v.root}
         /\ Tops(u) = (Tops(v) \ {v.root}) \cup {u.root}
<1> DEFINE c == Head(v.kids[p])
<1>1. Len(v.kids[p]) = 1 => c \in Kids(v, p)
  <2> SUFFICES ASSUME Len(v.kids[p]) = 1 PROVE c \in Kids(v, p)
    OBVIOUS
  <2>1. v \in ForestType /\ v.kids[p] \in Seq(Node)
    BY DEF Forest, ForestType
  <2>2. 1 \in DOMAIN v.kids[p] /\ c = v.kids[p][1]
    BY <2>1, ForestKids
  <2> HIDE DEF c
  <2> QED BY <2>1, <2>2, ForestKids
<1>2. \/ u = v
      \/ Len(v.kids[p]) = 1 /\ p # v.root /\ u = GiveWay(v, p, c)
      \/ Len(v.kids[p]) = 1 /\ p = v.root /\ u = RootGivesWay(v, c)
  BY DEF WithoutSmallNode
<1> HIDE DEF c
<1>3. v.root \in Node
  BY DEF Tops, InUse
<1>4. CASE u = v
  BY <1>3, <1>4
<1>5. CASE Len(v.kids[p]) = 1 /\ p # v.root /\ u = GiveWay(v, p, c)
  <2>1. Forest(u) /\ u.root = v.root /\ Tops(u) = Tops(v)
    BY <1>1, <1>5, GiveWayIs
  <2> QED BY <1>3, <2>1
<1>6. CASE Len(v.kids[p]) = 1 /\ p = v.root /\ u = RootGivesWay(v, c)
  <2>1. c \in Kids(v, v.root) /\ Len(v.kids[v.root]) = 1
    BY <1>1, <1>6
  <2>2. /\ Forest(u) /\ u.root = c /\ c \in Node /\ c \notin Tops(v)
        /\ Tops(u) = (Tops(v) \ {v.root}) \cup {c}
    BY <1>6, <2>1, RootGivesWayIs
  <2> QED BY <2>2
<1> QED BY <1>2, <1>4, <1>5, <1>6

LEMMA DestroyLeafKeepsOrder ==
  ASSUME InOrder(nodes, roots), NEW T \in Trees, NEW leaf, DestroyLeaf(T, leaf)
  PROVE  InOrder(nodes', roots')
<1> DEFINE t == At(T)
           p == nodes.parent[leaf]
           v == DestroyNode(Detach(t, leaf), leaf)
           u == WithoutSmallNode(v, p)
<1>1. /\ Exists(T) /\ leaf \in NodesOf(t) /\ nodes.type[leaf] = "leaf" /\ leaf # roots[T]
      /\ Call(T, u)
  BY AtIs DEF DestroyLeaf, LeavesOf
<1>2. v = DestroyNode(Detach(t, leaf), leaf) /\ u = WithoutSmallNode(v, p)
  OBVIOUS
<1> HIDE DEF t, u, v
<1>3. /\ Forest(t) /\ t.root = roots[T] /\ roots[T] \in Node /\ roots[T] \in Tops(t)
      /\ t.type = nodes.type /\ t.parent = nodes.parent /\ t.kids = nodes.kids
      /\ NodesOf(t) \subseteq InUse(t)
  BY <1>1, AtIs DEF t
<1>4. /\ leaf \in Node /\ t.parent[leaf] # Nil /\ t.kids[leaf] = <<>> /\ p = t.parent[leaf]
      /\ p \in NodesOf(t)
  BY <1>1, <1>3, NodeOfTree DEF t
<1>5. p \in Node /\ (p # roots[T] => t.parent[p] # Nil) /\ p # leaf
  <2>1. p \in Node /\ (p # roots[T] => nodes.parent[p] # Nil)
    BY <1>1, <1>4, NodeOfTree DEF t
  <2>2. p # leaf
    BY <1>3, <1>4, ForestFacts
  <2> QED BY <1>3, <2>1, <2>2
<1> HIDE DEF p
<1>6. /\ Forest(v) /\ v.root = t.root /\ Tops(v) = Tops(t)
      /\ \A y \in Node : y # leaf => v.parent[y] = t.parent[y]
  BY <1>2, <1>3, <1>4, LeafTakenOut
<1>7. v.root \in Tops(v) /\ (p # v.root => v.parent[p] # Nil)
  BY <1>3, <1>5, <1>6
<1>8. /\ Forest(u) /\ u.root \in Node /\ u.root \notin Tops(v) \ {v.root}
      /\ Tops(u) = (Tops(v) \ {v.root}) \cup {u.root}
  BY <1>2, <1>5, <1>6, <1>7, WithoutSmallNodeIs
<1>9. /\ u.root \notin Tops(t) \ {roots[T]}
      /\ Tops(u) = (Tops(t) \ {roots[T]}) \cup {u.root}
  BY <1>3, <1>6, <1>8
<1> QED BY <1>1, <1>8, <1>9, CallIs DEF t

(***************************************************************************)
(* insertTree.  The tree h has no parent and is not above at.              *)
(***************************************************************************)
Insertable(t, at, h) ==
  /\ Forest(t) /\ at \in InUse(t) /\ h \in Tops(t) /\ h \notin Up(t.parent, at)
  /\ t.type[h] = "leaf" => t.kids[h] = <<>>
  /\ t.root \in Tops(t) /\ t.root \in Up(t.parent, at) /\ t.root # h

\* What every case has to establish.
JoinedWith(t, h, u) ==
  /\ Forest(u) /\ u.root \in {t.root, h}
  /\ Tops(u) = (Tops(t) \ {t.root, h}) \cup {u.root}

LEMMA BelowInnerNode ==
  ASSUME NEW t, NEW at, NEW h, Insertable(t, at, h), t.type[at] # "leaf",
         NEW u, u = Appended(t, at, h)
  PROVE  /\ JoinedWith(t, h, u)
         /\ u.type = t.type /\ u.parent[h] = at
         /\ \A x \in Node : x # h => u.parent[x] = t.parent[x]
<1>1. /\ Forest(u) /\ u.root = t.root /\ Tops(u) = Tops(t) \ {h}
      /\ u.type = t.type /\ u.parent[h] = at
      /\ \A x \in Node : x # h => u.parent[x] = t.parent[x]
  BY AppendChildIs DEF Insertable
<1> QED BY <1>1 DEF Insertable, JoinedWith

\* The place of the leaf at, and what is known of it.
LEMMA PlaceOfLeaf ==
  ASSUME NEW t, NEW at, NEW h, Insertable(t, at, h), t.type[at] = "leaf",
         t.parent[at] # Nil, NEW p, p = t.parent[at]
  PROVE  /\ at \in Node /\ p \in Node /\ p # at /\ h # at /\ h # p /\ h \in Node
         /\ t.kids[at] = <<>> /\ h \notin Up(t.parent, p) /\ at \notin Tops(t)
         /\ t.root # at /\ t.root \in Node /\ t.parent \in Parents
         /\ t.parent[p] = Nil => p = t.root
         /\ Up(t.parent, p) \subseteq Up(t.parent, at)
<1>1. /\ t.parent \in Parents /\ at \in Node /\ Acyclic(t.parent) /\ h \in Node
      /\ t \in ForestType /\ Arranged(t) /\ t.parent[t.root] = Nil /\ t.root \in Node
  BY DEF Insertable, Forest, ForestType, InUse, Tops
<1>2. p \in Node /\ p # at /\ Up(t.parent, at) = {at} \cup Up(t.parent, p)
  BY <1>1, NotAboveItself, UpIs
<1>3. p \in Up(t.parent, p)
  BY <1>1, <1>2, UpIs
<1>4. t.parent[p] = Nil => p = t.root
  <2>1. t.root \in Up(t.parent, p)
    BY <1>1, <1>2 DEF Insertable
  <2>2. t.parent[p] = Nil => Up(t.parent, p) = {p}
    BY <1>1, <1>2, UpIs
  <2> QED BY <2>1, <2>2
<1>5. t.kids[at] = <<>>
  <2>1. Len(t.kids[at]) <= 0
    BY <1>1 DEF Arranged
  <2>2. Len(t.kids[at]) \in Nat /\ (t.kids[at] = <<>> <=> Len(t.kids[at]) = 0)
    BY <1>1, ForestKids
  <2> QED BY <2>1, <2>2
<1>6. h \notin Up(t.parent, at) /\ at \notin Tops(t)
  BY DEF Insertable, Tops
<1> QED BY <1>1, <1>2, <1>3, <1>4, <1>5, <1>6

LEMMA InsteadOfTheLeaf ==
  ASSUME NEW t, NEW at, NEW h, Insertable(t, at, h), t.type[at] = "leaf",
         t.parent[at] # Nil, NEW u, u = DestroyNode(ReplaceWith(t, at, h), at)
  PROVE  /\ JoinedWith(t, h, u)
         /\ u.type[at] = "free" /\ u.parent[at] = Nil /\ u.parent[h] = t.parent[at]
         /\ \A x \in Node : /\ x # at => u.type[x] = t.type[x]
                            /\ x # at /\ x # h => u.parent[x] = t.parent[x]
<1> DEFINE p == t.parent[at]
           w == ReplaceWith(t, at, h)
<1>1. w = ReplaceWith(t, at, h) /\ u = DestroyNode(w, at)
  OBVIOUS
<1> HIDE DEF w
<1>2. /\ at \in Node /\ p # at /\ h # at /\ t.kids[at] = <<>> /\ h \notin Up(t.parent, p)
      /\ at \notin Tops(t) /\ t.root # at
  BY PlaceOfLeaf
<1>3. /\ Forest(w) /\ w.root = t.root /\ Tops(w) = (Tops(t) \ {h}) \cup {at}
      /\ w.type = t.type /\ w.parent[at] = Nil /\ w.parent[h] = p
      /\ \A y \in Node : /\ y # p => w.kids[y] = t.kids[y]
                         /\ y # at /\ y # h => w.parent[y] = t.parent[y]
  BY <1>1, <1>2, ReplaceWithIs DEF Insertable
<1>4. at \in Tops(w) /\ w.kids[at] = <<>>
  BY <1>2, <1>3
<1>5. /\ Forest(u) /\ u.root = w.root /\ Tops(u) = Tops(w) \ {at} /\ u.parent = w.parent
      /\ u.type[at] = "free" /\ \A y \in Node : y # at => u.type[y] = w.type[y]
  BY <1>1, <1>3, <1>4, DestroyNodeIs
<1>6. Tops(u) = Tops(t) \ {h}
  BY <1>2, <1>3, <1>5
<1> QED BY <1>3, <1>5, <1>6 DEF Insertable, JoinedWith

\* The parent of the leaf goes with it, and has a parent itself.
LEMMA InsteadOfTheParent ==
  ASSUME NEW t, NEW at, NEW h, Insertable(t, at, h), t.type[at] = "leaf",
         t.parent[at] # Nil, NEW p, p = t.parent[at], t.parent[p] # Nil, Len(t.kids[p]) = 1,
         NEW u, u = DestroyNode(DestroyNode(ReplaceWith(Detach(t, at), p, h), p), at)
  PROVE  /\ JoinedWith(t, h, u)
         /\ u.type[at] = "free" /\ u.type[p] = "free"
         /\ u.parent[at] = Nil /\ u.parent[p] = Nil /\ u.parent[h] = t.parent[p]
         /\ \A x \in Node : /\ x # at /\ x # p => u.type[x] = t.type[x]
                            /\ x # at /\ x # p /\ x # h => u.parent[x] = t.parent[x]
<1> DEFINE v == Detach(t, at)
           w == ReplaceWith(v, p, h)
           q == DestroyNode(w, p)
<1>1. /\ v = Detach(t, at) /\ w = ReplaceWith(v, p, h) /\ q = DestroyNode(w, p)
      /\ u = DestroyNode(q, at)
  OBVIOUS
<1> HIDE DEF v, w, q
<1>2. /\ at \in Node /\ p \in Node /\ p # at /\ h # at /\ h # p /\ t.kids[at] = <<>>
      /\ h \notin Up(t.parent, p) /\ at \notin Tops(t) /\ t.root # at /\ t.parent \in Parents
      /\ p \notin Tops(t) /\ h \in Node
  BY PlaceOfLeaf DEF Tops
<1>3. at \in Kids(t, p)
  BY <1>2, ForestFacts DEF Insertable
<1>4. /\ Forest(v) /\ v.root = t.root /\ v.type = t.type /\ v.parent[at] = Nil
      /\ \A y \in Node : y # at => v.parent[y] = t.parent[y]
      /\ v.kids[p] = <<>> /\ v.kids[at] = t.kids[at] /\ Tops(v) = Tops(t) \cup {at}
  BY <1>1, <1>2, <1>3, OnlyChildOut DEF Insertable
<1>5. v.parent[p] # Nil /\ v.parent[p] = t.parent[p] /\ v.parent[p] # p /\ v.parent[p] # at
  <2>1. v.parent[p] = t.parent[p] /\ v.parent[p] # Nil
    BY <1>2, <1>4
  <2>2. v.parent[p] # p
    BY <1>2, <1>4, <2>1, ForestFacts
  <2>3. v.parent[p] # at
    <3>1. p \in Kids(v, v.parent[p])
      BY <1>2, <1>4, <2>1, ForestFacts
    <3>2. Kids(v, at) = {}
      BY <1>2, <1>4, ForestKids DEF Forest
    <3> QED BY <3>1, <3>2
  <2> QED BY <2>1, <2>2, <2>3
<1>6. h \in Tops(v) /\ h \notin Up(v.parent, v.parent[p])
  <2>1. v.parent \in Parents /\ v.parent[p] \in Node /\ \A y \in Node : v.parent[y] \in {t.parent[y], Nil}
    BY <1>2, <1>4, <1>5 DEF Forest, ForestType, Parents
  <2>2. Up(v.parent, v.parent[p]) \subseteq Up(t.parent, t.parent[p])
    BY <1>2, <1>5, <2>1, FewerEdges
  <2>3. Up(t.parent, t.parent[p]) \subseteq Up(t.parent, p)
    BY <1>2, UpIs
  <2>4. h \in Tops(v)
    BY <1>4 DEF Insertable
  <2> QED BY <1>2, <2>2, <2>3, <2>4
<1>7. v.type[h] = "leaf" => v.kids[h] = <<>>
  <2>1. t.type[h] = "leaf" => t.kids[h] = <<>>
    BY DEF Insertable
  <2>2. v.kids[h] = t.kids[h]
    BY <1>1, <1>2, DetachIs DEF Insertable
  <2> QED BY <1>4, <2>1, <2>2
<1>8. /\ Forest(w) /\ w.root = v.root /\ Tops(w) = (Tops(v) \ {h}) \cup {p}
      /\ w.type = v.type /\ w.parent[p] = Nil /\ w.parent[h] = v.parent[p]
      /\ \A y \in Node : /\ y # v.parent[p] => w.kids[y] = v.kids[y]
                         /\ y # p /\ y # h => w.parent[y] = v.parent[y]
  BY <1>1, <1>2, <1>4, <1>5, <1>6, <1>7, ReplaceWithIs
<1>9. p \in Tops(w) /\ w.kids[p] = <<>> /\ w.kids[at] = <<>>
  BY <1>2, <1>4, <1>5, <1>8
<1>10. /\ Forest(q) /\ q.root = w.root /\ q.kids = w.kids /\ Tops(q) = Tops(w) \ {p}
       /\ q.parent = w.parent
       /\ q.type[p] = "free" /\ \A y \in Node : y # p => q.type[y] = w.type[y]
  BY <1>1, <1>8, <1>9, DestroyNodeIs
<1>11. at \in Tops(q)
  BY <1>2, <1>4, <1>8, <1>10
<1>12. q.kids[at] = <<>>
  BY <1>9, <1>10
<1>13. /\ Forest(u) /\ u.root = q.root /\ Tops(u) = Tops(q) \ {at} /\ u.parent = q.parent
       /\ u.type[at] = "free" /\ \A y \in Node : y # at => u.type[y] = q.type[y]
  BY <1>1, <1>10, <1>11, <1>12, DestroyNodeIs
<1>14. Tops(u) = Tops(t) \ {h}
  <2>1. Tops(u) = ((((Tops(t) \cup {at}) \ {h}) \cup {p}) \ {p}) \ {at}
    BY <1>4, <1>8, <1>10, <1>13
  <2> QED BY <1>2, <2>1
<1>15. u.root = t.root
  BY <1>4, <1>8, <1>10, <1>13
<1>16. /\ u.type[at] = "free" /\ u.type[p] = "free"
       /\ \A x \in Node : x # at /\ x # p => u.type[x] = t.type[x]
  BY <1>2, <1>4, <1>8, <1>10, <1>13
<1>17. /\ u.parent[at] = Nil /\ u.parent[p] = Nil /\ u.parent[h] = t.parent[p]
       /\ \A x \in Node : x # at /\ x # p /\ x # h => u.parent[x] = t.parent[x]
  BY <1>2, <1>4, <1>5, <1>8, <1>10, <1>13
<1> QED BY <1>13, <1>14, <1>15, <1>16, <1>17 DEF Insertable, JoinedWith

LEMMA LeafDetached ==
  ASSUME NEW t, NEW at, NEW h, Insertable(t, at, h), t.type[at] = "leaf",
         t.parent[at] # Nil, NEW p, p = t.parent[at], NEW v, v = Detach(t, at)
  PROVE  /\ Forest(v) /\ v.root = t.root /\ v.type = t.type /\ v.parent[at] = Nil
         /\ \A x \in Node : /\ x # at => v.parent[x] = t.parent[x]
                            /\ x # p => v.kids[x] = t.kids[x]
         /\ Len(v.kids[p]) = Len(t.kids[p]) - 1 /\ Tops(v) = Tops(t) \cup {at}
<1>1. Forest(t) /\ at \in Node
  BY DEF Insertable, InUse
<1> QED BY <1>1, DetachIs

LEMMA AppendedToTop ==
  ASSUME NEW w, Forest(w), NEW h \in Tops(w), w.type[h] # "leaf", NEW c \in Tops(w), c # h,
         w.type[c] = "leaf" => w.kids[c] = <<>>, NEW a, a = Appended(w, h, c)
  PROVE  /\ Forest(a) /\ Tops(a) = Tops(w) \ {c} /\ a.type = w.type /\ a.parent[c] = h
         /\ \A x \in Node : /\ x # h => a.kids[x] = w.kids[x]
                            /\ x # c => a.parent[x] = w.parent[x]
<1>1. h \in InUse(w) /\ h \in Node /\ w.parent \in Parents /\ w.parent[h] = Nil
  BY DEF Tops, InUse, Forest, ForestType
<1>2. c \notin Up(w.parent, h)
  BY <1>1, UpIs
<1> QED BY <1>1, <1>2, AppendChildIs

\* The root goes with the leaf: it had one other child, which is appended to
\* the new root h.
LEMMA InsteadOfTheRoot ==
  ASSUME NEW t, NEW at, NEW h, Insertable(t, at, h), t.type[at] = "leaf",
         t.type[h] # "leaf", t.parent[at] # Nil, NEW p, p = t.parent[at], t.parent[p] = Nil,
         NEW v, v = Detach(t, at), Len(v.kids[p]) = 1, NEW other \in Kids(v, p),
         other # h, NEW s,
         s = DestroyNode(DestroyNode(Appended(Detach(v, other), h, other), p), at)
  PROVE  /\ Forest(s) /\ Tops(s) = Tops(t) \ {p} /\ p = t.root
         /\ s.type[at] = "free" /\ s.type[p] = "free" /\ s.parent[at] = Nil /\ s.parent[other] = h
         /\ \A x \in Node : /\ x # at /\ x # p => s.type[x] = t.type[x]
                            /\ x # at /\ x # other => s.parent[x] = t.parent[x]
<1> DEFINE w == Detach(v, other)
           a == Appended(w, h, other)
           q == DestroyNode(a, p)
<1>1. /\ w = Detach(v, other) /\ a = Appended(w, h, other) /\ q = DestroyNode(a, p)
      /\ s = DestroyNode(q, at)
  OBVIOUS
<1> HIDE DEF w, a, q
<1>2. /\ at \in Node /\ p \in Node /\ p # at /\ h # at /\ h # p /\ t.kids[at] = <<>>
      /\ at \notin Tops(t) /\ h \in Node /\ p = t.root
  BY PlaceOfLeaf
<1>3. /\ Forest(v) /\ v.root = t.root /\ v.type = t.type /\ v.parent[at] = Nil
      /\ \A x \in Node : /\ x # at => v.parent[x] = t.parent[x]
                         /\ x # p => v.kids[x] = t.kids[x]
      /\ Tops(v) = Tops(t) \cup {at}
  BY LeafDetached
<1>5. /\ other \in Node /\ v.parent[other] = p /\ other # p /\ p # Nil
      /\ Forest(w) /\ w.root = v.root /\ w.type = v.type /\ w.parent[other] = Nil
      /\ \A y \in Node : y # other => w.parent[y] = v.parent[y]
      /\ w.kids[p] = <<>> /\ w.kids[other] = v.kids[other]
      /\ Tops(w) = Tops(v) \cup {other} /\ other \notin Tops(v)
  BY <1>1, <1>2, <1>3, OnlyChildOut
<1>6. other # at
  BY <1>3, <1>5
<1>7. w.kids[at] = <<>>
  <2>1. \A x \in Node : x # p => w.kids[x] = v.kids[x]
    BY <1>1, <1>3, <1>5, DetachIs
  <2> QED BY <1>2, <1>3, <2>1
<1>8. h \in Tops(w) /\ w.type[h] # "leaf"
  BY <1>3, <1>5 DEF Insertable
<1>9. other \in Tops(w)
  BY <1>5
<1>10. w.type[other] = "leaf" => w.kids[other] = <<>>
  <2>1. v.type[other] = "leaf" => Len(v.kids[other]) <= 0
    BY <1>3, <1>5 DEF Forest, Arranged
  <2>2. Len(v.kids[other]) \in Nat /\ (v.kids[other] = <<>> <=> Len(v.kids[other]) = 0)
    BY <1>3, <1>5, ForestKids DEF Forest
  <2>3. v.type[other] = "leaf" => v.kids[other] = <<>>
    BY <2>1, <2>2
  <2> QED BY <1>5, <2>3
<1>11. /\ Forest(a) /\ Tops(a) = Tops(w) \ {other} /\ a.type = w.type /\ a.parent[other] = h
       /\ \A x \in Node : /\ x # h => a.kids[x] = w.kids[x]
                          /\ x # other => a.parent[x] = w.parent[x]
  BY <1>1, <1>5, <1>8, <1>9, <1>10, AppendedToTop
<1>12. p \in Tops(a) /\ a.kids[p] = <<>> /\ a.kids[at] = <<>> /\ at \in Tops(a)
  BY <1>2, <1>3, <1>5, <1>6, <1>7, <1>11 DEF Insertable
<1>13. /\ Forest(q) /\ q.kids = a.kids /\ Tops(q) = Tops(a) \ {p} /\ q.parent = a.parent
       /\ q.type[p] = "free" /\ \A y \in Node : y # p => q.type[y] = a.type[y]
  BY <1>1, <1>11, <1>12, DestroyNodeIs
<1>14. at \in Tops(q) /\ q.kids[at] = <<>>
  BY <1>2, <1>12, <1>13
<1>15. /\ Forest(s) /\ Tops(s) = Tops(q) \ {at} /\ s.parent = q.parent
       /\ s.type[at] = "free" /\ \A y \in Node : y # at => s.type[y] = q.type[y]
  BY <1>1, <1>13, <1>14, DestroyNodeIs
<1>16. Tops(s) = Tops(t) \ {p}
  <2>1. Tops(s) = ((((Tops(t) \cup {at}) \cup {other}) \ {other}) \ {p}) \ {at}
    BY <1>3, <1>5, <1>11, <1>13, <1>15
  <2>2. other \notin Tops(t)
    BY <1>3, <1>5
  <2> QED BY <1>2, <2>1, <2>2
<1>17. /\ s.type[at] = "free" /\ s.type[p] = "free"
       /\ \A x \in Node : x # at /\ x # p => s.type[x] = t.type[x]
  BY <1>2, <1>3, <1>5, <1>11, <1>13, <1>15
<1>18. /\ s.parent[at] = Nil /\ s.parent[other] = h
       /\ \A x \in Node : x # at /\ x # other => s.parent[x] = t.parent[x]
  BY <1>2, <1>3, <1>5, <1>6, <1>11, <1>13, <1>15
<1> QED BY <1>2, <1>15, <1>16, <1>17, <1>18

LEMMA InsertedIs ==
  ASSUME NEW t, NEW at, NEW h, Insertable(t, at, h),
         t.type[at] = "leaf" => t.parent[at] # Nil, NEW u, u = Inserted(t, at, h)
  PROVE  JoinedWith(t, h, u)
<1>1. CASE t.type[at] # "leaf"
  <2>1. u = Appended(t, at, h)
    BY <1>1 DEF Inserted, Appended
  <2> QED BY <1>1, <2>1, BelowInnerNode
<1>2. CASE t.type[at] = "leaf"
  <2> DEFINE p == t.parent[at]
             v == Detach(t, at)
             other == Head(v.kids[p])
  <2>1. u = InsteadOf(t, at, h)
    BY <1>2 DEF Inserted
  <2>2. \/ u = DestroyNode(ReplaceWith(t, at, h), at)
        \/ /\ t.type[h] # "leaf" /\ Degree(t, p) = 2 /\ t.parent[p] = Nil
           /\ u = [DestroyNode(DestroyNode(Appended(Detach(v, other), h, other), p), at)
                     EXCEPT !.root = h]
        \/ /\ t.type[h] # "leaf" /\ Degree(t, p) = 2 /\ t.parent[p] # Nil
           /\ u = DestroyNode(DestroyNode(ReplaceWith(v, p, h), p), at)
    BY <2>1 DEF InsteadOf, Appended
  <2>3. v = Detach(t, at)
    OBVIOUS
  <2>4. /\ at \in Node /\ p \in Node /\ h \in Node /\ p # at /\ t \in ForestType
        /\ h \in Tops(t) /\ h # at
    BY <1>2, PlaceOfLeaf DEF Insertable, Forest
  <2>5. /\ Degree(t, p) = 2 /\ t.parent[p] = Nil => Len(t.kids[p]) = 2
        /\ Degree(t, p) = 2 /\ t.parent[p] # Nil => Len(t.kids[p]) = 1
    <3> DEFINE n == Len(t.kids[p])
    <3>1. n \in Nat
      BY <2>4, ForestKids
    <3>2. Degree(t, p) = n + (IF t.parent[p] = Nil THEN 0 ELSE 1)
      BY DEF Degree
    <3> HIDE DEF n, p
    <3>3. ASSUME t.parent[p] = Nil, Degree(t, p) = 2 PROVE n = 2
      BY <3>1, <3>2, <3>3
    <3>4. ASSUME t.parent[p] # Nil, Degree(t, p) = 2 PROVE n = 1
      BY <3>1, <3>2, <3>4
    <3>5. n = Len(t.kids[p])
      BY DEF n
    <3> QED BY <3>3, <3>4, <3>5
  <2> HIDE DEF v
  <2>6. CASE u = DestroyNode(ReplaceWith(t, at, h), at)
    BY <1>2, <2>6, InsteadOfTheLeaf
  <2>7. ASSUME t.type[h] # "leaf", Len(t.kids[p]) = 2, t.parent[p] = Nil,
               u = [DestroyNode(DestroyNode(Appended(Detach(v, other), h, other), p), at)
                      EXCEPT !.root = h]
        PROVE  JoinedWith(t, h, u)
    <3>1. Forest(v) /\ Len(v.kids[p]) = Len(t.kids[p]) - 1 /\ \A x \in Node : x # at => v.parent[x] = t.parent[x]
      BY <1>2, <2>3, <2>4, DetachIs DEF Insertable
    <3>2. v \in ForestType /\ v.kids[p] \in Seq(Node) /\ Len(v.kids[p]) = 1
      <4>1. v \in ForestType
        BY <3>1 DEF Forest
      <4>2. Len(v.kids[p]) = 1
        <5>1. Len(v.kids[p]) = Len(t.kids[p]) - 1 /\ Len(t.kids[p]) = 2
          BY <2>7, <3>1
        <5> QED BY <5>1
      <4> QED BY <2>4, <4>1, <4>2 DEF ForestType
    <3>3. 1 \in DOMAIN v.kids[p] /\ other = v.kids[p][1]
      BY <2>4, <3>2, ForestKids
    <3> HIDE DEF other
    <3>4. other \in Kids(v, p)
      BY <2>4, <3>2, <3>3, ForestKids
    <3>5. other # h
      <4>1. v.parent[other] # Nil
        BY <2>4, <3>1, <3>4, ForestFacts
      <4>2. v.parent[h] = Nil
        BY <2>4, <3>1 DEF Tops
      <4> QED BY <4>1, <4>2
    <3> HIDE DEF p
    <3>6. p = t.parent[at]
      BY DEF p
    <3> DEFINE s == DestroyNode(DestroyNode(Appended(Detach(v, other), h, other), p), at)
    <3>7. s = DestroyNode(DestroyNode(Appended(Detach(v, other), h, other), p), at)
          /\ u = [s EXCEPT !.root = h]
      BY <2>7
    <3> HIDE DEF s
    <3>8. Forest(s) /\ Tops(s) = Tops(t) \ {p} /\ p = t.root
      BY <1>2, <2>3, <2>7, <3>2, <3>4, <3>5, <3>6, <3>7, InsteadOfTheRoot
    <3>9. Forest(u) /\ u.root = h /\ Tops(u) = Tops(s)
      BY <2>4, <3>7, <3>8, RootedIs
    <3> QED BY <2>4, <3>8, <3>9 DEF JoinedWith, Insertable
  <2>8. ASSUME Len(t.kids[p]) = 1, t.parent[p] # Nil,
               u = DestroyNode(DestroyNode(ReplaceWith(v, p, h), p), at)
        PROVE  JoinedWith(t, h, u)
    <3>1. p = t.parent[at] /\ u = DestroyNode(DestroyNode(ReplaceWith(Detach(t, at), p, h), p), at)
      BY <2>3, <2>8
    <3> HIDE DEF p
    <3> QED BY <1>2, <2>8, <3>1, InsteadOfTheParent
  <2> HIDE DEF other, p
  <2> QED BY <2>2, <2>5, <2>6, <2>7, <2>8
<1> QED BY <1>1, <1>2

LEMMA SameWayUp ==
  ASSUME NEW pa \in Parents, NEW qa \in Parents, NEW x \in Node,
         \A y \in Up(pa, x) : qa[y] = pa[y]
  PROVE  Up(qa, x) = Up(pa, x)
<1>1. UpClosed(qa, Up(pa, x)) /\ Up(pa, x) \subseteq Node /\ x \in Up(pa, x)
  BY UpIs DEF UpClosed
<1>2. Up(qa, x) \subseteq Up(pa, x)
  BY <1>1, UpIs
<1>3. UpClosed(pa, Up(qa, x)) /\ Up(qa, x) \subseteq Node /\ x \in Up(qa, x)
  BY <1>2, UpIs DEF UpClosed
<1> QED BY <1>2, <1>3, UpIs

\* What is left of the tree at r can be inserted into another tree.
LEMMA ReadyToInsert ==
  ASSUME NEW t, Forest(t), NEW r \in Tops(t), t.root \in Tops(t), r # t.root,
         NEW at \in InUse(t), t.root \in Up(t.parent, at),
         NEW h, h = TopOf(t, r), NEW u, u = WithoutTop(t, r)
  PROVE  /\ Insertable(u, at, h) /\ u.root = t.root
         /\ u.type[at] = t.type[at] /\ u.parent[at] = t.parent[at]
         /\ Tops(u) = (Tops(t) \ {r}) \cup {h} /\ h \notin Tops(t) \ {r}
<1>1. /\ Forest(u) /\ u.root = t.root /\ h \in Tops(u)
      /\ Tops(u) = (Tops(t) \ {r}) \cup {h}
      /\ r \in Up(t.parent, h)
      /\ u.type[h] = "leaf" => u.kids[h] = <<>>
      /\ \A x \in Node : /\ u.parent[x] \in {t.parent[x], Nil}
                         /\ r \notin Up(t.parent, x) => /\ u.type[x] = t.type[x]
                                                        /\ u.kids[x] = t.kids[x]
                                                        /\ u.parent[x] = t.parent[x]
  BY WithoutTopIs
<1>2. /\ t.parent \in Parents /\ Acyclic(t.parent) /\ u.parent \in Parents /\ at \in Node
      /\ r \in Node /\ h \in Node /\ t.parent[r] = Nil /\ t.parent[t.root] = Nil
  BY <1>1 DEF Forest, ForestType, Tops, InUse
<1>3. r \notin Up(t.parent, at)
  BY <1>2, OneTop
<1>4. \A y \in Up(t.parent, at) : y \in Node /\ r \notin Up(t.parent, y)
  BY <1>2, <1>3, UpTransitive
<1>5. Up(u.parent, at) = Up(t.parent, at)
  BY <1>1, <1>2, <1>4, SameWayUp
<1>6. h \notin Up(t.parent, at)
  BY <1>1, <1>4
<1>7. at \in InUse(u) /\ u.type[at] = t.type[at] /\ u.parent[at] = t.parent[at]
  BY <1>1, <1>2, <1>3 DEF InUse
<1>8. t.root \in Tops(u) /\ t.root # h
  <2>1. t.root \in Up(t.parent, at)
    OBVIOUS
  <2> QED BY <1>1, <1>6, <2>1
<1>9. h \notin Tops(t) \ {r}
  <2>1. h \in Up(t.parent, h)
    BY <1>2, UpIs
  <2>2. t.parent[h] = Nil => h = r
    BY <1>1, <1>2, <2>1, OneTop
  <2> QED BY <2>2 DEF Tops
<1>10. Insertable(u, at, h)
  BY <1>1, <1>5, <1>6, <1>7, <1>8 DEF Insertable
<1> QED BY <1>1, <1>7, <1>9, <1>10

\* The top of a tree depends on the children only.
LEMMA SameTop ==
  ASSUME NEW T, NEW U, NEW r
  PROVE  TopOf(At(U), r) = TopOf(At(T), r)
<1> DEFINE top(ks) == CHOOSE f : f = [x \in Node |-> IF Len(ks[x]) = 1 THEN f[ks[x][1]] ELSE x]
<1>1. \A t : TopOf(t, r) = top(t.kids)[r]
  BY Zenon DEF TopOf
<1>2. At(T).kids = nodes.kids /\ At(U).kids = nodes.kids
  BY DEF At, TreeIn
<1> HIDE DEF top
<1> QED BY <1>1, <1>2

LEMMA InsertTreeKeepsOrder ==
  ASSUME InOrder(nodes, roots), NEW T \in Trees, NEW at, NEW U \in Trees, InsertTree(T, at, U)
  PROVE  InOrder(nodes', roots')
<1> DEFINE t == At(T)
           r == roots[U]
           h == TopOf(At(U), r)
           v == WithoutTop(t, r)
           u == Inserted(v, at, h)
           n == [type |-> u.type, parent |-> u.parent, kids |-> u.kids]
           q == [V \in Trees |-> IF V = T THEN u.root ELSE IF V \in {U} THEN Nil ELSE roots[V]]
<1>1. /\ T # U /\ Exists(T) /\ Exists(U) /\ at \in NodesOf(t)
      /\ nodes.type[at] = "leaf" => nodes.parent[at] # Nil
      /\ nodes' = n /\ roots' = [roots EXCEPT ![T] = u.root, ![U] = Nil]
  BY DEF InsertTree
<1>2. roots' = q
  <2>1. roots \in [Trees -> Node \cup {Nil}]
    BY DEF InOrder
  <2> HIDE DEF u
  <2> QED BY <1>1, <2>1
<1>3. /\ h = TopOf(t, r) /\ v = WithoutTop(t, r) /\ u = Inserted(v, at, h)
      /\ n = [type |-> u.type, parent |-> u.parent, kids |-> u.kids]
  BY SameTop
<1> HIDE DEF t, h, v, u, n
<1>4. /\ Forest(t) /\ t.root = roots[T] /\ t.root \in Tops(t) /\ t.type = nodes.type
      /\ t.parent = nodes.parent /\ NodesOf(t) \subseteq InUse(t) /\ Tops(t) = Tops(AsTree(nodes))
      /\ at \in InUse(t) /\ t.root \in Up(t.parent, at)
  BY <1>1, AtIs, NodeOfTree DEF t
<1>5. r \in Tops(t) /\ r # t.root
  <2>1. r \in Tops(At(U)) /\ Tops(At(U)) = Tops(AsTree(nodes))
    BY <1>1, AtIs
  <2>2. r # roots[T]
    BY <1>1 DEF InOrder, Exists
  <2> QED BY <1>4, <2>1, <2>2
<1> HIDE DEF r
<1>6. /\ Insertable(v, at, h) /\ v.root = t.root
      /\ v.type[at] = t.type[at] /\ v.parent[at] = t.parent[at]
      /\ Tops(v) = (Tops(t) \ {r}) \cup {h} /\ h \notin Tops(t) \ {r}
  BY <1>3, <1>4, <1>5, ReadyToInsert
<1>7. JoinedWith(v, h, u)
  <2>1. v.type[at] = "leaf" => v.parent[at] # Nil
    BY <1>1, <1>4, <1>6
  <2> QED BY <1>3, <1>6, <2>1, InsertedIs
<1>8. Forest(u) /\ u.root \in {t.root, h} /\ Tops(u) = (Tops(v) \ {t.root, h}) \cup {u.root}
  BY <1>6, <1>7 DEF JoinedWith
<1>9. /\ u.root \in Node
      /\ Tops(u) = (Tops(t) \ {t.root, r}) \cup {u.root}
      /\ u.root \notin Tops(t) \ {t.root, r}
  <2>1. u.root \in Node
    <3>1. u.root \in Tops(u)
      BY <1>8
    <3> QED BY <3>1 DEF Tops, InUse
  <2>2. Tops(u) = (((Tops(t) \ {r}) \cup {h}) \ {t.root, h}) \cup {u.root}
    BY <1>6, <1>8
  <2>3. Tops(u) = (Tops(t) \ {t.root, r}) \cup {u.root}
    BY <1>6, <2>2
  <2> QED BY <1>6, <1>8, <2>1, <2>3
<1> DEFINE G == {U}
<1>10. /\ G \subseteq Trees /\ T \notin G
       /\ {roots[V] : V \in G \cup {T}} = {t.root, r}
       /\ q = [V \in Trees |-> IF V = T THEN u.root ELSE IF V \in G THEN Nil ELSE roots[V]]
  BY <1>1, <1>4 DEF r
<1> HIDE DEF q, G
<1>11. InOrder(n, q)
  <2>1. /\ u.root \notin Tops(At(T)) \ {roots[V] : V \in G \cup {T}}
        /\ Tops(u) = (Tops(At(T)) \ {roots[V] : V \in G \cup {T}}) \cup {u.root}
    BY <1>9, <1>10 DEF t
  <2> QED BY <1>3, <1>8, <1>9, <1>10, <2>1, InOrderAgain
<1> QED BY <1>1, <1>2, <1>11

(***************************************************************************)
(* Every call keeps the forest in order.                                   *)
(***************************************************************************)
IInv == InOrder(nodes, roots) /\ calls \in Nat

LEMMA IInvHolds == Spec => []IInv
<1>1. Init => IInv
  <2> SUFFICES ASSUME Init PROVE InOrder(nodes, roots) /\ calls \in Nat
    BY DEF IInv
  <2>1. PICK s \in Starts : nodes = s.nodes /\ roots = s.roots
    BY DEF Init
  <2>2. Whole(s.nodes, s.roots)
    BY StartsAssumption
  <2>3. InOrder(s.nodes, s.roots)
    BY <2>2, WholeIs
  <2> QED BY <2>1, <2>3 DEF Init
<1>2. IInv /\ [Next]_vars => IInv'
  <2> SUFFICES ASSUME IInv, [Next]_vars PROVE InOrder(nodes, roots)' /\ calls' \in Nat
    BY DEF IInv
  <2>0. InOrder(nodes, roots) /\ calls \in Nat
    BY DEF IInv
  <2>1. CASE UNCHANGED vars
    BY <2>1 DEF vars, InOrder, IInv
  <2>2. ASSUME NEW T \in Trees, NEW k \in 1..MaxLeaves, NewTree(T, k)
        PROVE  InOrder(nodes', roots') /\ calls' = calls + 1
    <3>1. k \in Nat /\ calls' = calls + 1
      BY <2>2, BoundsAssumption DEF NewTree, Call
    <3> QED BY <2>0, <2>2, <3>1, NewTreeKeepsOrder
  <2>3. ASSUME NEW T \in Trees, NEW k \in 1..MaxLeaves, NEW x \in Node, InsertLeaves(T, x, k)
        PROVE  InOrder(nodes', roots') /\ calls' = calls + 1
    <3>1. k \in Nat /\ calls' = calls + 1
      BY <2>3, BoundsAssumption DEF InsertLeaves, Call
    <3> QED BY <2>0, <2>3, <3>1, InsertLeavesKeepsOrder
  <2>4. ASSUME NEW T \in Trees, NEW k \in 1..MaxLeaves, NEW x \in Node, ReplaceLeaf(T, x, k)
        PROVE  InOrder(nodes', roots') /\ calls' = calls + 1
    <3>1. k \in Nat /\ calls' = calls + 1
      BY <2>4, BoundsAssumption DEF ReplaceLeaf, Call
    <3> QED BY <2>0, <2>4, <3>1, ReplaceLeafKeepsOrder
  <2>5. ASSUME NEW T \in Trees, NEW x \in Node, DestroyLeaf(T, x)
        PROVE  InOrder(nodes', roots') /\ calls' = calls + 1
    BY <2>0, <2>5, DestroyLeafKeepsOrder DEF DestroyLeaf, Call
  <2>6. ASSUME NEW T \in Trees, NEW x \in Node, ChangeRootOf(T, x)
        PROVE  InOrder(nodes', roots') /\ calls' = calls + 1
    BY <2>0, <2>6, ChangeRootKeepsOrder DEF ChangeRootOf, Call
  <2>7. ASSUME NEW T \in Trees, NEW x \in Node, NEW newType \in {"P", "C"},
               ChangeNodeType(T, x, newType)
        PROVE  InOrder(nodes', roots') /\ calls' = calls + 1
    BY <2>0, <2>7, ChangeTypeKeepsOrder DEF ChangeNodeType, Call
  <2>8. ASSUME NEW T \in Trees, NEW x \in Node, NEW U \in Trees, InsertTree(T, x, U)
        PROVE  InOrder(nodes', roots') /\ calls' = calls + 1
    BY <2>0, <2>8, InsertTreeKeepsOrder DEF InsertTree
  <2>9. CASE Next
    <3>1. InOrder(nodes', roots') /\ calls' = calls + 1
      BY <2>2, <2>3, <2>4, <2>5, <2>6, <2>7, <2>8, <2>9 DEF Next
    <3> QED BY <2>0, <3>1
  <2> QED BY <2>1, <2>9
<1> QED BY <1>1, <1>2, PTL DEF Spec

(***************************************************************************)
(* After any calls in any order, on any number of trees: every node in use *)
(* is in exactly one tree, parents and child lists agree, and what is not  *)
(* in use is linked to nothing.  The calls need what the code asserts when *)
(* they begin: insertTree two trees that checkValid() accepts, roots with  *)
(* two children included.                                                  *)
(***************************************************************************)
THEOREM NothingIsLost == Spec => []NothingLost
<1>1. IInv => NothingLost
  BY WholeIs DEF NothingLost, IInv
<1> QED BY <1>1, IInvHolds, PTL

(***************************************************************************)
(* The nodes of one tree of a forest.                                      *)
(***************************************************************************)
LEMMA TreeNodes ==
  ASSUME NEW t, Forest(t), t.root \in Tops(t)
  PROVE  /\ NodesOf(t) = {y \in Node : t.root \in Up(t.parent, y)}
         /\ NodesOf(t) \subseteq InUse(t) /\ NodesOf(t) \subseteq Node
         /\ t.root \in NodesOf(t) /\ t.root \in Node /\ t.parent[t.root] = Nil
         /\ IsFiniteSet(NodesOf(t))
         /\ \A x \in NodesOf(t) :
              /\ x # t.root <=> t.parent[x] # Nil
              /\ x # t.root => t.parent[x] \in NodesOf(t) /\ t.parent[x] # x
              /\ Kids(t, x) \subseteq NodesOf(t) \ {t.root, x}
              /\ t.type[x] = "leaf" /\ x # t.root => t.kids[x] = <<>>
              /\ t.type[x] = "leaf" => Len(t.kids[x]) <= 1
<1> DEFINE r == t.root
           N == NodesOf(t)
<1>1. /\ t \in ForestType /\ Arranged(t) /\ t.parent \in Parents /\ Acyclic(t.parent)
      /\ r \in Node /\ r \in InUse(t) /\ t.parent[r] = Nil
  BY DEF Forest, ForestType, Tops, InUse
<1>2. N = {y \in Node : r \in Up(t.parent, y)}
  BY <1>1, BelowIsUp DEF NodesOf
<1> HIDE DEF N
<1>3. N \subseteq InUse(t)
  BY <1>1, <1>2, InUseAbove
<1>4. r \in N
  BY <1>1, <1>2, UpIs
<1>5. IsFiniteSet(N)
  <2>1. N \in SUBSET Node
    BY <1>2
  <2> QED BY <2>1, NodeIsFinite, FS_Subset
<1>6. ASSUME NEW x \in N
      PROVE  /\ x # r <=> t.parent[x] # Nil
             /\ x # r => t.parent[x] \in N /\ t.parent[x] # x
             /\ Kids(t, x) \subseteq N \ {r, x}
             /\ t.type[x] = "leaf" /\ x # r => t.kids[x] = <<>>
             /\ t.type[x] = "leaf" => Len(t.kids[x]) <= 1
  <2>1. x \in Node /\ r \in Up(t.parent, x)
    BY <1>2
  <2>2. Up(t.parent, x) = {x} \cup (IF t.parent[x] = Nil THEN {} ELSE Up(t.parent, t.parent[x]))
    BY <1>1, <2>1, UpIs
  <2>3. x # r <=> t.parent[x] # Nil
    BY <1>1, <2>1, <2>2
  <2>4. x # r => t.parent[x] \in N /\ t.parent[x] # x
    <3> SUFFICES ASSUME x # r PROVE t.parent[x] \in N /\ t.parent[x] # x
      OBVIOUS
    <3>1. t.parent[x] # Nil /\ t.parent[x] \in Node
      BY <1>1, <2>1, <2>3 DEF Parents
    <3>2. r \in Up(t.parent, t.parent[x])
      BY <2>1, <2>2, <3>1
    <3> QED BY <1>2, <2>1, <3>1, <3>2, ForestFacts
  <2>5. ASSUME NEW c \in Kids(t, x) PROVE c \in N \ {r, x}
    <3>1. c \in InUse(t) /\ t.parent[c] = x /\ c # x /\ t.parent[c] # Nil
      BY <2>1, ForestFacts
    <3>2. c \in Node /\ Up(t.parent, c) = {c} \cup Up(t.parent, x)
      BY <1>1, <3>1, UpIs DEF InUse
    <3> QED BY <1>1, <1>2, <2>1, <3>1, <3>2
  <2>6. /\ t.type[x] = "leaf" => Len(t.kids[x]) <= (IF t.parent[x] = Nil THEN 1 ELSE 0)
        /\ Len(t.kids[x]) \in Nat /\ (t.kids[x] = <<>> <=> Len(t.kids[x]) = 0)
    BY <1>1, <2>1, ForestKids DEF Arranged
  <2> QED BY <2>3, <2>4, <2>5, <2>6
<1> QED BY <1>1, <1>2, <1>3, <1>4, <1>5, <1>6 DEF N

(***************************************************************************)
(* Leaves below a node.                                                    *)
(***************************************************************************)
\* All inner nodes at or below y have a child.
LEMMA LeafBelow ==
  ASSUME NEW t, Forest(t), NEW y \in Node,
         \A x \in Node : y \in Up(t.parent, x) /\ t.type[x] # "leaf" => t.kids[x] # <<>>
  PROVE  \E l \in Node : y \in Up(t.parent, l) /\ t.type[l] = "leaf"
<1> DEFINE pa == t.parent
           S == {x \in Node : y \in Up(pa, x) => \E l \in Node : x \in Up(pa, l) /\ t.type[l] = "leaf"}
<1>1. t \in ForestType /\ pa \in Parents /\ Acyclic(pa)
  BY DEF Forest, ForestType
<1>2. ASSUME NEW x \in Node, \A c \in Node : pa[c] = x => c \in S PROVE x \in S
  <2> SUFFICES ASSUME y \in Up(pa, x) PROVE \E l \in Node : x \in Up(pa, l) /\ t.type[l] = "leaf"
    OBVIOUS
  <2>1. CASE t.type[x] = "leaf"
    BY <1>1, <2>1, UpIs
  <2>2. CASE t.type[x] # "leaf"
    <3>1. Kids(t, x) # {}
      BY <1>1, <2>2, ForestKids
    <3>2. PICK c \in Kids(t, x) : TRUE
      BY <3>1
    <3>3. pa[c] = x /\ c \in Node /\ x # Nil
      BY <3>2, ForestFacts DEF InUse
    <3>4. Up(pa, c) = {c} \cup Up(pa, x) /\ c \in S
      BY <1>1, <1>2, <3>3, UpIs
    <3>5. PICK l \in Node : c \in Up(pa, l) /\ t.type[l] = "leaf"
      BY <3>4
    <3>6. Up(pa, c) \subseteq Up(pa, l) /\ x \in Up(pa, x)
      BY <1>1, <3>5, UpTransitive, UpIs
    <3> QED BY <3>4, <3>5, <3>6
  <2> QED BY <2>1, <2>2
<1>3. Node \subseteq S
  <2> HIDE DEF S, pa
  <2> QED BY <1>1, <1>2, FromEnds
<1>4. PICK l \in Node : y \in Up(pa, l) /\ t.type[l] = "leaf"
  <2>1. y \in Up(pa, y)
    BY <1>1, UpIs
  <2> QED BY <1>3, <2>1
<1> QED BY <1>4

\* A node is not below two children of the same node.
LEMMA BelowOneKid ==
  ASSUME NEW t, Forest(t), NEW x \in Node, NEW a \in Kids(t, x), NEW b \in Kids(t, x), a # b,
         NEW l \in Node, a \in Up(t.parent, l)
  PROVE  b \notin Up(t.parent, l)
<1>1. t.parent \in Parents /\ Acyclic(t.parent)
  BY DEF Forest, ForestType
<1>2. t.parent[a] = x /\ t.parent[b] = x /\ x # Nil
  BY ForestFacts
<1> QED BY <1>1, <1>2, OneWay

(***************************************************************************)
(* When a tree is valid: every inner node branches, or the tree is a leaf  *)
(* above an inner node above a leaf.                                       *)
(***************************************************************************)
Branching(t) == InnerOf(t) # {} /\ \A x \in InnerOf(t) : Len(t.kids[x]) >= 2

Stump(t) ==
  /\ t.type[t.root] = "leaf"
  /\ \E p \in InnerOf(t), l \in LeavesOf(t) :
       /\ NodesOf(t) = {t.root, p, l} /\ l # t.root
       /\ t.parent[p] = t.root /\ t.parent[l] = p

\* Its leaves and its inner nodes.
LEMMA TreeParts ==
  ASSUME NEW t, Forest(t), t.root \in Tops(t)
  PROVE  /\ LeavesOf(t) = {x \in NodesOf(t) : t.type[x] = "leaf"}
         /\ InnerOf(t) = {x \in NodesOf(t) : t.type[x] # "leaf"}
         /\ IsFiniteSet(LeavesOf(t)) /\ IsFiniteSet(InnerOf(t))
         /\ \A x \in NodesOf(t) : /\ x \in Node /\ Len(t.kids[x]) \in Nat
                                  /\ x # t.root => Degree(t, x) = Len(t.kids[x]) + 1
         /\ Degree(t, t.root) = Len(t.kids[t.root])
         /\ \A l \in LeavesOf(t) : Len(t.kids[l]) <= (IF l = t.root THEN 1 ELSE 0)
<1>1. /\ LeavesOf(t) = {x \in NodesOf(t) : t.type[x] = "leaf"}
      /\ InnerOf(t) = {x \in NodesOf(t) : t.type[x] # "leaf"}
  BY DEF LeavesOf, InnerOf
<1>2. /\ IsFiniteSet(NodesOf(t)) /\ NodesOf(t) \subseteq Node /\ t.root \in NodesOf(t)
      /\ t.parent[t.root] = Nil /\ t.type[t.root] = "leaf" => Len(t.kids[t.root]) <= 1
      /\ \A x \in NodesOf(t) : /\ x # t.root <=> t.parent[x] # Nil
                               /\ t.type[x] = "leaf" /\ x # t.root => t.kids[x] = <<>>
  BY TreeNodes
<1>3. LeavesOf(t) \in SUBSET NodesOf(t) /\ InnerOf(t) \in SUBSET NodesOf(t)
  BY <1>1
<1>4. \A x \in NodesOf(t) : /\ Len(t.kids[x]) \in Nat
                            /\ t.kids[x] = <<>> => Len(t.kids[x]) = 0
  BY <1>2, ForestKids DEF Forest
<1>5. ASSUME NEW x \in NodesOf(t)
      PROVE  /\ x # t.root => Degree(t, x) = Len(t.kids[x]) + 1
             /\ x = t.root => Degree(t, x) = Len(t.kids[x])
  <2> DEFINE n == Len(t.kids[x])
  <2>1. n \in Nat /\ Degree(t, x) = n + (IF t.parent[x] = Nil THEN 0 ELSE 1)
    BY <1>4 DEF Degree
  <2> HIDE DEF n
  <2>2. (x # t.root => Degree(t, x) = n + 1) /\ (x = t.root => Degree(t, x) = n)
    BY <1>2, <2>1
  <2> QED BY <2>2 DEF n
<1>6. ASSUME NEW l \in LeavesOf(t) PROVE Len(t.kids[l]) <= (IF l = t.root THEN 1 ELSE 0)
  <2>1. CASE l = t.root
    BY <1>1, <1>2, <2>1
  <2>2. CASE l # t.root
    <3>1. Len(t.kids[l]) = 0
      BY <1>1, <1>2, <1>4, <2>2
    <3> QED BY <2>2, <3>1
  <2> QED BY <2>1, <2>2
<1> QED BY <1>1, <1>2, <1>3, <1>4, <1>5, <1>6, FS_Subset

\* In a branching tree there is a leaf below every node.
LEMMA LeafOfTree ==
  ASSUME NEW t, Forest(t), t.root \in Tops(t), Branching(t), NEW y \in NodesOf(t)
  PROVE  \E l \in LeavesOf(t) : y \in Up(t.parent, l)
<1>1. /\ t.parent \in Parents /\ y \in Node /\ t.root \in Up(t.parent, y)
      /\ NodesOf(t) = {x \in Node : t.root \in Up(t.parent, x)}
  BY TreeNodes DEF Forest, ForestType
<1>2. ASSUME NEW x \in Node, y \in Up(t.parent, x) PROVE x \in NodesOf(t)
  <2>1. Up(t.parent, y) \subseteq Up(t.parent, x)
    BY <1>1, <1>2, UpTransitive
  <2> QED BY <1>1, <2>1
<1>3. ASSUME NEW x \in Node, y \in Up(t.parent, x), t.type[x] # "leaf" PROVE t.kids[x] # <<>>
  <2>1. x \in InnerOf(t)
    BY <1>2, <1>3, TreeParts
  <2>2. Len(t.kids[x]) >= 2
    BY <2>1 DEF Branching
  <2> QED BY <2>2
<1>4. PICK l \in Node : y \in Up(t.parent, l) /\ t.type[l] = "leaf"
  BY <1>1, <1>3, LeafBelow
<1>5. l \in LeavesOf(t)
  BY <1>2, <1>4, TreeParts
<1> QED BY <1>4, <1>5

\* Each child of a node has a leaf of its own below it.
LEMMA LeavesBelowKids ==
  ASSUME NEW t, Forest(t), t.root \in Tops(t), Branching(t), NEW x \in NodesOf(t)
  PROVE  /\ Len(t.kids[x]) >= 2 =>
              \E a, b \in LeavesOf(t) : /\ a # b
                                        /\ x \in Up(t.parent, a) /\ x \in Up(t.parent, b)
                                        /\ t.type[x] # "leaf" => a # x /\ b # x
         /\ Len(t.kids[x]) >= 3 => Cardinality(LeavesOf(t)) >= 3
<1>1. /\ t.parent \in Parents /\ x \in Node /\ Kids(t, x) \subseteq NodesOf(t)
      /\ t \in ForestType /\ Distinct(t.kids[x])
  BY TreeNodes DEF Forest, ForestType, Arranged
<1>2. ASSUME NEW c \in Kids(t, x)
      PROVE  \E l \in LeavesOf(t) : c \in Up(t.parent, l) /\ x \in Up(t.parent, l)
  <2>1. PICK l \in LeavesOf(t) : c \in Up(t.parent, l)
    BY <1>1, LeafOfTree
  <2>2. l \in Node /\ c \in Node /\ t.parent[c] = x /\ t.parent[c] # Nil
    BY <1>1, <2>1, TreeParts, ForestFacts
  <2>3. Up(t.parent, c) \subseteq Up(t.parent, l) /\ x \in Up(t.parent, x)
    BY <1>1, <2>1, <2>2, UpTransitive, UpIs
  <2>4. Up(t.parent, c) = {c} \cup Up(t.parent, x)
    BY <1>1, <2>2, UpIs
  <2> QED BY <2>1, <2>3, <2>4
<1>3. \A l \in LeavesOf(t) : l \in Node /\ t.type[l] = "leaf"
  BY TreeParts
<1>4. ASSUME NEW a \in Kids(t, x), NEW b \in Kids(t, x), a # b,
             NEW l \in LeavesOf(t), a \in Up(t.parent, l),
             NEW k \in LeavesOf(t), b \in Up(t.parent, k)
      PROVE  l # k
  BY <1>1, <1>3, <1>4, BelowOneKid
<1>5. ASSUME Len(t.kids[x]) >= 2
      PROVE  \E a, b \in LeavesOf(t) : /\ a # b
                                       /\ x \in Up(t.parent, a) /\ x \in Up(t.parent, b)
                                       /\ t.type[x] # "leaf" => a # x /\ b # x
  <2>1. PICK c, d \in Kids(t, x) : c # d
    BY <1>1, <1>5, TwoPlaces
  <2>2. PICK a \in LeavesOf(t) : c \in Up(t.parent, a) /\ x \in Up(t.parent, a)
    BY <1>2
  <2>3. PICK b \in LeavesOf(t) : d \in Up(t.parent, b) /\ x \in Up(t.parent, b)
    BY <1>2
  <2> QED BY <1>3, <1>4, <2>1, <2>2, <2>3
<1>6. ASSUME Len(t.kids[x]) >= 3 PROVE Cardinality(LeavesOf(t)) >= 3
  <2>1. PICK c, d, e \in Kids(t, x) : c # d /\ c # e /\ d # e
    BY <1>1, <1>6, TwoPlaces
  <2>2. PICK a \in LeavesOf(t) : c \in Up(t.parent, a)
    BY <1>2
  <2>3. PICK b \in LeavesOf(t) : d \in Up(t.parent, b)
    BY <1>2
  <2>4. PICK f \in LeavesOf(t) : e \in Up(t.parent, f)
    BY <1>2
  <2>5. a # b /\ a # f /\ b # f
    BY <1>4, <2>1, <2>2, <2>3, <2>4
  <2>6. IsFiniteSet(LeavesOf(t))
    BY TreeParts
  <2> QED BY <2>5, <2>6, ThreeElements
<1> QED BY <1>5, <1>6

\* An inner node besides the root makes three leaves.
LEMMA InnerBelowRoot ==
  ASSUME NEW t, Forest(t), t.root \in Tops(t), Branching(t), NEW x \in InnerOf(t), x # t.root
  PROVE  Cardinality(LeavesOf(t)) >= 3
<1> DEFINE r == t.root
<1>1. /\ t.parent \in Parents /\ Acyclic(t.parent) /\ x \in NodesOf(t) /\ x \in Node
      /\ r \in NodesOf(t) /\ r \in Node /\ r \in Up(t.parent, x) /\ t.parent[r] = Nil
      /\ IsFiniteSet(LeavesOf(t)) /\ t.type[x] # "leaf"
  BY TreeNodes, TreeParts DEF Forest, ForestType
<1>2. Len(t.kids[x]) >= 2
  BY DEF Branching
<1>3. PICK a, b \in LeavesOf(t) : a # b /\ x \in Up(t.parent, a) /\ x \in Up(t.parent, b)
  BY <1>1, <1>2, LeavesBelowKids
<1>4. a \in Node /\ b \in Node
  BY TreeParts
<1>5. CASE t.type[r] = "leaf"
  <2>1. Up(t.parent, r) = {r}
    BY <1>1, UpIs
  <2>2. r # a /\ r # b
    BY <1>3, <2>1
  <2>3. r \in LeavesOf(t)
    BY <1>1, <1>5, TreeParts
  <2> QED BY <1>1, <1>3, <2>2, <2>3, ThreeElements
<1>6. CASE t.type[r] # "leaf"
  <2>1. r \in InnerOf(t) /\ t \in ForestType /\ Distinct(t.kids[r])
    BY <1>1, <1>6, TreeParts DEF Forest, Arranged
  <2>2. PICK c \in Up(t.parent, x) : t.parent[c] = r
    BY <1>1, OneWay
  <2>3. c \in Node /\ c \in Kids(t, r)
    <3>1. c \in Node
      BY <1>1, UpTransitive
    <3>2. t.parent[c] # Nil
      BY <1>1, <2>2, NodesAssumption DEF Node
    <3> QED BY <2>2, <3>1, <3>2, ForestFacts
  <2>4. PICK d \in Kids(t, r) : d # c
    <3>1. Len(t.kids[r]) >= 2
      BY <2>1 DEF Branching
    <3> QED BY <1>1, <2>1, <3>1, TwoPlaces
  <2>5. PICK k \in LeavesOf(t) : d \in Up(t.parent, k)
    <3>1. d \in NodesOf(t)
      BY <1>1, TreeNodes
    <3> QED BY <3>1, LeafOfTree
  <2>6. c \in Up(t.parent, a) /\ c \in Up(t.parent, b)
    BY <1>1, <1>3, <1>4, <2>2, UpTransitive
  <2>7. k # a /\ k # b
    BY <1>1, <1>4, <2>3, <2>4, <2>5, <2>6, BelowOneKid
  <2> QED BY <1>1, <1>3, <2>7, ThreeElements
<1> QED BY <1>5, <1>6

\* A tree that branches at every inner node is valid.
LEMMA BranchingIsValid ==
  ASSUME NEW t, Forest(t), t.root \in Tops(t), Branching(t)
  PROVE  ValidButRoot(t) /\ Cardinality(LeavesOf(t)) >= 2
<1> DEFINE n == Cardinality(LeavesOf(t))
           m == Cardinality(InnerOf(t))
           r == t.root
<1>1. /\ n \in Nat /\ m \in Nat /\ t.parent[r] = Nil /\ r \in NodesOf(t)
      /\ \A l \in LeavesOf(t) : Len(t.kids[l]) <= (IF l = r THEN 1 ELSE 0)
      /\ IsFiniteSet(InnerOf(t)) /\ IsFiniteSet(LeavesOf(t))
  <2>1. IsFiniteSet(InnerOf(t)) /\ IsFiniteSet(LeavesOf(t))
    BY TreeParts
  <2> QED BY <2>1, TreeParts, TreeNodes, ThreeElements
<1>2. \A x \in InnerOf(t) : /\ x \in NodesOf(t) /\ Len(t.kids[x]) >= 2 /\ Len(t.kids[x]) \in Nat
                            /\ x # r => Degree(t, x) = Len(t.kids[x]) + 1
                            /\ x = r => Degree(t, x) = Len(t.kids[x])
  BY TreeParts DEF Branching
<1>3. n >= 2
  <2>1. PICK x \in InnerOf(t) : TRUE
    BY DEF Branching
  <2>2. PICK a, b \in LeavesOf(t) : a # b
    BY <1>2, <2>1, LeavesBelowKids
  <2> QED BY <1>1, <2>2, ThreeElements
<1>4. ASSUME NEW x \in LowDegree(t) PROVE x \in InnerOf(t) /\ x = r /\ Degree(t, r) = 2
  <2>1. x \in InnerOf(t) /\ Degree(t, x) < 3
    BY DEF LowDegree
  <2> DEFINE k == Len(t.kids[x])
  <2>2. k \in Nat /\ k >= 2 /\ (x # r => Degree(t, x) = k + 1) /\ (x = r => Degree(t, x) = k)
    BY <1>2, <2>1
  <2> HIDE DEF k, r
  <2> QED BY <2>1, <2>2
<1>5. (\E x \in InnerOf(t) : x # r) => n >= 3
  BY InnerBelowRoot
<1>6. n = 2 => m = 1
  <2> SUFFICES ASSUME n = 2 PROVE m = 1
    OBVIOUS
  <2> HIDE DEF n
  <2>1. \A x \in InnerOf(t) : x = r
    BY <1>5
  <2>2. InnerOf(t) = {r}
    BY <2>1 DEF Branching
  <2> HIDE DEF r
  <2> QED BY <1>1, <2>2, ThreeElements
<1>7. Childless(t) = {}
  <2>1. Len(<<>>) = 0
    OBVIOUS
  <2> QED BY <1>2, <2>1 DEF Childless
<1> HIDE DEF n, m, r
<1>8. Valid(t)
  <2>1. n # 0 /\ n # 1
    BY <1>1, <1>3
  <2> QED BY <1>1, <1>6, <1>7, <2>1 DEF Valid, n, m, r
<1>9. CASE n > 2 => LowDegree(t) = {}
  BY <1>3, <1>8, <1>9 DEF ValidButRoot, Proper, n
<1>10. CASE n > 2 /\ LowDegree(t) # {}
  <2>1. LowDegree(t) = {r} /\ Degree(t, r) = 2
    BY <1>4, <1>10
  <2> QED BY <1>3, <1>8, <1>10, <2>1 DEF ValidButRoot, n, r
<1> QED BY <1>9, <1>10

\* All that there is to the other kind of tree.
LEMMA StumpIs ==
  ASSUME NEW t, Forest(t), t.root \in Tops(t), Stump(t)
  PROVE  /\ Proper(t) /\ Cardinality(LeavesOf(t)) = 2
         /\ \E p, l \in Node :
              /\ InnerOf(t) = {p} /\ LeavesOf(t) = {t.root, l} /\ NodesOf(t) = {t.root, p, l}
              /\ l # t.root /\ p # t.root /\ p # l /\ t.parent[p] = t.root /\ t.parent[l] = p
              /\ t.type[p] # "leaf" /\ t.type[l] = "leaf" /\ t.type[t.root] = "leaf"
              /\ Kids(t, p) = {l} /\ Len(t.kids[p]) = 1
              /\ Kids(t, t.root) = {p} /\ Len(t.kids[t.root]) = 1
<1> DEFINE r == t.root
<1>1. PICK p \in InnerOf(t), l \in LeavesOf(t) :
             /\ NodesOf(t) = {r, p, l} /\ l # r /\ t.parent[p] = r /\ t.parent[l] = p
  BY DEF Stump
<1>2. /\ p \in NodesOf(t) /\ l \in NodesOf(t) /\ t.type[p] # "leaf" /\ t.type[l] = "leaf"
      /\ t.type[r] = "leaf" /\ p \in Node /\ l \in Node /\ r \in Node /\ t.parent[r] = Nil
      /\ t \in ForestType /\ Distinct(t.kids[p]) /\ Distinct(t.kids[r]) /\ r \in NodesOf(t)
      /\ r # Nil /\ p # Nil
  <2>1. Nil \notin Node
    BY NodesAssumption DEF Node
  <2> QED BY <2>1, TreeParts, TreeNodes DEF Stump, Forest, Arranged
<1>3. p # r /\ p # l
  BY <1>2
<1>4. InnerOf(t) = {p} /\ LeavesOf(t) = {r, l}
  BY <1>1, <1>2, TreeParts
<1>5. \A x \in {r, p, l} : \A c \in Kids(t, x) : c \in {r, p, l} /\ t.parent[c] = x
  BY <1>1, <1>2, TreeNodes, ForestFacts
<1>6. l \in Kids(t, p) /\ p \in Kids(t, r)
  BY <1>1, <1>2, ForestFacts
<1>7. Kids(t, p) = {l} /\ Kids(t, r) = {p}
  BY <1>1, <1>2, <1>3, <1>5, <1>6
<1>8. ASSUME NEW x \in Node, Distinct(t.kids[x]), NEW c, Kids(t, x) = {c} PROVE Len(t.kids[x]) = 1
  <2>1. t.kids[x] \in Seq(Node)
    BY <1>2, ForestKids
  <2>2. Cardinality({c}) = 1
    BY FS_Singleton
  <2> QED BY <1>8, <2>1, <2>2, DistinctLength DEF Kids
<1>9. Len(t.kids[p]) = 1 /\ Len(t.kids[r]) = 1
  BY <1>2, <1>7, <1>8
<1>10. Cardinality(LeavesOf(t)) = 2 /\ Cardinality(InnerOf(t)) = 1
  <2>1. IsFiniteSet(InnerOf(t)) /\ IsFiniteSet(LeavesOf(t))
    BY TreeParts
  <2> HIDE DEF r
  <2>2. ASSUME NEW S, IsFiniteSet(S), NEW a, S = {a} PROVE Cardinality(S) = 1
    BY ONLY <2>2, ThreeElements
  <2>3. ASSUME NEW S, IsFiniteSet(S), NEW a, NEW b, S = {a, b}, a # b PROVE Cardinality(S) = 2
    BY ONLY <2>3, ThreeElements
  <2>4. Cardinality(InnerOf(t)) = 1
    BY <1>4, <2>1, <2>2
  <2>5. Cardinality(LeavesOf(t)) = 2
    <3> DEFINE S == LeavesOf(t)
               a == t.root
    <3>1. IsFiniteSet(S) /\ S = {a, l} /\ a # l
      BY <1>1, <1>4, <2>1 DEF r
    <3>2. Cardinality(S) = Cardinality(LeavesOf(t))
      OBVIOUS
    <3> HIDE DEF S, a
    <3>3. Cardinality(S) = 2
      BY ONLY <3>1, <2>3
    <3> QED BY <3>2, <3>3
  <2> QED BY <2>4, <2>5
<1>11. \A x \in LeavesOf(t) : Len(t.kids[x]) <= (IF x = r THEN 1 ELSE 0)
  BY TreeParts
<1> HIDE DEF r
<1>12. Proper(t)
  BY <1>2, <1>10, <1>11 DEF Valid, Proper, r
<1> QED BY <1>1, <1>2, <1>3, <1>4, <1>7, <1>9, <1>10, <1>12 DEF r

\* A valid tree of more than two leaves branches.
LEMMA ManyLeavesBranch ==
  ASSUME NEW t, Forest(t), t.root \in Tops(t), ValidButRoot(t), Cardinality(LeavesOf(t)) > 2
  PROVE  Branching(t)
<1> DEFINE r == t.root
<1>1. /\ NodesOf(t) \subseteq Node /\ r \in NodesOf(t) /\ r \in Node /\ t \in ForestType
      /\ IsFiniteSet(LeavesOf(t)) /\ Distinct(t.kids[r])
      /\ \A x \in NodesOf(t) :
           /\ x # r => t.parent[x] \in NodesOf(t) /\ t.parent[x] # x
           /\ x # r <=> t.parent[x] # Nil
           /\ t.type[x] = "leaf" /\ x # r => t.kids[x] = <<>>
           /\ t.type[x] = "leaf" => Len(t.kids[x]) <= 1
  BY TreeNodes, TreeParts DEF Forest, Arranged
<1>2. \A x \in InnerOf(t) :
        /\ x \in NodesOf(t) /\ Len(t.kids[x]) \in Nat /\ Degree(t, x) \in Nat
        /\ x # r => Degree(t, x) = Len(t.kids[x]) + 1
        /\ x = r => Degree(t, x) = Len(t.kids[x])
  BY TreeParts
<1>3. \A x \in InnerOf(t) : ~(Degree(t, x) < 3) \/ (x = r /\ Degree(t, x) = 2)
  BY DEF ValidButRoot, Proper, LowDegree
<1>4. ASSUME NEW x \in InnerOf(t) PROVE Len(t.kids[x]) >= 2
  <2> DEFINE k == Len(t.kids[x])
             d == Degree(t, x)
  <2>1. /\ k \in Nat /\ d \in Nat /\ (x # r => d = k + 1) /\ (x = r => d = k)
        /\ ~(d < 3) \/ (x = r /\ d = 2)
    BY <1>2, <1>3
  <2> HIDE DEF k, d, r
  <2>2. k >= 2
    BY <2>1
  <2> QED BY <2>2 DEF k
<1>5. ASSUME InnerOf(t) = {} PROVE FALSE
  <2>1. \A x \in NodesOf(t) : t.type[x] = "leaf" /\ x \in LeavesOf(t)
    BY <1>5, TreeParts
  <2>2. ASSUME NEW x \in NodesOf(t), x # r PROVE x \in Kids(t, r)
    <3>1. t.parent[x] \in NodesOf(t) /\ t.parent[x] # Nil /\ x \in Node
      BY <1>1, <2>2
    <3>2. x \in Kids(t, t.parent[x])
      BY <3>1, ForestFacts
    <3>3. ASSUME t.parent[x] # r PROVE FALSE
      <4>1. t.kids[t.parent[x]] = <<>>
        BY <1>1, <2>1, <3>1, <3>3
      <4>2. Kids(t, t.parent[x]) = {}
        BY <1>1, <3>1, <4>1, ForestKids
      <4> QED BY <3>2, <4>2
    <3> QED BY <3>2, <3>3
  <2>3. LeavesOf(t) \subseteq NodesOf(t)
    BY TreeParts
  <2>8. \A x, y : \E z \in LeavesOf(t) : z # x /\ z # y
    <3>1. IsFiniteSet(LeavesOf(t)) /\ Cardinality(LeavesOf(t)) > 2
      BY <1>1
    <3> QED BY <3>1, ThreeElements
  <2>4. PICK a \in LeavesOf(t) : a # r
    BY <2>8
  <2>5. PICK b \in LeavesOf(t) : b # r /\ b # a
    BY <2>8
  <2>6. a \in Kids(t, r) /\ b \in Kids(t, r)
    BY <2>2, <2>3, <2>4, <2>5
  <2>7. Len(t.kids[r]) <= 1
    BY <1>1, <2>1
  <2> QED BY <1>1, <2>5, <2>6, <2>7, TwoPlaces
<1> QED BY <1>4, <1>5 DEF Branching

\* A tree of two leaves and one inner node.
LEMMA TwoLeavesBranch ==
  ASSUME NEW t, Forest(t), t.root \in Tops(t),
         Cardinality(LeavesOf(t)) = 2, Cardinality(InnerOf(t)) = 1
  PROVE  Branching(t) \/ Stump(t)
<1> DEFINE r == t.root
<1>1. /\ NodesOf(t) \subseteq Node /\ r \in NodesOf(t) /\ r \in Node /\ t \in ForestType
      /\ IsFiniteSet(LeavesOf(t)) /\ IsFiniteSet(InnerOf(t)) /\ t.parent[r] = Nil
      /\ \A x \in NodesOf(t) :
           /\ Distinct(t.kids[x])
           /\ x # r => t.parent[x] \in NodesOf(t) /\ t.parent[x] # x
           /\ x # r <=> t.parent[x] # Nil
           /\ t.type[x] = "leaf" /\ x # r => t.kids[x] = <<>>
           /\ t.type[x] = "leaf" => Len(t.kids[x]) <= 1
  BY TreeNodes, TreeParts DEF Forest, Arranged
<1> DEFINE inner == InnerOf(t)
           leaves == LeavesOf(t)
<1>10. /\ IsFiniteSet(inner) /\ IsFiniteSet(leaves)
       /\ Cardinality(inner) = 1 /\ Cardinality(leaves) = 2
  BY <1>1
<1>11. inner = InnerOf(t) /\ leaves = LeavesOf(t)
  OBVIOUS
<1> HIDE DEF inner, leaves
<1>12. PICK p : inner = {p}
  BY ONLY <1>10, OneElement
<1>13. PICK a, b : leaves = {a, b} /\ a # b
  BY ONLY <1>10, TwoElements
<1>2. InnerOf(t) = {p}
  BY ONLY <1>11, <1>12
<1>3. LeavesOf(t) = {a, b} /\ a # b
  BY ONLY <1>11, <1>13
<1>4. /\ NodesOf(t) = {p, a, b} /\ t.type[p] # "leaf" /\ t.type[a] = "leaf" /\ t.type[b] = "leaf"
      /\ p \in Node /\ a \in Node /\ b \in Node /\ p # a /\ p # b
  BY <1>1, <1>2, <1>3, TreeParts
<1>5. ASSUME NEW x \in NodesOf(t), x # r
      PROVE  /\ t.parent[x] \in {p, a, b} /\ t.parent[x] # x /\ x \in Kids(t, t.parent[x])
             /\ t.parent[x] = r \/ t.parent[x] = p
  <2>1. t.parent[x] \in NodesOf(t) /\ t.parent[x] # Nil /\ x \in Node /\ t.parent[x] # x
    BY <1>1, <1>5
  <2>2. x \in Kids(t, t.parent[x])
    BY <2>1, ForestFacts
  <2>3. Kids(t, t.parent[x]) # {} => t.kids[t.parent[x]] # <<>>
    BY <1>1, <2>1, ForestKids
  <2> QED BY <1>1, <1>4, <2>1, <2>2, <2>3
<1>6. CASE r = p
  <2>1. a \in Kids(t, p) /\ b \in Kids(t, p)
    BY <1>4, <1>5, <1>6
  <2>2. Len(t.kids[p]) >= 2
    BY <1>1, <1>3, <1>4, <2>1, TwoPlaces
  <2> QED BY <1>2, <2>2 DEF Branching
<1>7. ASSUME NEW l \in {a, b}, NEW q \in {a, b}, l # q, r = q PROVE Stump(t)
  <2>1. t.parent[p] = r /\ p \in Kids(t, r)
    BY <1>4, <1>5, <1>7
  <2>2. l # r /\ t.type[r] = "leaf" /\ Len(t.kids[r]) <= 1 /\ Distinct(t.kids[r])
    BY <1>1, <1>4, <1>7
  <2>3. t.parent[l] = p
    <3>1. t.parent[l] = r => l \in Kids(t, r)
      BY <1>4, <1>5, <1>7
    <3>2. \A x, y \in Kids(t, r) : x = y
      BY <1>1, <2>2, TwoPlaces
    <3>3. t.parent[l] # r
      BY <1>4, <2>1, <3>1, <3>2
    <3> QED BY <1>4, <1>5, <1>7, <3>3
  <2>4. p \in InnerOf(t) /\ l \in LeavesOf(t) /\ NodesOf(t) = {r, p, l}
    BY <1>2, <1>3, <1>4, <1>7
  <2> QED BY <2>1, <2>2, <2>3, <2>4 DEF Stump
<1>8. r = p \/ r = a \/ r = b
  BY <1>1, <1>4
<1> QED BY <1>3, <1>6, <1>7, <1>8

\* A valid tree of at least two leaves is one or the other.
LEMMA ValidBranches ==
  ASSUME NEW t, Forest(t), t.root \in Tops(t), ValidButRoot(t), Cardinality(LeavesOf(t)) > 1
  PROVE  /\ Branching(t) \/ Stump(t)
         /\ Cardinality(LeavesOf(t)) > 2 => Branching(t)
<1>1. Cardinality(LeavesOf(t)) \in Nat
  BY TreeParts, ThreeElements
<1>2. CASE Cardinality(LeavesOf(t)) > 2
  BY <1>2, ManyLeavesBranch
<1>3. CASE Cardinality(LeavesOf(t)) = 2
  <2>1. Cardinality(InnerOf(t)) = 1
    BY <1>3 DEF ValidButRoot, Proper, Valid
  <2> QED BY <1>3, <2>1, TwoLeavesBranch
<1>4. Cardinality(LeavesOf(t)) > 2 \/ Cardinality(LeavesOf(t)) = 2
  <2> DEFINE n == Cardinality(LeavesOf(t))
  <2>1. n \in Nat /\ n > 1
    BY <1>1
  <2> HIDE DEF n
  <2>2. n > 2 \/ n = 2
    BY <2>1
  <2> QED BY <2>2 DEF n
<1> QED BY <1>2, <1>3, <1>4

(***************************************************************************)
(* What makes all trees of a forest valid, one node at a time and by the   *)
(* types and the parents alone.                                            *)
(***************************************************************************)
\* x is below a leaf, and has leaves below it only.
Narrow(t, x) ==
  /\ t.parent[x] # Nil /\ t.type[t.parent[x]] = "leaf"
  /\ \A c \in Node : t.parent[c] = x => t.type[c] = "leaf"

\* A leaf that is a root is above an inner node.
Crowned(t, x) ==
  t.type[x] = "leaf" /\ t.parent[x] = Nil => \E c \in Node : t.parent[c] = x /\ t.type[c] # "leaf"

Firm(t, x) ==
  /\ Crowned(t, x)
  /\ t.type[x] # "leaf" => HasTwoKids(t, x) \/ (HasKid(t, x) /\ Narrow(t, x))

\* All trees are valid and have at least two leaves.
Grown(t) == \A x \in InUse(t) : Firm(t, x)

\* All trees are valid, those of one leaf or none included.
Sound(t) ==
  \A x \in InUse(t) :
    /\ Crowned(t, x)
    /\ t.type[x] # "leaf" =>
         \/ HasTwoKids(t, x) \/ Narrow(t, x)
         \/ t.parent[x] = Nil /\ \A c \in Node : t.parent[c] = x => t.type[c] = "leaf"

LEMMA GrownIsSound == ASSUME NEW t, Grown(t) PROVE Sound(t)
BY DEF Grown, Firm, Sound

\* A forest of valid trees.
LEMMA ValidTreeIsGrown ==
  ASSUME NEW t, Forest(t), t.root \in Tops(t), ValidButRoot(t), Cardinality(LeavesOf(t)) > 1,
         NEW x \in NodesOf(t)
  PROVE  Firm(t, x)
<1> DEFINE r == t.root
<1>1. /\ r \in NodesOf(t) /\ r \in Node /\ x \in Node /\ t.parent[r] = Nil
      /\ t.parent \in Parents /\ Acyclic(t.parent)
      /\ NodesOf(t) = {y \in Node : r \in Up(t.parent, y)}
      /\ \A y \in NodesOf(t) : y # r <=> t.parent[y] # Nil
  BY TreeNodes DEF Forest, ForestType
<1>2. Branching(t) \/ Stump(t)
  BY ValidBranches
<1>3. CASE Branching(t)
  <2>1. ASSUME t.type[x] # "leaf" PROVE HasTwoKids(t, x)
    <3>1. x \in InnerOf(t)
      BY <2>1, TreeParts
    <3> QED BY <1>1, <1>3, <3>1, KidsCounted DEF Branching
  <2>2. ASSUME t.type[x] = "leaf", t.parent[x] = Nil
        PROVE  \E c \in Node : t.parent[c] = x /\ t.type[c] # "leaf"
    <3>1. x = r
      BY <1>1, <2>2
    <3>2. PICK y \in InnerOf(t) : TRUE
      BY <1>3 DEF Branching
    <3>3. y \in NodesOf(t) /\ y \in Node /\ t.type[y] # "leaf" /\ r \in Up(t.parent, y)
      BY <1>1, <3>2, TreeParts
    <3>4. PICK c \in Up(t.parent, y) : t.parent[c] = r
      BY <1>1, <2>2, <3>1, <3>3, OneWay
    <3>5. c \in Node /\ t.parent[c] # Nil
      BY <1>1, <3>3, <3>4, UpIs, NodesAssumption DEF Node
    <3>6. ASSUME t.type[c] = "leaf" PROVE FALSE
      <4>1. ~HasKid(t, c)
        BY <3>5, <3>6, KidsCounted
      <4>2. PICK d \in Up(t.parent, y) : t.parent[d] = c
        BY <1>1, <3>3, <3>4, <3>6, OneWay
      <4>3. d \in Node
        BY <1>1, <3>3, <4>2, UpIs
      <4> QED BY <4>1, <4>2, <4>3 DEF HasKid
    <3> QED BY <3>1, <3>4, <3>5, <3>6
  <2> QED BY <2>1, <2>2 DEF Crowned, Firm
<1>4. CASE Stump(t)
  <2>1. PICK p \in Node, l \in Node :
              /\ NodesOf(t) = {r, p, l} /\ l # r /\ p # r
              /\ t.parent[p] = r /\ t.parent[l] = p
              /\ t.type[p] # "leaf" /\ t.type[l] = "leaf" /\ t.type[r] = "leaf"
              /\ Kids(t, p) = {l}
    BY <1>4, StumpIs
  <2>2. Kids(t, p) = {c \in Node : t.parent[c] = p}
    BY KidsCounted
  <2>3. t.parent[l] # Nil /\ t.parent[p] # Nil
    BY <1>1, <2>1, NodesAssumption DEF Node
  <2>4. \A c \in Node : t.parent[c] = p => t.type[c] = "leaf"
    BY <2>1, <2>2
  <2>5. HasKid(t, p) /\ Narrow(t, p)
    BY <2>1, <2>3, <2>4 DEF HasKid, Narrow
  <2>6. Crowned(t, x)
    BY <2>1, <2>3 DEF Crowned
  <2> QED BY <2>1, <2>5, <2>6 DEF Firm
<1> QED BY <1>2, <1>3, <1>4 DEF Firm

\* A root that is an inner node with at most one leaf below it and nothing else.
LEMMA LastInner ==
  ASSUME NEW t, Forest(t), t.root \in Tops(t), t.type[t.root] # "leaf",
         ~HasTwoKids(t, t.root), \A c \in Node : t.parent[c] = t.root => t.type[c] = "leaf"
  PROVE  Proper(t)
<1> DEFINE r == t.root
           k == Kids(t, r)
           n == Cardinality(LeavesOf(t))
           m == Cardinality(InnerOf(t))
<1>1. /\ r \in NodesOf(t) /\ r \in Node /\ t.parent[r] = Nil /\ NodesOf(t) \subseteq Node
      /\ t.parent \in Parents /\ Acyclic(t.parent)
      /\ NodesOf(t) = {y \in Node : r \in Up(t.parent, y)}
  BY TreeNodes DEF Forest, ForestType
<1>2. k = {c \in Node : t.parent[c] = r}
  BY <1>1, KidsCounted
<1>3. \A c \in k : c \in Node /\ t.parent[c] = r /\ t.type[c] = "leaf" /\ t.parent[c] # Nil
  BY <1>1, <1>2, NodesAssumption DEF Node
<1>4. ASSUME NEW y \in NodesOf(t), y # r PROVE y \in k
  <2>1. y \in Node /\ r \in Up(t.parent, y)
    BY <1>1
  <2>2. PICK c \in Up(t.parent, y) : t.parent[c] = r
    BY <1>1, <1>4, <2>1, OneWay
  <2>3. c \in k /\ c \in Node
    BY <1>1, <1>2, <2>1, <2>2, UpIs
  <2>4. ~HasKid(t, c)
    BY <1>3, <2>3, KidsCounted
  <2>5. c = y
    <3> SUFFICES ASSUME c # y PROVE FALSE
      OBVIOUS
    <3>1. PICK d \in Up(t.parent, y) : t.parent[d] = c
      BY <1>1, <2>1, <2>2, OneWay
    <3>2. d \in Node
      BY <1>1, <2>1, <3>1, UpIs
    <3> QED BY <2>4, <3>1, <3>2 DEF HasKid
  <2> QED BY <2>3, <2>5
<1>5. k \subseteq NodesOf(t) \ {r}
  BY <1>1, TreeNodes
<1>6. LeavesOf(t) = k /\ InnerOf(t) = {r}
  <2>1. NodesOf(t) = {r} \cup k
    BY <1>1, <1>4, <1>5
  <2>2. \A c \in k : t.type[c] = "leaf" /\ c # r
    BY <1>3, <1>5
  <2>3. /\ LeavesOf(t) = {y \in NodesOf(t) : t.type[y] = "leaf"}
        /\ InnerOf(t) = {y \in NodesOf(t) : t.type[y] # "leaf"}
    BY TreeParts
  <2> QED BY <2>1, <2>2, <2>3
<1>7. \A a, b \in k : a = b
  BY <1>2 DEF HasTwoKids
<1>8. IsFiniteSet(LeavesOf(t)) /\ IsFiniteSet(InnerOf(t))
  BY TreeParts
<1>9. m = 1
  BY <1>6, <1>8, ThreeElements
<1>10. n \in Nat /\ ~(n = 2) /\ ~(n > 2)
  <2>1. n \in Nat
    BY <1>8, ThreeElements
  <2>2. n = 2 => \E a, b : LeavesOf(t) = {a, b} /\ a # b
    <3> DEFINE S == LeavesOf(t)
    <3>1. S = LeavesOf(t) /\ IsFiniteSet(S) /\ n = Cardinality(S)
      BY <1>8
    <3> HIDE DEF S, n
    <3>2. ASSUME n = 2 PROVE \E a, b : S = {a, b} /\ a # b
      <4>1. IsFiniteSet(S) /\ Cardinality(S) = 2
        BY ONLY <3>1, <3>2
      <4> QED BY ONLY <4>1, TwoElements
    <3> QED BY ONLY <3>1, <3>2
  <2>3. ~(n = 2)
    BY <1>6, <1>7, <2>2
  <2>4. n > 2 => \A a, b : \E c \in LeavesOf(t) : c # a /\ c # b
    BY <1>8, ThreeElements
  <2>5. ~(n > 2)
    <3> SUFFICES ASSUME n > 2 PROVE FALSE
      OBVIOUS
    <3>1. PICK a \in LeavesOf(t) : a # r
      BY <2>4
    <3>2. PICK c \in LeavesOf(t) : c # a
      BY <2>4
    <3> QED BY <1>6, <1>7, <3>1, <3>2
  <2> QED BY <2>1, <2>3, <2>5
<1>11. \A l \in LeavesOf(t) : Len(t.kids[l]) <= (IF l = r THEN 1 ELSE 0)
  BY TreeParts
<1>12. ToSet(t.kids[r]) = LeavesOf(t)
  BY <1>6 DEF Kids
<1> HIDE DEF r, k, n, m
<1>13. Proper(t)
  BY <1>1, <1>9, <1>10, <1>11, <1>12 DEF Valid, Proper, r, n, m
<1> QED BY <1>13

\* A root that is a leaf, above an inner node that has at most one leaf.
LEMMA NarrowTree ==
  ASSUME NEW t, Forest(t), t.root \in Tops(t), NEW p \in NodesOf(t), t.type[p] # "leaf",
         ~HasTwoKids(t, p), Narrow(t, p)
  PROVE  Proper(t)
<1> DEFINE r == t.root
           n == Cardinality(LeavesOf(t))
           m == Cardinality(InnerOf(t))
<1>1. /\ r \in NodesOf(t) /\ r \in Node /\ t.parent[r] = Nil /\ NodesOf(t) \subseteq Node
      /\ t.parent \in Parents /\ Acyclic(t.parent) /\ p \in Node
      /\ NodesOf(t) = {y \in Node : r \in Up(t.parent, y)}
      /\ \A y \in NodesOf(t) : /\ y # r <=> t.parent[y] # Nil
                               /\ y # r => t.parent[y] \in NodesOf(t)
  BY TreeNodes DEF Forest, ForestType
<1>2. t.parent[p] = r /\ t.type[r] = "leaf" /\ p # r
  <2> DEFINE g == t.parent[p]
  <2>1. g \in NodesOf(t) /\ t.type[g] = "leaf" /\ p # r /\ g \in Node
    BY <1>1 DEF Narrow
  <2>2. HasKid(t, g)
    BY <1>1 DEF HasKid
  <2>3. t.parent[g] = Nil
    BY <2>1, <2>2, KidsCounted
  <2> QED BY <1>1, <2>1, <2>3
<1>3. ~HasTwoKids(t, r)
  BY <1>1, <1>2, KidsCounted
<1>4. \A c \in Node : t.parent[c] = r => c = p
  BY <1>1, <1>2, <1>3 DEF HasTwoKids
<1>5. ASSUME NEW y \in NodesOf(t), y # r, y # p PROVE t.parent[y] = p
  <2>1. y \in Node /\ r \in Up(t.parent, y)
    BY <1>1
  <2>2. PICK c \in Up(t.parent, y) : t.parent[c] = r
    BY <1>1, <1>5, <2>1, OneWay
  <2>3. p \in Up(t.parent, y)
    BY <1>1, <1>4, <2>1, <2>2, UpIs
  <2>4. PICK d \in Up(t.parent, y) : t.parent[d] = p
    BY <1>1, <1>5, <2>1, <2>3, OneWay
  <2>5. d \in Node
    BY <1>1, <2>1, <2>4, UpIs
  <2>6. t.type[d] = "leaf" /\ t.parent[d] # Nil
    BY <1>1, <2>4, <2>5, NodesAssumption DEF Narrow, Node
  <2>7. ~HasKid(t, d)
    BY <2>5, <2>6, KidsCounted
  <2>8. d = y
    <3> SUFFICES ASSUME d # y PROVE FALSE
      OBVIOUS
    <3>1. PICK e \in Up(t.parent, y) : t.parent[e] = d
      BY <1>1, <2>1, <2>4, OneWay
    <3>2. e \in Node
      BY <1>1, <2>1, <3>1, UpIs
    <3> QED BY <2>7, <3>1, <3>2 DEF HasKid
  <2> QED BY <2>4, <2>8
<1>6. /\ LeavesOf(t) = {y \in NodesOf(t) : t.type[y] = "leaf"}
      /\ InnerOf(t) = {y \in NodesOf(t) : t.type[y] # "leaf"}
      /\ IsFiniteSet(LeavesOf(t)) /\ IsFiniteSet(InnerOf(t))
      /\ \A l \in LeavesOf(t) : Len(t.kids[l]) <= (IF l = r THEN 1 ELSE 0)
  BY TreeParts
<1>7. CASE \E l \in NodesOf(t) : l # r /\ l # p
  <2>1. PICK l \in NodesOf(t) : l # r /\ l # p
    BY <1>7
  <2>2. t.parent[l] = p /\ l \in Node
    BY <1>1, <1>5, <2>1
  <2>3. t.type[l] = "leaf"
    BY <2>2 DEF Narrow
  <2>4. NodesOf(t) = {r, p, l}
    BY <1>1, <1>5, <2>1, <2>2 DEF HasTwoKids
  <2>5. Stump(t)
    BY <1>2, <1>6, <2>1, <2>2, <2>3, <2>4 DEF Stump
  <2> QED BY <2>5, StumpIs
<1>8. CASE \A l \in NodesOf(t) : l = r \/ l = p
  <2>1. LeavesOf(t) = {r} /\ InnerOf(t) = {p}
    BY <1>1, <1>2, <1>6, <1>8
  <2>2. n = 1 /\ m = 1
    <3> HIDE DEF r
    <3> QED BY <2>1, FS_Singleton
  <2>3. Len(t.kids[r]) = 1
    <3> DEFINE k == Len(t.kids[r])
    <3>1. HasKid(t, r)
      BY <1>1, <1>2 DEF HasKid
    <3>2. k \in Nat /\ k >= 1 /\ ~(k >= 2)
      BY <1>1, <1>3, <3>1, KidsCounted
    <3> HIDE DEF k
    <3>3. k = 1
      BY <3>2
    <3> QED BY <3>3 DEF k
  <2> DEFINE k == Len(t.kids[r])
  <2>4. k = 1 /\ (n = 0 => m = 1) /\ (n = 1 => m = k) /\ (n = 2 => m = 1) /\ ~(n > 2)
    <3> HIDE DEF n, m, k
    <3> QED BY <2>2, <2>3 DEF k
  <2>5. t.parent[t.root] = Nil /\ t.type[t.root] = "leaf"
    BY <1>1, <1>2
  <2> HIDE DEF r, n, m, k
  <2> QED BY <1>6, <2>4, <2>5 DEF Valid, Proper, r, n, m, k
<1> QED BY <1>7, <1>8

\* Node by node is enough: all trees of a sound forest are valid.
LEMMA SoundIsValid ==
  ASSUME NEW t, Forest(t), t.root \in Tops(t), Sound(t)
  PROVE  ValidButRoot(t)
<1> DEFINE r == t.root
<1>1. /\ r \in NodesOf(t) /\ r \in Node /\ t.parent[r] = Nil
      /\ \A y \in NodesOf(t) : /\ y \in InUse(t) /\ y \in Node
                               /\ t.parent[y] = Nil => y = r
                               /\ Kids(t, y) \subseteq NodesOf(t)
      /\ InnerOf(t) = {y \in NodesOf(t) : t.type[y] # "leaf"}
  BY TreeNodes, TreeParts
<1>2. CASE \A x \in InnerOf(t) : HasTwoKids(t, x)
  <2>1. InnerOf(t) # {}
    <3>1. CASE t.type[r] # "leaf"
      BY <1>1, <3>1
    <3>2. CASE t.type[r] = "leaf"
      <4>1. PICK c \in Node : t.parent[c] = r /\ t.type[c] # "leaf"
        BY <1>1, <3>2 DEF Sound, Crowned
      <4>2. c \in Kids(t, r)
        BY <1>1, <4>1, KidsCounted
      <4> QED BY <1>1, <4>1, <4>2
    <3> QED BY <3>1, <3>2
  <2>2. \A x \in InnerOf(t) : Len(t.kids[x]) >= 2
    BY <1>1, <1>2, KidsCounted
  <2>3. Branching(t)
    BY <2>1, <2>2 DEF Branching
  <2> QED BY <2>3, BranchingIsValid
<1>3. ASSUME NEW x \in InnerOf(t), ~HasTwoKids(t, x) PROVE ValidButRoot(t)
  <2>1. /\ x \in NodesOf(t) /\ t.type[x] # "leaf" /\ x \in InUse(t)
    BY <1>1
  <2>2. CASE Narrow(t, x)
    <3>1. Proper(t)
      BY <1>3, <2>1, <2>2, NarrowTree
    <3> QED BY <3>1 DEF ValidButRoot
  <2>3. CASE t.parent[x] = Nil /\ \A c \in Node : t.parent[c] = x => t.type[c] = "leaf"
    <3>1. x = r
      BY <1>1, <2>1, <2>3
    <3>2. Proper(t)
      BY <1>3, <2>1, <2>3, <3>1, LastInner
    <3> QED BY <3>2 DEF ValidButRoot
  <2> QED BY <1>3, <2>1, <2>2, <2>3 DEF Sound
<1> QED BY <1>2, <1>3

\* A node whose parent and children stay what they are.
LEMMA Untouched ==
  ASSUME NEW t, NEW u, NEW x \in Node, Firm(t, x),
         u.type[x] = "leaf" <=> t.type[x] = "leaf", u.parent[x] = t.parent[x],
         \A c \in Node : u.parent[c] = x <=> t.parent[c] = x,
         \A c \in Node : t.parent[c] = x => (u.type[c] = "leaf" <=> t.type[c] = "leaf"),
         t.parent[x] # Nil => (u.type[t.parent[x]] = "leaf" <=> t.type[t.parent[x]] = "leaf")
  PROVE  Firm(u, x)
<1>1. Crowned(u, x)
  BY DEF Firm, Crowned
<1>2. HasTwoKids(t, x) => HasTwoKids(u, x)
  BY DEF HasTwoKids
<1>3. HasKid(t, x) /\ Narrow(t, x) => HasKid(u, x) /\ Narrow(u, x)
  BY DEF HasKid, Narrow
<1> QED BY <1>1, <1>2, <1>3 DEF Firm

\* A leaf has one child at most, and none below another node.
LEMMA LeafFacts ==
  ASSUME NEW t, Forest(t), NEW x \in Node, NEW c \in Node, t.parent[c] = x, t.type[x] = "leaf"
  PROVE  t.parent[x] = Nil /\ \A d \in Node : t.parent[d] = x => d = c
BY KidsCounted DEF HasKid, HasTwoKids

\* In a grown forest a leaf is not below a leaf.
LEMMA LeafBelowInner ==
  ASSUME NEW t, Forest(t), NEW x \in Node, t.type[x] = "leaf", t.parent[x] # Nil,
         Firm(t, t.parent[x])
  PROVE  t.type[t.parent[x]] # "leaf"
<1> SUFFICES ASSUME t.type[t.parent[x]] = "leaf" PROVE FALSE
  OBVIOUS
<1> DEFINE p == t.parent[x]
<1>1. p \in Node /\ p # Nil
  BY InUseFacts
<1>2. t.parent[p] = Nil /\ \A d \in Node : t.parent[d] = p => d = x
  BY <1>1, LeafFacts
<1> QED BY <1>2 DEF Firm, Crowned

\* New leaves.
LEMMA GrownByLeaves ==
  ASSUME NEW t, Forest(t), NEW p \in InUse(t), t.type[p] # "leaf",
         NEW new \in Seq(Node), Distinct(new), \A x \in ToSet(new) : t.type[x] = "free",
         NEW u, u = AppendLeaves(t, new, p),
         \A x \in InUse(t) : x # p => Firm(t, x),
         NEW a, NEW b, a \in Kids(t, p) \cup ToSet(new), b \in Kids(t, p) \cup ToSet(new), a # b
  PROVE  Grown(u) /\ a \in Kids(u, p) /\ b \in Kids(u, p)
<1> DEFINE N == ToSet(new)
<1> HIDE DEF N
<1>1. /\ Forest(u)
      /\ \A x \in Node : x \notin N => u.parent[x] = t.parent[x] /\ u.type[x] = t.type[x]
      /\ \A x \in N : x \in Node /\ u.parent[x] = p /\ u.type[x] = "leaf"
  BY AppendLeavesIs DEF N
<1>2. \A x \in N : t.type[x] = "free"
  BY DEF N
<1>3. p \in Node /\ p # Nil /\ p \notin N /\ u.type[p] # "leaf"
  BY <1>1, <1>2, InUseFacts DEF InUse
<1>4. \A x \in N : t.parent[x] = Nil
  BY <1>1, <1>2, ForestFacts DEF InUse
<1>5. \A x \in Node : x \in Kids(t, p) <=> t.parent[x] = p
  BY <1>3, KidsCounted
<1>6. a \in Node /\ b \in Node /\ u.parent[a] = p /\ u.parent[b] = p
  <2>1. Kids(t, p) \subseteq Node
    BY <1>3, ForestKids DEF Forest
  <2>2. a \in Kids(t, p) \cup N /\ b \in Kids(t, p) \cup N
    BY DEF N
  <2> QED BY <1>1, <1>3, <1>4, <1>5, <2>1, <2>2
<1>7. Firm(u, p)
  BY <1>3, <1>6 DEF Firm, Crowned, HasTwoKids
<1>8. ASSUME NEW x \in InUse(u), x # p PROVE Firm(u, x)
  <2>1. CASE x \in N
    BY <1>1, <1>3, <2>1 DEF Firm, Crowned
  <2>2. CASE x \notin N
    <3>1. x \in Node /\ u.type[x] = t.type[x] /\ u.parent[x] = t.parent[x]
      BY <1>1, <2>2 DEF InUse
    <3>2. x \in InUse(t) /\ Firm(t, x) /\ x # Nil
      BY <1>8, <3>1, InUseFacts DEF InUse
    <3>3. \A c \in Node : /\ u.parent[c] = x <=> t.parent[c] = x
                          /\ t.parent[c] = x => u.type[c] = t.type[c]
      BY <1>1, <1>4, <1>8, <3>2
    <3>4. t.parent[x] # Nil => u.type[t.parent[x]] = t.type[t.parent[x]]
      BY <1>1, <1>2, <3>1, InUseFacts
    <3> QED BY <3>1, <3>2, <3>3, <3>4, Untouched
  <2> QED BY <2>1, <2>2
<1>9. a \in Kids(u, p) /\ b \in Kids(u, p)
  BY <1>1, <1>3, <1>6, KidsCounted
<1> QED BY <1>7, <1>8, <1>9 DEF Grown

\* A leaf is taken out: its parent is the only node that this concerns.
LEMMA FirmWithoutLeaf ==
  ASSUME NEW t, Forest(t), NEW x \in Node, t.parent[x] # Nil, t.kids[x] = <<>>,
         NEW u, u = DestroyNode(Detach(t, x), x),
         NEW y \in InUse(u), y # t.parent[x], Firm(t, y)
  PROVE  Firm(u, y)
<1>1. /\ u.type[x] = "free" /\ u.parent[x] = Nil
      /\ \A z \in Node : z # x => u.type[z] = t.type[z] /\ u.parent[z] = t.parent[z]
  BY LeafTakenOut
<1>2. y \in Node /\ y # x /\ y # Nil /\ ~HasKid(t, x)
  BY <1>1, InUseFacts, KidsCounted DEF InUse
<1>3. u.type[y] = t.type[y] /\ u.parent[y] = t.parent[y]
  BY <1>1, <1>2
<1>4. \A c \in Node : /\ u.parent[c] = y <=> t.parent[c] = y
                      /\ t.parent[c] = y => u.type[c] = t.type[c]
  BY <1>1, <1>2
<1>5. t.parent[y] # Nil => u.type[t.parent[y]] = t.type[t.parent[y]]
  BY <1>1, <1>2, InUseFacts DEF HasKid
<1> QED BY <1>2, <1>3, <1>4, <1>5, Untouched

\* Nothing of this depends on the child lists or on the root.
LEMMA SameTypesAndParents ==
  ASSUME NEW t, NEW u, u.type = t.type, u.parent = t.parent
  PROVE  /\ InUse(u) = InUse(t)
         /\ \A x : Firm(t, x) => Firm(u, x)
         /\ Sound(t) => Sound(u)
BY DEF InUse, Firm, Sound, Crowned, Narrow, HasKid, HasTwoKids

\* A tree of a forest in order.
LEMMA TreeInIs ==
  ASSUME NEW n, NEW r, InOrder(n, r), NEW T \in Trees, r[T] # Nil, NEW t, t = TreeIn(n, r, T)
  PROVE  /\ Forest(t) /\ t.type = n.type /\ t.parent = n.parent
         /\ t.root = r[T] /\ t.root \in Tops(t)
<1> DEFINE a == AsTree(n)
<1>1. /\ Forest(a) /\ a.type = n.type /\ a.parent = n.parent /\ a.kids = n.kids
      /\ Tops(a) = {r[U] : U \in {V \in Trees : r[V] # Nil}} /\ r[T] \in Node \cup {Nil}
  BY DEF InOrder, AsTree
<1>2. /\ t.type = n.type /\ t.parent = n.parent /\ t.kids = n.kids /\ t.root = r[T]
      /\ t = [type |-> n.type, parent |-> n.parent, kids |-> n.kids, root |-> r[T]]
  BY DEF TreeIn
<1> HIDE DEF a
<1>3. t \in ForestType
  BY <1>1, <1>2 DEF Forest, ForestType
<1>4. Forest(t) /\ Tops(t) = Tops(a)
  BY <1>1, <1>2, <1>3 DEF Forest, Arranged, Kids, Tops, InUse
<1> QED BY <1>1, <1>2, <1>4

\* What ValidityKept presupposes: all trees are valid and have two leaves.
AllValid == \A T \in Existing : ValidButRoot(At(T)) /\ Cardinality(LeavesOf(At(T))) > 1

\* Then the forest is grown.
LEMMA AllValidIsGrown ==
  ASSUME InOrder(nodes, roots), AllValid, NEW V \in Trees
  PROVE  Grown(At(V))
<1> DEFINE t == At(V)
<1>1. /\ t.type = nodes.type /\ t.parent = nodes.parent /\ Forest(t)
      /\ Tops(t) = Tops(AsTree(nodes))
  BY AtIs
<1> HIDE DEF t
<1> SUFFICES ASSUME NEW x \in InUse(t) PROVE Firm(t, x)
  BY DEF Grown, t
<1>2. t.parent \in Parents /\ Acyclic(t.parent) /\ x \in Node
  BY <1>1 DEF Forest, ForestType, InUse
<1>3. PICK y \in Up(t.parent, x) : t.parent[y] = Nil
  BY <1>2, OneTop
<1>4. y \in Tops(t)
  BY <1>1, <1>3, InUseAbove, <1>2 DEF Tops
<1>5. PICK T \in Trees : roots[T] # Nil /\ y = roots[T]
  BY <1>1, <1>4 DEF InOrder
<1> DEFINE s == At(T)
<1>6. /\ Forest(s) /\ s.root = y /\ s.root \in Tops(s) /\ s.type = t.type /\ s.parent = t.parent
      /\ NodesOf(s) = {z \in Node : y \in Up(t.parent, z)} /\ Exists(T)
  BY <1>1, <1>5, AtIs DEF Exists
<1>7. ValidButRoot(s) /\ Cardinality(LeavesOf(s)) > 1
  BY <1>6 DEF AllValid, Existing
<1> HIDE DEF s
<1>8. x \in NodesOf(s)
  BY <1>2, <1>3, <1>6
<1>9. Firm(s, x)
  BY <1>6, <1>7, <1>8, ValidTreeIsGrown
<1> QED BY <1>6, <1>9, SameTypesAndParents

\* The forest is sound after a call: its trees are valid.
LEMMA SoundIsAllValid ==
  ASSUME NEW n, NEW r, InOrder(n, r), NEW u, Sound(u), u.type = n.type, u.parent = n.parent,
         NEW T \in Trees, r[T] # Nil
  PROVE  ValidButRoot(TreeIn(n, r, T))
<1> DEFINE t == TreeIn(n, r, T)
<1>1. /\ Forest(t) /\ t.type = n.type /\ t.parent = n.parent /\ t.root \in Tops(t)
  BY TreeInIs
<1> HIDE DEF t
<1>2. Sound(t)
  BY <1>1, SameTypesAndParents
<1>3. ValidButRoot(t)
  BY <1>1, <1>2, SoundIsValid
<1> QED BY <1>3 DEF t

\* In such a tree of more than two leaves every inner node has two children.
LEMMA WideTree ==
  ASSUME NEW t, Forest(t), t.root \in Tops(t), ValidButRoot(t), Cardinality(LeavesOf(t)) > 2,
         NEW x \in NodesOf(t), t.type[x] # "leaf"
  PROVE  HasTwoKids(t, x)
<1>1. x \in InnerOf(t) /\ x \in Node
  BY TreeParts
<1>2. Len(t.kids[x]) >= 2
  BY <1>1, ManyLeavesBranch DEF Branching
<1> QED BY <1>1, <1>2, KidsCounted

\* The nodes after a call.
LEMMA CallGives ==
  ASSUME NEW T, NEW t, Call(T, t)
  PROVE  nodes'.type = t.type /\ nodes'.parent = t.parent
BY DEF Call

\* Two of the new leaves.
LEMMA TwoNewLeaves ==
  ASSUME InOrder(nodes, roots), NEW k \in Nat, Cardinality(Free(Leaves)) >= k
  PROVE  /\ k > 1 => \E a, b \in ToSet(NewLeaves(k)) : a # b
         /\ k > 0 => \E a \in ToSet(NewLeaves(k)) : TRUE
<1> DEFINE s == NewLeaves(k)
<1>1. s \in Seq(Node) /\ Distinct(s) /\ Len(s) = k
  BY NewLeavesAre
<1> HIDE DEF s
<1>2. ASSUME k > 1 PROVE \E a, b \in ToSet(s) : a # b
  <2>1. 1 \in 1..k /\ 2 \in 1..k /\ DOMAIN s = 1..k
    BY <1>1, <1>2
  <2>2. s[1] # s[2] /\ s[1] \in ToSet(s) /\ s[2] \in ToSet(s)
    BY <1>1, <2>1 DEF Distinct, ToSet
  <2> QED BY <2>2
<1>3. ASSUME k > 0 PROVE \E a \in ToSet(s) : TRUE
  <2>1. 1 \in 1..k /\ DOMAIN s = 1..k
    BY <1>1, <1>3
  <2>2. s[1] \in ToSet(s)
    BY <2>1 DEF ToSet
  <2> QED BY <2>2
<1> QED BY <1>2, <1>3 DEF s

LEMMA NewTreeSound ==
  ASSUME InOrder(nodes, roots), AllValid, NEW T \in Trees, NEW k \in Nat, NewTree(T, k)
  PROVE  \E u : Sound(u) /\ u.type = nodes'.type /\ u.parent = nodes'.parent
<1> DEFINE r   == CHOOSE x \in Free(Inner) : TRUE
           new == NewLeaves(k)
           t0  == [At(T) EXCEPT !.root = r]
           t1  == NewNode(t0, r, "P")
           t2  == AppendLeaves(t1, new, r)
<1>1. /\ Free(Inner) # {} /\ Cardinality(Free(Leaves)) >= k /\ k > 2 /\ Call(T, t2)
  BY DEF NewTree, Exists
<1>2. r \in Inner /\ nodes.type[r] = "free" /\ r \in Node
  <2>1. r \in Free(Inner)
    BY <1>1
  <2> QED BY <2>1 DEF Free, Node
<1>3. Forest(At(T)) /\ At(T).type = nodes.type /\ At(T).parent = nodes.parent
  BY AtIs
<1>4. /\ new \in Seq(Node) /\ Distinct(new)
      /\ \A x \in ToSet(new) : nodes.type[x] = "free" /\ x \in Leaves /\ x # r
  BY <1>1, <1>2, NewLeavesAre, NodesAssumption
<1>5. /\ Forest(t0) /\ t0.type = nodes.type /\ t0.parent = nodes.parent
  <2> HIDE DEF r
  <2> QED BY <1>2, <1>3, RootedIs
<1>6. PICK a, b \in ToSet(new) : a # b
  BY <1>1, TwoNewLeaves
<1> DEFINE P == "P"
<1>7. t1 = NewNode(t0, r, P) /\ t2 = AppendLeaves(t1, new, r) /\ P \in {"P", "C"} /\ P # "leaf" /\ P # "free"
  OBVIOUS
<1>20. Grown(At(T))
  BY AllValidIsGrown
<1> HIDE DEF t0, t1, t2, r, new, P
<1>8. t0.type[r] = "free" /\ r \notin InUse(At(T))
  BY <1>2, <1>3, <1>5 DEF InUse
<1>9. /\ Forest(t1) /\ t1.parent = t0.parent
      /\ t1.type[r] = P /\ \A y \in Node : y # r => t1.type[y] = t0.type[y]
  BY <1>2, <1>5, <1>7, <1>8, NewNodeIs
<1>10. t1.type[r] # "leaf" /\ r \in InUse(t1) /\ \A x \in ToSet(new) : t1.type[x] = "free"
  <2>1. ToSet(new) \subseteq Node
    BY <1>4 DEF Node
  <2> QED BY <1>2, <1>4, <1>5, <1>7, <1>9, <2>1 DEF InUse
<1>11. ASSUME NEW x \in InUse(t1), x # r PROVE Firm(t1, x)
  <2>1. /\ x \in Node /\ x \in InUse(At(T)) /\ t1.type[x] = At(T).type[x]
        /\ t1.parent = At(T).parent
    BY <1>3, <1>5, <1>9, <1>11 DEF InUse
  <2>2. At(T).parent[r] = Nil /\ \A c \in Node : At(T).parent[c] # r
    BY <1>2, <1>3, <1>8, InUseFacts
  <2>3. x # Nil
    BY <1>3, <2>1, InUseFacts
  <2>4. \A c \in Node : At(T).parent[c] = x => t1.type[c] = At(T).type[c]
    BY <1>3, <1>5, <1>9, <2>2, <2>3
  <2>5. At(T).parent[x] # Nil => t1.type[At(T).parent[x]] = At(T).type[At(T).parent[x]]
    BY <1>3, <1>5, <1>9, <2>1, <2>2, InUseFacts
  <2>6. Firm(At(T), x)
    BY <1>20, <2>1 DEF Grown
  <2> QED BY <2>1, <2>4, <2>5, <2>6, Untouched
<1>12. Grown(t2)
  BY <1>4, <1>6, <1>7, <1>9, <1>10, <1>11, GrownByLeaves
<1> QED BY <1>1, <1>12, CallGives, GrownIsSound

(***************************************************************************)
(* New leaves, new types, and leaves in place of a leaf.                   *)
(***************************************************************************)
LEMMA InsertLeavesSound ==
  ASSUME InOrder(nodes, roots), AllValid, NEW T \in Trees, NEW k \in Nat, k > 0, NEW p,
         InsertLeaves(T, p, k)
  PROVE  \E u : Sound(u) /\ u.type = nodes'.type /\ u.parent = nodes'.parent
<1> DEFINE new == NewLeaves(k)
           t == At(T)
           u == AppendLeaves(t, new, p)
<1>1. /\ Exists(T) /\ p \in NodesOf(t) /\ t.type[p] # "leaf"
      /\ Cardinality(Free(Leaves)) >= k /\ Call(T, u)
  BY DEF InsertLeaves, InnerOf, LeavesOf
<1>2. /\ Forest(t) /\ t.type = nodes.type /\ p \in InUse(t) /\ p \in Node
  BY <1>1, AtIs, NodeOfTree
<1>3. new \in Seq(Node) /\ Distinct(new) /\ \A x \in ToSet(new) : nodes.type[x] = "free" /\ x \in Leaves
  BY <1>1, NewLeavesAre
<1>4. PICK b \in ToSet(new) : TRUE
  BY <1>1, TwoNewLeaves
<1>5. Grown(t)
  BY AllValidIsGrown
<1>6. u = AppendLeaves(t, new, p)
  OBVIOUS
<1> HIDE DEF t, u, new
<1>7. PICK a \in Node : t.parent[a] = p
  BY <1>1, <1>2, <1>5 DEF Grown, Firm, HasKid, HasTwoKids
<1>8. a \in Kids(t, p) /\ a \in InUse(t)
  BY <1>2, <1>7, KidsCounted, InUseFacts
<1>9. \A x \in ToSet(new) : t.type[x] = "free"
  BY <1>2, <1>3
<1>10. a # b
  BY <1>4, <1>8, <1>9 DEF InUse
<1>11. Grown(u)
  <2>1. \A x \in InUse(t) : x # p => Firm(t, x)
    BY <1>5 DEF Grown
  <2> QED BY <1>1, <1>2, <1>3, <1>4, <1>6, <1>8, <1>9, <1>10, <2>1, GrownByLeaves
<1> QED BY <1>1, <1>11, CallGives, GrownIsSound

\* A node gets another type.
Retyped(t, x, type) == [t EXCEPT !.type[x] = type]

LEMMA RetypedGives ==
  ASSUME NEW t, Forest(t), NEW x \in InUse(t), NEW type, type \in {"P", "C"},
         NEW u, u = Retyped(t, x, type)
  PROVE  /\ Forest(u) /\ u.parent = t.parent /\ u.kids = t.kids /\ u.root = t.root
         /\ u.type[x] # "leaf" /\ InUse(u) = InUse(t)
         /\ \A y \in Node : y # x => u.type[y] = t.type[y]
<1>1. u = [t EXCEPT !.type[x] = type]
  BY DEF Retyped
<1>2. /\ Forest(u) /\ u.root = t.root /\ u.parent = t.parent /\ u.kids = t.kids
      /\ u.type[x] = type /\ \A y \in Node : y # x => u.type[y] = t.type[y]
      /\ Tops(u) = Tops(t) /\ InUse(u) = InUse(t)
  BY <1>1, RetypedIs
<1> QED BY ONLY <1>2, type \in {"P", "C"}

\* Which kind of inner node a node is does not matter.
LEMMA SameLeaves ==
  ASSUME NEW t, Forest(t), NEW u, u.parent = t.parent, InUse(u) = InUse(t),
         \A y \in Node : u.type[y] = "leaf" <=> t.type[y] = "leaf", Grown(t)
  PROVE  Grown(u)
<1> SUFFICES ASSUME NEW y \in InUse(t) PROVE Firm(u, y)
  BY DEF Grown
<1>1. /\ y \in Node /\ Firm(t, y) /\ (t.parent[y] # Nil => t.parent[y] \in Node)
  BY InUseFacts DEF Grown, InUse
<1>2. /\ u.type[y] = "leaf" <=> t.type[y] = "leaf"
      /\ u.parent[y] = t.parent[y]
      /\ \A c \in Node : u.parent[c] = y <=> t.parent[c] = y
      /\ \A c \in Node : t.parent[c] = y => (u.type[c] = "leaf" <=> t.type[c] = "leaf")
      /\ t.parent[y] # Nil => (u.type[t.parent[y]] = "leaf" <=> t.type[t.parent[y]] = "leaf")
  BY <1>1
<1> QED BY <1>1, <1>2, Untouched

\* A node that is no leaf gets another type: all trees stay as valid as they are.
LEMMA RetypedGrown ==
  ASSUME NEW t, Forest(t), NEW x \in InUse(t), t.type[x] # "leaf", NEW type, type \in {"P", "C"},
         NEW u, u = Retyped(t, x, type), Grown(t)
  PROVE  Grown(u)
<1>1. /\ u.parent = t.parent /\ u.type[x] # "leaf" /\ \A y \in Node : y # x => u.type[y] = t.type[y]
      /\ InUse(u) = InUse(t)
  BY RetypedGives
<1>2. \A y \in Node : u.type[y] = "leaf" <=> t.type[y] = "leaf"
  BY <1>1
<1> QED BY <1>1, <1>2, SameLeaves

LEMMA ChangeTypeSound ==
  ASSUME InOrder(nodes, roots), AllValid, NEW T \in Trees, NEW x, NEW newType \in {"P", "C"},
         ChangeNodeType(T, x, newType)
  PROVE  \E u : Sound(u) /\ u.type = nodes'.type /\ u.parent = nodes'.parent
<1> DEFINE t == At(T)
           u == Retyped(t, x, newType)
<1>1. Exists(T) /\ x \in NodesOf(t) /\ t.type[x] # "leaf" /\ Call(T, u)
  BY DEF ChangeNodeType, InnerOf, LeavesOf, Retyped
<1>2. Forest(t) /\ x \in InUse(t) /\ Grown(t)
  BY <1>1, AtIs, NodeOfTree, AllValidIsGrown
<1>3. u = Retyped(t, x, newType) /\ newType \in {"P", "C"}
  OBVIOUS
<1> HIDE DEF t, u
<1>4. Grown(u)
  BY <1>1, <1>2, <1>3, RetypedGrown
<1> QED BY <1>1, <1>4, CallGives, GrownIsSound

\* A leaf of a large tree becomes an inner node.
LEMMA ReplacedInLargeTree ==
  ASSUME NEW t, Forest(t), t.root \in Tops(t), ValidButRoot(t), Cardinality(LeavesOf(t)) > 2, Grown(t),
         NEW leaf \in NodesOf(t), t.type[leaf] = "leaf",
         NEW v, v.parent = t.parent, \A y \in Node : y # leaf => v.type[y] = t.type[y],
         NEW x \in InUse(t), x # leaf
  PROVE  Firm(v, x)
<1>1. leaf \in InUse(t) /\ leaf \in Node /\ \A y \in NodesOf(t) : t.type[y] # "leaf" => HasTwoKids(t, y)
  BY TreeNodes, WideTree
<1>3. x \in Node /\ Firm(t, x) /\ v.type[x] = t.type[x] /\ x # Nil
  BY InUseFacts DEF Grown, InUse
<1>4. Crowned(v, x)
  <2>1. ASSUME t.type[x] = "leaf", t.parent[x] = Nil
        PROVE  \E c \in Node : v.parent[c] = x /\ v.type[c] # "leaf"
    <3>1. PICK c \in Node : t.parent[c] = x /\ t.type[c] # "leaf"
      BY <1>3, <2>1 DEF Firm, Crowned
    <3> QED BY <3>1
  <2> QED BY <1>3, <2>1 DEF Crowned
<1>5. HasTwoKids(t, x) => HasTwoKids(v, x)
  BY DEF HasTwoKids
<1>6. ASSUME t.type[x] # "leaf", ~HasTwoKids(t, x), Narrow(t, x)
      PROVE  HasKid(v, x) /\ Narrow(v, x)
  <2>1. x \notin NodesOf(t)
    BY <1>1, <1>6
  <2>2. \A y \in NodesOf(t) : t.parent[y] = x => FALSE
    <3> SUFFICES ASSUME NEW y \in NodesOf(t), t.parent[y] = x PROVE FALSE
      OBVIOUS
    <3>1. y # t.root
      BY <1>3 DEF Tops
    <3> QED BY <2>1, <3>1, TreeNodes
  <2>3. t.parent[x] # leaf
    <3> SUFFICES ASSUME t.parent[x] = leaf PROVE FALSE
      OBVIOUS
    <3>1. NodesOf(t) = {y \in Node : t.root \in Up(t.parent, y)} /\ t.parent \in Parents
      BY TreeNodes DEF Forest, ForestType
    <3>2. Up(t.parent, leaf) \subseteq Up(t.parent, x)
      BY <1>1, <1>3, <3>1, UpIs, InUseFacts
    <3> QED BY <1>3, <2>1, <3>1, <3>2
  <2>4. t.parent[x] \in Node
    BY <1>3, <1>6, InUseFacts DEF Narrow
  <2>5. \A c \in Node : t.parent[c] = x => c # leaf
    BY <2>2
  <2>6. Narrow(v, x)
    BY <1>6, <2>3, <2>4, <2>5 DEF Narrow
  <2> QED BY <1>3, <1>6, <2>6 DEF Firm, HasKid
<1> QED BY <1>3, <1>4, <1>5, <1>6 DEF Firm

\* Then the new leaves come below it.
LEMMA LargeTreeReplaced ==
  ASSUME NEW t, Forest(t), t.root \in Tops(t), ValidButRoot(t), Cardinality(LeavesOf(t)) > 2, Grown(t),
         NEW leaf \in NodesOf(t), t.type[leaf] = "leaf", NEW type, type \in {"P", "C"},
         NEW new \in Seq(Node), Distinct(new), \A x \in ToSet(new) : t.type[x] = "free",
         NEW a \in ToSet(new), NEW b \in ToSet(new), a # b,
         NEW v, v = Retyped(t, leaf, type), NEW u, u = AppendLeaves(v, new, leaf)
  PROVE  Grown(u)
<1>2. leaf \in InUse(t) /\ ToSet(new) \subseteq Node
  BY TreeNodes DEF ToSet
<1>3. /\ Forest(v) /\ InUse(v) = InUse(t) /\ v.parent = t.parent
      /\ v.type[leaf] # "leaf" /\ \A y \in Node : y # leaf => v.type[y] = t.type[y]
  BY <1>2, RetypedGives
<1>4. /\ leaf \in InUse(v) /\ v.type[leaf] # "leaf"
      /\ \A x \in ToSet(new) : v.type[x] = "free"
  BY <1>2, <1>3
<1>5. \A x \in InUse(v) : x # leaf => Firm(v, x)
  BY <1>3, ReplacedInLargeTree
<1> QED BY <1>3, <1>4, <1>5, GrownByLeaves

\* In a small tree the parent of the leaf gets the new leaves.
LEMMA SmallTreeReplaced ==
  ASSUME NEW t, Forest(t), Grown(t), NEW leaf \in Node, t.type[leaf] = "leaf",
         NEW p, p = t.parent[leaf], p # Nil, NEW type, type \in {"P", "C"},
         NEW new \in Seq(Node), Distinct(new), \A x \in ToSet(new) : t.type[x] = "free",
         NEW a \in ToSet(new), NEW b \in ToSet(new), a # b,
         NEW v, v = Retyped(t, p, type), NEW w, w = AppendLeaves(v, new, p),
         NEW u, u = DestroyNode(Detach(w, leaf), leaf)
  PROVE  Grown(u)
<1>2. /\ p \in InUse(t) /\ p \in Node /\ p # leaf /\ leaf \notin ToSet(new)
      /\ ToSet(new) \subseteq Node /\ t.kids[leaf] = <<>>
  BY InUseFacts, KidsCounted DEF ToSet
<1>3. t.type[p] # "leaf"
  BY <1>2, LeafBelowInner DEF Grown
<1>4. Grown(v)
  BY <1>2, <1>3, RetypedGrown
<1>5. /\ Forest(v) /\ InUse(v) = InUse(t) /\ v.parent = t.parent /\ v.kids = t.kids
      /\ v.type[p] # "leaf" /\ \A y \in Node : y # p => v.type[y] = t.type[y]
  BY <1>2, RetypedGives
<1>6. /\ p \in InUse(v) /\ v.type[p] # "leaf"
      /\ \A x \in ToSet(new) : v.type[x] = "free"
  BY <1>2, <1>5 DEF InUse
<1>7. Grown(w) /\ a \in Kids(w, p) /\ b \in Kids(w, p)
  <2>1. \A x \in InUse(v) : x # p => Firm(v, x)
    BY <1>4 DEF Grown
  <2> QED BY <1>5, <1>6, <2>1, GrownByLeaves
<1>8. /\ Forest(w) /\ \A x \in Node : /\ x \notin ToSet(new) => w.parent[x] = v.parent[x]
                                      /\ x \notin ToSet(new) => w.type[x] = v.type[x]
                                      /\ x # p => w.kids[x] = v.kids[x]
  BY <1>5, <1>6, AppendLeavesIs
<1>9. w.parent[leaf] = p /\ w.kids[leaf] = <<>> /\ p \notin ToSet(new)
  BY <1>2, <1>5, <1>6, <1>8 DEF InUse
<1>10. /\ u.type[leaf] = "free"
       /\ \A z \in Node : z # leaf => u.type[z] = w.type[z] /\ u.parent[z] = w.parent[z]
  <2>1. Forest(w) /\ leaf \in Node /\ w.parent[leaf] # Nil /\ w.kids[leaf] = <<>>
    BY <1>2, <1>8, <1>9, InUseFacts
  <2>2. u = DestroyNode(Detach(w, leaf), leaf)
    OBVIOUS
  <2> QED BY ONLY <2>1, <2>2, LeafTakenOut
<1>11. ASSUME NEW y \in InUse(u), y # p PROVE Firm(u, y)
  <2>1. y \in InUse(w)
    BY <1>10 DEF InUse
  <2>2. Firm(w, y)
    BY <1>7, <2>1 DEF Grown
  <2> QED BY <1>8, <1>9, <1>11, <2>2, FirmWithoutLeaf
<1>12. Firm(u, p)
  <2>1. u.type[p] # "leaf"
    BY <1>2, <1>6, <1>8, <1>9, <1>10
  <2>2. a \in Node /\ b \in Node /\ w.parent[a] = p /\ w.parent[b] = p
    BY <1>2, <1>7, <1>8, KidsCounted
  <2>3. u.parent[a] = p /\ u.parent[b] = p
    BY <1>2, <1>10, <2>2
  <2> QED BY <2>1, <2>2, <2>3 DEF Firm, Crowned, HasTwoKids
<1> QED BY <1>11, <1>12 DEF Grown

LEMMA ReplaceLeafSound ==
  ASSUME InOrder(nodes, roots), AllValid, NEW T \in Trees, NEW k \in Nat, NEW leaf,
         ReplaceLeaf(T, leaf, k)
  PROVE  \E u : Sound(u) /\ u.type = nodes'.type /\ u.parent = nodes'.parent
<1> DEFINE new == NewLeaves(k)
           t == At(T)
           u == ReplacedLeaf(t, leaf, new)
           small == Cardinality(LeavesOf(t)) <= 2
           P == "P"
           p == t.parent[leaf]
           v == Retyped(t, leaf, P)
           vp == Retyped(t, p, P)
           w == AppendLeaves(vp, new, p)
<1>1. /\ Exists(T) /\ leaf \in NodesOf(t) /\ t.type[leaf] = "leaf"
      /\ small => t.parent[leaf] # Nil
      /\ Cardinality(Free(Leaves)) >= k /\ Call(T, u) /\ k > 1
  BY AtIs DEF ReplaceLeaf, LeavesOf
<1>2. /\ new \in Seq(Node) /\ Distinct(new)
      /\ \A x \in ToSet(new) : nodes.type[x] = "free" /\ x \in Leaves
  BY <1>1, NewLeavesAre
<1>3. PICK a, b \in ToSet(new) : a # b
  BY <1>1, TwoNewLeaves
<1>4. P \in {"P", "C"}
  OBVIOUS
<1>5. /\ small => u = DestroyNode(Detach(w, leaf), leaf)
      /\ ~small => u = AppendLeaves(v, new, leaf)
      /\ w = AppendLeaves(vp, new, p) /\ v = Retyped(t, leaf, P) /\ vp = Retyped(t, p, P)
  BY DEF ReplacedLeaf, Retyped
<1>6. /\ Forest(t) /\ t.root = roots[T] /\ t.root \in Tops(t)
      /\ t.type = nodes.type /\ leaf \in Node
  BY <1>1, AtIs, NodeOfTree
<1>7. Grown(t)
  BY AllValidIsGrown
<1>8. ValidButRoot(t) /\ Cardinality(LeavesOf(t)) \in Nat
  BY <1>1, <1>6, TreeParts, FS_CardinalityType DEF AllValid, Existing
<1>9. ~small => Cardinality(LeavesOf(t)) > 2
  BY <1>8
<1>10. \A x \in ToSet(new) : t.type[x] = "free"
  BY <1>2, <1>6
<1> HIDE DEF t, u, new, small, P, w, v, vp
<1>11. CASE ~small
  <2>1. u = AppendLeaves(v, new, leaf) /\ v = Retyped(t, leaf, P)
    BY <1>5, <1>11
  <2>2. Grown(u)
    BY <1>1, <1>2, <1>3, <1>4, <1>6, <1>7, <1>8, <1>9, <1>10, <1>11, <2>1, LargeTreeReplaced
  <2> QED BY <1>1, <2>2, CallGives, GrownIsSound
<1>12. CASE small
  <2>1. p = t.parent[leaf] /\ p # Nil /\ u = DestroyNode(Detach(w, leaf), leaf)
        /\ w = AppendLeaves(vp, new, p) /\ vp = Retyped(t, p, P)
    BY <1>1, <1>5, <1>12
  <2> HIDE DEF p
  <2>2. /\ Forest(t) /\ Grown(t) /\ leaf \in Node /\ t.type[leaf] = "leaf"
        /\ new \in Seq(Node) /\ Distinct(new) /\ \A x \in ToSet(new) : t.type[x] = "free"
        /\ a \in ToSet(new) /\ b \in ToSet(new) /\ a # b
    BY <1>1, <1>2, <1>3, <1>6, <1>7, <1>10
  <2>3. Grown(u)
    BY ONLY <1>4, <2>1, <2>2, SmallTreeReplaced
  <2> QED BY <1>1, <2>3, CallGives, GrownIsSound
<1> QED BY <1>11, <1>12

(***************************************************************************)
(* destroyLeaf.                                                            *)
(***************************************************************************)
\* The kid b comes for the kid a.
LEMMA KidSwapped ==
  ASSUME NEW v, NEW u, NEW x, NEW a, NEW b \in Node, v.parent[b] # x, u.parent[b] = x,
         \A d \in Node : v.parent[d] = x /\ d # a => u.parent[d] = x, HasTwoKids(v, x)
  PROVE  HasTwoKids(u, x)
<1>1. PICK c \in Node, d \in Node : c # d /\ v.parent[c] = x /\ v.parent[d] = x
  BY DEF HasTwoKids
<1>2. c # b /\ d # b
  BY <1>1
<1>3. CASE c # a /\ d # a
  BY <1>1, <1>3 DEF HasTwoKids
<1>4. CASE c = a
  <2>1. u.parent[d] = x
    BY <1>1, <1>4
  <2> QED BY <1>2, <2>1 DEF HasTwoKids
<1>5. CASE d = a
  <2>1. u.parent[c] = x
    BY <1>1, <1>5
  <2> QED BY <1>2, <2>1 DEF HasTwoKids
<1> QED BY <1>3, <1>4, <1>5

\* The only child c of p takes its place.
LEMMA OnlyChildUp ==
  ASSUME NEW v, Forest(v), NEW p \in Node, v.type[p] # "leaf",
         NEW c \in Node, \A d \in Node : v.parent[d] = p <=> d = c,
         \A y \in InUse(v) : y # p => Firm(v, y),
         v.parent[p] = Nil => v.type[c] # "leaf",
         v.parent[p] # Nil /\ v.type[v.parent[p]] = "leaf" => v.type[c] # "leaf",
         NEW u, u.type[p] = "free", u.parent[p] = Nil, u.parent[c] = v.parent[p],
         \A y \in Node : /\ y # p => u.type[y] = v.type[y]
                         /\ y # p /\ y # c => u.parent[y] = v.parent[y]
  PROVE  Grown(u)
<1> DEFINE g == v.parent[p]
<1>1. /\ v.parent[c] = p /\ p # Nil /\ c # p /\ g # c /\ g # p /\ c # Nil
      /\ g # Nil => g \in Node
  BY InUseFacts
<1>2. ASSUME NEW x \in Node, x # p, HasTwoKids(v, x) PROVE HasTwoKids(u, x)
  <2>1. /\ v.parent[c] # x
        /\ \A d \in Node : v.parent[d] = x /\ d # p => u.parent[d] = x
    BY <1>1, <1>2
  <2>2. CASE v.parent[p] = x
    <3>1. u.parent[c] = x
      BY <2>2
    <3> QED BY <1>2, <2>1, <3>1, KidSwapped
  <2>3. CASE v.parent[p] # x
    BY <1>2, <2>1, <2>3 DEF HasTwoKids
  <2> QED BY <2>2, <2>3
<1>3. ASSUME NEW x \in InUse(u) PROVE Firm(u, x)
  <2>1. x \in Node /\ x # p /\ x # Nil /\ u.type[x] = v.type[x] /\ x \in InUse(v) /\ Firm(v, x)
    BY InUseFacts DEF InUse
  <2>2. CASE x = c
    <3>1. ~Narrow(v, c)
      BY <1>1 DEF Narrow
    <3>2. v.type[c] # "leaf" => HasTwoKids(u, c)
      BY <1>2, <2>1, <2>2, <3>1 DEF Firm
    <3> QED BY <1>1, <2>1, <2>2, <3>2 DEF Firm, Crowned
  <2>3. CASE x = g
    <3>1. v.parent[p] = x /\ u.parent[c] = x /\ u.type[c] = v.type[c]
      BY <1>1, <2>3
    <3>2. ~Narrow(v, x)
      BY <3>1 DEF Narrow
    <3>3. v.type[x] # "leaf" => HasTwoKids(u, x)
      BY <1>2, <2>1, <3>2 DEF Firm
    <3>4. v.type[x] = "leaf" => v.type[c] # "leaf"
      BY <2>1, <3>1
    <3> QED BY <2>1, <3>1, <3>3, <3>4 DEF Firm, Crowned
  <2>4. CASE x # c /\ x # g
    <3>1. u.parent[x] = v.parent[x] /\ v.parent[x] # p
      BY <2>1, <2>4
    <3>2. \A d \in Node : u.parent[d] = x <=> v.parent[d] = x
      BY <1>1, <2>1, <2>4
    <3>3. \A d \in Node : v.parent[d] = x => u.type[d] = v.type[d]
      BY <2>4
    <3>4. v.parent[x] # Nil => u.type[v.parent[x]] = v.type[v.parent[x]]
      BY <2>1, <3>1, InUseFacts
    <3> QED BY <2>1, <3>1, <3>2, <3>3, <3>4, Untouched
  <2> QED BY <2>2, <2>3, <2>4
<1> QED BY <1>3 DEF Grown

\* Where p stays, it is at the root or between two leaves, or has children.
LEMMA ParentStays ==
  ASSUME NEW v, NEW p, \A y \in InUse(v) : y # p => Firm(v, y), v.type[p] # "leaf",
         \/ HasTwoKids(v, p) \/ Narrow(v, p)
         \/ v.parent[p] = Nil /\ \A d \in Node : v.parent[d] = p => v.type[d] = "leaf"
  PROVE  Sound(v)
BY DEF Sound, Firm, Crowned

\* The cases of WithoutSmallNode.
LEMMA SmallNodeCases ==
  ASSUME NEW v, Forest(v), v.root \in Tops(v), NEW p \in Node,
         v.type[v.root] = "leaf" /\ p # v.root => HasKid(v, v.root),
         NEW u, u = WithoutSmallNode(v, p)
  PROVE  \/ ~HasKid(v, p) /\ u = v
         \/ HasTwoKids(v, p) /\ u = v
         \/ \E c \in Node :
              /\ Len(v.kids[p]) = 1 /\ c \in Kids(v, p)
              /\ \A d \in Node : v.parent[d] = p <=> d = c
              /\ \/ /\ v.type[v.root] = "leaf" /\ v.type[c] = "leaf" /\ v.parent[p] = v.root
                    /\ u = v
                 \/ /\ p # v.root /\ u = GiveWay(v, p, c)
                    /\ ~(v.type[v.root] = "leaf" /\ v.type[c] = "leaf" /\ v.parent[p] = v.root)
                 \/ p = v.root /\ v.type[c] = "leaf" /\ u = v
                 \/ p = v.root /\ v.type[c] # "leaf" /\ u = RootGivesWay(v, c)
<1> DEFINE c == Head(v.kids[p])
           h == Head(v.kids[v.root])
           n == Len(v.kids[p])
<1>1. /\ n # 1 => u = v
      /\ n = 1 /\ p # v.root /\ v.type[v.root] = "leaf" /\ v.type[c] = "leaf" /\ h = p => u = v
      /\ n = 1 /\ p # v.root /\ ~(v.type[v.root] = "leaf" /\ v.type[c] = "leaf" /\ h = p)
           => u = GiveWay(v, p, c)
      /\ n = 1 /\ p = v.root /\ v.type[c] = "leaf" => u = v
      /\ n = 1 /\ p = v.root /\ v.type[c] # "leaf" => u = RootGivesWay(v, c)
  BY DEF WithoutSmallNode
<1>2. /\ n \in Nat /\ Kids(v, p) = {d \in Node : v.parent[d] = p}
      /\ HasTwoKids(v, p) <=> n >= 2
      /\ HasKid(v, p) <=> n >= 1
  BY KidsCounted
<1>3. n = 1 => \E a \in Node : a = c /\ Kids(v, p) = {a}
  BY KidsCounted
<1>4. v.root \in Node
  BY DEF Tops, InUse
<1>5. v.type[v.root] = "leaf" /\ p # v.root => (h = p <=> v.parent[p] = v.root)
  <2> SUFFICES ASSUME v.type[v.root] = "leaf", p # v.root PROVE h = p <=> v.parent[p] = v.root
    OBVIOUS
  <2> DEFINE m == Len(v.kids[v.root])
  <2>1. m \in Nat /\ m >= 1 /\ ~(m >= 2)
    BY <1>4, KidsCounted
  <2> HIDE DEF m
  <2>2. m = 1
    BY <2>1
  <2>3. \E a \in Node : a = h /\ Kids(v, v.root) = {a}
    BY <1>4, <2>2, KidsCounted DEF m
  <2>4. Kids(v, v.root) = {d \in Node : v.parent[d] = v.root}
    BY <1>4, KidsCounted
  <2> HIDE DEF h
  <2> QED BY <2>3, <2>4
<1> HIDE DEF c, h, n
<1>6. CASE n # 1
  <2>1. n >= 2 \/ ~(n >= 1)
    BY <1>2, <1>6
  <2>2. u = v
    BY <1>1, <1>6
  <2>3. HasTwoKids(v, p) \/ ~HasKid(v, p)
    BY <1>2, <2>1
  <2> QED BY <2>2, <2>3
<1>7. CASE n = 1
  <2>1. c \in Node /\ c \in Kids(v, p) /\ \A d \in Node : v.parent[d] = p <=> d = c
    BY <1>2, <1>3, <1>7
  <2>2. Len(v.kids[p]) = 1
    BY <1>7 DEF n
  <2>3. v.parent[v.root] = Nil /\ v.root # Nil
    BY <1>4, InUseFacts DEF Tops
  <2>4. \/ /\ v.type[v.root] = "leaf" /\ v.type[c] = "leaf" /\ v.parent[p] = v.root
           /\ u = v
        \/ /\ p # v.root /\ u = GiveWay(v, p, c)
           /\ ~(v.type[v.root] = "leaf" /\ v.type[c] = "leaf" /\ v.parent[p] = v.root)
        \/ p = v.root /\ v.type[c] = "leaf" /\ u = v
        \/ p = v.root /\ v.type[c] # "leaf" /\ u = RootGivesWay(v, c)
    BY <1>1, <1>5, <1>7, <2>3
  <2> QED BY <2>1, <2>2, <2>4
<1> QED BY <1>6, <1>7

\* What destroyLeaf does to the parent p of the leaf that is gone.
LEMMA SmallNodeSound ==
  ASSUME NEW v, Forest(v), v.root \in Tops(v), NEW p \in Node, v.type[p] # "leaf",
         p # v.root => v.parent[p] # Nil,
         v.parent[p] # Nil /\ v.type[v.parent[p]] = "leaf" => v.parent[p] = v.root,
         \A y \in InUse(v) : y # p => Firm(v, y),
         HasKid(v, p) \/ Narrow(v, p),
         NEW u, u = WithoutSmallNode(v, p)
  PROVE  Sound(u)
<1>1. v.root \in InUse(v) /\ v.parent[v.root] = Nil /\ v.root # Nil
  BY InUseFacts DEF Tops, InUse
<1>2. v.type[v.root] = "leaf" /\ p # v.root => HasKid(v, v.root)
  BY <1>1 DEF Firm, Crowned, HasKid
<1>3. ASSUME u = v, \/ HasTwoKids(v, p) \/ Narrow(v, p)
                    \/ v.parent[p] = Nil /\ \A d \in Node : v.parent[d] = p => v.type[d] = "leaf"
      PROVE  Sound(u)
  BY <1>3, ParentStays
<1>4. ASSUME NEW c \in Node, Len(v.kids[p]) = 1, c \in Kids(v, p),
             \A d \in Node : v.parent[d] = p <=> d = c,
             p # v.root, u = GiveWay(v, p, c),
             ~(v.type[v.root] = "leaf" /\ v.type[c] = "leaf" /\ v.parent[p] = v.root)
      PROVE  Sound(u)
  <2>1. /\ u.type[p] = "free" /\ u.parent[p] = Nil /\ u.parent[c] = v.parent[p]
        /\ \A y \in Node : /\ y # p => u.type[y] = v.type[y]
                           /\ y # p /\ y # c => u.parent[y] = v.parent[y]
    BY <1>4, GiveWayIs
  <2>2. /\ v.parent[p] = Nil => v.type[c] # "leaf"
        /\ v.parent[p] # Nil /\ v.type[v.parent[p]] = "leaf" => v.type[c] # "leaf"
    BY <1>4
  <2>3. Grown(u)
    BY <1>4, <2>1, <2>2, OnlyChildUp
  <2> QED BY <2>3, GrownIsSound
<1>5. ASSUME NEW c \in Node, Len(v.kids[p]) = 1, c \in Kids(v, p),
             \A d \in Node : v.parent[d] = p <=> d = c,
             p = v.root, v.type[c] # "leaf", u = RootGivesWay(v, c)
      PROVE  Sound(u)
  <2>1. /\ u.type[p] = "free" /\ u.parent[c] = Nil
        /\ \A y \in Node : /\ y # p => u.type[y] = v.type[y]
                           /\ y # c => u.parent[y] = v.parent[y]
    BY <1>5, RootGivesWayIs
  <2>2. c # p
    BY <1>1, <1>5
  <2>3. /\ u.parent[p] = Nil /\ u.parent[c] = v.parent[p]
        /\ v.parent[p] = Nil => v.type[c] # "leaf"
        /\ v.parent[p] # Nil /\ v.type[v.parent[p]] = "leaf" => v.type[c] # "leaf"
        /\ \A y \in Node : /\ y # p => u.type[y] = v.type[y]
                           /\ y # p /\ y # c => u.parent[y] = v.parent[y]
        /\ c \in Node /\ \A d \in Node : v.parent[d] = p <=> d = c
    BY <1>1, <1>5, <2>1, <2>2
  <2>4. Grown(u)
    BY <2>1, <2>3, OnlyChildUp
  <2> QED BY <2>4, GrownIsSound
<1>6. \/ ~HasKid(v, p) /\ u = v
      \/ HasTwoKids(v, p) /\ u = v
      \/ \E c \in Node :
           /\ Len(v.kids[p]) = 1 /\ c \in Kids(v, p)
           /\ \A d \in Node : v.parent[d] = p <=> d = c
           /\ \/ /\ v.type[v.root] = "leaf" /\ v.type[c] = "leaf" /\ v.parent[p] = v.root
                 /\ u = v
              \/ /\ p # v.root /\ u = GiveWay(v, p, c)
                 /\ ~(v.type[v.root] = "leaf" /\ v.type[c] = "leaf" /\ v.parent[p] = v.root)
              \/ p = v.root /\ v.type[c] = "leaf" /\ u = v
              \/ p = v.root /\ v.type[c] # "leaf" /\ u = RootGivesWay(v, c)
  BY <1>2, SmallNodeCases
<1>7. CASE ~HasKid(v, p) /\ u = v
  BY <1>3, <1>7
<1>8. CASE HasTwoKids(v, p) /\ u = v
  BY <1>3, <1>8
<1>9. ASSUME NEW c \in Node, \A d \in Node : v.parent[d] = p <=> d = c, u = v, v.type[c] = "leaf",
             p = v.root \/ (v.parent[p] = v.root /\ v.type[v.root] = "leaf")
      PROVE  Sound(u)
  <2>1. Narrow(v, p) \/ (v.parent[p] = Nil /\ \A d \in Node : v.parent[d] = p => v.type[d] = "leaf")
    BY <1>1, <1>9 DEF Narrow
  <2> QED BY <1>3, <1>9, <2>1
<1>10. ASSUME NEW c \in Node, Len(v.kids[p]) = 1, c \in Kids(v, p),
              \A d \in Node : v.parent[d] = p <=> d = c,
              \/ /\ v.type[v.root] = "leaf" /\ v.type[c] = "leaf" /\ v.parent[p] = v.root
                 /\ u = v
              \/ /\ p # v.root /\ u = GiveWay(v, p, c)
                 /\ ~(v.type[v.root] = "leaf" /\ v.type[c] = "leaf" /\ v.parent[p] = v.root)
              \/ p = v.root /\ v.type[c] = "leaf" /\ u = v
              \/ p = v.root /\ v.type[c] # "leaf" /\ u = RootGivesWay(v, c)
       PROVE  Sound(u)
  <2>1. CASE /\ v.type[v.root] = "leaf" /\ v.type[c] = "leaf" /\ v.parent[p] = v.root
             /\ u = v
    BY <1>9, <1>10, <2>1
  <2>2. CASE /\ p # v.root /\ u = GiveWay(v, p, c)
             /\ ~(v.type[v.root] = "leaf" /\ v.type[c] = "leaf" /\ v.parent[p] = v.root)
    BY <1>4, <1>10, <2>2
  <2>3. CASE p = v.root /\ v.type[c] = "leaf" /\ u = v
    BY <1>9, <1>10, <2>3
  <2>4. CASE p = v.root /\ v.type[c] # "leaf" /\ u = RootGivesWay(v, c)
    BY <1>5, <1>10, <2>4
  <2> QED BY <1>10, <2>1, <2>2, <2>3, <2>4
<1> QED BY <1>6, <1>7, <1>8, <1>10
LEMMA DestroyLeafSound ==
  ASSUME InOrder(nodes, roots), AllValid, NEW T \in Trees, NEW leaf, DestroyLeaf(T, leaf)
  PROVE  \E u : Sound(u) /\ u.type = nodes'.type /\ u.parent = nodes'.parent
<1> DEFINE t == At(T)
           p == nodes.parent[leaf]
           v == DestroyNode(Detach(t, leaf), leaf)
           u == WithoutSmallNode(v, p)
<1>1. /\ Exists(T) /\ leaf \in NodesOf(t) /\ nodes.type[leaf] = "leaf" /\ leaf # roots[T]
      /\ Call(T, u)
  BY AtIs DEF DestroyLeaf, LeavesOf
<1>2. v = DestroyNode(Detach(t, leaf), leaf) /\ u = WithoutSmallNode(v, p)
  OBVIOUS
<1>3. /\ Forest(t) /\ t.root = roots[T] /\ roots[T] \in Tops(t)
      /\ t.type = nodes.type /\ t.parent = nodes.parent
  BY <1>1, AtIs
<1>4. Grown(t)
  BY AllValidIsGrown
<1>5. leaf \in Node /\ t.parent[leaf] # Nil /\ t.kids[leaf] = <<>> /\ p = t.parent[leaf]
      /\ p \in NodesOf(t)
  <2>1. t.kids = nodes.kids
    BY <1>1, AtIs
  <2> QED BY <1>1, <1>3, <2>1, NodeOfTree
<1> HIDE DEF t, u, v, p
<1>6. /\ p \in Node /\ p \in InUse(t) /\ p # leaf /\ p # Nil
      /\ p # t.root => /\ t.parent[p] # Nil
                       /\ t.parent[p] \in NodesOf(t)
  BY <1>3, <1>5, TreeNodes, InUseFacts
<1>7. t.type[p] # "leaf"
  BY <1>1, <1>3, <1>4, <1>5, <1>6, LeafBelowInner DEF Grown
<1>8. /\ Forest(v) /\ v.root = t.root /\ Tops(v) = Tops(t)
      /\ v.type[leaf] = "free" /\ v.parent[leaf] = Nil
      /\ \A y \in Node : y # leaf => v.type[y] = t.type[y] /\ v.parent[y] = t.parent[y]
  BY <1>2, <1>3, <1>5, LeafTakenOut
<1>9. ASSUME NEW y \in InUse(v), y # p PROVE Firm(v, y)
  <2>1. y \in InUse(t)
    BY <1>8 DEF InUse
  <2>2. Firm(t, y)
    BY <1>4, <2>1 DEF Grown
  <2> QED BY <1>2, <1>3, <1>5, <1>9, <2>2, FirmWithoutLeaf
<1>10. v.type[p] # "leaf" /\ v.parent[p] = t.parent[p] /\ t.parent[p] # leaf
  <2>1. t.parent[p] # leaf
    BY <1>3, <1>5, <1>6, InUseFacts
  <2> QED BY <1>6, <1>7, <1>8, <2>1
<1>11. v.parent[p] # Nil /\ v.type[v.parent[p]] = "leaf" => v.parent[p] = v.root
  <2> SUFFICES ASSUME v.parent[p] # Nil, v.type[v.parent[p]] = "leaf" PROVE v.parent[p] = v.root
    OBVIOUS
  <2> DEFINE g == t.parent[p]
  <2>1. g \in Node /\ g # Nil /\ t.type[g] = "leaf" /\ v.parent[p] = g
    BY <1>3, <1>6, <1>8, <1>10, InUseFacts
  <2>2. t.parent[g] = Nil
    BY <1>3, <1>6, <2>1, LeafFacts
  <2>3. g \in NodesOf(t)
    <3>1. p # t.root
      BY <1>3, <2>1 DEF Tops
    <3> QED BY <1>6, <3>1
  <2>4. g = t.root
    BY <1>3, <2>2, <2>3, TreeNodes
  <2> QED BY <1>8, <2>1, <2>4
<1>12. HasKid(v, p) \/ Narrow(v, p)
  <2>1. CASE HasTwoKids(t, p)
    <3>1. PICK a \in Node : a # leaf /\ t.parent[a] = p
      BY <2>1 DEF HasTwoKids
    <3> QED BY <1>8, <3>1 DEF HasKid
  <2>2. CASE Narrow(t, p)
    <3>1. t.parent[p] \in Node
      BY <1>3, <1>6, <2>2, InUseFacts DEF Narrow
    <3> QED BY <1>6, <1>8, <1>10, <2>2, <3>1 DEF Narrow
  <2> QED BY <1>4, <1>6, <1>7, <2>1, <2>2 DEF Grown, Firm
<1>13. v.root \in Tops(v) /\ (p # v.root => v.parent[p] # Nil)
  BY <1>3, <1>6, <1>8, <1>10
<1>14. Sound(u)
  BY <1>2, <1>6, <1>8, <1>9, <1>10, <1>11, <1>12, <1>13, SmallNodeSound
<1> QED BY <1>1, <1>14, CallGives

\* Three neighbors of a node of degree three.
LEMMA ThreeNeighbors ==
  ASSUME NEW t, Forest(t), t.root \in Tops(t), NEW y \in NodesOf(t), Degree(t, y) >= 3
  PROVE  \E a, b, c \in Node : /\ a # b /\ a # c /\ b # c
                               /\ Adjacent(t, y, a) /\ Adjacent(t, y, b) /\ Adjacent(t, y, c)
<1>1. y \in Node /\ t.root \in Node /\ t.parent[t.root] = Nil
  BY TreeNodes
<1>3. CASE y # t.root
  <2>1. t.parent[y] # Nil
    BY <1>3, TreeNodes
  <2> DEFINE k == Len(t.kids[y])
             d == Degree(t, y)
  <2>2. k \in Nat /\ d = k + 1 /\ d >= 3
    BY <1>3, TreeParts
  <2> HIDE DEF k, d
  <2>3. k >= 2
    BY <2>2
  <2>4. HasTwoKids(t, y)
    BY <1>1, <2>3, KidsCounted DEF k
  <2>5. PICK a \in Node, b \in Node : a # b /\ t.parent[a] = y /\ t.parent[b] = y
    BY <2>4 DEF HasTwoKids
  <2>6. t.parent[y] \in Node /\ t.parent[y] # a /\ t.parent[y] # b
    BY <1>1, <2>1, <2>5, InUseFacts
  <2> QED BY <2>5, <2>6 DEF Adjacent
<1>4. CASE y = t.root
  <2>1. Len(t.kids[y]) >= 3
    BY <1>4, TreeParts
  <2>2. t \in ForestType /\ Distinct(t.kids[y]) /\ Kids(t, y) = {d \in Node : t.parent[d] = y}
    BY <1>1, KidsCounted DEF Forest, Arranged
  <2>3. \E a, b, c \in Kids(t, y) : a # b /\ a # c /\ b # c
    BY <1>1, <2>1, <2>2, TwoPlaces
  <2> QED BY <2>2, <2>3 DEF Adjacent
<1> QED BY <1>3, <1>4

\* All edges stay.  The nodes that are turned around keep two of their three
\* neighbors as children, the new root gets its parent as a further child, and
\* the nodes off the way stay as they are.
LEMMA ChangedRootGrown ==
  ASSUME NEW t, Forest(t), t.root \in Tops(t), Grown(t),
         NEW x \in NodesOf(t), x # t.root,
         \A y \in Up(t.parent, x) : y # x /\ t.type[y] # "leaf" => Degree(t, y) >= 3,
         NEW u, Forest(u), u.type = t.type, Tops(u) = (Tops(t) \ {t.root}) \cup {x},
         \A y \in Node : y \notin Up(t.parent, x) => u.parent[y] = t.parent[y],
         \A y, z \in Node : Adjacent(t, y, z) <=> Adjacent(u, y, z)
  PROVE  Grown(u)
<1>1. /\ t.parent \in Parents /\ x \in Node /\ NodesOf(t) \subseteq Node
      /\ \A y \in NodesOf(t) : y # t.root => t.parent[y] # Nil /\ t.parent[y] \in NodesOf(t)
      /\ t.parent[t.root] = Nil
  BY TreeNodes DEF Forest, ForestType
<1>2. Up(t.parent, x) \subseteq NodesOf(t) /\ UpClosed(t.parent, Up(t.parent, x))
  <2>1. NodesOf(t) \in SUBSET Node /\ UpClosed(t.parent, NodesOf(t))
    BY <1>1 DEF UpClosed
  <2> QED BY <1>1, <2>1, UpIs
<1> SUFFICES ASSUME NEW y \in InUse(t) PROVE Firm(u, y)
  BY DEF Grown, InUse
<1>4. y \in Node /\ y # Nil /\ Firm(t, y)
  BY InUseFacts DEF Grown, InUse
<1>5. CASE y \in Up(t.parent, x) /\ y # x /\ t.type[y] # "leaf"
  <2>1. PICK a \in Node, b \in Node, c \in Node :
          /\ a # b /\ a # c /\ b # c
          /\ Adjacent(t, y, a) /\ Adjacent(t, y, b) /\ Adjacent(t, y, c)
    BY <1>2, <1>5, ThreeNeighbors
  <2>2. /\ u.parent[y] = a \/ u.parent[a] = y
        /\ u.parent[y] = b \/ u.parent[b] = y
        /\ u.parent[y] = c \/ u.parent[c] = y
    BY <1>4, <2>1 DEF Adjacent
  <2>3. HasTwoKids(u, y)
    BY <2>1, <2>2 DEF HasTwoKids
  <2> QED BY <1>5, <2>3 DEF Firm, Crowned
<1>6. CASE y = x /\ t.type[x] # "leaf"
  <2> DEFINE q == t.parent[x]
  <2>1. q # Nil /\ q \in Node
    BY <1>1, InUseFacts
  <2>2. PICK a \in Node : t.parent[a] = x
    BY <1>4, <1>6 DEF Firm, HasKid, HasTwoKids
  <2>3. a # q
    BY <1>1, <2>1, <2>2, InUseFacts
  <2>4. u.parent[x] = Nil /\ Nil \notin Node
    BY NodesAssumption DEF Tops, Node
  <2>5. u.parent[a] = x /\ u.parent[q] = x
    BY <1>1, <2>1, <2>2, <2>4 DEF Adjacent
  <2>6. HasTwoKids(u, x)
    BY <2>1, <2>3, <2>5 DEF HasTwoKids
  <2> QED BY <1>6, <2>6 DEF Firm, Crowned
<1>7. CASE y \in NodesOf(t) /\ t.type[y] = "leaf"
  <2>1. ASSUME u.parent[y] = Nil PROVE \E c \in Node : u.parent[c] = y /\ u.type[c] # "leaf"
    <3>1. y \in Tops(u)
      BY <1>4, <2>1 DEF Tops, InUse
    <3>2. y \in Tops(t) => y = t.root
      BY <1>1, <1>7 DEF Tops
    <3>3. y = x
      BY <3>1, <3>2
    <3> DEFINE q == t.parent[x]
    <3>4. q # Nil /\ q \in Node /\ q \in InUse(t)
      BY <1>1, InUseFacts
    <3>5. t.type[q] # "leaf"
      BY <1>1, <1>7, <3>3, <3>4, LeafBelowInner DEF Grown
    <3>6. Adjacent(u, x, q) /\ u.parent[x] # q
      BY <1>1, <2>1, <3>3, <3>4 DEF Adjacent
    <3> QED BY <3>3, <3>4, <3>5, <3>6 DEF Adjacent
  <2> QED BY <1>7, <2>1 DEF Firm, Crowned
<1>8. CASE y \notin Up(t.parent, x)
  <2>1. u.parent[y] = t.parent[y]
    BY <1>4, <1>8
  <2>2. ASSUME NEW c \in Node PROVE u.parent[c] = y <=> t.parent[c] = y
    <3>1. CASE c \notin Up(t.parent, x)
      BY <3>1
    <3>2. CASE c \in Up(t.parent, x)
      <4>1. t.parent[c] # y
        BY <1>2, <1>4, <1>8, <3>2 DEF UpClosed
      <4>2. ASSUME u.parent[c] = y PROVE FALSE
        <5>1. t.parent[y] = c
          BY <1>4, <4>1, <4>2 DEF Adjacent
        <5>2. u.parent[y] = c
          BY <2>1, <5>1
        <5> QED BY <1>4, <4>2, <5>2, InUseFacts
      <4> QED BY <4>1, <4>2
    <3> QED BY <3>1, <3>2
  <2> QED BY <1>4, <2>1, <2>2, Untouched
<1> QED BY <1>2, <1>5, <1>6, <1>7, <1>8

LEMMA ChangeRootSound ==
  ASSUME InOrder(nodes, roots), AllValid, NEW T \in Trees, NEW x, ChangeRootOf(T, x)
  PROVE  \E u : Sound(u) /\ u.type = nodes'.type /\ u.parent = nodes'.parent
<1>1. PICK mirrored : Call(T, ChangeRoot(At(T), x, mirrored))
  BY DEF ChangeRootOf
<1> DEFINE t == At(T)
           u == ChangeRoot(t, x, mirrored)
<1>2. /\ Exists(T) /\ x \in NodesOf(t) /\ x # roots[T] /\ Call(T, u)
      /\ (WayUp(t, x) \ {x}) \cap LowDegree(t) = {}
  BY <1>1 DEF ChangeRootOf
<1>3. /\ Forest(t) /\ t.root = roots[T] /\ t.parent = nodes.parent
      /\ t.root \in Tops(t) /\ x \in Node /\ t.root \in Up(t.parent, x)
  BY <1>2, AtIs, NodeOfTree
<1>4. Grown(t)
  BY AllValidIsGrown
<1>5. u = ChangeRoot(t, x, mirrored)
  OBVIOUS
<1> HIDE DEF t, u
<1>6. /\ Forest(u) /\ u.type = t.type
      /\ Tops(u) = (Tops(t) \ {t.root}) \cup {x}
      /\ \A y \in Node : y \notin Up(t.parent, x) => u.parent[y] = t.parent[y]
      /\ \A y, z \in Node :
           t.parent[y] = z \/ t.parent[z] = y <=> u.parent[y] = z \/ u.parent[z] = y
  BY <1>2, <1>3, <1>5, ChangeRootIs
<1>7. \A y, z \in Node : Adjacent(t, y, z) <=> Adjacent(u, y, z)
  BY <1>6 DEF Adjacent
<1>8. ASSUME NEW y \in Up(t.parent, x), y # x, t.type[y] # "leaf" PROVE Degree(t, y) >= 3
  <2>1. t.parent \in Parents /\ Acyclic(t.parent)
    BY <1>3 DEF Forest, ForestType
  <2>2. y \in WayUp(t, x)
    BY <1>3, <1>8, <2>1, WayUpIs
  <2>3. y \in NodesOf(t)
    <3>1. NodesOf(t) \in SUBSET Node /\ UpClosed(t.parent, NodesOf(t))
      BY <1>3, TreeNodes DEF UpClosed
    <3> QED BY <1>2, <1>3, <1>8, <2>1, <3>1, UpIs
  <2> DEFINE d == Degree(t, y)
             k == Len(t.kids[y])
  <2>4. y \in InnerOf(t) /\ k \in Nat /\ (d = k \/ d = k + 1)
    BY <1>3, <1>8, <2>3, TreeParts
  <2>5. ~(d < 3)
    BY <1>2, <1>8, <2>2, <2>4 DEF LowDegree
  <2> HIDE DEF d, k
  <2>6. d >= 3
    BY <2>4, <2>5
  <2> QED BY <2>6 DEF d
<1>9. Grown(u)
  BY <1>2, <1>3, <1>4, <1>6, <1>7, <1>8, ChangedRootGrown
<1> QED BY <1>2, <1>9, CallGives, GrownIsSound

(***************************************************************************)
(* insertTree.                                                             *)
(***************************************************************************)
\* A tree to be inserted: its root h has two children or is a leaf without.
Hangable(t, h) ==
  /\ \A y \in InUse(t) : y # h => Firm(t, y)
  /\ t.type[h] # "leaf" => HasTwoKids(t, h)
  /\ t.type[h] = "leaf" => ~HasKid(t, h)

\* WithoutTop leaves a tree ready to be inserted, and others as they are.
LEMMA WithoutTopFirm ==
  ASSUME NEW t, Forest(t), Grown(t), NEW r \in Tops(t), NEW h, h = TopOf(t, r),
         NEW u, u = WithoutTop(t, r)
  PROVE  Hangable(u, h)
<1>1. /\ Forest(u) /\ h \in Tops(u)
      /\ u.type[h] = "leaf" => u.kids[h] = <<>>
      /\ \A x \in Node : IF r \in Up(t.parent, x) /\ h \notin Up(t.parent, x)
                         THEN u.type[x] = "free"
                         ELSE u.type[x] = t.type[x] /\ (x # h => u.parent[x] = t.parent[x])
  BY WithoutTopIs
<1>2. /\ r \in Node /\ t.parent[r] = Nil /\ h \in InUse(u) /\ u.parent[h] = Nil
      /\ t.parent \in Parents /\ Acyclic(t.parent)
  BY <1>1 DEF Tops, InUse, Forest, ForestType
<1>3. h \in Node /\ r \in Up(t.parent, h) /\ Len(t.kids[h]) # 1
  BY <1>2, TopOfIs
<1>4. h \in Up(t.parent, h)
  BY <1>2, <1>3, UpIs
<1> DEFINE Gone == {x \in Node : r \in Up(t.parent, x) /\ h \notin Up(t.parent, x)}
<1>5. \A x \in Node : x \notin Gone => u.type[x] = t.type[x] /\ (x # h => u.parent[x] = t.parent[x])
  BY <1>1
<1>6. \A x \in Gone : x \in Node /\ u.parent[x] = Nil /\ x \notin InUse(u) /\ x # h
  <2> SUFFICES ASSUME NEW x \in Gone PROVE x \in Node /\ u.parent[x] = Nil /\ x \notin InUse(u) /\ x # h
    OBVIOUS
  <2>1. x \in Node /\ x \notin InUse(u) /\ x # h
    BY <1>1, <1>4 DEF InUse
  <2> QED BY <1>1, <2>1, InUseFacts
<1>7. \A c, y \in Node : c \in Gone \cup {h} /\ t.parent[c] = y => y \notin InUse(u)
  <2> SUFFICES ASSUME NEW c \in Node, NEW y \in Node, c \in Gone \cup {h}, t.parent[c] = y
               PROVE  y \notin InUse(u)
    OBVIOUS
  <2>1. y # Nil /\ c # r /\ r \in Up(t.parent, c)
    BY <1>2, <1>3, InUseFacts
  <2>2. Up(t.parent, c) = {c} \cup Up(t.parent, y)
    BY <1>2, <2>1, UpIs
  <2>3. r \in Up(t.parent, y)
    BY <2>1, <2>2
  <2>4. h \notin Up(t.parent, y)
    <3>1. CASE c = h
      BY <1>2, <2>1, <3>1, NotAboveItself
    <3>2. CASE c \in Gone
      BY <2>2, <3>2
    <3> QED BY <3>1, <3>2
  <2> QED BY <1>6, <2>3, <2>4
<1> HIDE DEF Gone
<1>8. ASSUME NEW y \in InUse(u), y # h PROVE Firm(u, y)
  <2>1. y \in Node /\ y \notin Gone /\ y # Nil
    BY <1>1, <1>6, InUseFacts DEF InUse
  <2>2. u.type[y] = t.type[y] /\ u.parent[y] = t.parent[y]
    BY <1>5, <1>8, <2>1
  <2>3. y \in InUse(t) /\ Firm(t, y)
    BY <1>8, <2>1, <2>2 DEF InUse, Grown
  <2>4. \A c \in Node : /\ u.parent[c] = y <=> t.parent[c] = y
                        /\ t.parent[c] = y => u.type[c] = t.type[c]
    BY <1>2, <1>5, <1>6, <1>7, <2>1
  <2>5. t.parent[y] # Nil => u.type[t.parent[y]] = t.type[t.parent[y]]
    BY <1>1, <1>5, <1>6, <2>1, <2>2, InUseFacts
  <2> QED BY <2>1, <2>2, <2>3, <2>4, <2>5, Untouched
<1>9. ASSUME u.type[h] # "leaf" PROVE HasTwoKids(u, h)
  <2>1. h \notin Gone /\ t.type[h] # "leaf" /\ h \in InUse(t)
    BY <1>2, <1>3, <1>5, <1>6, <1>9 DEF InUse
  <2>2. HasTwoKids(t, h)
    <3>1. /\ HasTwoKids(t, h) \/ HasKid(t, h)
      BY <2>1 DEF Grown, Firm
    <3> DEFINE n == Len(t.kids[h])
    <3>2. n \in Nat /\ (HasTwoKids(t, h) <=> n >= 2) /\ (HasKid(t, h) <=> n >= 1) /\ n # 1
      BY <1>3, KidsCounted
    <3> HIDE DEF n
    <3>3. n >= 1 => n >= 2
      BY <3>2
    <3> QED BY <3>1, <3>2, <3>3
  <2>3. \A c \in Node : t.parent[c] = h => u.parent[c] = h
    <3> SUFFICES ASSUME NEW c \in Node, t.parent[c] = h PROVE u.parent[c] = h
      OBVIOUS
    <3>1. c # h /\ c \notin Gone
      BY <1>2, <1>3, <1>7, InUseFacts
    <3> QED BY <1>5, <3>1
  <2> QED BY <2>2, <2>3 DEF HasTwoKids
<1>10. u.type[h] = "leaf" => ~HasKid(u, h)
  BY <1>1, <1>3, KidsCounted
<1> QED BY <1>8, <1>9, <1>10 DEF Hangable

\* What hangs at its new place: it has a parent, or is no leaf.
LEMMA HungFirm ==
  ASSUME NEW v, NEW u, NEW h, Hangable(v, h), u.type[h] = v.type[h],
         v.type[h] = "leaf" => u.parent[h] # Nil,
         \A c \in Node : v.parent[c] = h => u.parent[c] = h
  PROVE  Firm(u, h)
<1>1. u.type[h] # "leaf" => HasTwoKids(u, h)
  BY DEF Hangable, HasTwoKids
<1> QED BY <1>1 DEF Firm, Crowned

\* Below an inner node.
LEMMA HungBelowInner ==
  ASSUME NEW t, NEW at, NEW h, Insertable(t, at, h), Hangable(t, h), t.type[at] # "leaf",
         NEW u, u = Appended(t, at, h)
  PROVE  Grown(u)
<1>1. /\ u.type = t.type /\ u.parent[h] = at
      /\ \A x \in Node : x # h => u.parent[x] = t.parent[x]
  BY BelowInnerNode
<1>2. /\ Forest(t) /\ at \in Node /\ h \in Node /\ t.parent[h] = Nil /\ at # Nil /\ at \in InUse(t)
      /\ h \notin Up(t.parent, at) /\ t.parent \in Parents /\ h # Nil
  BY InUseFacts DEF Insertable, InUse, Tops, Forest, ForestType
<1>3. at # h
  BY <1>2, UpIs
<1>4. Firm(u, h)
  <2>1. \A c \in Node : t.parent[c] = h => u.parent[c] = h
    BY <1>1, <1>2
  <2> QED BY <1>1, <1>2, <2>1, HungFirm
<1>5. Firm(u, at)
  <2>1. PICK a \in Node : t.parent[a] = at
    BY <1>2, <1>3 DEF Hangable, Firm, HasKid, HasTwoKids
  <2>2. a # h /\ u.parent[a] = at
    BY <1>1, <1>2, <2>1
  <2> QED BY <1>1, <1>2, <2>2 DEF Firm, Crowned, HasTwoKids
<1>6. ASSUME NEW y \in InUse(u), y # h, y # at PROVE Firm(u, y)
  <2>1. y \in Node /\ y # Nil /\ Firm(t, y) /\ u.parent[y] = t.parent[y]
    BY <1>1, <1>2, <1>6, InUseFacts DEF Hangable, InUse
  <2>2. \A c \in Node : u.parent[c] = y <=> t.parent[c] = y
    BY <1>1, <1>2, <1>6, <2>1
  <2> QED BY <1>1, <2>1, <2>2, Untouched
<1> QED BY <1>4, <1>5, <1>6 DEF Grown

\* The leaf at, its parent p and the node h to be inserted.
LEMMA PlaceFirm ==
  ASSUME NEW t, NEW at, NEW h, Insertable(t, at, h), Hangable(t, h), t.type[at] = "leaf",
         NEW p, p = t.parent[at], p # Nil
  PROVE  /\ Forest(t) /\ at \in Node /\ p \in Node /\ h \in Node /\ p \in InUse(t)
         /\ p # at /\ h # at /\ h # p /\ h # Nil /\ at # Nil
         /\ t.parent[h] = Nil /\ t.parent[p] # at /\ t.parent[p] # p
         /\ Firm(t, p) /\ t.type[p] # "leaf" /\ \A c \in Node : t.parent[c] # at
<1>1. /\ at \in Node /\ p \in Node /\ p # at /\ h # at /\ h # p /\ h \in Node
  BY PlaceOfLeaf
<1>2. /\ Forest(t) /\ t.parent[h] = Nil /\ p \in InUse(t)
  BY <1>1, InUseFacts DEF Insertable, Tops
<1>3. Firm(t, p)
  BY <1>1, <1>2 DEF Hangable
<1>4. t.type[p] # "leaf"
  BY <1>1, <1>2, <1>3, LeafBelowInner
<1>5. \A c \in Node : t.parent[c] # at
  BY <1>1, <1>2, KidsCounted DEF HasKid
<1>6. h # Nil /\ at # Nil /\ t.parent[p] # at /\ t.parent[p] # p
  BY <1>1, <1>2, <1>5, InUseFacts
<1> QED BY <1>1, <1>2, <1>3, <1>4, <1>5, <1>6

\* In the place of the leaf.
LEMMA HungForLeaf ==
  ASSUME NEW t, NEW at, NEW h, Insertable(t, at, h), Hangable(t, h), t.type[at] = "leaf",
         NEW p, p = t.parent[at], p # Nil, t.type[h] = "leaf" \/ HasTwoKids(t, p),
         NEW u, u = DestroyNode(ReplaceWith(t, at, h), at)
  PROVE  Grown(u)
<1>1. /\ Forest(t) /\ at \in Node /\ p \in Node /\ h \in Node
      /\ p # at /\ h # at /\ h # p /\ p # Nil /\ h # Nil /\ at # Nil
      /\ t.parent[h] = Nil /\ t.parent[p] # at /\ t.parent[p] # p
      /\ Firm(t, p) /\ t.type[p] # "leaf" /\ \A c \in Node : t.parent[c] # at
  BY PlaceFirm
<1>2. /\ u.type[at] = "free" /\ u.parent[at] = Nil /\ u.parent[h] = p
      /\ \A x \in Node : /\ x # at => u.type[x] = t.type[x]
                         /\ x # at /\ x # h => u.parent[x] = t.parent[x]
  BY InsteadOfTheLeaf
<1>3. Firm(u, h)
  BY <1>1, <1>2, HungFirm
<1>4. Firm(u, p)
  <2>1. \A d \in Node : t.parent[d] = p /\ d # at => u.parent[d] = p
    BY <1>1, <1>2
  <2>2. HasTwoKids(t, p) => HasTwoKids(u, p)
    BY <1>1, <1>2, <2>1, KidSwapped
  <2>3. CASE HasTwoKids(t, p)
    BY <1>1, <1>2, <2>2, <2>3 DEF Firm, Crowned
  <2>4. CASE ~HasTwoKids(t, p)
    <3>1. Narrow(t, p) /\ t.type[h] = "leaf"
      BY <1>1, <2>4 DEF Firm
    <3>2. t.parent[p] # Nil /\ t.parent[p] \in Node /\ t.type[t.parent[p]] = "leaf"
      BY <1>1, <3>1, InUseFacts DEF Narrow
    <3>3. u.parent[p] = t.parent[p] /\ u.type[t.parent[p]] = "leaf"
      BY <1>1, <1>2, <3>2
    <3>4. \A c \in Node : u.parent[c] = p => u.type[c] = "leaf"
      BY <1>1, <1>2, <3>1 DEF Narrow
    <3>5. HasKid(u, p) /\ Narrow(u, p)
      BY <1>1, <1>2, <3>2, <3>3, <3>4 DEF HasKid, Narrow
    <3> QED BY <1>1, <1>2, <3>5 DEF Firm, Crowned
  <2> QED BY <2>3, <2>4
<1>5. ASSUME NEW y \in InUse(u), y # h, y # p PROVE Firm(u, y)
  <2>1. /\ y \in Node /\ y # at /\ y # Nil /\ Firm(t, y)
        /\ u.parent[y] = t.parent[y] /\ u.type[y] = t.type[y]
    BY <1>1, <1>2, <1>5, InUseFacts DEF Hangable, InUse
  <2>2. \A c \in Node : /\ u.parent[c] = y <=> t.parent[c] = y
                        /\ t.parent[c] = y => u.type[c] = t.type[c]
    BY <1>1, <1>2, <1>5, <2>1
  <2>3. t.parent[y] # Nil => u.type[t.parent[y]] = t.type[t.parent[y]]
    BY <1>1, <1>2, <2>1, InUseFacts
  <2> QED BY <2>1, <2>2, <2>3, Untouched
<1> QED BY <1>3, <1>4, <1>5 DEF Grown

\* The parent p of the leaf goes as well, and h takes its place.
LEMMA HungForParent ==
  ASSUME NEW t, NEW at, NEW h, Insertable(t, at, h), Hangable(t, h), t.type[at] = "leaf",
         NEW p, p = t.parent[at], p # Nil, t.type[h] # "leaf",
         t.parent[p] # Nil, Len(t.kids[p]) = 1,
         NEW u, u = DestroyNode(DestroyNode(ReplaceWith(Detach(t, at), p, h), p), at)
  PROVE  Grown(u)
<1> DEFINE g == t.parent[p]
<1>1. /\ Forest(t) /\ at \in Node /\ p \in Node /\ h \in Node
      /\ p # at /\ h # at /\ h # p /\ p # Nil /\ h # Nil /\ at # Nil
      /\ t.parent[h] = Nil /\ t.parent[p] # at /\ t.parent[p] # p
      /\ Firm(t, p) /\ t.type[p] # "leaf" /\ \A c \in Node : t.parent[c] # at
  BY PlaceFirm
<1>2. /\ JoinedWith(t, h, u)
      /\ u.type[at] = "free" /\ u.type[p] = "free"
      /\ u.parent[at] = Nil /\ u.parent[p] = Nil /\ u.parent[h] = t.parent[p]
      /\ \A x \in Node : /\ x # at /\ x # p => u.type[x] = t.type[x]
                         /\ x # at /\ x # p /\ x # h => u.parent[x] = t.parent[x]
  BY InsteadOfTheParent
<1>3. g \in Node /\ g # at /\ g # p /\ g # h /\ g # Nil
  <2>1. g # h
    BY <1>1, <1>2, InUseFacts DEF JoinedWith
  <2> QED BY <1>1, <2>1, InUseFacts
<1>4. \A d \in Node : t.parent[d] = p <=> d = at
  <2>1. \E a \in Node : Kids(t, p) = {a}
    BY <1>1, KidsCounted
  <2>2. Kids(t, p) = {c \in Node : t.parent[c] = p}
    BY <1>1, KidsCounted
  <2> QED BY <1>1, <2>1, <2>2
<1>5. Firm(u, h)
  <2>1. \A c \in Node : t.parent[c] = h => u.parent[c] = h
    BY <1>1, <1>2, <1>3
  <2> QED BY <1>1, <1>2, <2>1, HungFirm
<1>6. ASSUME g \in InUse(u) PROVE Firm(u, g)
  <2>1. Firm(t, g) /\ u.type[g] = t.type[g] /\ u.parent[h] = g /\ u.type[h] = t.type[h]
    BY <1>1, <1>2, <1>3, <1>6 DEF Hangable, InUse
  <2>2. t.type[g] # "leaf" => HasTwoKids(t, g)
    BY <1>1, <2>1 DEF Firm, Narrow
  <2>3. \A d \in Node : t.parent[d] = g /\ d # p => u.parent[d] = g
    BY <1>1, <1>2, <1>3
  <2>4. t.parent[h] # g
    BY <1>1, <1>3
  <2>5. HasTwoKids(t, g) => HasTwoKids(u, g)
    <3>1. h \in Node /\ u.parent[h] = g
      BY <1>1, <1>2
    <3> HIDE DEF g
    <3> QED BY ONLY <2>3, <2>4, <3>1, KidSwapped
  <2> QED BY <1>1, <2>1, <2>2, <2>5 DEF Firm, Crowned
<1>7. ASSUME NEW y \in InUse(u), y # h, y # g PROVE Firm(u, y)
  <2>1. /\ y \in Node /\ y # at /\ y # p /\ y # Nil /\ Firm(t, y)
        /\ u.parent[y] = t.parent[y] /\ u.type[y] = t.type[y]
    <3>1. y \in Node /\ y # at /\ y # p
      BY <1>2, <1>7 DEF InUse
    <3>2. u.parent[y] = t.parent[y] /\ u.type[y] = t.type[y]
      BY <1>2, <1>7, <3>1
    <3>3. y \in InUse(t)
      BY <1>7, <3>2 DEF InUse
    <3>4. y # Nil
      BY <1>1, <3>1, InUseFacts
    <3>5. Firm(t, y)
      BY <1>7, <3>3 DEF Hangable
    <3> QED BY <3>1, <3>2, <3>4, <3>5
  <2>2. ASSUME NEW c \in Node
        PROVE  /\ u.parent[c] = y <=> t.parent[c] = y
               /\ t.parent[c] = y => u.type[c] = t.type[c]
    <3>1. /\ t.parent[at] # y /\ t.parent[p] # y /\ t.parent[h] # y
          /\ u.parent[at] # y /\ u.parent[p] # y /\ u.parent[h] # y
      BY <1>1, <1>2, <1>7, <2>1
    <3>2. CASE c \in {at, p, h}
      BY <3>1, <3>2
    <3>3. CASE c \notin {at, p, h}
      BY <1>2, <3>3
    <3> QED BY <3>2, <3>3
  <2>3. t.parent[y] # Nil => u.type[t.parent[y]] = t.type[t.parent[y]]
    BY <1>1, <1>2, <1>4, <2>1, InUseFacts
  <2> QED BY <2>1, <2>2, <2>3, Untouched
<1> QED BY <1>5, <1>6, <1>7 DEF Grown

\* The root p goes, and its other child comes below h.
LEMMA HungForRoot ==
  ASSUME NEW t, NEW at, NEW h, Insertable(t, at, h), Hangable(t, h), t.type[at] = "leaf",
         NEW p, p = t.parent[at], p # Nil, t.type[h] # "leaf", t.parent[p] = Nil,
         NEW other \in Node, \A d \in Node : t.parent[d] = p => d = at \/ d = other,
         other # at, t.parent[other] = p,
         NEW u, u.type[at] = "free", u.type[p] = "free", u.parent[at] = Nil, u.parent[other] = h,
         \A x \in Node : /\ x # at /\ x # p => u.type[x] = t.type[x]
                         /\ x # at /\ x # other => u.parent[x] = t.parent[x]
  PROVE  Grown(u)
<1>1. /\ Forest(t) /\ at \in Node /\ p \in Node /\ h \in Node
      /\ p # at /\ h # at /\ h # p /\ p # Nil /\ h # Nil /\ at # Nil
      /\ t.parent[h] = Nil /\ t.parent[p] # at /\ t.parent[p] # p
      /\ Firm(t, p) /\ t.type[p] # "leaf" /\ \A c \in Node : t.parent[c] # at
  BY PlaceFirm
<1>2. other # h /\ other # p /\ t.parent[other] # other
  BY <1>1
<1>3. Firm(u, h)
  <2>1. \A c \in Node : t.parent[c] = h => u.parent[c] = h
    BY <1>1
  <2> QED BY <1>1, <2>1, HungFirm
<1>4. ASSUME other \in InUse(u) PROVE Firm(u, other)
  <2>1. Firm(t, other) /\ u.type[other] = t.type[other]
    BY <1>1, <1>2, <1>4 DEF Hangable, InUse
  <2>2. t.type[other] # "leaf" => HasTwoKids(t, other)
    BY <1>1, <2>1 DEF Firm, Narrow
  <2>3. \A c \in Node : t.parent[c] = other => u.parent[c] = other
    BY <1>1, <1>2
  <2>4. HasTwoKids(t, other) => HasTwoKids(u, other)
    BY <2>3 DEF HasTwoKids
  <2> QED BY <1>1, <2>1, <2>2, <2>4 DEF Firm, Crowned
<1>5. ASSUME NEW y \in InUse(u), y # h, y # other PROVE Firm(u, y)
  <2>1. /\ y \in Node /\ y # at /\ y # p /\ y # Nil /\ Firm(t, y)
        /\ u.parent[y] = t.parent[y] /\ u.type[y] = t.type[y]
    BY <1>1, <1>5, InUseFacts DEF Hangable, InUse
  <2>2. \A c \in Node : /\ u.parent[c] = y <=> t.parent[c] = y
                        /\ t.parent[c] = y => u.type[c] = t.type[c]
    BY <1>1, <1>2, <1>5, <2>1
  <2>3. t.parent[y] # Nil => u.type[t.parent[y]] = t.type[t.parent[y]]
    BY <1>1, <1>5, <2>1, InUseFacts
  <2> QED BY <2>1, <2>2, <2>3, Untouched
<1> QED BY <1>3, <1>4, <1>5 DEF Grown

\* Degree two, by the children and the parent.
LEMMA DegreeTwo ==
  ASSUME NEW t, Forest(t), NEW p \in Node
  PROVE  /\ Degree(t, p) = 2 /\ t.parent[p] = Nil => Len(t.kids[p]) = 2
         /\ Degree(t, p) = 2 /\ t.parent[p] # Nil => Len(t.kids[p]) = 1
         /\ Degree(t, p) # 2 /\ HasKid(t, p) /\ t.parent[p] # Nil => HasTwoKids(t, p)
<1> DEFINE n == Len(t.kids[p])
<1>1. n \in Nat /\ (HasKid(t, p) <=> n >= 1) /\ (HasTwoKids(t, p) <=> n >= 2)
  BY KidsCounted
<1>2. Degree(t, p) = n + (IF t.parent[p] = Nil THEN 0 ELSE 1)
  BY DEF Degree
<1>3. n = Len(t.kids[p])
  OBVIOUS
<1> HIDE DEF n
<1>4. ASSUME t.parent[p] = Nil, Degree(t, p) = 2 PROVE n = 2
  BY <1>1, <1>2, <1>4
<1>5. ASSUME t.parent[p] # Nil, Degree(t, p) = 2 PROVE n = 1
  BY <1>1, <1>2, <1>5
<1>6. ASSUME t.parent[p] # Nil, Degree(t, p) # 2, HasKid(t, p) PROVE HasTwoKids(t, p)
  <2>1. n >= 1 => n >= 2
    BY <1>1, <1>2, <1>6
  <2> QED BY <1>1, <1>6, <2>1
<1> QED BY <1>3, <1>4, <1>5, <1>6

\* All cases of inserting a tree that is ready for it.
LEMMA InsertedGrown ==
  ASSUME NEW t, NEW at, NEW h, Insertable(t, at, h), Hangable(t, h),
         t.type[at] = "leaf" => t.parent[at] # Nil, NEW u, u = Inserted(t, at, h)
  PROVE  Grown(u)
<1>1. CASE t.type[at] # "leaf"
  <2>1. u = Appended(t, at, h)
    BY <1>1 DEF Inserted, Appended
  <2> QED BY <1>1, <2>1, HungBelowInner
<1>2. CASE t.type[at] = "leaf"
  <2> DEFINE p == t.parent[at]
             v == Detach(t, at)
             other == Head(v.kids[p])
             s == DestroyNode(DestroyNode(Appended(Detach(v, other), h, other), p), at)
  <2>1. u = InsteadOf(t, at, h)
    BY <1>2 DEF Inserted
  <2>2. \/ /\ t.type[h] = "leaf" \/ Degree(t, p) # 2
           /\ u = DestroyNode(ReplaceWith(t, at, h), at)
        \/ /\ t.type[h] # "leaf" /\ Degree(t, p) = 2 /\ t.parent[p] = Nil
           /\ u = [s EXCEPT !.root = h]
        \/ /\ t.type[h] # "leaf" /\ Degree(t, p) = 2 /\ t.parent[p] # Nil
           /\ u = DestroyNode(DestroyNode(ReplaceWith(v, p, h), p), at)
    BY <2>1 DEF InsteadOf, Appended
  <2>3. v = Detach(t, at) /\ p = t.parent[at] /\ p # Nil
    BY <1>2
  <2>8. other = Head(v.kids[p])
    OBVIOUS
  <2>9. s = DestroyNode(DestroyNode(Appended(Detach(v, other), h, other), p), at)
    OBVIOUS
  <2> HIDE DEF s, other, v, p
  <2>4. /\ Forest(t) /\ at \in Node /\ p \in Node /\ h \in Node
        /\ p # at /\ h # at /\ h # p /\ p # Nil /\ h # Nil /\ at # Nil
        /\ t.parent[h] = Nil /\ Firm(t, p) /\ t.type[p] # "leaf"
    BY <1>2, <2>3, PlaceFirm
  <2>5. CASE /\ t.type[h] = "leaf" \/ Degree(t, p) # 2
             /\ u = DestroyNode(ReplaceWith(t, at, h), at)
    <3>1. ASSUME Degree(t, p) # 2 PROVE HasTwoKids(t, p)
      <4>1. CASE t.parent[p] = Nil
        BY <2>4, <4>1 DEF Firm, Narrow
      <4>2. CASE t.parent[p] # Nil
        <5>1. HasKid(t, p)
          BY <2>3, <2>4 DEF HasKid
        <5> QED BY <2>4, <3>1, <4>2, <5>1, DegreeTwo
      <4> QED BY <4>1, <4>2
    <3> QED BY <1>2, <2>3, <2>5, <3>1, HungForLeaf
  <2>6. CASE /\ t.type[h] # "leaf" /\ Degree(t, p) = 2 /\ t.parent[p] # Nil
             /\ u = DestroyNode(DestroyNode(ReplaceWith(v, p, h), p), at)
    <3>1. Len(t.kids[p]) = 1
      BY <2>4, <2>6, DegreeTwo
    <3>2. u = DestroyNode(DestroyNode(ReplaceWith(Detach(t, at), p, h), p), at)
      BY <2>3, <2>6
    <3> QED BY <1>2, <2>3, <2>6, <3>1, <3>2, HungForParent
  <2>7. CASE /\ t.type[h] # "leaf" /\ Degree(t, p) = 2 /\ t.parent[p] = Nil
             /\ u = [s EXCEPT !.root = h]
    <3>0. t.type[h] # "leaf" /\ t.parent[p] = Nil
      BY <2>7
    <3>1. Len(t.kids[p]) = 2
      BY <2>4, <2>7, DegreeTwo
    <3>2. /\ Forest(v) /\ \A x \in Node : x # at => v.parent[x] = t.parent[x]
          /\ v.parent[at] = Nil /\ Len(v.kids[p]) = Len(t.kids[p]) - 1
      BY <2>3, <2>4, DetachIs
    <3>3. Len(v.kids[p]) = 1
      BY ONLY <3>1, <3>2
    <3>4. /\ \E a \in Node : a = Head(v.kids[p]) /\ Kids(v, p) = {a}
          /\ Kids(v, p) = {c \in Node : v.parent[c] = p}
      BY <2>4, <3>2, <3>3, KidsCounted
    <3>5. /\ other \in Node /\ other \in Kids(v, p) /\ v.parent[other] = p
          /\ \A d \in Node : v.parent[d] = p => d = other
      BY <2>8, <3>4
    <3>6. other # at /\ other # h /\ t.parent[other] = p
      BY <2>4, <3>2, <3>5
    <3>7. \A d \in Node : t.parent[d] = p => d = at \/ d = other
      BY <3>2, <3>5
    <3>8. /\ s.type[at] = "free" /\ s.type[p] = "free" /\ s.parent[at] = Nil /\ s.parent[other] = h
          /\ \A x \in Node : /\ x # at /\ x # p => s.type[x] = t.type[x]
                             /\ x # at /\ x # other => s.parent[x] = t.parent[x]
      BY <1>2, <2>3, <2>9, <3>0, <3>3, <3>5, <3>6, InsteadOfTheRoot
    <3>9. Grown(s)
      BY <1>2, <2>3, <3>0, <3>5, <3>6, <3>7, <3>8, HungForRoot
    <3>10. u.type = s.type /\ u.parent = s.parent
      <4>1. u = [s EXCEPT !.root = h]
        BY <2>7
      <4> QED BY <4>1
    <3> QED BY <3>9, <3>10, SameTypesAndParents DEF Grown
  <2> QED BY <2>2, <2>5, <2>6, <2>7
<1> QED BY <1>1, <1>2

LEMMA InsertTreeSound ==
  ASSUME InOrder(nodes, roots), AllValid, NEW T \in Trees, NEW at, NEW U \in Trees,
         InsertTree(T, at, U)
  PROVE  \E u : Sound(u) /\ u.type = nodes'.type /\ u.parent = nodes'.parent
<1> DEFINE t == At(T)
           r == roots[U]
           h == TopOf(At(U), r)
           v == WithoutTop(t, r)
           u == Inserted(v, at, h)
<1>1. /\ T # U /\ Exists(T) /\ Exists(U) /\ at \in NodesOf(t)
      /\ nodes.type[at] = "leaf" => nodes.parent[at] # Nil
      /\ nodes' = [type |-> u.type, parent |-> u.parent, kids |-> u.kids]
  BY DEF InsertTree
<1>2. h = TopOf(t, r) /\ v = WithoutTop(t, r) /\ u = Inserted(v, at, h)
  BY SameTop
<1> HIDE DEF t, h, v, u
<1>3. /\ Forest(t) /\ t.root = roots[T] /\ t.root \in Tops(t) /\ t.type = nodes.type
      /\ t.parent = nodes.parent /\ Tops(t) = Tops(AsTree(nodes))
      /\ at \in InUse(t) /\ t.root \in Up(t.parent, at) /\ Grown(t)
  BY <1>1, AtIs, NodeOfTree, AllValidIsGrown DEF t
<1>4. r \in Tops(t) /\ r # t.root
  <2>1. r \in Tops(At(U)) /\ Tops(At(U)) = Tops(AsTree(nodes))
    BY <1>1, AtIs
  <2>2. r # roots[T]
    BY <1>1 DEF InOrder, Exists
  <2> QED BY <1>3, <2>1, <2>2
<1> HIDE DEF r
<1>5. /\ Insertable(v, at, h)
      /\ v.type[at] = t.type[at] /\ v.parent[at] = t.parent[at]
  BY <1>2, <1>3, <1>4, ReadyToInsert
<1>6. Hangable(v, h)
  BY <1>2, <1>3, <1>4, WithoutTopFirm
<1>7. v.type[at] = "leaf" => v.parent[at] # Nil
  BY <1>1, <1>3, <1>5
<1>8. Grown(u)
  BY <1>2, <1>5, <1>6, <1>7, InsertedGrown
<1>9. nodes'.type = u.type /\ nodes'.parent = u.parent
  BY <1>1
<1> QED BY <1>8, <1>9, GrownIsSound

\* Every call leaves a sound forest, whichever trees it is applied to.
LEMMA CallsKeepSound ==
  ASSUME InOrder(nodes, roots), AllValid, Next
  PROVE  \E u : Sound(u) /\ u.type = nodes'.type /\ u.parent = nodes'.parent
<1> DEFINE Kept == \E u : Sound(u) /\ u.type = nodes'.type /\ u.parent = nodes'.parent
<1>1. ASSUME NEW T \in Trees, NEW k \in 1..MaxLeaves, NEW x \in Node,
             InsertLeaves(T, x, k) \/ ReplaceLeaf(T, x, k)
      PROVE  Kept
  <2>1. k \in Nat /\ k > 0
    BY BoundsAssumption
  <2>3. CASE InsertLeaves(T, x, k)
    BY <2>1, <2>3, InsertLeavesSound
  <2>4. CASE ReplaceLeaf(T, x, k)
    BY <2>1, <2>4, ReplaceLeafSound
  <2> QED BY <1>1, <2>3, <2>4
<1>2. ASSUME NEW T \in Trees, NEW k \in 1..MaxLeaves, NewTree(T, k)
      PROVE  Kept
  <2>1. k \in Nat
    BY BoundsAssumption
  <2> QED BY <1>2, <2>1, NewTreeSound
<1>3. ASSUME NEW T \in Trees, NEW x \in Node, DestroyLeaf(T, x)
      PROVE  Kept
  BY <1>3, DestroyLeafSound
<1>4. ASSUME NEW T \in Trees, NEW x \in Node, ChangeRootOf(T, x)
      PROVE  Kept
  BY <1>4, ChangeRootSound
<1>5. ASSUME NEW T \in Trees, NEW x \in Node, NEW newType \in {"P", "C"},
             ChangeNodeType(T, x, newType)
      PROVE  Kept
  BY <1>5, ChangeTypeSound
<1>6. ASSUME NEW T \in Trees, NEW x \in Node, NEW U \in Trees, InsertTree(T, x, U)
      PROVE  Kept
  BY <1>6, InsertTreeSound
<1> HIDE DEF Kept
<1>7. Kept
  BY <1>1, <1>2, <1>3, <1>4, <1>5, <1>6 DEF Next
<1> QED BY <1>7 DEF Kept

(***************************************************************************)
(* Where each tree has at least two leaves, and inner nodes of three       *)
(* neighbors, or two if it is the root, each is such a tree after any call *)
(* (ValidityKept), however many trees there are and however large: a root  *)
(* that destroyLeaf has left with two children does no harm.               *)
(***************************************************************************)
THEOREM ValidityIsKept == Spec => ValidityKept
<1>1. IInv /\ IInv' /\ Next /\ AllValid => (\A T \in Existing : ValidButRoot(At(T)))'
  <2> SUFFICES ASSUME IInv, IInv', Next, AllValid
               PROVE  (\A T \in Existing : ValidButRoot(At(T)))'
    OBVIOUS
  <2>1. InOrder(nodes, roots) /\ InOrder(nodes', roots')
    BY DEF IInv
  <2>2. PICK u : Sound(u) /\ u.type = nodes'.type /\ u.parent = nodes'.parent
    BY <2>1, CallsKeepSound
  <2>3. ASSUME NEW T \in Trees, roots'[T] # Nil PROVE ValidButRoot(TreeIn(nodes', roots', T))
    BY <2>1, <2>2, <2>3, SoundIsAllValid
  <2> QED BY <2>3 DEF Existing, Exists, At
<1>2. IInv /\ IInv' /\ [Next]_vars
        => [(\A T \in Existing : ValidButRoot(At(T)) /\ Cardinality(LeavesOf(At(T))) > 1)
              => (\A T \in Existing : ValidButRoot(At(T)))']_vars
  BY <1>1 DEF AllValid
<1> QED BY <1>2, IInvHolds, PTL DEF Spec, ValidityKept
=============================================================================
