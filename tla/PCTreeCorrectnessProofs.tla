----------------------- MODULE PCTreeCorrectnessProofs -----------------------
(***************************************************************************)
(* makeConsecutive takes a tree that checkValid(false) accepts to such a   *)
(* tree (TreeStaysValid), its labels are exact (LabelsCorrect), and the    *)
(* path it finds is the terminal path (PathIsTerminal) and as long as it   *)
(* was counted (PathLengthCounted), for any leaves and inner nodes, any    *)
(* start trees and any requests, in whatever order the leaves of a request *)
(* are marked, whatever node is the root, and whichever direction every    *)
(* walk around a node takes.                                               *)
(*                                                                         *)
(* The invariant CallRight has a part for each stage of a call:            *)
(*                                                                         *)
(*  - Sturdy, of the tree in every stage (PCTreeShapeProofs);              *)
(*  - Labelled, of the labels (PCTreeUpdateProofs);                        *)
(*  - SearchRight, of the search for the terminal path: Core says what the *)
(*    paths that grow towards the root are, BlocksRight what is recorded   *)
(*    at the partial C-nodes on them;                                      *)
(*  - FoundRight and MergeRight, of the path and of what is left of it     *)
(*    while the tree is updated (PCTreeUpdateProofs).                      *)
(*                                                                         *)
(* PathInv adds what the labels mean for the tree (Settled), until a path  *)
(* is found and the update changes the tree.                               *)
(*                                                                         *)
(* First why the search ends with a PathSet, then the calls as a whole.    *)
(* After that come the chains, the lists that Chain reads off a PathSet,   *)
(* and the comparison of the PathSet with the edges that the labels call   *)
(* for.                                                                    *)
(***************************************************************************)
EXTENDS PCTreeUpdateProofs

(***************************************************************************)
(* The search.  The nodes that have been dealt with are those with a       *)
(* tpSucc; W is the set of those that wait.                                *)
(***************************************************************************)
Seen(s) == {x \in Node : s.tpSucc[x] # Nil}

\* The path below y's parent comes from y.
OnPath(t, s, y) == t.parent[y] # Nil /\ s.tpPred[t.parent[y]] = y

Base(s, x) == IF s.label[x] = "Partial" THEN x ELSE s.tpPartialPred[x]

LabelsRight(t, s) ==
  \A x \in InUse(t) \cap Inner : s.label[x] # "Full" => ApexRight(t, s, x)

\* A node that waits or is done may be on a path; if it is empty, a path has
\* come up to it from a partial node.
WaitingRight(t, s, W) ==
  /\ W \subseteq Node
  /\ \A x \in W \cup Seen(s) :
       /\ x \in InUse(t) /\ x \in Inner /\ s.label[x] # "Full"
       /\ s.label[x] = "Empty" => s.tpPred[x] # Nil /\ s.tpPartialPred[x] # Nil
  /\ \A x \in InUse(t) : s.label[x] = "Partial" => x \in W \cup Seen(s)

PredsRight(t, s, W) ==
  \A p \in Node : s.tpPred[p] # Nil =>
    t.parent[s.tpPred[p]] = p /\ s.tpPred[p] \in Seen(s) /\ p \in W \cup Seen(s)

\* The candidate is fixed by the second path that meets it.
CandidateRight(t, s, W) ==
  /\ s.apexCandidate # Nil => s.apexCandidate \in Seen(s)
  /\ s.apexCandidateIsFix <=> s.apexTPPred2 # Nil
  /\ s.apexTPPred2 # Nil =>
       /\ s.apexCandidate # Nil /\ t.parent[s.apexTPPred2] = s.apexCandidate
       /\ s.apexTPPred2 \in Seen(s) /\ s.tpPred[s.apexCandidate] \notin {Nil, s.apexTPPred2}
  /\ s.apexCandidate = Nil => W \cap Seen(s) = {}

\* The nodes dealt with above the candidate, on the path that comes up to it.
BeyondOf(t, s, S, a) ==
  {y \in S : /\ y # a /\ s.label[y] = "Empty" /\ y \in Up(t.parent, a)
             /\ s.tpPartialPred[y] = Base(s, a)}

Beyond(t, s) == BeyondOf(t, s, Seen(s), s.apexCandidate)

\* The path has come to its end there.
Overshot(t, s) == s.apexCandidateIsFix = TRUE /\ \E u \in Beyond(t, s) : ~OnPath(t, s, u)

\* Until then every node dealt with is on the way to the candidate or to a
\* node that waits; and afterwards too, but for those beyond the candidate.
PathsJoin(t, s) ==
  /\ s.apexCandidateIsFix = FALSE =>
       /\ \A y \in Seen(s) : y # s.apexCandidate => OnPath(t, s, y)
       /\ s.apexCandidate # Nil => ~OnPath(t, s, s.apexCandidate)
  /\ s.apexCandidateIsFix = TRUE =>
       \A y \in Seen(s) : \/ OnPath(t, s, y)
                          \/ y \in {s.apexCandidate, s.apexTPPred2} \cup Beyond(t, s)

\* tpPartialPred[x] = k is the partial node at which the path up to x begins,
\* tpPartialHeight[x] the number of nodes between.
BaseRight(t, s, x, k) ==
  /\ k \in InUse(t) /\ k \in Node /\ s.label[k] = "Partial" /\ x \in Up(t.parent, k)
  /\ Cardinality(Up(t.parent, k)) = Cardinality(Up(t.parent, x)) + s.tpPartialHeight[x]
  /\ \A y \in Up(t.parent, k) \ Up(t.parent, x) : y \in Seen(s) /\ OnPath(t, s, y) /\ Base(s, y) = k

BasesRight(t, s) ==
  \A x \in Node : s.tpPartialPred[x] # Nil => BaseRight(t, s, x, s.tpPartialPred[x])

\* The nodes dealt with have been counted, except those beyond the candidate
\* once the search has turned out to have gone too far up.
Counted(t, s) == IF Overshot(t, s) THEN Seen(s) \ Beyond(t, s) ELSE Seen(s)

CountRight(t, s) == s.terminalPathLength = Cardinality(Counted(t, s))

Core(t, s, W) ==
  /\ Sturdy(t) /\ s \in TempType /\ LabelsRight(t, s)
  /\ WaitingRight(t, s, W) /\ PredsRight(t, s, W) /\ CandidateRight(t, s, W)
  /\ PathsJoin(t, s) /\ BasesRight(t, s) /\ CountRight(t, s)

\* A partial C-node on the path knows the ends of its full block, and the path
\* comes to it beside one of them.
BlockRight(t, s, x) ==
  /\ s.ebEnd1[x] # Nil => {s.fbEnd1[x], s.fbEnd2[x]} \subseteq ToSet(s.fullNeighbors[x])
  /\ x \in Seen(s) \/ s.tpPred[x] # Nil => s.ebEnd1[x] # Nil
  /\ s.tpPred[x] # Nil => s.tpPred[x] \in {s.ebEnd1[x], s.ebEnd2[x]}

BlocksRight(t, s, E) ==
  \A x \in InUse(t) \ E : t.type[x] = "C" /\ s.label[x] = "Partial" => BlockRight(t, s, x)

SearchRight(t, s) ==
  /\ Core(t, s, ToSet(s.partials)) /\ BlocksRight(t, s, {}) /\ s.failed = FALSE
  /\ Distinct(s.partials)
  /\ s.apexCandidate = Nil => s.partials # <<>>

LEMMA EndOfFullBlockIs ==
  ASSUME NEW t, Sturdy(t), NEW s \in TempType, NEW x \in InUse(t) \cap Inner, ApexRight(t, s, x),
         s.label[x] = "Partial", NEW forward \in BOOLEAN, NEW e, e = EndOfFullBlock(t, s, x, forward)
  PROVE  e.fullEnd \in ToSet(s.fullNeighbors[x]) /\ e.emptyEnd \in Node
<1> DEFINE f == s.fullNeighbors[x]
           ring == Neighbors(t, x)
           n == Len(ring)
           i == PositionOf(ring, Head(f))
           F == {y \in Node : IsFull(s, y)}
<1>1. Tree(t) /\ Forest(t) /\ x \in Node
  BY SturdyFacts, SturdyIsValid DEF Node
<1>2. /\ ring \in Seq(Node) /\ n \in Nat /\ DOMAIN ring = 1..n /\ Distinct(ring)
      /\ Len(ring) = Degree(t, x)
  BY <1>1, AroundIs DEF Distinct
<1>3. \A y \in Node : y \in ToSet(ring) <=> Adjacent(t, x, y)
  <2>1. ToSet(ring) = Kids(t, x) \cup (IF x = t.root THEN {} ELSE {t.parent[x]})
    BY <1>1, AroundIs DEF Around
  <2>2. Kids(t, x) = {c \in Node : t.parent[c] = x}
    BY <1>1, KidsCounted
  <2>3. t.parent[x] = Nil <=> x = t.root
    BY <1>1, SturdyFacts
  <2>4. \A y \in Node : y # Nil
    BY NodesAssumption DEF Node
  <2> QED BY ONLY <2>1, <2>2, <2>3, <2>4 DEF Adjacent
<1>4. /\ f \in Seq(Node) /\ Distinct(f) /\ f # <<>>
      /\ \A y \in ToSet(f) : y \in Node /\ Adjacent(t, x, y) /\ s.label[y] = "Full"
      /\ \A y \in Node : Adjacent(t, x, y) /\ s.label[y] = "Full" => y \in ToSet(f)
      /\ Len(f) + 2 <= Degree(t, x)
  BY DEF ApexRight
<1>5. Head(f) \in ToSet(f) /\ Head(f) \in Node
  BY <1>4 DEF ToSet
<1> HIDE DEF ring, n, f, i
<1>6. Head(f) \in ToSet(ring)
  BY <1>3, <1>4, <1>5
<1>7. i \in DOMAIN ring /\ ring[i] = Head(f)
  BY <1>6, PositionIs DEF i
<1>8. ring[i] \in F
  BY <1>4, <1>5, <1>7 DEF IsFull
<1>9. \E j \in DOMAIN ring : ring[j] \notin F
  <2> SUFFICES ASSUME \A j \in DOMAIN ring : ring[j] \in F PROVE FALSE
    OBVIOUS
  <2>1. \A y \in ToSet(ring) : y \in F
    BY DEF ToSet
  <2>2. ToSet(ring) \subseteq ToSet(f)
    BY <1>3, <1>4, <2>1 DEF IsFull
  <2>3. IsFiniteSet(ToSet(f)) /\ Cardinality(ToSet(f)) = Len(f) /\ Len(f) \in Nat
    BY ONLY <1>4, DistinctLength
  <2>4. Cardinality(ToSet(ring)) = Len(ring)
    BY ONLY <1>2, DistinctLength
  <2>5. Cardinality(ToSet(ring)) <= Cardinality(ToSet(f)) /\ Cardinality(ToSet(ring)) \in Nat
    BY <2>2, <2>3, FS_Subset, FS_CardinalityType
  <2>6. n = Len(ring)
    BY DEF n
  <2> QED BY <1>2, <1>4, <2>3, <2>4, <2>5, <2>6
<1> DEFINE Stops(k) == /\ ~IsFull(s, StepOn(ring, i, forward, k))
                       /\ \A m \in 1..(k - 1) : IsFull(s, StepOn(ring, i, forward, m))
           k0 == CHOOSE k \in 1..n : Stops(k)
<1>10. n = Len(ring)
  BY DEF n
<1>11. \A k \in 0..n : StepOn(ring, i, forward, k) \in ToSet(ring) /\ StepOn(ring, i, forward, k) \in Node
  <2>1. \A k \in 0..n : StepOn(ring, i, forward, k) \in ToSet(ring)
    BY <1>2, <1>7, <1>10, StepIs
  <2>2. ToSet(ring) \subseteq Node
    BY <1>2 DEF ToSet
  <2> QED BY ONLY <2>1, <2>2
<1>12. \E k \in 1..n : Stops(k)
  <2>1. PICK j \in DOMAIN ring : ring[j] \notin F
    BY <1>9
  <2>2. PICK k \in 1..Len(ring) : /\ StepOn(ring, i, forward, k) \notin F
                                  /\ \A m \in 1..(k - 1) : StepOn(ring, i, forward, m) \in F
    BY <1>2, <1>7, <1>8, <2>1, FirstOff
  <2>3. k \in 0..n /\ k \in 1..n
    BY <1>2, <1>10, <2>2
  <2> QED BY <1>11, <2>2, <2>3
<1>13. k0 \in 1..n /\ Stops(k0)
  BY <1>12
<1>14. e.fullEnd = StepOn(ring, i, forward, k0 - 1) /\ e.emptyEnd = StepOn(ring, i, forward, k0)
  BY DEF EndOfFullBlock, StepOn, ring, i, f, n
<1> HIDE DEF k0
<1>15. k0 \in 0..n /\ k0 - 1 \in 0..n /\ (k0 - 1 = 0 \/ k0 - 1 \in 1..(k0 - 1))
  BY <1>2, <1>13
<1>16. e.emptyEnd \in Node
  BY <1>11, <1>14, <1>15
<1>17. e.fullEnd \in ToSet(f)
  <2>1. CASE k0 - 1 = 0
    <3>1. StepOn(ring, i, forward, 0) = ring[i]
      BY <1>2, <1>7, StepIs
    <3> QED BY <1>5, <1>7, <1>14, <2>1, <3>1
  <2>2. CASE k0 - 1 \in 1..(k0 - 1)
    <3>1. IsFull(s, e.fullEnd) /\ e.fullEnd \in ToSet(ring) /\ e.fullEnd \in Node
      BY <1>11, <1>13, <1>14, <1>15, <2>2
    <3> QED BY <1>3, <1>4, <3>1 DEF IsFull
  <2> QED BY <1>15, <2>1, <2>2
<1> QED BY <1>16, <1>17 DEF f

(***************************************************************************)
(* checkTPPartialCNode, and what the loop does with the first partial      *)
(* node.                                                                   *)
(***************************************************************************)
\* The search reads the same from c as from s.
SameButEnds(s, c) ==
  /\ c \in TempType /\ c.label = s.label /\ c.fullNeighbors = s.fullNeighbors /\ c.tpPred = s.tpPred
  /\ c.tpPartialPred = s.tpPartialPred /\ c.tpPartialHeight = s.tpPartialHeight
  /\ c.tpSucc = s.tpSucc /\ c.partials = s.partials /\ c.apexCandidate = s.apexCandidate
  /\ c.apexCandidateIsFix = s.apexCandidateIsFix /\ c.apexTPPred2 = s.apexTPPred2
  /\ c.terminalPathLength = s.terminalPathLength

EndsSameBut(s, c, x) ==
  \A y \in Node : y # x => /\ c.ebEnd1[y] = s.ebEnd1[y] /\ c.fbEnd1[y] = s.fbEnd1[y]
                           /\ c.fbEnd2[y] = s.fbEnd2[y] /\ c.ebEnd2[y] = s.ebEnd2[y]

WithEnds(s, x, e1, e2) ==
  [s EXCEPT !.fbEnd1[x] = e1.fullEnd, !.ebEnd1[x] = e1.emptyEnd,
            !.fbEnd2[x] = e2.fullEnd, !.ebEnd2[x] = e2.emptyEnd]

LEMMA WithEndsIs ==
  ASSUME NEW s \in TempType, NEW x \in Node, NEW e1, NEW e2, e1.fullEnd \in Ref, e1.emptyEnd \in Ref,
         e2.fullEnd \in Ref, e2.emptyEnd \in Ref, NEW c, c = WithEnds(s, x, e1, e2)
  PROVE  /\ SameButEnds(s, c) /\ EndsSameBut(s, c, x) /\ c.failed = s.failed
         /\ c.fbEnd1[x] = e1.fullEnd /\ c.fbEnd2[x] = e2.fullEnd
         /\ c.ebEnd1[x] = e1.emptyEnd /\ c.ebEnd2[x] = e2.emptyEnd
<1>1. /\ s.ebEnd1 \in [Node -> Ref] /\ s.ebEnd2 \in [Node -> Ref]
      /\ s.fbEnd1 \in [Node -> Ref] /\ s.fbEnd2 \in [Node -> Ref]
  BY DEF TempType
<1>2. c = [s EXCEPT !.fbEnd1 = [@ EXCEPT ![x] = e1.fullEnd], !.ebEnd1 = [@ EXCEPT ![x] = e1.emptyEnd],
                    !.fbEnd2 = [@ EXCEPT ![x] = e2.fullEnd], !.ebEnd2 = [@ EXCEPT ![x] = e2.emptyEnd]]
  BY DEF WithEnds, TempType
<1>3. /\ [s.fbEnd1 EXCEPT ![x] = e1.fullEnd] \in [Node -> Ref] /\ [s.fbEnd2 EXCEPT ![x] = e2.fullEnd] \in [Node -> Ref]
      /\ [s.ebEnd1 EXCEPT ![x] = e1.emptyEnd] \in [Node -> Ref] /\ [s.ebEnd2 EXCEPT ![x] = e2.emptyEnd] \in [Node -> Ref]
  BY <1>1
<1>4. c \in TempType
  BY ZenonT(40), <1>2, <1>3 DEF TempType
<1>5. SameButEnds(s, c) /\ c.failed = s.failed
  BY <1>2, <1>4 DEF SameButEnds, TempType
<1>6. /\ c.fbEnd1 = [s.fbEnd1 EXCEPT ![x] = e1.fullEnd] /\ c.fbEnd2 = [s.fbEnd2 EXCEPT ![x] = e2.fullEnd]
      /\ c.ebEnd1 = [s.ebEnd1 EXCEPT ![x] = e1.emptyEnd] /\ c.ebEnd2 = [s.ebEnd2 EXCEPT ![x] = e2.emptyEnd]
  BY <1>2 DEF TempType
<1>7. /\ c.fbEnd1[x] = e1.fullEnd /\ c.fbEnd2[x] = e2.fullEnd
      /\ c.ebEnd1[x] = e1.emptyEnd /\ c.ebEnd2[x] = e2.emptyEnd
  BY <1>1, <1>6
<1>8. EndsSameBut(s, c, x)
  BY <1>1, <1>6 DEF EndsSameBut
<1> QED BY <1>5, <1>7, <1>8

Failing(s, b) == [s EXCEPT !.failed = b]

LEMMA FailingIs ==
  ASSUME NEW s \in TempType, NEW b \in BOOLEAN, NEW c, c = Failing(s, b)
  PROVE  /\ SameButEnds(s, c) /\ c.failed = b
         /\ c.ebEnd1 = s.ebEnd1 /\ c.ebEnd2 = s.ebEnd2 /\ c.fbEnd1 = s.fbEnd1 /\ c.fbEnd2 = s.fbEnd2
BY DEF Failing, SameButEnds, TempType

CheckedRight(s, c, x) ==
  /\ SameButEnds(s, c) /\ EndsSameBut(s, c, x)
  /\ c.failed = FALSE =>
       /\ c.ebEnd1[x] # Nil /\ {c.fbEnd1[x], c.fbEnd2[x]} \subseteq ToSet(s.fullNeighbors[x])
       /\ s.tpPred[x] # Nil => s.tpPred[x] \in {c.ebEnd1[x], c.ebEnd2[x]}

LEMMA CheckIs ==
  ASSUME NEW t, Sturdy(t), NEW s \in TempType, NEW x \in InUse(t) \cap Inner, ApexRight(t, s, x),
         s.label[x] = "Partial",
         s.ebEnd1[x] # Nil => {s.fbEnd1[x], s.fbEnd2[x]} \subseteq ToSet(s.fullNeighbors[x]),
         NEW mirrored, NEW c, c = CheckTPPartialCNode(t, s, x, mirrored)
  PROVE  CheckedRight(s, c, x)
<1> DEFINE e1 == EndOfFullBlock(t, s, x, x \notin mirrored)
           e2 == EndOfFullBlock(t, s, x, x \in mirrored)
           first == s.ebEnd1[x] = Nil
           s1 == IF ~first THEN s ELSE WithEnds(s, x, e1, e2)
           f == ToSet(s.fullNeighbors[x])
           scattered == first /\ 1 + e1.count + e2.count # Len(s.fullNeighbors[x])
           offBlock(y) == y # Nil /\ y \notin {s1.ebEnd1[x], s1.ebEnd2[x]}
           bad == \/ scattered
                  \/ offBlock(s1.tpPred[x])
                  \/ x = s1.apexCandidate /\ offBlock(s1.apexTPPred2)
<1>1. x \in Node
  BY DEF Node
<1>2. /\ e1.fullEnd \in f /\ e1.emptyEnd \in Node
      /\ e2.fullEnd \in f /\ e2.emptyEnd \in Node
  <2>1. (x \notin mirrored) \in BOOLEAN /\ (x \in mirrored) \in BOOLEAN
    OBVIOUS
  <2> QED BY <2>1, EndOfFullBlockIs
<1>3. f \subseteq Node
  <2>1. s.fullNeighbors[x] \in Seq(Node)
    BY <1>1 DEF TempType
  <2> QED BY <2>1 DEF ToSet
<1>4. c = Failing(s1, bad)
  BY DEF CheckTPPartialCNode, Failing, WithEnds
<1> HIDE DEF e1, e2, bad
<1>5. /\ SameButEnds(s, s1) /\ EndsSameBut(s, s1, x) /\ s1 \in TempType
      /\ s1.ebEnd1[x] # Nil /\ {s1.fbEnd1[x], s1.fbEnd2[x]} \subseteq f
  <2>1. CASE first
    <3>1. s1 = WithEnds(s, x, e1, e2)
      BY <2>1
    <3>2. e1.fullEnd \in Ref /\ e1.emptyEnd \in Ref /\ e2.fullEnd \in Ref /\ e2.emptyEnd \in Ref
          /\ e1.emptyEnd # Nil
      BY <1>2, <1>3, NodesAssumption DEF Ref, Node
    <3> HIDE DEF s1
    <3>3. /\ SameButEnds(s, s1) /\ EndsSameBut(s, s1, x)
          /\ s1.fbEnd1[x] = e1.fullEnd /\ s1.fbEnd2[x] = e2.fullEnd
          /\ s1.ebEnd1[x] = e1.emptyEnd
      BY <1>1, <3>1, <3>2, WithEndsIs
    <3>4. s1 \in TempType
      BY <3>3 DEF SameButEnds
    <3> QED BY <1>2, <3>2, <3>3, <3>4
  <2>2. CASE ~first
    <3>1. s1 = s
      BY <2>2
    <3>2. SameButEnds(s, s) /\ EndsSameBut(s, s, x)
      BY DEF SameButEnds, EndsSameBut
    <3>3. s.ebEnd1[x] # Nil
      BY <2>2
    <3> HIDE DEF s1
    <3> QED BY <3>1, <3>2, <3>3
  <2> QED BY <2>1, <2>2
<1> HIDE DEF s1
<1>6. bad \in BOOLEAN
  BY DEF bad
<1>7. /\ SameButEnds(s1, c) /\ c.failed = bad
      /\ c.ebEnd1 = s1.ebEnd1 /\ c.ebEnd2 = s1.ebEnd2 /\ c.fbEnd1 = s1.fbEnd1 /\ c.fbEnd2 = s1.fbEnd2
  BY ONLY <1>4, <1>5, <1>6, FailingIs
<1>8. SameButEnds(s, c)
  BY ONLY <1>5, <1>7 DEF SameButEnds
<1>9. EndsSameBut(s, c, x)
  BY ONLY <1>5, <1>7 DEF EndsSameBut
<1>10. s1.tpPred = s.tpPred
  BY <1>5 DEF SameButEnds
<1>11. ~bad /\ s.tpPred[x] # Nil => s.tpPred[x] \in {c.ebEnd1[x], c.ebEnd2[x]}
  BY <1>7, <1>10 DEF bad
<1>12. c.failed = FALSE => ~bad
  BY <1>7
<1>13. c.ebEnd1[x] # Nil /\ {c.fbEnd1[x], c.fbEnd2[x]} \subseteq ToSet(s.fullNeighbors[x])
  BY <1>5, <1>7
<1> QED BY ONLY <1>8, <1>9, <1>11, <1>12, <1>13 DEF CheckedRight

SearchSame(s, c) ==
  /\ c \in TempType /\ c.label = s.label /\ c.fullNeighbors = s.fullNeighbors /\ c.tpPred = s.tpPred
  /\ c.tpSucc = s.tpSucc /\ c.apexCandidate = s.apexCandidate
  /\ c.apexCandidateIsFix = s.apexCandidateIsFix /\ c.apexTPPred2 = s.apexTPPred2
  /\ c.terminalPathLength = s.terminalPathLength

BasesSameBut(s, c, X) ==
  \A y \in Node : y \notin X => /\ c.tpPartialPred[y] = s.tpPartialPred[y]
                                /\ c.tpPartialHeight[y] = s.tpPartialHeight[y]

\* A path begins at each of the partial nodes X.
LEMMA CoreRebased ==
  ASSUME NEW t, NEW s, NEW W, Core(t, s, W), NEW c, SearchSame(s, c),
         NEW X, BasesSameBut(s, c, X),
         \A x \in X : x \in W /\ s.label[x] = "Partial" /\ c.tpPartialPred[x] = x /\ c.tpPartialHeight[x] = 0
  PROVE  Core(t, c, W)
<1>1. Sturdy(t) /\ t.parent \in Parents /\ s \in TempType
  BY SturdyFacts DEF Core
<1>2. Seen(c) = Seen(s) /\ \A y : OnPath(t, c, y) <=> OnPath(t, s, y)
  BY DEF SearchSame, Seen, OnPath
<1>3. \A x \in X : x \in Node /\ x \in InUse(t)
  BY DEF Core, WaitingRight
<1>4. c \in TempType /\ LabelsRight(t, c)
  BY DEF Core, SearchSame, LabelsRight, ApexRight
<1>5. WaitingRight(t, c, W)
  <2>1. \A x \in W \cup Seen(s) : x \in Node /\ (s.label[x] = "Empty" => x \notin X)
    BY DEF Core, WaitingRight, Seen
  <2>2. \A x \in W \cup Seen(s) : s.label[x] = "Empty" => c.tpPartialPred[x] = s.tpPartialPred[x]
    BY <2>1 DEF BasesSameBut
  <2>3. WaitingRight(t, s, W) /\ c.label = s.label /\ c.tpPred = s.tpPred
    BY DEF Core, SearchSame
  <2> QED BY ONLY <1>2, <2>2, <2>3 DEF WaitingRight
<1> DEFINE a == s.apexCandidate
<1>9. \A y \in Node : Base(c, y) = Base(s, y)
  <2> SUFFICES ASSUME NEW y \in Node PROVE Base(c, y) = Base(s, y)
    OBVIOUS
  <2>1. c.label = s.label
    BY DEF SearchSame
  <2>2. CASE y \in X
    BY <2>1, <2>2 DEF Base
  <2>3. CASE y \notin X
    BY <2>1, <2>3 DEF Base, BasesSameBut
  <2> QED BY <2>2, <2>3
<1>10. s.apexCandidateIsFix = TRUE => a \in Node
  BY DEF Core, CandidateRight, Seen
<1>11. s.apexCandidateIsFix = TRUE => Beyond(t, c) = Beyond(t, s)
  <2> SUFFICES ASSUME a \in Node PROVE Beyond(t, c) = Beyond(t, s)
    BY <1>10
  <2>1. Base(c, a) = Base(s, a) /\ c.label = s.label /\ c.apexCandidate = a
    BY <1>9 DEF SearchSame
  <2>2. \A y \in Seen(s) : s.label[y] = "Empty" => c.tpPartialPred[y] = s.tpPartialPred[y]
    BY DEF Seen, BasesSameBut
  <2>3. a = s.apexCandidate
    OBVIOUS
  <2> HIDE DEF a
  <2> QED BY ONLY <1>2, <2>1, <2>2, <2>3 DEF Beyond, BeyondOf
<1>12. c.apexCandidateIsFix = s.apexCandidateIsFix /\ (Overshot(t, c) <=> Overshot(t, s))
  BY <1>2, <1>11 DEF Overshot, SearchSame
<1>6. PredsRight(t, c, W) /\ CandidateRight(t, c, W) /\ PathsJoin(t, c)
  <2>1. PredsRight(t, s, W) /\ CandidateRight(t, s, W) /\ PathsJoin(t, s)
    BY DEF Core
  <2>2. PredsRight(t, c, W)
    BY <1>2, <2>1 DEF PredsRight, SearchSame
  <2>3. CandidateRight(t, c, W)
    BY <1>2, <2>1 DEF CandidateRight, SearchSame
  <2>4. PathsJoin(t, c)
    <3>1. c.apexCandidate = s.apexCandidate /\ c.apexTPPred2 = s.apexTPPred2
      BY DEF SearchSame
    <3> QED BY ONLY <1>2, <1>11, <1>12, <2>1, <3>1 DEF PathsJoin
  <2> QED BY <2>2, <2>3, <2>4
<1>7. BasesRight(t, c)
  <2> SUFFICES ASSUME NEW x \in Node, c.tpPartialPred[x] # Nil PROVE BaseRight(t, c, x, c.tpPartialPred[x])
    BY DEF BasesRight
  <2>1. CASE x \in X
    <3>1. x \in Up(t.parent, x) /\ Cardinality(Up(t.parent, x)) \in Nat
      BY <1>1, UpIs, UpFinite
    <3>2. Cardinality(Up(t.parent, x)) = Cardinality(Up(t.parent, x)) + c.tpPartialHeight[x]
      BY <2>1, <3>1
    <3>3. Up(t.parent, x) \ Up(t.parent, x) = {}
      OBVIOUS
    <3>4. c.label[x] = "Partial" /\ c.tpPartialPred[x] = x /\ x \in InUse(t)
      BY <1>3, <2>1 DEF SearchSame
    <3> QED BY ONLY <3>1, <3>2, <3>3, <3>4, x \in Node DEF BaseRight
  <2>2. CASE x \notin X
    <3>1. c.tpPartialPred[x] = s.tpPartialPred[x] /\ c.tpPartialHeight[x] = s.tpPartialHeight[x]
      BY <2>2 DEF BasesSameBut
    <3>2. BaseRight(t, s, x, s.tpPartialPred[x])
      BY <3>1 DEF Core, BasesRight
    <3>3. c.label = s.label
      BY DEF SearchSame
    <3>4. s.tpPartialPred[x] \in Node /\ Up(t.parent, s.tpPartialPred[x]) \subseteq Node
      BY <1>1, <3>2, UpIs DEF BaseRight
    <3> QED BY ONLY <1>2, <1>9, <3>1, <3>2, <3>3, <3>4 DEF BaseRight
  <2> QED BY <2>1, <2>2
<1>8. CountRight(t, c)
  <2>1. CountRight(t, s) /\ c.terminalPathLength = s.terminalPathLength
    BY DEF Core, SearchSame
  <2>2. Counted(t, c) = Counted(t, s)
    BY <1>2, <1>11, <1>12 DEF Counted, Overshot
  <2> QED BY <2>1, <2>2 DEF CountRight
<1> QED BY <1>1, <1>4, <1>5, <1>6, <1>7, <1>8 DEF Core

Popped(s) == PopPartial(s)

Rebased(s, x) == [s EXCEPT !.tpPartialPred[x] = x, !.tpPartialHeight[x] = 0]

EndsSame(s, c) ==
  /\ c.ebEnd1 = s.ebEnd1 /\ c.fbEnd1 = s.fbEnd1 /\ c.fbEnd2 = s.fbEnd2 /\ c.ebEnd2 = s.ebEnd2
  /\ c.failed = s.failed

LEMMA PoppedIs ==
  ASSUME NEW s \in TempType, s.partials # <<>>, Distinct(s.partials), NEW c, c = Popped(s)
  PROVE  /\ SearchSame(s, c) /\ BasesSameBut(s, c, {}) /\ EndsSame(s, c)
         /\ ToSet(c.partials) = ToSet(s.partials) \ {Head(s.partials)} /\ Distinct(c.partials)
         /\ Head(s.partials) \in ToSet(s.partials)
<1>1. s.partials \in Seq(Node)
  BY DEF TempType
<1>2. /\ Head(s.partials) \in ToSet(s.partials) /\ Tail(s.partials) \in Seq(Node) /\ Distinct(Tail(s.partials))
      /\ ToSet(Tail(s.partials)) = ToSet(s.partials) \ {Head(s.partials)}
  BY <1>1, TailDistinct
<1>3. c = [s EXCEPT !.partials = Tail(s.partials)]
  BY DEF Popped, PopPartial, TempType
<1>4. c \in TempType /\ c.partials = Tail(s.partials)
  BY <1>2, <1>3 DEF TempType
<1>5. SearchSame(s, c) /\ EndsSame(s, c)
  BY <1>3, <1>4 DEF SearchSame, EndsSame, TempType
<1>6. c.tpPartialPred = s.tpPartialPred /\ c.tpPartialHeight = s.tpPartialHeight
  BY <1>3 DEF TempType
<1>7. BasesSameBut(s, c, {})
  BY <1>6 DEF BasesSameBut
<1> QED BY <1>2, <1>4, <1>5, <1>7

LEMMA RebasedIs ==
  ASSUME NEW s \in TempType, NEW x \in Node, NEW c, c = Rebased(s, x)
  PROVE  /\ SearchSame(s, c) /\ BasesSameBut(s, c, {x}) /\ EndsSame(s, c)
         /\ c.partials = s.partials /\ c.tpPartialPred[x] = x /\ c.tpPartialHeight[x] = 0
<1>1. s.tpPartialPred \in [Node -> Ref] /\ s.tpPartialHeight \in [Node -> Nat]
  BY DEF TempType
<1>2. c = [s EXCEPT !.tpPartialPred = [@ EXCEPT ![x] = x], !.tpPartialHeight = [@ EXCEPT ![x] = 0]]
  BY DEF Rebased, TempType
<1>3. [s.tpPartialPred EXCEPT ![x] = x] \in [Node -> Ref] /\ [s.tpPartialHeight EXCEPT ![x] = 0] \in [Node -> Nat]
  BY <1>1 DEF Ref
<1>4. c \in TempType
  BY <1>2, <1>3 DEF TempType
<1>5. SearchSame(s, c) /\ EndsSame(s, c) /\ c.partials = s.partials
  BY <1>2, <1>4 DEF SearchSame, EndsSame, TempType
<1>6. /\ c.tpPartialPred = [s.tpPartialPred EXCEPT ![x] = x]
      /\ c.tpPartialHeight = [s.tpPartialHeight EXCEPT ![x] = 0]
  BY <1>2 DEF TempType
<1>7. BasesSameBut(s, c, {x}) /\ c.tpPartialPred[x] = x /\ c.tpPartialHeight[x] = 0
  BY <1>1, <1>6 DEF BasesSameBut
<1> QED BY <1>5, <1>7

\* What the loop knows of the node x that it has taken off the list.
Taken(t, d, x) ==
  /\ Core(t, d, ToSet(d.partials) \cup {x}) /\ BlocksRight(t, d, {}) /\ d.failed = FALSE
  /\ Distinct(d.partials) /\ x \notin ToSet(d.partials)
  /\ d.tpPartialPred[x] # Nil /\ (d.label[x] = "Partial" => d.tpPartialPred[x] = x)
  /\ t.type[x] = "C" /\ d.label[x] = "Partial" => d.ebEnd1[x] # Nil

LEMMA BlocksSame ==
  ASSUME NEW t, NEW s, NEW E, BlocksRight(t, s, E), NEW c, SearchSame(s, c), EndsSame(s, c)
  PROVE  BlocksRight(t, c, E)
<1>1. Seen(c) = Seen(s)
  BY DEF Seen, SearchSame
<1> QED BY <1>1 DEF BlocksRight, BlockRight, SearchSame, EndsSame

LEMMA SearchSameTrans ==
  ASSUME NEW s, NEW c, SearchSame(s, c), NEW d, SearchSame(c, d)
  PROVE  SearchSame(s, d)
BY DEF SearchSame

LEMMA ButEndsIsSame ==
  ASSUME NEW s, NEW c, SameButEnds(s, c)
  PROVE  SearchSame(s, c) /\ BasesSameBut(s, c, {}) /\ c.partials = s.partials
BY DEF SameButEnds, SearchSame, BasesSameBut

\* A C-node has been looked at.
LEMMA BlocksChecked ==
  ASSUME NEW t, NEW s, NEW E, NEW x, BlocksRight(t, s, E \cup {x}), NEW c, CheckedRight(s, c, x), c.failed = FALSE
  PROVE  BlocksRight(t, c, E)
<1> SUFFICES ASSUME NEW y \in InUse(t) \ E, t.type[y] = "C", c.label[y] = "Partial" PROVE BlockRight(t, c, y)
  BY DEF BlocksRight
<1>1. SameButEnds(s, c) /\ EndsSameBut(s, c, x) /\ y \in Node
  BY DEF CheckedRight, InUse
<1>2. Seen(c) = Seen(s)
  BY <1>1 DEF SameButEnds, Seen
<1>3. CASE y = x
  <2>1. /\ c.ebEnd1[x] # Nil /\ {c.fbEnd1[x], c.fbEnd2[x]} \subseteq ToSet(s.fullNeighbors[x])
        /\ s.tpPred[x] # Nil => s.tpPred[x] \in {c.ebEnd1[x], c.ebEnd2[x]}
    BY DEF CheckedRight
  <2> QED BY <1>1, <1>3, <2>1 DEF BlockRight, SameButEnds
<1>4. CASE y # x
  <2>1. BlockRight(t, s, y)
    BY <1>1, <1>4 DEF BlocksRight, SameButEnds
  <2>2. /\ c.ebEnd1[y] = s.ebEnd1[y] /\ c.fbEnd1[y] = s.fbEnd1[y]
        /\ c.fbEnd2[y] = s.fbEnd2[y] /\ c.ebEnd2[y] = s.ebEnd2[y]
    BY <1>1, <1>4 DEF EndsSameBut
  <2> QED BY <1>1, <1>2, <2>1, <2>2 DEF BlockRight, SameButEnds
<1> QED BY <1>3, <1>4

LEMMA Dequeued ==
  ASSUME NEW t, NEW s, SearchRight(t, s), s.partials # <<>>, NEW x, x = Head(s.partials),
         NEW mirrored, NEW d, d = Dequeue(t, s, mirrored)
  PROVE  d \in TempType /\ (d.failed = FALSE => Taken(t, d, x))
<1> DEFINE s1 == Popped(s)
           W == ToSet(s.partials)
<1>1. /\ Core(t, s, W) /\ BlocksRight(t, s, {}) /\ s.failed = FALSE /\ Distinct(s.partials)
      /\ s \in TempType /\ Sturdy(t)
  BY DEF SearchRight, Core
<1> HIDE DEF s1
<1>2. /\ SearchSame(s, s1) /\ BasesSameBut(s, s1, {}) /\ EndsSame(s, s1)
      /\ ToSet(s1.partials) = W \ {x} /\ Distinct(s1.partials) /\ x \in W
  BY <1>1, PoppedIs DEF s1
<1>3. x \in InUse(t) /\ x \in Inner /\ x \in Node /\ s.label[x] # "Full"
      /\ (s.label[x] = "Empty" => s.tpPartialPred[x] # Nil) /\ s.label[x] \in {"Empty", "Partial", "Full"}
  <2>1. x \in InUse(t) /\ x \in Inner /\ s.label[x] # "Full" /\ (s.label[x] = "Empty" => s.tpPartialPred[x] # Nil)
    BY <1>1, <1>2 DEF Core, WaitingRight
  <2> QED BY <1>1, <2>1 DEF Node, TempType
<1>4. Core(t, s1, W)
  <2>1. \A y \in {} : y \in W /\ s.label[y] = "Partial" /\ s1.tpPartialPred[y] = y /\ s1.tpPartialHeight[y] = 0
    OBVIOUS
  <2> QED BY <1>1, <1>2, <2>1, CoreRebased
<1>5. BlocksRight(t, s1, {}) /\ s1 \in TempType /\ s1.failed = FALSE /\ s1.label = s.label
  BY <1>1, <1>2, BlocksSame DEF SearchSame, EndsSame
<1>6. CASE s.label[x] # "Partial"
  <2>1. d = s1
    BY <1>6 DEF Dequeue, Popped, s1
  <2>2. d.tpPartialPred[x] # Nil /\ d.label[x] # "Partial"
    BY <1>2, <1>3, <1>5, <1>6, <2>1 DEF BasesSameBut
  <2>3. ToSet(d.partials) \cup {x} = W /\ x \notin ToSet(d.partials)
    BY <1>2, <2>1
  <2> QED BY <1>2, <1>4, <1>5, <2>1, <2>2, <2>3 DEF Taken
<1>7. CASE s.label[x] = "Partial"
  <2> DEFINE c == IF t.type[x] = "C" THEN CheckTPPartialCNode(t, s1, x, mirrored) ELSE s1
  <2>1. d = Rebased(c, x)
    BY <1>7 DEF Dequeue, Popped, s1, Rebased
  <2>2. ApexRight(t, s1, x) /\ s1.label[x] = "Partial"
    BY <1>3, <1>4, <1>5, <1>7 DEF Core, LabelsRight
  <2>3. /\ SearchSame(s1, c) /\ BasesSameBut(s1, c, {}) /\ c.partials = s1.partials
        /\ c.failed = FALSE => BlocksRight(t, c, {}) /\ (t.type[x] = "C" => c.ebEnd1[x] # Nil)
    <3>1. CASE t.type[x] = "C"
      <4>1. c = CheckTPPartialCNode(t, s1, x, mirrored)
        BY <3>1
      <4>2. BlockRight(t, s1, x)
        BY <1>3, <1>5, <2>2, <3>1 DEF BlocksRight
      <4>3. s1.ebEnd1[x] # Nil => {s1.fbEnd1[x], s1.fbEnd2[x]} \subseteq ToSet(s1.fullNeighbors[x])
        BY <4>2 DEF BlockRight
      <4> HIDE DEF c
      <4>4. CheckedRight(s1, c, x)
        BY <1>1, <1>3, <1>5, <2>2, <4>1, <4>3, CheckIs
      <4>5. SameButEnds(s1, c)
        BY <4>4 DEF CheckedRight
      <4>6. SearchSame(s1, c) /\ BasesSameBut(s1, c, {}) /\ c.partials = s1.partials
        BY <4>5, ButEndsIsSame
      <4>7. BlocksRight(t, s1, {} \cup {x})
        BY <1>5 DEF BlocksRight
      <4>8. c.failed = FALSE => BlocksRight(t, c, {})
        BY <4>4, <4>7, BlocksChecked
      <4>9. c.failed = FALSE => c.ebEnd1[x] # Nil
        BY <4>4 DEF CheckedRight
      <4> QED BY <4>6, <4>8, <4>9
    <3>2. CASE t.type[x] # "C"
      <4>1. c = s1
        BY <3>2
      <4> QED BY <1>5, <3>2, <4>1 DEF SearchSame, BasesSameBut
    <3> QED BY <3>1, <3>2
  <2> HIDE DEF c
  <2>4. c \in TempType
    BY <2>3 DEF SearchSame
  <2>5. /\ SearchSame(c, d) /\ BasesSameBut(c, d, {x}) /\ EndsSame(c, d)
        /\ d.partials = c.partials /\ d.tpPartialPred[x] = x /\ d.tpPartialHeight[x] = 0
    <3>1. x \in Node
      BY <1>3
    <3> QED BY ONLY <2>1, <2>4, <3>1, RebasedIs
  <2>6. SearchSame(s1, d) /\ BasesSameBut(s1, d, {x})
    <3>1. SearchSame(s1, d)
      BY <2>3, <2>5, SearchSameTrans
    <3> QED BY <2>3, <2>5, <3>1 DEF BasesSameBut
  <2>7. Core(t, d, W)
    <3>1. \A y \in {x} : y \in W /\ s1.label[y] = "Partial" /\ d.tpPartialPred[y] = y /\ d.tpPartialHeight[y] = 0
      BY <1>2, <2>2, <2>5
    <3> QED BY <1>4, <2>6, <3>1, CoreRebased
  <2>8. d \in TempType /\ x # Nil
    BY <1>3, <2>5, NodesAssumption DEF SearchSame, Node
  <2>9. ToSet(d.partials) \cup {x} = W /\ x \notin ToSet(d.partials) /\ Distinct(d.partials)
    BY <1>2, <2>3, <2>5
  <2>10. d.failed = FALSE => BlocksRight(t, d, {}) /\ (t.type[x] = "C" => d.ebEnd1[x] # Nil)
    <3>1. d.failed = c.failed /\ d.ebEnd1 = c.ebEnd1
      BY <2>5 DEF EndsSame
    <3> QED BY <2>3, <2>5, <3>1, BlocksSame
  <2> QED BY <2>5, <2>7, <2>8, <2>9, <2>10 DEF Taken
<1> QED BY <1>6, <1>7

\* The node has been dealt with before.
LEMMA SeenAlready ==
  ASSUME NEW t, NEW d, NEW x, Taken(t, d, x), d.tpSucc[x] # Nil
  PROVE  SearchRight(t, d)
<1> DEFINE Q == ToSet(d.partials)
<1>1. Core(t, d, Q \cup {x}) /\ BlocksRight(t, d, {}) /\ d.failed = FALSE /\ Distinct(d.partials)
  BY DEF Taken
<1> HIDE DEF Q
<1>2. x \in Seen(d)
  BY <1>1 DEF Core, WaitingRight, Seen
<1>3. WaitingRight(t, d, Q) /\ PredsRight(t, d, Q) /\ CandidateRight(t, d, Q)
  <2>1. (Q \cup {x}) \cup Seen(d) = Q \cup Seen(d) /\ d.apexCandidate # Nil
    BY <1>1, <1>2 DEF Core, CandidateRight
  <2>2. WaitingRight(t, d, Q \cup {x}) /\ PredsRight(t, d, Q \cup {x}) /\ CandidateRight(t, d, Q \cup {x})
    BY <1>1 DEF Core
  <2>3. WaitingRight(t, d, Q)
    BY <2>1, <2>2 DEF WaitingRight
  <2>4. PredsRight(t, d, Q)
    BY <2>1, <2>2 DEF PredsRight
  <2>5. CandidateRight(t, d, Q)
    BY <2>1, <2>2 DEF CandidateRight
  <2> QED BY <2>3, <2>4, <2>5
<1>4. Core(t, d, Q)
  BY <1>1, <1>3 DEF Core
<1>5. d.apexCandidate # Nil
  BY <1>1, <1>2 DEF Core, CandidateRight
<1> QED BY <1>1, <1>4, <1>5 DEF SearchRight, Q

(***************************************************************************)
(* setApexCandidate.                                                       *)
(***************************************************************************)
Touched(s0, ac) ==
  [s0 EXCEPT !.terminalPathLength = IF s0.tpSucc[ac] = Nil THEN @ + 1 ELSE @,
             !.tpSucc[ac] = ac]

CountOf(s0, ac) == IF s0.tpSucc[ac] = Nil THEN s0.terminalPathLength + 1 ELSE s0.terminalPathLength

\* What the search knows but for the candidate, the count and who is done.
SearchStays(s, c) ==
  /\ c.label = s.label /\ c.fullNeighbors = s.fullNeighbors /\ c.tpPred = s.tpPred
  /\ c.tpPartialPred = s.tpPartialPred /\ c.tpPartialHeight = s.tpPartialHeight
  /\ c.partials = s.partials /\ c.apexTPPred2 = s.apexTPPred2
  /\ c.ebEnd1 = s.ebEnd1 /\ c.fbEnd1 = s.fbEnd1 /\ c.fbEnd2 = s.fbEnd2 /\ c.ebEnd2 = s.ebEnd2

NowDone(s, c, x, y) == c.tpSucc = [s.tpSucc EXCEPT ![x] = y]

LEMMA TouchedIs ==
  ASSUME NEW s \in TempType, NEW ac \in Node, NEW u, u = Touched(s, ac)
  PROVE  /\ u \in TempType /\ SearchStays(s, u) /\ NowDone(s, u, ac, ac)
         /\ u.terminalPathLength = CountOf(s, ac) /\ u.terminalPathLength \in Nat
         /\ u.apexCandidate = s.apexCandidate
         /\ u.apexCandidateIsFix = s.apexCandidateIsFix /\ u.failed = s.failed
<1>1. s.tpSucc \in [Node -> Ref] /\ s.terminalPathLength \in Nat
  BY DEF TempType
<1>2. CountOf(s, ac) \in Nat
  BY <1>1 DEF CountOf
<1>3. u = [s EXCEPT !.terminalPathLength = CountOf(s, ac), !.tpSucc = [@ EXCEPT ![ac] = ac]]
  BY DEF Touched, CountOf, TempType
<1>4. [s.tpSucc EXCEPT ![ac] = ac] \in [Node -> Ref]
  BY <1>1 DEF Ref
<1>5. u \in TempType
  BY <1>2, <1>3, <1>4 DEF TempType
<1>6. SearchStays(s, u)
  BY <1>3 DEF SearchStays, TempType
<1>7. NowDone(s, u, ac, ac)
  BY <1>3 DEF NowDone, TempType
<1> QED BY <1>2, <1>3, <1>5, <1>6, <1>7 DEF TempType

Named(u, a, f, n) == [u EXCEPT !.apexCandidate = a, !.apexCandidateIsFix = f, !.terminalPathLength = n]

NamedRight(u, r, a, f, n) ==
  /\ SearchStays(u, r) /\ r.tpSucc = u.tpSucc /\ r.failed = u.failed
  /\ r.apexCandidate = a /\ r.apexCandidateIsFix = f /\ r.terminalPathLength = n
  /\ n \in Nat => r \in TempType

LEMMA NamedIs ==
  ASSUME NEW u \in TempType, NEW a \in Ref, NEW f \in BOOLEAN, NEW n, NEW r, r = Named(u, a, f, n)
  PROVE  NamedRight(u, r, a, f, n)
BY DEF NamedRight, Named, SearchStays, TempType

\* The four outcomes: a first candidate, the same candidate again, a second
\* one above or below the first on the same path, a failure.
First(s, r, ac, fix) ==
  /\ s.apexCandidate = Nil /\ r.apexCandidate = ac /\ r.apexCandidateIsFix = fix
  /\ r.terminalPathLength = CountOf(s, ac) /\ r.failed = s.failed

Again(s, r, ac, fix) ==
  /\ s.apexCandidate = ac /\ r.apexCandidate = ac /\ r.apexCandidateIsFix = (s.apexCandidateIsFix \/ fix)
  /\ r.terminalPathLength = CountOf(s, ac) /\ r.failed = s.failed

WentTooFar(s, r, ac, fix) ==
  LET old   == s.apexCandidate
      fixAC == IF fix THEN ac ELSE old
      non   == IF fix THEN old ELSE ac
  IN  /\ old # Nil /\ old # ac /\ fix # s.apexCandidateIsFix /\ TooFar(s, non, fixAC)
      /\ r.apexCandidate = fixAC /\ r.apexCandidateIsFix = TRUE
      /\ r.terminalPathLength = CountOf(s, ac) - Excess(s, non, fixAC) /\ r.failed = s.failed

Fails(s, r, ac) == r.failed = TRUE /\ r.terminalPathLength = CountOf(s, ac)

SetApexFacts(s, r, ac, fix) ==
  /\ SearchStays(s, r) /\ NowDone(s, r, ac, ac)
  /\ r.terminalPathLength \in Nat => r \in TempType
  /\ First(s, r, ac, fix) \/ Again(s, r, ac, fix) \/ WentTooFar(s, r, ac, fix) \/ Fails(s, r, ac)

LEMMA SetApexIs ==
  ASSUME NEW s \in TempType, NEW ac \in Node, NEW fix \in BOOLEAN, NEW r, r = SetApexCandidate(s, ac, fix)
  PROVE  SetApexFacts(s, r, ac, fix)
<1> DEFINE u     == Touched(s, ac)
           old   == s.apexCandidate
           fixAC == IF fix THEN ac ELSE old
           non   == IF fix THEN old ELSE ac
           far   == fix # s.apexCandidateIsFix /\ TooFar(s, non, fixAC)
<1> HIDE DEF u
<1>1. /\ u \in TempType /\ SearchStays(s, u) /\ NowDone(s, u, ac, ac)
      /\ u.terminalPathLength = CountOf(s, ac) /\ u.terminalPathLength \in Nat
      /\ u.apexCandidate = s.apexCandidate
      /\ u.apexCandidateIsFix = s.apexCandidateIsFix /\ u.failed = s.failed
  BY TouchedIs DEF u
<1>2. TooFar(u, non, fixAC) <=> TooFar(s, non, fixAC)
  BY <1>1 DEF TooFar, SearchStays
<1>3. Excess(u, non, fixAC) = Excess(s, non, fixAC)
  BY <1>1 DEF Excess, SearchStays
<1>4. old \in Ref /\ ac \in Ref /\ s.apexCandidateIsFix \in BOOLEAN
  BY DEF TempType, Ref
<1>5. r = IF u.apexCandidate = Nil
            THEN [u EXCEPT !.apexCandidate = ac, !.apexCandidateIsFix = fix]
          ELSE IF u.apexCandidate = ac
            THEN [u EXCEPT !.apexCandidateIsFix = @ \/ fix]
          ELSE IF fix # u.apexCandidateIsFix
                    /\ TooFar(u, IF fix THEN u.apexCandidate ELSE ac, IF fix THEN ac ELSE u.apexCandidate)
            THEN [u EXCEPT !.apexCandidate = IF fix THEN ac ELSE u.apexCandidate, !.apexCandidateIsFix = TRUE,
                           !.terminalPathLength = @ - Excess(u, IF fix THEN u.apexCandidate ELSE ac,
                                                                IF fix THEN ac ELSE u.apexCandidate)]
          ELSE [u EXCEPT !.failed = TRUE]
  BY DEF SetApexCandidate, Touched, u
<1>6. CASE old = Nil
  <2>1. r = [u EXCEPT !.apexCandidate = ac, !.apexCandidateIsFix = fix]
    BY <1>1, <1>5, <1>6
  <2>2. r \in TempType /\ SearchStays(u, r) /\ r.tpSucc = u.tpSucc
    BY ZenonT(40), <1>1, <1>4, <2>1 DEF TempType, SearchStays
  <2>3. r.apexCandidate = ac /\ r.apexCandidateIsFix = fix /\ r.terminalPathLength = u.terminalPathLength
        /\ r.failed = u.failed
    BY <1>1, <2>1 DEF TempType
  <2>4. First(s, r, ac, fix)
    BY <1>1, <1>6, <2>3 DEF First
  <2> QED BY ONLY <1>1, <2>2, <2>4 DEF SetApexFacts, SearchStays, NowDone
<1>7. CASE old # Nil /\ old = ac
  <2>1. r = [u EXCEPT !.apexCandidateIsFix = @ \/ fix]
    BY <1>1, <1>5, <1>7
  <2>2. r = [u EXCEPT !.apexCandidateIsFix = s.apexCandidateIsFix \/ fix]
    BY <1>1, <2>1
  <2>3. r \in TempType /\ SearchStays(u, r) /\ r.tpSucc = u.tpSucc
    BY <1>1, <1>4, <2>2 DEF TempType, SearchStays
  <2>4. r.apexCandidate = old /\ r.apexCandidateIsFix = (s.apexCandidateIsFix \/ fix)
        /\ r.terminalPathLength = u.terminalPathLength /\ r.failed = u.failed
    BY <1>1, <2>2 DEF TempType
  <2>5. Again(s, r, ac, fix)
    BY <1>1, <1>7, <2>4 DEF Again
  <2> QED BY ONLY <1>1, <2>3, <2>5 DEF SetApexFacts, SearchStays, NowDone
<1>8. CASE old # Nil /\ old # ac /\ far
  <2>1. r = [u EXCEPT !.apexCandidate = fixAC, !.apexCandidateIsFix = TRUE,
                      !.terminalPathLength = @ - Excess(s, non, fixAC)]
    BY <1>1, <1>2, <1>3, <1>5, <1>8
  <2>2. r = Named(u, fixAC, TRUE, CountOf(s, ac) - Excess(s, non, fixAC))
    BY <1>1, <2>1 DEF Named
  <2>3. fixAC \in Ref
    BY <1>4
  <2> DEFINE n == CountOf(s, ac) - Excess(s, non, fixAC)
             yes == TRUE
             a == fixAC
  <2> HIDE DEF n, yes, a
  <2>4. r = Named(u, a, yes, n) /\ yes = TRUE /\ yes \in BOOLEAN /\ a = fixAC /\ a \in Ref
    BY <2>2, <2>3 DEF n, yes, a
  <2>5. /\ SearchStays(u, r) /\ r.tpSucc = u.tpSucc /\ r.failed = u.failed
        /\ r.apexCandidate = fixAC /\ r.apexCandidateIsFix = TRUE /\ r.terminalPathLength = n
        /\ n \in Nat => r \in TempType
    <3>1. NamedRight(u, r, a, yes, n)
      BY ONLY <1>1, <2>4, NamedIs
    <3> QED BY ONLY <2>4, <3>1 DEF NamedRight
  <2>6. WentTooFar(s, r, ac, fix)
    BY <1>1, <1>8, <2>5 DEF WentTooFar, n
  <2> QED BY ONLY <1>1, <2>5, <2>6 DEF SetApexFacts, SearchStays, NowDone
<1>9. CASE old # Nil /\ old # ac /\ ~far
  <2>1. r = Failing(u, TRUE)
    BY <1>1, <1>2, <1>5, <1>9 DEF Failing
  <2>2. SameButEnds(u, r) /\ r.failed = TRUE
        /\ r.ebEnd1 = u.ebEnd1 /\ r.ebEnd2 = u.ebEnd2 /\ r.fbEnd1 = u.fbEnd1 /\ r.fbEnd2 = u.fbEnd2
    BY ZenonT(40), <1>1, <2>1, FailingIs
  <2>3. r \in TempType /\ SearchStays(u, r) /\ r.tpSucc = u.tpSucc
    BY <2>2 DEF SameButEnds, SearchStays
  <2>4. Fails(s, r, ac)
    BY <1>1, <2>2 DEF Fails, SameButEnds
  <2> QED BY ONLY <1>1, <2>3, <2>4 DEF SetApexFacts, SearchStays, NowDone
<1> QED BY <1>6, <1>7, <1>8, <1>9

\* On the way up from the same partial node, u is not yet dealt with and v is:
\* then u is above v.
LEMMA UnseenIsAbove ==
  ASSUME NEW t, t.parent \in Parents, Acyclic(t.parent), NEW s, NEW k, NEW u \in Node, NEW v \in Node,
         BaseRight(t, s, u, k), BaseRight(t, s, v, k), u \notin Seen(s) \/ ~OnPath(t, s, u)
  PROVE  u \in Up(t.parent, v)
<1>1. k \in Node /\ u \in Up(t.parent, k) /\ v \in Up(t.parent, k)
  BY DEF BaseRight
<1>2. u \in Up(t.parent, v) \/ v \in Up(t.parent, u)
  BY <1>1, UpComparable
<1>3. u \notin Up(t.parent, k) \ Up(t.parent, v)
  BY DEF BaseRight
<1> QED BY <1>1, <1>3

\* The path to fx begins at k.
BeginsAt(t, s, fx, k) ==
  \/ s.label[fx] = "Partial" /\ k = fx
  \/ s.label[fx] # "Partial" /\ s.tpPartialPred[fx] = k /\ BaseRight(t, s, fx, k)

\* What the search has gone too far is the way from fx up to non.
LEMMA ExcessIs ==
  ASSUME NEW t, t.parent \in Parents, Acyclic(t.parent), NEW s \in TempType, NEW non \in Node, NEW fx \in Node,
         NEW k, k = s.tpPartialPred[non], BaseRight(t, s, non, k), BeginsAt(t, s, fx, k),
         non \in Up(t.parent, fx)
  PROVE  LET D == Up(t.parent, fx) \ Up(t.parent, non)
         IN  Excess(s, non, fx) = Cardinality(D) /\ D \subseteq Seen(s) /\ IsFiniteSet(D) /\ Cardinality(D) \in Nat
<1> DEFINE A == Up(t.parent, fx)
           B == Up(t.parent, non)
           K == Up(t.parent, k)
           h == s.tpPartialHeight
<1>1. /\ k \in Node /\ Cardinality(K) = Cardinality(B) + h[non]
      /\ \A y \in K \ B : y \in Seen(s)
      /\ s.tpPartialHeight \in [Node -> Nat]
  BY DEF BaseRight, TempType
<1>2. /\ B \subseteq A /\ IsFiniteSet(A \ B) /\ Cardinality(A \ B) = Cardinality(A) - Cardinality(B)
      /\ Cardinality(A \ B) \in Nat
  BY UpDifference
<1>3. Cardinality(A) \in Nat /\ Cardinality(B) \in Nat /\ Cardinality(K) \in Nat
  BY <1>1, UpFinite
<1>4. A \subseteq K
  <2>1. fx \in K
    BY <1>1, UpIs DEF BeginsAt, BaseRight
  <2> QED BY <1>1, <2>1, UpTransitive
<1>5. Excess(s, non, fx) = Cardinality(A) - Cardinality(B)
  <2>1. CASE s.label[fx] = "Partial" /\ k = fx
    <3>1. Excess(s, non, fx) = h[non] - 0
      BY <2>1 DEF Excess
    <3>2. h[non] \in Nat /\ Cardinality(A) = Cardinality(B) + h[non]
      BY <1>1, <2>1
    <3> HIDE DEF A, B, h
    <3> QED BY <1>3, <3>1, <3>2
  <2>2. CASE s.label[fx] # "Partial" /\ s.tpPartialPred[fx] = k /\ BaseRight(t, s, fx, k)
    <3>1. Excess(s, non, fx) = h[non] - h[fx]
      BY <2>2 DEF Excess
    <3>2. h[non] \in Nat /\ h[fx] \in Nat /\ Cardinality(K) = Cardinality(A) + h[fx]
      BY <1>1, <2>2 DEF BaseRight
    <3> HIDE DEF A, B, K, h
    <3> QED BY <1>1, <1>3, <3>1, <3>2
  <2> QED BY <2>1, <2>2 DEF BeginsAt
<1>6. non \in B
  BY UpIs
<1>7. A \ B \subseteq Seen(s)
  BY <1>1, <1>4
<1> QED BY <1>2, <1>5, <1>6, <1>7

LEMMA SeenFinite ==
  ASSUME NEW s
  PROVE  /\ Seen(s) \subseteq Node /\ IsFiniteSet(Seen(s)) /\ Cardinality(Seen(s)) \in Nat
         /\ Seen(s) # {} => Cardinality(Seen(s)) >= 1
<1>1. Seen(s) \subseteq Node /\ IsFiniteSet(Node)
  BY NodeIsFinite DEF Seen
<1>2. IsFiniteSet(Seen(s)) /\ Cardinality(Seen(s)) \in Nat
  BY <1>1, FS_Subset, FS_CardinalityType
<1>3. Cardinality(Seen(s)) = 0 <=> Seen(s) = {}
  BY <1>2, FS_EmptySet
<1> QED BY <1>1, <1>2, <1>3

\* The way from a up to x, where the path that comes up to a from k has got.
WayBeyond(t, s, x, a) ==
  /\ Excess(s, x, a) = Cardinality(BeyondOf(t, s, Seen(s) \cup {x}, a)) /\ x \in BeyondOf(t, s, Seen(s) \cup {x}, a)
  /\ IsFiniteSet(BeyondOf(t, s, Seen(s) \cup {x}, a))

LEMMA BeyondIs ==
  ASSUME NEW t, t.parent \in Parents, Acyclic(t.parent), NEW s \in TempType, BasesRight(t, s),
         \A y \in Seen(s) : s.label[y] # "Full", NEW x \in Node, NEW a \in Node, x # a,
         NEW k, k = s.tpPartialPred[x], k = Base(s, a), s.label[x] = "Empty", BaseRight(t, s, x, k),
         BeginsAt(t, s, a, k), x \in Up(t.parent, a), x \notin Seen(s) \/ ~OnPath(t, s, x)
  PROVE  WayBeyond(t, s, x, a)
<1> DEFINE R == BeyondOf(t, s, Seen(s) \cup {x}, a)
           A == Up(t.parent, a)
           B == Up(t.parent, x)
           K == Up(t.parent, k)
           D == A \ B
<1>1. /\ k \in Node /\ k \in InUse(t) /\ s.label[k] = "Partial" /\ x \in K
      /\ \A y \in K \ B : y \in Seen(s) /\ OnPath(t, s, y) /\ Base(s, y) = k
  BY DEF BaseRight
<1>2. Excess(s, x, a) = Cardinality(D) /\ D \subseteq Seen(s) /\ IsFiniteSet(D) /\ Cardinality(D) \in Nat
  BY ExcessIs
<1>3. a \in K /\ A \subseteq K /\ a \in A /\ x \in B /\ B \subseteq A /\ A \subseteq Node
  <2>1. a \in K
    BY <1>1, UpIs DEF BeginsAt, BaseRight
  <2> QED BY <1>1, <2>1, UpIs, UpTransitive
<1>4. a \notin B
  BY UpAntisymmetric
<1>5. R = (D \ {a}) \cup {x}
  <2>1. ASSUME NEW y \in D, y # a PROVE y \in R
    <3>1. y \in Node /\ y \in Seen(s) /\ y \in A /\ Base(s, y) = k
      BY <1>1, <1>2, <1>3
    <3>2. s.label[y] \in {"Empty", "Partial"}
      BY <3>1 DEF TempType
    <3>3. s.label[y] # "Partial"
      <4> SUFFICES ASSUME s.label[y] = "Partial" PROVE FALSE
        OBVIOUS
      <4>1. y = k
        BY <3>1 DEF Base
      <4> QED BY <1>1, <1>3, <2>1, <3>1, <4>1, UpAntisymmetric
    <3>4. s.tpPartialPred[y] = Base(s, a) /\ s.label[y] = "Empty"
      BY <3>1, <3>2, <3>3 DEF Base
    <3> QED BY <2>1, <3>1, <3>4 DEF BeyondOf
  <2>2. x \in R
    BY DEF BeyondOf
  <2>3. ASSUME NEW y \in R, y # x PROVE y \in D \ {a}
    <3>1. y \in Seen(s) /\ y # a /\ s.label[y] = "Empty" /\ y \in A /\ s.tpPartialPred[y] = k /\ y \in Node
      BY <2>3 DEF BeyondOf, Seen
    <3>2. y \notin B
      <4> SUFFICES ASSUME y \in B PROVE FALSE
        OBVIOUS
      <4>1. x \notin Up(t.parent, y)
        BY <2>3, <3>1, UpAntisymmetric
      <4>2. k # Nil
        BY <1>1, NodesAssumption DEF Node
      <4>3. BaseRight(t, s, y, k)
        BY <3>1, <4>2 DEF BasesRight
      <4>4. x \in Seen(s) /\ OnPath(t, s, x)
        BY <1>1, <4>1, <4>3 DEF BaseRight
      <4> QED BY <4>4
    <3> QED BY <3>1, <3>2
  <2> HIDE DEF D
  <2> QED BY <2>1, <2>2, <2>3
<1>6. IsFiniteSet(D \ {a}) /\ x \notin D /\ a \in D
  BY <1>2, <1>3, <1>4, FS_RemoveElement
<1> HIDE DEF D, R
<1>7. Cardinality(D \ {a}) = Cardinality(D) - 1
  BY <1>2, <1>6, FS_RemoveElement
<1>8. Cardinality(R) = Cardinality(D \ {a}) + 1 /\ IsFiniteSet(R)
  BY <1>5, <1>6, FS_AddElement
<1>9. Cardinality(R) = Cardinality(D)
  BY ONLY <1>2, <1>7, <1>8
<1>10. x \in R
  BY ONLY <1>5
<1> QED BY <1>2, <1>8, <1>9, <1>10 DEF WayBeyond, R

\* A node above the fixed candidate, on the same path, has been reached: this
\* has not happened before, and the way to it has been counted.
LEMMA FarAbove ==
  ASSUME NEW t, NEW s, NEW W, Core(t, s, W), s.apexCandidateIsFix = TRUE, NEW x \in Node, x \notin Seen(s),
         s.tpPartialPred[x] # Nil, TooFar(s, x, s.apexCandidate)
  PROVE  s.terminalPathLength = Cardinality(Seen(s)) /\ WayBeyond(t, s, x, s.apexCandidate)
<1> DEFINE a == s.apexCandidate
           k == s.tpPartialPred[x]
<1>1. /\ Sturdy(t) /\ s \in TempType /\ WaitingRight(t, s, W) /\ CandidateRight(t, s, W) /\ BasesRight(t, s)
      /\ CountRight(t, s) /\ t.parent \in Parents /\ Acyclic(t.parent)
  BY SturdyFacts DEF Core
<1>2. a \in Seen(s) /\ a \in Node /\ x # a
  BY <1>1 DEF CandidateRight, Seen
<1>3. s.label[x] = "Empty" /\ k = Base(s, a)
  BY DEF TooFar, Base
<1>4. BaseRight(t, s, x, k)
  BY <1>1 DEF BasesRight
<1>5. BeginsAt(t, s, a, k) /\ x \in Up(t.parent, a)
  <2>1. CASE s.label[a] = "Partial"
    <3>1. k = a
      BY <1>3, <2>1 DEF Base
    <3> QED BY <1>4, <2>1, <3>1 DEF BeginsAt, BaseRight
  <2>2. CASE s.label[a] # "Partial"
    <3>1. s.tpPartialPred[a] = k
      BY <1>3, <2>2 DEF Base
    <3>2. BaseRight(t, s, a, k)
      BY <1>1, <1>2, <3>1 DEF BasesRight
    <3> QED BY <1>1, <1>2, <1>4, <2>2, <3>1, <3>2, UnseenIsAbove DEF BeginsAt
  <2> QED BY <2>1, <2>2
<1>6. WayBeyond(t, s, x, a)
  <2>1. \A y \in Seen(s) : s.label[y] # "Full"
    BY <1>1 DEF WaitingRight
  <2>2. x \notin Seen(s) /\ x \in Node /\ k = s.tpPartialPred[x]
    OBVIOUS
  <2> HIDE DEF a, k
  <2> QED BY ONLY <1>1, <1>2, <1>3, <1>4, <1>5, <2>1, <2>2, BeyondIs
<1>7. ~Overshot(t, s)
  <2> SUFFICES ASSUME Overshot(t, s) PROVE FALSE
    OBVIOUS
  <2>1. PICK u \in Seen(s) : s.tpPartialPred[u] = k /\ ~OnPath(t, s, u)
    BY <1>3 DEF Overshot, Beyond, BeyondOf
  <2>2. u \in Node /\ BaseRight(t, s, u, k)
    BY <1>1, <2>1 DEF Seen, BasesRight
  <2>3. u \in Up(t.parent, x) /\ x \in Up(t.parent, u)
    BY <1>1, <1>4, <2>1, <2>2, UnseenIsAbove
  <2>4. u = x
    BY <1>1, <2>2, <2>3, UpAntisymmetric
  <2> QED BY <2>4
<1> QED BY <1>1, <1>6, <1>7 DEF CountRight, Counted

\* The candidate, not yet fixed, is above p, where two paths meet, on the
\* first of them.
LEMMA FarBelow ==
  ASSUME NEW t, NEW s, NEW W, Core(t, s, W), s.apexCandidateIsFix = FALSE, NEW n, n = s.apexCandidate, n # Nil,
         NEW p \in Node, n # p, s.tpPred[p] # Nil, TooFar(s, n, p)
  PROVE  WayBeyond(t, s, n, p) /\ n \in Seen(s) /\ ~OnPath(t, s, n)
<1> DEFINE k == s.tpPartialPred[n]
<1>1. /\ Sturdy(t) /\ s \in TempType /\ WaitingRight(t, s, W) /\ CandidateRight(t, s, W) /\ BasesRight(t, s)
      /\ PathsJoin(t, s) /\ PredsRight(t, s, W) /\ t.parent \in Parents /\ Acyclic(t.parent)
  BY SturdyFacts DEF Core
<1>2. n \in Seen(s) /\ n \in Node /\ ~OnPath(t, s, n)
  BY <1>1 DEF CandidateRight, PathsJoin, Seen
<1>3. s.label[n] = "Empty" /\ k = Base(s, p)
  BY DEF TooFar, Base
<1>4. k # Nil
  BY <1>1, <1>2, <1>3 DEF WaitingRight
<1>5. BaseRight(t, s, n, k)
  BY <1>1, <1>2, <1>4 DEF BasesRight
<1>6. BeginsAt(t, s, p, k) /\ n \in Up(t.parent, p)
  <2>1. CASE s.label[p] = "Partial"
    <3>1. k = p
      BY <1>3, <2>1 DEF Base
    <3> QED BY <1>5, <2>1, <3>1 DEF BeginsAt, BaseRight
  <2>2. CASE s.label[p] # "Partial"
    <3>1. s.tpPartialPred[p] = k
      BY <1>3, <2>2 DEF Base
    <3>2. BaseRight(t, s, p, k)
      BY <1>1, <1>4, <3>1 DEF BasesRight
    <3> QED BY <1>1, <1>2, <1>5, <2>2, <3>1, <3>2, UnseenIsAbove DEF BeginsAt
  <2> QED BY <2>1, <2>2
<1>7. \A y \in Seen(s) : s.label[y] # "Full"
  BY <1>1 DEF WaitingRight
<1>8. WayBeyond(t, s, n, p)
  <2>1. k = s.tpPartialPred[n] /\ p \in Node /\ n # p
    OBVIOUS
  <2> HIDE DEF k
  <2> QED BY ONLY <1>1, <1>2, <1>3, <1>5, <1>6, <1>7, <2>1, BeyondIs
<1> QED BY <1>2, <1>8

LEMMA SeenGrows ==
  ASSUME NEW s \in TempType, NEW x \in Node, NEW y \in Node, NEW c, NowDone(s, c, x, y)
  PROVE  /\ Seen(c) = Seen(s) \cup {x}
         /\ x \notin Seen(s) => Cardinality(Seen(c)) = Cardinality(Seen(s)) + 1
         /\ x \in Seen(s) => Seen(c) = Seen(s)
         /\ x \in Seen(s) <=> s.tpSucc[x] # Nil
<1>1. s.tpSucc \in [Node -> Ref] /\ y # Nil
  BY NodesAssumption DEF TempType, Node
<1>2. Seen(c) = Seen(s) \cup {x}
  BY <1>1 DEF Seen, NowDone
<1>3. x \in Seen(s) => Seen(c) = Seen(s)
  BY <1>2
<1>4. x \notin Seen(s) => Cardinality(Seen(s) \cup {x}) = Cardinality(Seen(s)) + 1
  BY SeenFinite, FS_AddElement
<1> QED BY <1>2, <1>3, <1>4 DEF Seen

ChainsStay(s, c) ==
  /\ c.label = s.label /\ c.fullNeighbors = s.fullNeighbors /\ c.tpPred = s.tpPred
  /\ c.tpPartialPred = s.tpPartialPred /\ c.tpPartialHeight = s.tpPartialHeight

\* What was true of the paths stays true when more nodes are done.
LEMMA PathsStay ==
  ASSUME NEW t, NEW s, NEW W, Core(t, s, W), NEW c \in TempType, ChainsStay(s, c), Seen(s) \subseteq Seen(c)
  PROVE  /\ LabelsRight(t, c) /\ BasesRight(t, c)
         /\ \A y : OnPath(t, c, y) <=> OnPath(t, s, y)
         /\ \A y : Base(c, y) = Base(s, y)
<1>1. LabelsRight(t, s) /\ BasesRight(t, s)
  BY DEF Core
<1>2. \A y : OnPath(t, c, y) <=> OnPath(t, s, y)
  BY DEF OnPath, ChainsStay
<1>3. LabelsRight(t, c)
  BY <1>1 DEF LabelsRight, ApexRight, ChainsStay
<1>5. \A y : Base(c, y) = Base(s, y)
  BY DEF Base, ChainsStay
<1>4. BasesRight(t, c)
  <2> SUFFICES ASSUME NEW x \in Node, c.tpPartialPred[x] # Nil PROVE BaseRight(t, c, x, c.tpPartialPred[x])
    BY DEF BasesRight
  <2>1. /\ c.tpPartialPred = s.tpPartialPred /\ c.tpPartialHeight = s.tpPartialHeight /\ c.label = s.label
    BY DEF ChainsStay
  <2>2. BaseRight(t, s, x, s.tpPartialPred[x])
    BY <1>1, <2>1 DEF BasesRight
  <2> QED BY ONLY <1>2, <1>5, <2>1, <2>2, Seen(s) \subseteq Seen(c) DEF BaseRight
<1> QED BY <1>2, <1>3, <1>4, <1>5

\* There is no way up from x, or no need to go there.
LEMMA CandidateSet ==
  ASSUME NEW t, NEW d, NEW x, Taken(t, d, x), d.tpSucc[x] = Nil, NEW fix, fix = FALSE,
         NEW r, r = SetApexCandidate(d, x, fix)
  PROVE  r \in TempType /\ (r.failed = FALSE => SearchRight(t, r))
<1> DEFINE Q == ToSet(d.partials)
           W == Q \cup {x}
           n == Cardinality(Seen(d))
<1>1. /\ Core(t, d, W) /\ BlocksRight(t, d, {}) /\ d.failed = FALSE /\ Distinct(d.partials)
      /\ d.tpPartialPred[x] # Nil /\ x \notin Q
      /\ t.type[x] = "C" /\ d.label[x] = "Partial" => d.ebEnd1[x] # Nil
  BY DEF Taken
<1>2. /\ d \in TempType /\ Sturdy(t) /\ WaitingRight(t, d, W) /\ PredsRight(t, d, W)
      /\ CandidateRight(t, d, W) /\ PathsJoin(t, d) /\ CountRight(t, d)
  BY <1>1 DEF Core
<1> HIDE DEF Q
<1>3. x \in Node /\ x \in InUse(t) /\ x \in Inner /\ x # Nil
  BY <1>2, NodesAssumption DEF WaitingRight, Node
<1>4. SetApexFacts(d, r, x, fix)
  BY <1>2, <1>3, SetApexIs
<1>5. x \notin Seen(d)
  BY DEF Seen
<1>6. Seen(r) = Seen(d) \cup {x} /\ Cardinality(Seen(r)) = n + 1 /\ n \in Nat
  <2>1. NowDone(d, r, x, x)
    BY <1>4 DEF SetApexFacts
  <2> QED BY <1>2, <1>3, <1>5, <2>1, SeenGrows, SeenFinite
<1>7. CountOf(d, x) = d.terminalPathLength + 1 /\ d.terminalPathLength \in Nat
  BY <1>2 DEF CountOf, TempType
<1>8. d.apexCandidate # x
  BY <1>2, <1>3, <1>5 DEF CandidateRight
<1>9. ~OnPath(t, d, x)
  <2> SUFFICES ASSUME OnPath(t, d, x) PROVE FALSE
    OBVIOUS
  <2>1. t.parent[x] \in Node /\ d.tpPred[t.parent[x]] = x
    BY <1>2, <1>3, SturdyFacts DEF OnPath, Parents
  <2>2. x \in Seen(d)
    BY <1>2, <1>3, <2>1 DEF PredsRight
  <2> QED BY <1>5, <2>2
<1>10. d.apexCandidate = Nil => d.apexCandidateIsFix = FALSE
  BY <1>2 DEF CandidateRight, TempType
<1>11. d.apexCandidateIsFix = FALSE => d.terminalPathLength = n
  BY <1>2 DEF CountRight, Counted, Overshot
\* The outcomes.
<1>12. First(d, r, x, fix) \/ WentTooFar(d, r, x, fix) \/ Fails(d, r, x)
  BY <1>3, <1>4, <1>8 DEF SetApexFacts, Again
<1> DEFINE R == BeyondOf(t, d, Seen(d) \cup {x}, d.apexCandidate)
<1>13. ASSUME WentTooFar(d, r, x, fix)
       PROVE  /\ d.apexCandidateIsFix = TRUE /\ r.apexCandidate = d.apexCandidate /\ r.apexCandidateIsFix = TRUE
              /\ x \in R /\ r.terminalPathLength = Cardinality(Seen(r) \ R) /\ r.terminalPathLength \in Nat
  <2>1. /\ TooFar(d, x, d.apexCandidate) /\ fix # d.apexCandidateIsFix
        /\ r.apexCandidate = d.apexCandidate /\ r.apexCandidateIsFix = TRUE
        /\ r.terminalPathLength = CountOf(d, x) - Excess(d, x, d.apexCandidate)
    BY <1>13 DEF WentTooFar
  <2>2. d.apexCandidateIsFix = TRUE
    BY <1>2, <2>1 DEF TempType
  <2>3. d.terminalPathLength = n /\ WayBeyond(t, d, x, d.apexCandidate)
    BY <1>1, <1>3, <1>5, <2>1, <2>2, FarAbove
  <2>4. /\ Excess(d, x, d.apexCandidate) = Cardinality(R) /\ x \in R /\ IsFiniteSet(R)
        /\ R \subseteq Seen(r)
    BY <1>6, <2>3 DEF WayBeyond, BeyondOf
  <2> HIDE DEF R
  <2>5. IsFiniteSet(Seen(r)) /\ Cardinality(R) \in Nat /\ Seen(r) \cap R = R
    BY <2>4, SeenFinite, FS_CardinalityType
  <2>6. /\ Cardinality(Seen(r) \ R) = Cardinality(Seen(r)) - Cardinality(Seen(r) \cap R)
        /\ IsFiniteSet(Seen(r) \ R)
    BY <2>5, FS_Difference
  <2>7. Cardinality(Seen(r) \ R) \in Nat
    BY <2>6, FS_CardinalityType
  <2>8. r.terminalPathLength = (n + 1) - Cardinality(R)
    BY <1>7, <2>1, <2>3, <2>4
  <2> QED BY <1>6, <2>1, <2>2, <2>4, <2>5, <2>6, <2>7, <2>8
<1> HIDE DEF R
<1>14. r.terminalPathLength \in Nat
  <2>1. First(d, r, x, fix) \/ Fails(d, r, x) => r.terminalPathLength \in Nat
    BY <1>7 DEF First, Fails
  <2> QED BY <1>12, <1>13, <2>1
<1>15. r \in TempType /\ SearchStays(d, r)
  BY <1>4, <1>14 DEF SetApexFacts
<1> SUFFICES ASSUME r.failed = FALSE PROVE SearchRight(t, r)
  BY <1>15
<1>16. First(d, r, x, fix) \/ WentTooFar(d, r, x, fix)
  BY <1>12 DEF Fails
<1>17. /\ LabelsRight(t, r) /\ BasesRight(t, r)
       /\ \A y : OnPath(t, r, y) <=> OnPath(t, d, y)
       /\ \A y : Base(r, y) = Base(d, y)
  <2>1. ChainsStay(d, r) /\ Seen(d) \subseteq Seen(r)
    BY <1>6, <1>15 DEF SearchStays, ChainsStay
  <2> QED BY <1>1, <1>15, <2>1, PathsStay
<1>18. r.partials = d.partials /\ r.tpPred = d.tpPred /\ r.label = d.label /\ r.tpPartialPred = d.tpPartialPred
       /\ r.apexTPPred2 = d.apexTPPred2 /\ r.ebEnd1 = d.ebEnd1 /\ r.ebEnd2 = d.ebEnd2
       /\ r.fbEnd1 = d.fbEnd1 /\ r.fbEnd2 = d.fbEnd2 /\ r.fullNeighbors = d.fullNeighbors
  BY <1>15 DEF SearchStays
<1>19. Q \cup Seen(r) = W \cup Seen(d)
  BY <1>6
<1>20. WaitingRight(t, r, Q) /\ PredsRight(t, r, Q)
  <2>1. WaitingRight(t, r, Q)
    BY <1>2, <1>18, <1>19 DEF WaitingRight
  <2>2. PredsRight(t, r, Q)
    BY <1>2, <1>6, <1>18, <1>19 DEF PredsRight
  <2> QED BY <2>1, <2>2
<1>21. r.apexCandidate # Nil /\ CandidateRight(t, r, Q) /\ PathsJoin(t, r) /\ CountRight(t, r)
  <2>1. CASE First(d, r, x, fix)
    <3>1. d.apexCandidate = Nil /\ r.apexCandidate = x /\ r.apexCandidateIsFix = FALSE
          /\ r.terminalPathLength = CountOf(d, x) /\ d.apexCandidateIsFix = FALSE /\ d.apexTPPred2 = Nil
      BY <1>2, <1>10, <2>1 DEF First, CandidateRight
    <3>2. CandidateRight(t, r, Q)
      BY <1>3, <1>6, <1>18, <3>1 DEF CandidateRight
    <3>3. PathsJoin(t, r)
      <4>1. \A y \in Seen(d) : y # Nil /\ OnPath(t, d, y)
        BY <1>2, <3>1, NodesAssumption DEF PathsJoin, Seen, Node
      <4>2. \A y \in Seen(r) : y # r.apexCandidate => OnPath(t, r, y)
        BY <1>6, <1>17, <3>1, <4>1
      <4>3. ~OnPath(t, r, r.apexCandidate)
        BY <1>9, <1>17, <3>1
      <4> QED BY ONLY <3>1, <4>2, <4>3 DEF PathsJoin
    <3>4. CountRight(t, r)
      BY <1>6, <1>7, <1>11, <3>1 DEF CountRight, Counted, Overshot
    <3> QED BY <1>3, <3>1, <3>2, <3>3, <3>4
  <2>2. CASE WentTooFar(d, r, x, fix)
    <3>1. /\ d.apexCandidateIsFix = TRUE /\ r.apexCandidate = d.apexCandidate /\ r.apexCandidateIsFix = TRUE
          /\ x \in R /\ r.terminalPathLength = Cardinality(Seen(r) \ R)
      BY <1>13, <2>2
    <3>2. CandidateRight(t, r, Q)
      BY <1>2, <1>6, <1>18, <3>1 DEF CandidateRight
    <3>6. Beyond(t, r) = R /\ Beyond(t, d) \subseteq R
      BY <1>6, <1>17, <1>18, <3>1 DEF Beyond, BeyondOf, R
    <3>3. PathsJoin(t, r)
      <4>1. \A y \in Seen(d) : OnPath(t, d, y) \/ y \in {d.apexCandidate, d.apexTPPred2} \cup Beyond(t, d)
        BY <1>2, <3>1 DEF PathsJoin
      <4>2. \A y \in Seen(r) : OnPath(t, r, y) \/ y \in {r.apexCandidate, r.apexTPPred2} \cup Beyond(t, r)
        BY <1>6, <1>17, <1>18, <3>1, <3>6, <4>1
      <4> QED BY ONLY <3>1, <4>2 DEF PathsJoin
    <3>4. CountRight(t, r)
      <4>1. Overshot(t, r)
        BY <1>9, <1>17, <3>1, <3>6 DEF Overshot
      <4> QED BY ONLY <3>1, <3>6, <4>1 DEF CountRight, Counted
    <3>5. r.apexCandidate # Nil
      BY <1>2, <3>1 DEF CandidateRight
    <3> QED BY <3>2, <3>3, <3>4, <3>5
  <2> QED BY <1>16, <2>1, <2>2
<1>22. BlocksRight(t, r, {})
  <2> SUFFICES ASSUME NEW y \in InUse(t), t.type[y] = "C", r.label[y] = "Partial" PROVE BlockRight(t, r, y)
    BY DEF BlocksRight
  <2>1. BlockRight(t, d, y)
    BY <1>1, <1>18 DEF BlocksRight
  <2>2. y = x => d.ebEnd1[x] # Nil
    BY <1>1, <1>18
  <2> QED BY ONLY <1>6, <1>18, <2>1, <2>2 DEF BlockRight
<1>23. Core(t, r, Q)
  BY <1>2, <1>15, <1>17, <1>20, <1>21 DEF Core
<1>24. ToSet(r.partials) = Q
  BY <1>18 DEF Q
<1> QED BY ONLY <1>1, <1>18, <1>21, <1>22, <1>23, <1>24, r.failed = FALSE DEF SearchRight

(***************************************************************************)
(* The path goes on to the parent.                                         *)
(***************************************************************************)
HalfRight(t, s, E) ==
  /\ Core(t, s, ToSet(s.partials)) /\ BlocksRight(t, s, E) /\ s.failed = FALSE
  /\ Distinct(s.partials)
  /\ s.apexCandidate = Nil => s.partials # <<>>

PartialEndsSame(s, c) ==
  \A y \in Node : s.label[y] = "Partial" =>
    /\ c.ebEnd1[y] = s.ebEnd1[y] /\ c.fbEnd1[y] = s.fbEnd1[y]
    /\ c.fbEnd2[y] = s.fbEnd2[y] /\ c.ebEnd2[y] = s.ebEnd2[y]

ApexStays(s, c) ==
  /\ c.apexCandidate = s.apexCandidate /\ c.apexCandidateIsFix = s.apexCandidateIsFix
  /\ c.apexTPPred2 = s.apexTPPred2

EndsGiven(s, x, e1, f1, f2, e2) ==
  [s EXCEPT !.ebEnd1[x] = e1, !.fbEnd2[x] = f2, !.ebEnd2[x] = e2, !.fbEnd1[x] = f1]

LEMMA EndsGivenIs ==
  ASSUME NEW s \in TempType, NEW x \in Node, s.label[x] # "Partial", NEW e1 \in Ref, NEW f1 \in Ref,
         NEW f2 \in Ref, NEW e2 \in Ref, NEW c, c = EndsGiven(s, x, e1, f1, f2, e2)
  PROVE  SameButEnds(s, c) /\ PartialEndsSame(s, c) /\ c.failed = s.failed
<1>1. /\ s.ebEnd1 \in [Node -> Ref] /\ s.ebEnd2 \in [Node -> Ref]
      /\ s.fbEnd1 \in [Node -> Ref] /\ s.fbEnd2 \in [Node -> Ref]
  BY DEF TempType
<1>2. c = [s EXCEPT !.ebEnd1 = [@ EXCEPT ![x] = e1], !.fbEnd2 = [@ EXCEPT ![x] = f2],
                    !.ebEnd2 = [@ EXCEPT ![x] = e2], !.fbEnd1 = [@ EXCEPT ![x] = f1]]
  BY DEF EndsGiven, TempType
<1>3. /\ [s.ebEnd1 EXCEPT ![x] = e1] \in [Node -> Ref] /\ [s.ebEnd2 EXCEPT ![x] = e2] \in [Node -> Ref]
      /\ [s.fbEnd1 EXCEPT ![x] = f1] \in [Node -> Ref] /\ [s.fbEnd2 EXCEPT ![x] = f2] \in [Node -> Ref]
  BY <1>1
<1>4. c \in TempType
  BY ZenonT(40), <1>2, <1>3 DEF TempType
<1>5. SameButEnds(s, c) /\ c.failed = s.failed
  BY <1>2, <1>4 DEF SameButEnds, TempType
<1>6. /\ c.ebEnd1 = [s.ebEnd1 EXCEPT ![x] = e1] /\ c.ebEnd2 = [s.ebEnd2 EXCEPT ![x] = e2]
      /\ c.fbEnd1 = [s.fbEnd1 EXCEPT ![x] = f1] /\ c.fbEnd2 = [s.fbEnd2 EXCEPT ![x] = f2]
  BY <1>2 DEF TempType
<1>7. PartialEndsSame(s, c)
  BY <1>1, <1>6 DEF PartialEndsSame
<1> QED BY <1>5, <1>7

Stepped(s, x, p) == [s EXCEPT !.terminalPathLength = @ + 1, !.tpSucc[x] = p]

LeaveFacts(s, c, x, p) ==
  /\ c \in TempType /\ ChainsStay(s, c) /\ ApexStays(s, c) /\ NowDone(s, c, x, p) /\ PartialEndsSame(s, c)
  /\ c.partials = s.partials /\ c.failed = s.failed /\ c.terminalPathLength = s.terminalPathLength + 1

LEMMA LeaveIs ==
  ASSUME NEW t, NEW s \in TempType, NEW x \in Node, NEW p \in Node, NEW c, c = Leave(t, s, x, p)
  PROVE  LeaveFacts(s, c, x, p)
<1> DEFINE s1 == Stepped(s, x, p)
<1>1. s.tpSucc \in [Node -> Ref] /\ s.terminalPathLength \in Nat /\ s.tpPred \in [Node -> Ref] /\ p \in Ref
  BY DEF TempType, Ref
<1>2. s1 = [s EXCEPT !.terminalPathLength = s.terminalPathLength + 1, !.tpSucc = [@ EXCEPT ![x] = p]]
  BY DEF Stepped, TempType
<1>3. [s.tpSucc EXCEPT ![x] = p] \in [Node -> Ref] /\ s.terminalPathLength + 1 \in Nat
  BY <1>1
<1>4. c = IF t.type[x] = "C" /\ s.label[x] = "Empty" THEN EndsGiven(s1, x, s.tpPred[x], p, s.tpPred[x], p) ELSE s1
  BY DEF Leave, EndsGiven, Stepped
<1> HIDE DEF s1
<1>5. s1 \in TempType
  BY <1>2, <1>3 DEF TempType
<1>6. LeaveFacts(s, s1, x, p)
  <2>1. ChainsStay(s, s1) /\ ApexStays(s, s1) /\ NowDone(s, s1, x, p)
    BY <1>2 DEF ChainsStay, ApexStays, NowDone, TempType
  <2>2. PartialEndsSame(s, s1)
    BY <1>2 DEF PartialEndsSame, TempType
  <2>3. s1.partials = s.partials /\ s1.failed = s.failed /\ s1.terminalPathLength = s.terminalPathLength + 1
    BY <1>2 DEF TempType
  <2> QED BY <1>5, <2>1, <2>2, <2>3 DEF LeaveFacts
<1>7. CASE t.type[x] = "C" /\ s.label[x] = "Empty"
  <2>1. c = EndsGiven(s1, x, s.tpPred[x], p, s.tpPred[x], p)
    BY <1>4, <1>7
  <2>2. s1.label[x] # "Partial" /\ s.tpPred[x] \in Ref
    BY <1>1, <1>6, <1>7 DEF LeaveFacts, ChainsStay
  <2>3. SameButEnds(s1, c) /\ PartialEndsSame(s1, c) /\ c.failed = s1.failed
    <3> DEFINE q == s.tpPred[x]
    <3> HIDE DEF q
    <3>1. c = EndsGiven(s1, x, q, p, q, p) /\ q \in Ref /\ p \in Ref /\ x \in Node
      BY <1>1, <2>1, <2>2 DEF q
    <3> QED BY ONLY <1>5, <2>2, <3>1, EndsGivenIs
  <2>4. PartialEndsSame(s, c)
    BY <1>6, <2>3 DEF LeaveFacts, PartialEndsSame, ChainsStay
  <2> QED BY <1>6, <2>3, <2>4 DEF LeaveFacts, SameButEnds, ChainsStay, ApexStays, NowDone
<1>8. CASE ~(t.type[x] = "C" /\ s.label[x] = "Empty")
  BY <1>4, <1>6, <1>8
<1> QED BY <1>7, <1>8

\* p hears of the path for the first time.
LinkFacts(s, c, x, p) ==
  /\ c \in TempType /\ c.label = s.label /\ c.fullNeighbors = s.fullNeighbors /\ ApexStays(s, c)
  /\ c.tpPred = [s.tpPred EXCEPT ![p] = x] /\ NowDone(s, c, x, p) /\ PartialEndsSame(s, c)
  /\ c.failed = s.failed /\ c.terminalPathLength = s.terminalPathLength + 1
  /\ s.label[p] = "Partial" =>
       /\ c.tpPartialPred = s.tpPartialPred /\ c.tpPartialHeight = s.tpPartialHeight /\ c.partials = s.partials
  /\ s.label[p] # "Partial" =>
       /\ c.tpPartialPred = [s.tpPartialPred EXCEPT ![p] = s.tpPartialPred[x]]
       /\ c.tpPartialHeight = [s.tpPartialHeight EXCEPT ![p] = s.tpPartialHeight[x] + 1]
       /\ c.partials = Append(s.partials, p)

Linked(s2, x, p) ==
  IF s2.label[p] = "Partial" THEN [s2 EXCEPT !.tpPred[p] = x]
  ELSE [s2 EXCEPT !.tpPred[p] = x, !.tpPartialPred[p] = s2.tpPartialPred[x],
                  !.tpPartialHeight[p] = s2.tpPartialHeight[x] + 1, !.partials = Append(@, p)]

LEMMA LinkedIs ==
  ASSUME NEW s \in TempType, NEW x \in Node, NEW p \in Node, NEW s2, LeaveFacts(s, s2, x, p),
         NEW c, c = Linked(s2, x, p)
  PROVE  LinkFacts(s, c, x, p)
<1>1. /\ s2 \in TempType /\ s2.tpPred = s.tpPred /\ s2.tpPartialPred = s.tpPartialPred
      /\ s2.tpPartialHeight = s.tpPartialHeight /\ s2.partials = s.partials /\ s2.label = s.label
      /\ s2.fullNeighbors = s.fullNeighbors /\ s2.terminalPathLength = s.terminalPathLength + 1
      /\ s2.failed = s.failed
  BY DEF LeaveFacts, ChainsStay
<1>2. /\ s.tpPred \in [Node -> Ref] /\ s.tpPartialPred \in [Node -> Ref] /\ s.tpPartialHeight \in [Node -> Nat]
      /\ s.partials \in Seq(Node)
  BY DEF TempType
<1>3. /\ [s.tpPred EXCEPT ![p] = x] \in [Node -> Ref]
      /\ [s.tpPartialPred EXCEPT ![p] = s.tpPartialPred[x]] \in [Node -> Ref]
      /\ [s.tpPartialHeight EXCEPT ![p] = s.tpPartialHeight[x] + 1] \in [Node -> Nat]
      /\ Append(s.partials, p) \in Seq(Node)
  BY <1>2 DEF Ref
<1>4. CASE s.label[p] = "Partial"
  <2>1. c = [s2 EXCEPT !.tpPred = [s.tpPred EXCEPT ![p] = x]]
    BY <1>1, <1>4 DEF Linked, TempType
  <2>2. c \in TempType
    BY <1>1, <1>3, <2>1 DEF TempType
  <2>3. /\ c.label = s2.label /\ c.fullNeighbors = s2.fullNeighbors /\ ApexStays(s2, c)
        /\ c.tpPred = [s.tpPred EXCEPT ![p] = x] /\ c.tpSucc = s2.tpSucc /\ PartialEndsSame(s2, c)
        /\ c.failed = s2.failed /\ c.terminalPathLength = s2.terminalPathLength
        /\ c.tpPartialPred = s2.tpPartialPred /\ c.tpPartialHeight = s2.tpPartialHeight /\ c.partials = s2.partials
    BY <1>1, <2>1 DEF TempType, ApexStays, PartialEndsSame
  <2>4. ApexStays(s, c) /\ NowDone(s, c, x, p) /\ PartialEndsSame(s, c)
    BY <1>1, <2>3 DEF LeaveFacts, ApexStays, NowDone, PartialEndsSame
  <2> QED BY <1>1, <1>4, <2>2, <2>3, <2>4 DEF LinkFacts
<1>5. CASE s.label[p] # "Partial"
  <2>1. c = [s2 EXCEPT !.tpPred = [s.tpPred EXCEPT ![p] = x],
                       !.tpPartialPred = [s.tpPartialPred EXCEPT ![p] = s.tpPartialPred[x]],
                       !.tpPartialHeight = [s.tpPartialHeight EXCEPT ![p] = s.tpPartialHeight[x] + 1],
                       !.partials = Append(s.partials, p)]
    BY <1>1, <1>5 DEF Linked, TempType
  <2>2. c \in TempType
    BY ZenonT(40), <1>1, <1>3, <2>1 DEF TempType
  <2>3. /\ c.label = s2.label /\ c.fullNeighbors = s2.fullNeighbors /\ ApexStays(s2, c)
        /\ c.tpPred = [s.tpPred EXCEPT ![p] = x] /\ c.tpSucc = s2.tpSucc
        /\ c.failed = s2.failed /\ c.terminalPathLength = s2.terminalPathLength
        /\ c.tpPartialPred = [s.tpPartialPred EXCEPT ![p] = s.tpPartialPred[x]]
        /\ c.tpPartialHeight = [s.tpPartialHeight EXCEPT ![p] = s.tpPartialHeight[x] + 1]
        /\ c.partials = Append(s.partials, p)
    BY <1>1, <2>1 DEF TempType, ApexStays
  <2>4. PartialEndsSame(s2, c)
    BY <1>1, <2>1 DEF TempType, PartialEndsSame
  <2>5. ApexStays(s, c) /\ NowDone(s, c, x, p) /\ PartialEndsSame(s, c)
    BY <1>1, <2>3, <2>4 DEF LeaveFacts, ApexStays, NowDone, PartialEndsSame
  <2> QED BY <1>1, <1>5, <2>2, <2>3, <2>5 DEF LinkFacts
<1> QED BY <1>4, <1>5

\* x may go on to its parent p.
GoesUp(t, d, x, p) ==
  /\ Taken(t, d, x) /\ x \notin Seen(d) /\ p = t.parent[x] /\ p \in InUse(t) /\ p \in Inner
  /\ d.label[p] # "Full"
  /\ d.partials # <<>> \/ d.apexCandidate # Nil

LEMMA GoesUpFacts ==
  ASSUME NEW t, NEW d, NEW x, NEW p, GoesUp(t, d, x, p)
  PROVE  /\ Sturdy(t) /\ t.parent \in Parents /\ Acyclic(t.parent) /\ d \in TempType
         /\ x \in Node /\ p \in Node /\ x # p /\ x # Nil /\ p # Nil /\ x \in InUse(t) /\ x \in Inner
         /\ d.label[p] \in {"Empty", "Partial"} /\ d.label \in [Node -> {"Empty", "Partial", "Full"}]
         /\ d.tpPred \in [Node -> Ref] /\ d.tpPartialPred \in [Node -> Ref]
<1>1. Sturdy(t) /\ d \in TempType /\ WaitingRight(t, d, ToSet(d.partials) \cup {x})
  BY DEF GoesUp, Taken, Core
<1>2. /\ t.parent \in Parents /\ Acyclic(t.parent) /\ x \in Node /\ p \in Node /\ x \in InUse(t) /\ x \in Inner
      /\ Forest(t) /\ p = t.parent[x]
  BY <1>1, SturdyFacts DEF WaitingRight, GoesUp, InUse
<1>3. x # Nil /\ p # Nil
  BY <1>2, NodesAssumption DEF Node
<1>4. x # p
  BY <1>2, <1>3, NotAboveItself
<1>5. d.label \in [Node -> {"Empty", "Partial", "Full"}] /\ d.tpPred \in [Node -> Ref] /\ d.tpPartialPred \in [Node -> Ref]
  BY <1>1 DEF TempType
<1>6. d.label[p] \in {"Empty", "Partial"}
  BY <1>2, <1>5 DEF GoesUp
<1> QED BY <1>1, <1>2, <1>3, <1>4, <1>5, <1>6

LEMMA LinkedRight ==
  ASSUME NEW t, NEW d, NEW x, NEW p, GoesUp(t, d, x, p), d.tpPred[p] = Nil,
         NEW c, LinkFacts(d, c, x, p)
  PROVE  HalfRight(t, c, {p})
<1> DEFINE Q == ToSet(d.partials)
           R == ToSet(c.partials)
           W == Q \cup {x}
           pa == t.parent
<1>1. /\ Core(t, d, W) /\ BlocksRight(t, d, {}) /\ d.failed = FALSE /\ Distinct(d.partials)
      /\ d.tpPartialPred[x] # Nil /\ x \notin Q
      /\ t.type[x] = "C" /\ d.label[x] = "Partial" => d.ebEnd1[x] # Nil
  BY DEF Taken, GoesUp
<1>2. /\ d \in TempType /\ Sturdy(t) /\ WaitingRight(t, d, W) /\ PredsRight(t, d, W) /\ BasesRight(t, d)
      /\ CandidateRight(t, d, W) /\ PathsJoin(t, d) /\ CountRight(t, d) /\ LabelsRight(t, d)
  BY <1>1 DEF Core
<1>3. /\ pa \in Parents /\ Acyclic(pa)
      /\ x \in Node /\ p \in Node /\ x # p /\ x # Nil /\ p # Nil /\ x \in InUse(t) /\ x \in Inner
      /\ d.label[p] \in {"Empty", "Partial"} /\ d.label \in [Node -> {"Empty", "Partial", "Full"}]
      /\ d.tpPred \in [Node -> Ref] /\ d.tpPartialPred \in [Node -> Ref]
  BY GoesUpFacts
<1>4. x \notin Seen(d) /\ p = pa[x] /\ p \in InUse(t) /\ p \in Inner /\ (d.partials # <<>> \/ d.apexCandidate # Nil)
  BY DEF GoesUp
<1>5. /\ c \in TempType /\ c.label = d.label /\ c.fullNeighbors = d.fullNeighbors
      /\ c.apexCandidate = d.apexCandidate /\ c.apexCandidateIsFix = d.apexCandidateIsFix
      /\ c.apexTPPred2 = d.apexTPPred2
      /\ c.tpPred = [d.tpPred EXCEPT ![p] = x] /\ NowDone(d, c, x, p) /\ PartialEndsSame(d, c)
      /\ c.failed = d.failed /\ c.terminalPathLength = d.terminalPathLength + 1
  BY DEF LinkFacts, ApexStays
<1>6. /\ d.label[p] = "Partial" =>
           /\ c.tpPartialPred = d.tpPartialPred /\ c.tpPartialHeight = d.tpPartialHeight /\ c.partials = d.partials
      /\ d.label[p] # "Partial" =>
           /\ c.tpPartialPred = [d.tpPartialPred EXCEPT ![p] = d.tpPartialPred[x]]
           /\ c.tpPartialHeight = [d.tpPartialHeight EXCEPT ![p] = d.tpPartialHeight[x] + 1]
           /\ c.partials = Append(d.partials, p)
  BY DEF LinkFacts
<1>7. /\ Seen(c) = Seen(d) \cup {x} /\ Cardinality(Seen(c)) = Cardinality(Seen(d)) + 1
      /\ Seen(d) \subseteq Node /\ Cardinality(Seen(d)) \in Nat
  BY <1>2, <1>3, <1>4, <1>5, SeenGrows, SeenFinite
<1>8. c.tpPred[p] = x /\ \A q \in Node : q # p => c.tpPred[q] = d.tpPred[q]
  BY <1>3, <1>5
<1>9. \A y \in Node : y # Nil
  BY NodesAssumption DEF Node
<1>10. \A y \in Node : OnPath(t, c, y) <=> OnPath(t, d, y) \/ y = x
  <2> SUFFICES ASSUME NEW y \in Node PROVE OnPath(t, c, y) <=> OnPath(t, d, y) \/ y = x
    OBVIOUS
  <2>1. pa[y] = Nil \/ pa[y] \in Node
    BY <1>3 DEF Parents
  <2>2. CASE pa[y] = p
    <3>1. OnPath(t, c, y) <=> x = y
      BY <1>3, <1>8, <2>2 DEF OnPath
    <3>2. ~OnPath(t, d, y)
      BY <1>9, <2>2 DEF OnPath
    <3> QED BY <3>1, <3>2
  <2>3. CASE pa[y] # p
    <3>1. y # x
      BY <1>4, <2>3
    <3>2. OnPath(t, c, y) <=> OnPath(t, d, y)
      BY <1>8, <2>1, <2>3 DEF OnPath
    <3> QED BY <3>1, <3>2
  <2> QED BY <2>2, <2>3
<1>11. d.label[p] # "Partial" => p \notin W \cup Seen(d)
  BY <1>2, <1>3 DEF WaitingRight
<1>12. d.label[p] = "Partial" => p \in W \cup Seen(d)
  BY <1>2, <1>4 DEF WaitingRight
<1>13. d.partials \in Seq(Node)
  BY <1>2 DEF TempType
<1>14. /\ d.label[p] = "Partial" => R = Q
       /\ d.label[p] # "Partial" => R = Q \cup {p}
       /\ Distinct(c.partials) /\ (c.partials # <<>> \/ c.apexCandidate # Nil)
  <2>1. CASE d.label[p] = "Partial"
    BY <1>1, <1>4, <1>5, <1>6, <2>1
  <2>2. CASE d.label[p] # "Partial"
    <3>1. c.partials = Append(d.partials, p)
      BY <1>6, <2>2
    <3>2. p \notin Q
      BY <1>11, <2>2
    <3>3. Distinct(c.partials) /\ R = Q \cup {p}
      BY <1>1, <1>3, <1>13, <3>1, <3>2, AppendDistinct
    <3>4. c.partials # <<>>
      BY <1>13, <3>1
    <3> QED BY <2>2, <3>3, <3>4
  <2> QED BY <2>1, <2>2
<1> HIDE DEF Q, R
<1>15. R \cup Seen(c) = W \cup Seen(d) \cup {p} /\ R \subseteq Node
  <2>1. Q \subseteq Node
    BY <1>13 DEF Q, ToSet
  <2> QED BY <1>3, <1>7, <1>12, <1>14, <2>1
<1>16. LabelsRight(t, c)
  BY <1>2, <1>5 DEF LabelsRight, ApexRight
<1>17. \A q \in Node : /\ q # p \/ d.label[p] = "Partial" => /\ c.tpPartialPred[q] = d.tpPartialPred[q]
                                                            /\ c.tpPartialHeight[q] = d.tpPartialHeight[q]
                       /\ q = p /\ d.label[p] # "Partial" => /\ c.tpPartialPred[q] = d.tpPartialPred[x]
                                                             /\ c.tpPartialHeight[q] = d.tpPartialHeight[x] + 1
  <2>1. d.tpPartialPred \in [Node -> Ref] /\ d.tpPartialHeight \in [Node -> Nat]
    BY <1>2 DEF TempType
  <2> QED BY <1>3, <1>6, <2>1
<1>18. WaitingRight(t, c, R)
  <2>1. ASSUME NEW q \in R \cup Seen(c)
        PROVE  /\ q \in InUse(t) /\ q \in Inner /\ c.label[q] # "Full"
               /\ c.label[q] = "Empty" => c.tpPred[q] # Nil /\ c.tpPartialPred[q] # Nil
    <3>1. CASE q = p
      BY <1>1, <1>3, <1>4, <1>5, <1>8, <1>17, <3>1
    <3>2. CASE q # p
      <4>1. q \in W \cup Seen(d) /\ q \in Node
        BY <1>2, <1>7, <1>15, <3>2 DEF WaitingRight
      <4>2. /\ q \in InUse(t) /\ q \in Inner /\ d.label[q] # "Full"
            /\ d.label[q] = "Empty" => d.tpPred[q] # Nil /\ d.tpPartialPred[q] # Nil
        BY <1>2, <4>1 DEF WaitingRight
      <4> QED BY <1>5, <1>8, <1>17, <3>2, <4>1, <4>2
    <3> QED BY <3>1, <3>2
  <2>2. \A q \in InUse(t) : c.label[q] = "Partial" => q \in R \cup Seen(c)
    BY <1>2, <1>5, <1>15 DEF WaitingRight
  <2> QED BY <1>15, <2>1, <2>2 DEF WaitingRight
<1>19. PredsRight(t, c, R)
  <2> SUFFICES ASSUME NEW q \in Node, c.tpPred[q] # Nil
               PROVE  t.parent[c.tpPred[q]] = q /\ c.tpPred[q] \in Seen(c) /\ q \in R \cup Seen(c)
    BY DEF PredsRight
  <2>1. CASE q = p
    BY <1>4, <1>7, <1>8, <1>15, <2>1
  <2>2. CASE q # p
    <3>1. t.parent[d.tpPred[q]] = q /\ d.tpPred[q] \in Seen(d) /\ q \in W \cup Seen(d) /\ c.tpPred[q] = d.tpPred[q]
      BY <1>2, <1>8, <2>2 DEF PredsRight
    <3> QED BY <1>7, <1>15, <3>1
  <2> QED BY <2>1, <2>2
<1>20. CandidateRight(t, c, R)
  <2>1. c.apexCandidate # Nil => c.apexCandidate \in Seen(c)
    BY <1>2, <1>5, <1>7 DEF CandidateRight
  <2>2. c.apexCandidateIsFix <=> c.apexTPPred2 # Nil
    BY <1>2, <1>5 DEF CandidateRight
  <2>3. ASSUME c.apexTPPred2 # Nil
        PROVE  /\ c.apexCandidate # Nil /\ t.parent[c.apexTPPred2] = c.apexCandidate
               /\ c.apexTPPred2 \in Seen(c) /\ c.tpPred[c.apexCandidate] \notin {Nil, c.apexTPPred2}
    <3>1. /\ d.apexCandidate # Nil /\ t.parent[d.apexTPPred2] = d.apexCandidate /\ d.apexCandidate \in Seen(d)
          /\ d.apexTPPred2 \in Seen(d) /\ d.tpPred[d.apexCandidate] \notin {Nil, d.apexTPPred2}
      BY <1>2, <1>5, <2>3 DEF CandidateRight
    <3>2. d.apexCandidate \in Node /\ d.apexCandidate # p
      BY <1>7, <3>1
    <3> QED BY <1>5, <1>7, <1>8, <3>1, <3>2
  <2>4. ASSUME c.apexCandidate = Nil PROVE R \cap Seen(c) = {}
    <3>1. W \cap Seen(d) = {}
      BY <1>2, <1>5, <2>4 DEF CandidateRight
    <3>2. p \in R \/ p \notin R
      OBVIOUS
    <3>3. R \subseteq Q \cup {p} /\ (p \in R => p \in Q \/ p \notin W \cup Seen(d))
      BY <1>3, <1>11, <1>14
    <3> QED BY <1>1, <1>3, <1>7, <3>1, <3>3
  <2> QED BY <2>1, <2>2, <2>3, <2>4 DEF CandidateRight
<1>25. \A y \in Node : y \in W \cup Seen(d) \/ d.label[y] = "Partial" => Base(c, y) = Base(d, y)
  BY <1>5, <1>11, <1>17 DEF Base
<1> DEFINE a == d.apexCandidate
<1>26. d.apexCandidateIsFix = TRUE => a \in Seen(d) /\ Base(c, a) = Base(d, a)
  BY <1>2, <1>7, <1>25 DEF CandidateRight
<1>27. d.apexCandidateIsFix = TRUE =>
         Beyond(t, c) = Beyond(t, d) \cup {y \in {x} : x \in BeyondOf(t, d, {x}, a)}
  <2> SUFFICES ASSUME d.apexCandidateIsFix = TRUE
               PROVE  Beyond(t, c) = Beyond(t, d) \cup {y \in {x} : x \in BeyondOf(t, d, {x}, a)}
    OBVIOUS
  <2>1. Base(c, a) = Base(d, a) /\ c.apexCandidate = a
    BY <1>5, <1>26
  <2>2. \A y \in Seen(c) : c.label[y] = "Empty" => c.tpPartialPred[y] = d.tpPartialPred[y]
    BY <1>3, <1>5, <1>7, <1>11, <1>17
  <2> HIDE DEF a
  <2>3. Beyond(t, c) = BeyondOf(t, c, Seen(c), a)
    BY <2>1 DEF Beyond
  <2>4. BeyondOf(t, c, Seen(c), a) = BeyondOf(t, d, Seen(c), a)
    BY ONLY <1>5, <2>1, <2>2 DEF BeyondOf
  <2>5. Beyond(t, d) = BeyondOf(t, d, Seen(d), a)
    BY DEF Beyond, a
  <2> QED BY ONLY <1>7, <2>3, <2>4, <2>5 DEF BeyondOf
<1>28. Overshot(t, d) => x \notin BeyondOf(t, d, {x}, a)
  <2> SUFFICES ASSUME Overshot(t, d), x \in BeyondOf(t, d, {x}, a) PROVE FALSE
    OBVIOUS
  <2>1. PICK u \in Beyond(t, d) : ~OnPath(t, d, u)
    BY DEF Overshot
  <2> DEFINE k == Base(d, a)
  <2>2. u \in Seen(d) /\ d.tpPartialPred[u] = k /\ d.tpPartialPred[x] = k
    BY <2>1 DEF Beyond, BeyondOf
  <2>3. BaseRight(t, d, u, k) /\ BaseRight(t, d, x, k) /\ u \in Node
    BY <1>1, <1>2, <1>3, <1>7, <2>2 DEF WaitingRight, BasesRight, BaseRight
  <2>4. u \in Up(pa, x) /\ x \in Up(pa, u)
    <3> HIDE DEF k
    <3> QED BY <1>3, <1>4, <2>1, <2>3, UnseenIsAbove
  <2>5. u = x
    BY <1>3, <2>3, <2>4, UpAntisymmetric
  <2> QED BY <1>4, <2>2, <2>5
<1>29. Overshot(t, c) <=> Overshot(t, d)
  <2>1. ASSUME Overshot(t, d) PROVE Overshot(t, c)
    <3>1. PICK u \in Beyond(t, d) : ~OnPath(t, d, u)
      BY <2>1 DEF Overshot
    <3>2. d.apexCandidateIsFix = TRUE /\ u \in Beyond(t, c)
      BY <1>27, <2>1 DEF Overshot
    <3>3. u \in Seen(d) /\ u # x /\ u \in Node
      BY <1>4, <1>7 DEF Beyond, BeyondOf
    <3> QED BY <1>5, <1>10, <3>1, <3>2, <3>3 DEF Overshot
  <2>2. ASSUME Overshot(t, c) PROVE Overshot(t, d)
    <3>1. PICK u \in Beyond(t, c) : ~OnPath(t, c, u)
      BY <2>2 DEF Overshot
    <3>2. d.apexCandidateIsFix = TRUE /\ u \in Seen(c)
      BY <1>5, <2>2 DEF Overshot, Beyond, BeyondOf
    <3>3. ~OnPath(t, d, u) /\ u # x
      BY <1>3, <1>7, <1>10, <3>1, <3>2
    <3> QED BY <1>27, <3>1, <3>2, <3>3 DEF Overshot
  <2> QED BY <2>1, <2>2
<1>21. PathsJoin(t, c)
  <2>5. ASSUME c.apexCandidateIsFix = TRUE, NEW y \in Seen(c)
        PROVE  OnPath(t, c, y) \/ y \in {c.apexCandidate, c.apexTPPred2} \cup Beyond(t, c)
    <3>1. CASE y = x
      BY <1>3, <1>10, <3>1
    <3>2. CASE y # x
      <4>1. y \in Seen(d) /\ y \in Node /\ d.apexCandidateIsFix = TRUE
        BY <1>5, <1>7, <2>5, <3>2
      <4>2. OnPath(t, d, y) \/ y \in {d.apexCandidate, d.apexTPPred2} \cup Beyond(t, d)
        BY <1>2, <4>1 DEF PathsJoin
      <4> QED BY <1>5, <1>10, <1>27, <4>1, <4>2
    <3> QED BY <3>1, <3>2
  <2> SUFFICES ASSUME c.apexCandidateIsFix = FALSE
               PROVE  /\ \A y \in Seen(c) : y # c.apexCandidate => OnPath(t, c, y)
                      /\ c.apexCandidate # Nil => ~OnPath(t, c, c.apexCandidate)
    BY <2>5 DEF PathsJoin
  <2>1. /\ \A y \in Seen(d) : y # d.apexCandidate => OnPath(t, d, y)
        /\ d.apexCandidate # Nil => ~OnPath(t, d, d.apexCandidate) /\ d.apexCandidate \in Seen(d)
    BY <1>2, <1>5 DEF PathsJoin, CandidateRight
  <2>2. \A y \in Seen(c) : y # c.apexCandidate => OnPath(t, c, y)
    BY <1>3, <1>5, <1>7, <1>10, <2>1
  <2>3. c.apexCandidate # Nil => ~OnPath(t, c, c.apexCandidate)
    BY <1>4, <1>5, <1>7, <1>10, <2>1
  <2> QED BY <2>2, <2>3
<1>22. BasesRight(t, c)
  <2>1. ASSUME NEW k, NEW z \in Node, BaseRight(t, d, z, k), c.tpPartialHeight[z] = d.tpPartialHeight[z]
        PROVE  BaseRight(t, c, z, k)
    <3>1. \A y \in Up(t.parent, k) \ Up(t.parent, z) : y \in Seen(c) /\ OnPath(t, c, y) /\ Base(c, y) = k
      BY <1>7, <1>10, <1>25, <2>1 DEF BaseRight
    <3> QED BY <1>5, <2>1, <3>1 DEF BaseRight
  <2> SUFFICES ASSUME NEW z \in Node, c.tpPartialPred[z] # Nil PROVE BaseRight(t, c, z, c.tpPartialPred[z])
    BY DEF BasesRight
  <2>2. CASE z # p \/ d.label[p] = "Partial"
    <3>1. c.tpPartialPred[z] = d.tpPartialPred[z] /\ c.tpPartialHeight[z] = d.tpPartialHeight[z]
      BY <1>17, <2>2
    <3>2. BaseRight(t, d, z, d.tpPartialPred[z])
      BY <1>2, <3>1 DEF BasesRight
    <3> QED BY <2>1, <3>1, <3>2
  <2>3. CASE z = p /\ d.label[p] # "Partial"
    <3> DEFINE k == d.tpPartialPred[x]
    <3>1. c.tpPartialPred[p] = k /\ c.tpPartialHeight[p] = d.tpPartialHeight[x] + 1 /\ d.tpPartialHeight[x] \in Nat
      BY <1>2, <1>3, <1>17, <2>3 DEF TempType
    <3>2. BaseRight(t, d, x, k)
      BY <1>1, <1>2, <1>3 DEF BasesRight
    <3>10. d.tpPartialPred[x] = k /\ (d.label[x] = "Partial" => k = x)
      BY DEF GoesUp, Taken
    <3> HIDE DEF k
    <3>3. Up(pa, x) = {x} \cup Up(pa, p) /\ x \notin Up(pa, p) /\ Cardinality(Up(pa, x)) = Cardinality(Up(pa, p)) + 1
      BY <1>3, <1>4, UpOneMore
    <3>4. k \in Node /\ k \in InUse(t) /\ d.label[k] = "Partial" /\ x \in Up(pa, k)
          /\ Cardinality(Up(pa, k)) = Cardinality(Up(pa, x)) + d.tpPartialHeight[x]
      BY <3>2 DEF BaseRight
    <3>5. p \in Up(pa, k)
      <4>1. p \in Up(pa, x)
        BY <1>3, <3>3, UpIs
      <4> QED BY <1>3, <3>4, <4>1, UpTransitive
    <3>6. Cardinality(Up(pa, p)) \in Nat
      BY <1>3, UpFinite
    <3>7. Cardinality(Up(pa, k)) = Cardinality(Up(pa, p)) + c.tpPartialHeight[p]
      BY <3>1, <3>3, <3>4, <3>6
    <3>8. \A y \in Up(pa, k) \ Up(pa, p) : y \in Seen(c) /\ OnPath(t, c, y) /\ Base(c, y) = k
      <4> SUFFICES ASSUME NEW y \in Up(pa, k) \ Up(pa, p) PROVE y \in Seen(c) /\ OnPath(t, c, y) /\ Base(c, y) = k
        OBVIOUS
      <4>1. CASE y = x
        <5>1. Base(d, x) = k
          BY <1>3, <3>10 DEF Base
        <5>2. Base(c, x) = Base(d, x)
          BY <1>3, <1>25
        <5> QED BY <1>3, <1>7, <1>10, <4>1, <5>1, <5>2
      <4>2. CASE y # x
        <5>1. y \in Up(pa, k) \ Up(pa, x)
          BY <3>3, <4>2
        <5>2. y \in Seen(d) /\ OnPath(t, d, y) /\ Base(d, y) = k
          BY <3>2, <5>1 DEF BaseRight
        <5> QED BY <1>7, <1>10, <1>25, <5>2
      <4> QED BY <4>1, <4>2
    <3>9. BaseRight(t, c, p, k)
      BY <1>5, <3>4, <3>5, <3>7, <3>8 DEF BaseRight
    <3> QED BY <2>3, <3>1, <3>9
  <2> QED BY <2>2, <2>3
<1>23. CountRight(t, c)
  <2>1. d.terminalPathLength = Cardinality(Counted(t, d))
    BY <1>2 DEF CountRight
  <2>2. Counted(t, c) = Counted(t, d) \cup {x}
    <3>1. CASE Overshot(t, d)
      <4>1. Beyond(t, c) = Beyond(t, d) /\ x \notin Beyond(t, d)
        BY <1>4, <1>27, <1>28, <3>1 DEF Overshot, Beyond, BeyondOf
      <4>2. Counted(t, c) = Seen(c) \ Beyond(t, d) /\ Counted(t, d) = Seen(d) \ Beyond(t, d)
        BY <1>29, <3>1, <4>1 DEF Counted
      <4> QED BY ONLY <1>7, <4>1, <4>2
    <3>2. CASE ~Overshot(t, d)
      BY <1>7, <1>29, <3>2 DEF Counted
    <3> QED BY <3>1, <3>2
  <2>3. IsFiniteSet(Counted(t, d)) /\ x \notin Counted(t, d)
    <3>1. Counted(t, d) \subseteq Seen(d)
      BY DEF Counted
    <3> QED BY <1>4, <3>1, SeenFinite, FS_Subset
  <2>4. Cardinality(Counted(t, c)) = Cardinality(Counted(t, d)) + 1
    BY <2>2, <2>3, FS_AddElement
  <2> QED BY <1>5, <2>1, <2>4 DEF CountRight
<1>24. BlocksRight(t, c, {p})
  <2> SUFFICES ASSUME NEW y \in InUse(t), y # p, t.type[y] = "C", c.label[y] = "Partial" PROVE BlockRight(t, c, y)
    BY DEF BlocksRight
  <2>1. BlockRight(t, d, y) /\ y \in Node
    BY <1>1, <1>5 DEF BlocksRight, InUse
  <2>2. y = x => d.ebEnd1[x] # Nil
    BY <1>1, <1>5
  <2>3. /\ c.ebEnd1[y] = d.ebEnd1[y] /\ c.fbEnd1[y] = d.fbEnd1[y]
        /\ c.fbEnd2[y] = d.fbEnd2[y] /\ c.ebEnd2[y] = d.ebEnd2[y]
    BY <1>5, <2>1 DEF PartialEndsSame
  <2>4. c.tpPred[y] = d.tpPred[y] /\ c.fullNeighbors = d.fullNeighbors
    BY <1>5, <1>8, <2>1
  <2> QED BY ONLY <1>7, <2>1, <2>2, <2>3, <2>4 DEF BlockRight
<1>30. Core(t, c, R)
  BY <1>2, <1>5, <1>16, <1>18, <1>19, <1>20, <1>21, <1>22, <1>23 DEF Core
<1>31. c.failed = FALSE /\ (c.apexCandidate = Nil => c.partials # <<>>)
  BY <1>1, <1>5, <1>14
<1> QED BY ONLY <1>14, <1>24, <1>30, <1>31 DEF HalfRight, R

\* A second path reaches p.
Joined(r, x) == [r EXCEPT !.apexTPPred2 = x]

MetFacts(t, d, m, x, p) ==
  /\ m \in TempType /\ ChainsStay(d, m) /\ PartialEndsSame(d, m) /\ m.partials = d.partials /\ m.failed = FALSE
  /\ Seen(m) = Seen(d) \cup {x, p}
  /\ m.apexCandidate = p /\ m.apexCandidateIsFix = TRUE /\ m.apexTPPred2 = x
  /\ CountRight(t, m) /\ PathsJoin(t, m)

JoinedFacts(r, m, x) ==
  /\ m \in TempType /\ ChainsStay(r, m) /\ PartialEndsSame(r, m) /\ m.partials = r.partials /\ m.failed = r.failed
  /\ m.tpSucc = r.tpSucc /\ m.apexCandidate = r.apexCandidate
  /\ m.apexCandidateIsFix = r.apexCandidateIsFix /\ m.apexTPPred2 = x
  /\ m.terminalPathLength = r.terminalPathLength

LEMMA JoinedIs ==
  ASSUME NEW r \in TempType, NEW x \in Node, NEW m, m = Joined(r, x)
  PROVE  JoinedFacts(r, m, x)
<1>1. m \in TempType
  BY DEF Joined, TempType, Ref
<1>2. /\ ChainsStay(r, m) /\ m.partials = r.partials /\ m.failed = r.failed
      /\ m.tpSucc = r.tpSucc /\ m.apexCandidate = r.apexCandidate
      /\ m.apexCandidateIsFix = r.apexCandidateIsFix /\ m.apexTPPred2 = x
      /\ m.terminalPathLength = r.terminalPathLength
  BY DEF Joined, TempType, ChainsStay
<1>3. PartialEndsSame(r, m)
  BY DEF Joined, TempType, PartialEndsSame
<1> QED BY ONLY <1>1, <1>2, <1>3 DEF JoinedFacts

LEMMA JoinedAndEnds ==
  ASSUME NEW r \in TempType, NEW x \in Node, NEW p \in Node, r.label[p] # "Partial",
         NEW j, JoinedFacts(r, j, x), NEW q \in Ref, NEW m, m = EndsGiven(j, p, q, x, q, x)
  PROVE  JoinedFacts(r, m, x)
<1>1. j \in TempType /\ j.label[p] # "Partial" /\ x \in Ref
  BY DEF JoinedFacts, ChainsStay, Ref
<1>2. SameButEnds(j, m) /\ PartialEndsSame(j, m) /\ m.failed = j.failed
  BY <1>1, EndsGivenIs
<1>3. j.label = r.label
  BY DEF JoinedFacts, ChainsStay
<1>4. PartialEndsSame(r, m)
  BY <1>2, <1>3 DEF JoinedFacts, PartialEndsSame
<1> QED BY <1>2, <1>3, <1>4 DEF JoinedFacts, SameButEnds, ChainsStay

MeetFails(t, r, x, p) ==
  \/ r.failed
  \/ r.apexTPPred2 \notin {Nil, x}
  \/ t.type[p] = "C" /\ r.label[p] = "Empty" /\ ~AreNeighborsAdjacent(t, p, r.tpPred[p], x)

MetOutcome(t, r, m, x, p) ==
  \/ MeetFails(t, r, x, p) /\ m = Failing(r, TRUE)
  \/ ~MeetFails(t, r, x, p) /\ r.label[p] = "Empty" /\ m = EndsGiven(Joined(r, x), p, r.tpPred[p], x, r.tpPred[p], x)
  \/ ~MeetFails(t, r, x, p) /\ m = Joined(r, x)

LEMMA MeetAtIs ==
  ASSUME NEW t, NEW s2, NEW x, NEW p, NEW yes, yes = TRUE, NEW r, r = SetApexCandidate(s2, p, yes),
         NEW m, m = MeetAt(t, s2, x, p), r.label = s2.label
  PROVE  MetOutcome(t, r, m, x, p)
<1> DEFINE emptyC == t.type[p] = "C" /\ s2.label[p] = "Empty"
<1>1. m = IF MeetFails(t, r, x, p) THEN Failing(r, TRUE)
          ELSE IF emptyC THEN EndsGiven(Joined(r, x), p, r.tpPred[p], x, r.tpPred[p], x)
          ELSE Joined(r, x)
  BY DEF MeetAt, MeetFails, Failing, EndsGiven, Joined
<1> QED BY ONLY <1>1, r.label = s2.label DEF MetOutcome

\* What the search has done when two paths meet at p.
LEMMA MetIs ==
  ASSUME NEW t, NEW d, NEW x, NEW p, GoesUp(t, d, x, p), d.tpPred[p] \notin {Nil, x},
         NEW s2, LeaveFacts(d, s2, x, p), NEW m, m = MeetAt(t, s2, x, p)
  PROVE  m \in TempType /\ (m.failed = FALSE => MetFacts(t, d, m, x, p))
<1> DEFINE yes == TRUE
           W == ToSet(d.partials) \cup {x}
           n == Cardinality(Seen(d))
           r == SetApexCandidate(s2, p, yes)
<1>1. Core(t, d, W) /\ d.failed = FALSE
  BY DEF Taken, GoesUp
<1>2. /\ d \in TempType /\ Sturdy(t) /\ PredsRight(t, d, W) /\ CandidateRight(t, d, W) /\ CountRight(t, d)
      /\ PathsJoin(t, d) /\ d.terminalPathLength \in Nat
  BY <1>1 DEF Core, TempType
<1>3. /\ t.parent \in Parents /\ Acyclic(t.parent)
      /\ x \in Node /\ p \in Node /\ x # p /\ x # Nil /\ p # Nil
  BY GoesUpFacts
<1>4. x \notin Seen(d) /\ p = t.parent[x]
  BY DEF GoesUp
<1>5. /\ s2 \in TempType /\ ChainsStay(d, s2) /\ ApexStays(d, s2) /\ NowDone(d, s2, x, p) /\ PartialEndsSame(d, s2)
      /\ s2.partials = d.partials /\ s2.failed = d.failed /\ s2.terminalPathLength = d.terminalPathLength + 1
  BY DEF LeaveFacts
<1>6. Seen(s2) = Seen(d) \cup {x} /\ Cardinality(Seen(s2)) = n + 1 /\ n \in Nat
  BY <1>2, <1>3, <1>4, <1>5, SeenGrows, SeenFinite
<1> HIDE DEF yes, r, n, W
<1>7. SetApexFacts(s2, r, p, yes)
  <2>1. yes \in BOOLEAN
    BY DEF yes
  <2> QED BY <1>3, <1>5, <2>1, SetApexIs DEF r
<1>8. /\ SearchStays(s2, r) /\ NowDone(s2, r, p, p) /\ (r.terminalPathLength \in Nat => r \in TempType)
      /\ First(s2, r, p, yes) \/ Again(s2, r, p, yes) \/ WentTooFar(s2, r, p, yes) \/ Fails(s2, r, p)
  BY <1>7 DEF SetApexFacts
<1>9. /\ Seen(r) = Seen(d) \cup {x, p}
      /\ Cardinality(Seen(r)) = IF s2.tpSucc[p] = Nil THEN n + 2 ELSE n + 1
  <2>1. /\ Seen(r) = Seen(s2) \cup {p}
        /\ p \notin Seen(s2) => Cardinality(Seen(r)) = Cardinality(Seen(s2)) + 1
        /\ p \in Seen(s2) => Seen(r) = Seen(s2)
        /\ p \in Seen(s2) <=> s2.tpSucc[p] # Nil
    BY <1>3, <1>5, <1>8, SeenGrows
  <2> QED BY <1>6, <2>1
<1>10. /\ CountOf(s2, p) \in Nat /\ CountOf(s2, p) >= d.terminalPathLength + 1
       /\ d.terminalPathLength = n => CountOf(s2, p) = Cardinality(Seen(r))
  BY <1>2, <1>5, <1>6, <1>9 DEF CountOf
<1>11. d.apexCandidateIsFix = FALSE => d.terminalPathLength = n
  BY <1>2 DEF CountRight, Counted, Overshot, n
<1> DEFINE R == BeyondOf(t, d, Seen(d), p)
<1>12. ASSUME WentTooFar(s2, r, p, yes)
       PROVE  /\ d.apexCandidateIsFix = FALSE /\ r.apexCandidate = p /\ r.apexCandidateIsFix = TRUE
              /\ r.terminalPathLength \in Nat /\ r.terminalPathLength = Cardinality(Seen(r) \ R)
              /\ d.apexCandidate \in R /\ ~OnPath(t, d, d.apexCandidate)
  <2> DEFINE q == d.apexCandidate
  <2>1. /\ q # Nil /\ q # p /\ yes # d.apexCandidateIsFix /\ TooFar(s2, q, p)
        /\ r.apexCandidate = p /\ r.apexCandidateIsFix = TRUE
        /\ r.terminalPathLength = CountOf(s2, p) - Excess(s2, q, p)
    BY <1>5, <1>12 DEF WentTooFar, ApexStays, yes
  <2>2. d.apexCandidateIsFix = FALSE
    BY <1>2, <2>1 DEF TempType, yes
  <2>3. TooFar(d, q, p) /\ Excess(s2, q, p) = Excess(d, q, p)
    BY <1>5, <2>1 DEF ChainsStay, TooFar, Excess
  <2>4. Excess(d, q, p) = Cardinality(R) /\ q \in R /\ IsFiniteSet(R) /\ ~OnPath(t, d, q)
    <3> HIDE DEF q
    <3>1. q = d.apexCandidate /\ q # Nil /\ q # p /\ d.tpPred[p] # Nil /\ TooFar(d, q, p)
      BY <2>1, <2>3 DEF q
    <3>2. WayBeyond(t, d, q, p) /\ q \in Seen(d) /\ ~OnPath(t, d, q)
      BY ONLY <1>1, <1>3, <2>2, <3>1, FarBelow
    <3>3. Seen(d) \cup {q} = Seen(d)
      BY <3>2
    <3> QED BY <3>2, <3>3 DEF WayBeyond
  <2>5. R \subseteq Seen(r)
    BY <1>9 DEF BeyondOf
  <2> HIDE DEF R
  <2>6. IsFiniteSet(Seen(r)) /\ Cardinality(R) \in Nat /\ Seen(r) \cap R = R
    BY <2>4, <2>5, SeenFinite, FS_CardinalityType
  <2>7. /\ Cardinality(Seen(r) \ R) = Cardinality(Seen(r)) - Cardinality(Seen(r) \cap R)
        /\ IsFiniteSet(Seen(r) \ R)
    BY <2>6, FS_Difference
  <2>8. Cardinality(Seen(r) \ R) \in Nat
    BY <2>7, FS_CardinalityType
  <2>9. r.terminalPathLength = Cardinality(Seen(r)) - Cardinality(R)
    BY <1>10, <1>11, <2>1, <2>2, <2>3, <2>4
  <2> QED BY <2>1, <2>2, <2>4, <2>6, <2>7, <2>8, <2>9
<1> HIDE DEF R
<1>13. r \in TempType
  <2>1. First(s2, r, p, yes) \/ Again(s2, r, p, yes) \/ Fails(s2, r, p) => r.terminalPathLength \in Nat
    BY <1>10 DEF First, Again, Fails
  <2> QED BY <1>8, <1>12, <2>1
<1>14. ChainsStay(d, r) /\ PartialEndsSame(d, r) /\ r.partials = d.partials /\ r.apexTPPred2 = d.apexTPPred2
       /\ r.label = s2.label /\ r.tpPred = d.tpPred
  <2>1. ChainsStay(d, r) /\ r.partials = d.partials /\ r.apexTPPred2 = d.apexTPPred2 /\ r.label = s2.label
        /\ r.tpPred = d.tpPred
    BY <1>5, <1>8 DEF ChainsStay, SearchStays, ApexStays
  <2>2. PartialEndsSame(d, r)
    BY <1>5, <1>8 DEF SearchStays, PartialEndsSame
  <2> QED BY <2>1, <2>2
<1>15. MetOutcome(t, r, m, x, p)
  <2>1. r = SetApexCandidate(s2, p, yes) /\ yes = TRUE
    BY DEF r, yes
  <2> QED BY <1>14, <2>1, MeetAtIs
<1>16. r.tpPred[p] \in Ref /\ d.tpPred \in [Node -> Ref]
  BY <1>2, <1>3, <1>13 DEF TempType
<1>17. CASE MeetFails(t, r, x, p)
  <2>1. m = Failing(r, TRUE)
    BY <1>15, <1>17 DEF MetOutcome
  <2> DEFINE b == TRUE
  <2>2. m = Failing(r, b) /\ b \in BOOLEAN
    BY <2>1
  <2> HIDE DEF b
  <2>3. SameButEnds(r, m) /\ m.failed = b
    BY <1>13, <2>2, FailingIs
  <2> QED BY <2>3 DEF SameButEnds, b
<1>18. CASE ~MeetFails(t, r, x, p)
  <2>1. r.failed = FALSE /\ r.apexTPPred2 \in {Nil, x}
    BY <1>13, <1>18 DEF MeetFails, TempType
  <2>2. JoinedFacts(r, m, x)
    <3>1. CASE m = Joined(r, x)
      BY <1>3, <1>13, <3>1, JoinedIs
    <3>2. CASE r.label[p] = "Empty" /\ m = EndsGiven(Joined(r, x), p, r.tpPred[p], x, r.tpPred[p], x)
      <4> DEFINE q == r.tpPred[p]
                 j == Joined(r, x)
      <4>1. m = EndsGiven(j, p, q, x, q, x) /\ q \in Ref /\ r.label[p] # "Partial"
        BY <1>16, <3>2
      <4>2. JoinedFacts(r, j, x)
        BY <1>3, <1>13, JoinedIs
      <4> HIDE DEF q, j
      <4> QED BY ONLY <1>3, <1>13, <4>1, <4>2, JoinedAndEnds
    <3> QED BY <1>15, <1>18, <3>1, <3>2 DEF MetOutcome
  <2>3. d.apexTPPred2 = Nil /\ d.apexCandidateIsFix = FALSE
    <3>1. d.apexTPPred2 # x
      BY <1>2, <1>3, <1>4 DEF CandidateRight
    <3>2. d.apexTPPred2 = Nil
      BY <1>14, <2>1, <3>1
    <3> QED BY <1>2, <3>2 DEF CandidateRight, TempType
  <2>4. d.terminalPathLength = n
    BY <1>11, <2>3
  <2>5. r.apexCandidate = p /\ r.apexCandidateIsFix = TRUE
    BY <1>5, <1>8, <1>12, <2>1 DEF First, Again, Fails, yes, ApexStays
  <2>10. x \notin Up(t.parent, p)
    BY <1>3, <1>4, UpOneMore
  <2>11. /\ \A y : OnPath(t, r, y) <=> OnPath(t, d, y)
         /\ Beyond(t, r) = R
    <3>1. r.label = d.label /\ r.tpPartialPred = d.tpPartialPred
      BY <1>14 DEF ChainsStay
    <3>2. Base(r, p) = Base(d, p)
      BY <3>1 DEF Base
    <3>3. BeyondOf(t, r, Seen(r), p) = BeyondOf(t, d, Seen(d), p)
      BY ONLY <1>9, <2>10, <3>1, <3>2 DEF BeyondOf
    <3> QED BY <1>14, <2>5, <3>3 DEF OnPath, Beyond, R
  <2>12. \A y \in Seen(d) : y # d.apexCandidate => OnPath(t, d, y)
    BY <1>2, <2>3 DEF PathsJoin
  <2>6. CountRight(t, r) /\ \A y \in Seen(r) : OnPath(t, r, y) \/ y \in {p, x} \cup Beyond(t, r)
    <3>1. CASE First(s2, r, p, yes) \/ Again(s2, r, p, yes)
      <4>1. d.apexCandidate \in {Nil, p} /\ r.terminalPathLength = Cardinality(Seen(r))
        BY <1>5, <1>10, <2>4, <3>1 DEF First, Again, ApexStays
      <4>2. \A y \in Seen(d) : y # p => OnPath(t, d, y)
        BY <2>12, <4>1, NodesAssumption DEF Seen, Node
      <4>3. ~Overshot(t, r)
        BY <2>5, <2>11, <4>2 DEF Overshot, R, BeyondOf
      <4> QED BY <1>9, <2>11, <4>1, <4>2, <4>3 DEF CountRight, Counted
    <3>2. CASE WentTooFar(s2, r, p, yes)
      <4>1. /\ r.terminalPathLength = Cardinality(Seen(r) \ R)
            /\ d.apexCandidate \in R /\ ~OnPath(t, d, d.apexCandidate)
        BY <1>12, <3>2
      <4>2. Overshot(t, r)
        BY <2>5, <2>11, <4>1 DEF Overshot
      <4>3. \A y \in Seen(r) : OnPath(t, r, y) \/ y \in {p, x} \cup R
        BY <1>9, <2>11, <2>12, <4>1
      <4> QED BY <2>11, <4>1, <4>2, <4>3 DEF CountRight, Counted
    <3> QED BY <1>8, <2>1, <3>1, <3>2 DEF Fails
  <2>7. m \in TempType /\ ChainsStay(d, m) /\ PartialEndsSame(d, m) /\ m.partials = d.partials /\ m.failed = FALSE
    <3>1. ChainsStay(d, m)
      BY <1>14, <2>2 DEF JoinedFacts, ChainsStay
    <3>2. PartialEndsSame(d, m)
      BY <1>14, <2>2 DEF JoinedFacts, PartialEndsSame, ChainsStay
    <3> QED BY <1>14, <2>1, <2>2, <3>1, <3>2 DEF JoinedFacts
  <2>8. m.apexCandidate = p /\ m.apexCandidateIsFix = TRUE /\ m.apexTPPred2 = x
        /\ m.terminalPathLength = r.terminalPathLength /\ Seen(m) = Seen(r)
    BY <2>2, <2>5 DEF JoinedFacts, Seen
  <2>9. CountRight(t, m) /\ PathsJoin(t, m)
    <3>1. m.label = r.label /\ m.tpPred = r.tpPred /\ m.tpPartialPred = r.tpPartialPred
      BY <2>2 DEF JoinedFacts, ChainsStay
    <3>2. \A y : (OnPath(t, m, y) <=> OnPath(t, r, y)) /\ Base(m, y) = Base(r, y)
      BY <3>1 DEF OnPath, Base
    <3>3. Beyond(t, m) = Beyond(t, r)
      BY <2>5, <2>8, <3>1, <3>2 DEF Beyond, BeyondOf
    <3>4. Counted(t, m) = Counted(t, r)
      BY <2>5, <2>8, <3>2, <3>3 DEF Counted, Overshot
    <3>5. CountRight(t, m)
      BY <2>6, <2>8, <3>4 DEF CountRight
    <3>6. PathsJoin(t, m)
      BY <2>6, <2>8, <3>2, <3>3 DEF PathsJoin
    <3> QED BY <3>5, <3>6
  <2> QED BY <1>9, <2>7, <2>8, <2>9 DEF MetFacts
<1> QED BY <1>17, <1>18

LEMMA MetRight ==
  ASSUME NEW t, NEW d, NEW x, NEW p, GoesUp(t, d, x, p), d.tpPred[p] \notin {Nil, x}, NEW m, MetFacts(t, d, m, x, p)
  PROVE  HalfRight(t, m, {p})
<1> DEFINE Q == ToSet(d.partials)
           W == Q \cup {x}
<1>1. /\ Core(t, d, W) /\ BlocksRight(t, d, {}) /\ Distinct(d.partials)
      /\ t.type[x] = "C" /\ d.label[x] = "Partial" => d.ebEnd1[x] # Nil
  BY DEF Taken, GoesUp
<1>2. /\ d \in TempType /\ Sturdy(t) /\ WaitingRight(t, d, W) /\ PredsRight(t, d, W)
  BY <1>1 DEF Core
<1>3. x \in Node /\ p \in Node /\ x # p /\ x # Nil /\ p # Nil /\ p = t.parent[x]
  BY GoesUpFacts DEF GoesUp
<1>4. /\ m \in TempType /\ ChainsStay(d, m) /\ PartialEndsSame(d, m) /\ m.partials = d.partials /\ m.failed = FALSE
      /\ Seen(m) = Seen(d) \cup {x, p}
      /\ m.apexCandidate = p /\ m.apexCandidateIsFix = TRUE /\ m.apexTPPred2 = x
      /\ CountRight(t, m) /\ PathsJoin(t, m)
  BY DEF MetFacts
<1>5. m.label = d.label /\ m.tpPred = d.tpPred /\ m.tpPartialPred = d.tpPartialPred /\ m.fullNeighbors = d.fullNeighbors
  BY <1>4 DEF ChainsStay
<1>6. LabelsRight(t, m) /\ BasesRight(t, m)
  BY <1>1, <1>4, PathsStay
<1>7. p \in W \cup Seen(d)
  BY <1>2, <1>3 DEF PredsRight
<1> HIDE DEF Q
<1>8. Q \cup Seen(m) = W \cup Seen(d)
  BY <1>4, <1>7
<1>9. WaitingRight(t, m, Q) /\ PredsRight(t, m, Q)
  <2>1. WaitingRight(t, m, Q)
    BY <1>2, <1>5, <1>8 DEF WaitingRight
  <2>2. PredsRight(t, m, Q)
    BY <1>2, <1>4, <1>5, <1>8 DEF PredsRight
  <2> QED BY <2>1, <2>2
<1>10. CandidateRight(t, m, Q)
  BY <1>3, <1>4, <1>5 DEF CandidateRight
<1>12. BlocksRight(t, m, {p})
  <2> SUFFICES ASSUME NEW y \in InUse(t), y # p, t.type[y] = "C", m.label[y] = "Partial" PROVE BlockRight(t, m, y)
    BY DEF BlocksRight
  <2>1. BlockRight(t, d, y) /\ y \in Node
    BY <1>1, <1>5 DEF BlocksRight, InUse
  <2>2. y = x => d.ebEnd1[x] # Nil
    BY <1>1, <1>5
  <2>3. /\ m.ebEnd1[y] = d.ebEnd1[y] /\ m.fbEnd1[y] = d.fbEnd1[y]
        /\ m.fbEnd2[y] = d.fbEnd2[y] /\ m.ebEnd2[y] = d.ebEnd2[y]
    BY <1>4, <1>5, <2>1 DEF PartialEndsSame
  <2> QED BY ONLY <1>4, <1>5, <2>1, <2>2, <2>3, y # p DEF BlockRight
<1>13. Core(t, m, Q)
  BY <1>2, <1>4, <1>6, <1>9, <1>10 DEF Core
<1>14. ToSet(m.partials) = Q
  BY <1>4 DEF Q
<1> QED BY ONLY <1>1, <1>3, <1>4, <1>12, <1>13, <1>14 DEF HalfRight

HalfDone(t, d, s, p) ==
  s.failed = FALSE => /\ HalfRight(t, s, {p}) /\ PartialEndsSame(d, s)
                      /\ s.label = d.label /\ s.fullNeighbors = d.fullNeighbors

Reached(t, s2, x, p) ==
  IF s2.tpPred[p] = Nil THEN Linked(s2, x, p)
  ELSE IF s2.tpPred[p] # x THEN MeetAt(t, s2, x, p) ELSE s2

LEMMA ReachedRight ==
  ASSUME NEW t, NEW d, NEW x, NEW p, GoesUp(t, d, x, p), NEW s, s = Reached(t, Leave(t, d, x, p), x, p)
  PROVE  s \in TempType /\ HalfDone(t, d, s, p)
<1> DEFINE s2 == Leave(t, d, x, p)
<1>1. d \in TempType /\ x \in Node /\ p \in Node /\ x # Nil
  BY GoesUpFacts
<1>2. LeaveFacts(d, s2, x, p)
  BY <1>1, LeaveIs
<1>3. s2.tpPred = d.tpPred
  BY <1>2 DEF LeaveFacts, ChainsStay
<1>4. d.tpPred[p] # x
  <2>1. PredsRight(t, d, ToSet(d.partials) \cup {x}) /\ x \notin Seen(d)
    BY DEF GoesUp, Taken, Core
  <2> QED BY <1>1, <2>1 DEF PredsRight
<1>5. CASE d.tpPred[p] = Nil
  <2>1. s = Linked(s2, x, p)
    BY <1>3, <1>5 DEF Reached
  <2> HIDE DEF s2
  <2>2. LinkFacts(d, s, x, p)
    BY <1>1, <1>2, <2>1, LinkedIs
  <2>3. HalfRight(t, s, {p})
    BY <1>5, <2>2, LinkedRight
  <2>4. s \in TempType /\ PartialEndsSame(d, s) /\ s.label = d.label /\ s.fullNeighbors = d.fullNeighbors
    BY <2>2 DEF LinkFacts
  <2> QED BY <2>3, <2>4 DEF HalfDone
<1>6. CASE d.tpPred[p] # Nil
  <2>1. s = MeetAt(t, s2, x, p) /\ d.tpPred[p] \notin {Nil, x}
    BY <1>3, <1>4, <1>6 DEF Reached
  <2> HIDE DEF s2
  <2>2. s \in TempType /\ (s.failed = FALSE => MetFacts(t, d, s, x, p))
    BY <1>2, <2>1, MetIs
  <2>3. ASSUME s.failed = FALSE
        PROVE  /\ HalfRight(t, s, {p}) /\ PartialEndsSame(d, s)
               /\ s.label = d.label /\ s.fullNeighbors = d.fullNeighbors
    <3>1. MetFacts(t, d, s, x, p)
      BY <2>2, <2>3
    <3>2. HalfRight(t, s, {p})
      BY <2>1, <3>1, MetRight
    <3> QED BY <3>1, <3>2 DEF MetFacts, ChainsStay
  <2> QED BY <2>2, <2>3 DEF HalfDone
<1> QED BY <1>5, <1>6

LEMMA HalfChecked ==
  ASSUME NEW t, NEW d, NEW s, NEW p, BlocksRight(t, d, {}), s \in TempType, HalfDone(t, d, s, p), s.failed = FALSE,
         p \in InUse(t), p \in Inner, t.type[p] = "C", s.label[p] = "Partial",
         NEW mirrored, NEW c, c = CheckTPPartialCNode(t, s, p, mirrored)
  PROVE  c \in TempType /\ (c.failed = FALSE => SearchRight(t, c))
<1> DEFINE Q == ToSet(s.partials)
<1>1. /\ HalfRight(t, s, {p}) /\ PartialEndsSame(d, s)
      /\ s.label = d.label /\ s.fullNeighbors = d.fullNeighbors
  BY DEF HalfDone
<1>2. /\ Core(t, s, Q) /\ BlocksRight(t, s, {p}) /\ Distinct(s.partials)
      /\ s.apexCandidate = Nil => s.partials # <<>>
  BY <1>1 DEF HalfRight
<1>3. p \in Node /\ ApexRight(t, s, p) /\ Sturdy(t)
  BY <1>2 DEF Core, LabelsRight, InUse
<1>4. s.ebEnd1[p] # Nil => {s.fbEnd1[p], s.fbEnd2[p]} \subseteq ToSet(s.fullNeighbors[p])
  <2>1. BlockRight(t, d, p)
    BY <1>1 DEF BlocksRight
  <2>2. s.ebEnd1[p] = d.ebEnd1[p] /\ s.fbEnd1[p] = d.fbEnd1[p] /\ s.fbEnd2[p] = d.fbEnd2[p]
    BY <1>1, <1>3 DEF PartialEndsSame
  <2> QED BY <1>1, <2>1, <2>2 DEF BlockRight
<1>5. CheckedRight(s, c, p)
  BY <1>3, <1>4, CheckIs
<1>6. SameButEnds(s, c)
  BY <1>5 DEF CheckedRight
<1>7. c \in TempType
  BY <1>6 DEF SameButEnds
<1> SUFFICES ASSUME c.failed = FALSE PROVE SearchRight(t, c)
  BY <1>7
<1>8. SearchSame(s, c) /\ BasesSameBut(s, c, {}) /\ c.partials = s.partials
  BY <1>6, ButEndsIsSame
<1> HIDE DEF Q
<1>9. Core(t, c, Q)
  <2> DEFINE X == {}
  <2>1. BasesSameBut(s, c, X)
    BY <1>8
  <2>2. \A z \in X : z \in Q /\ s.label[z] = "Partial" /\ c.tpPartialPred[z] = z /\ c.tpPartialHeight[z] = 0
    OBVIOUS
  <2> HIDE DEF X
  <2> QED BY ONLY <1>2, <1>8, <2>1, <2>2, CoreRebased
<1>10. BlocksRight(t, c, {})
  <2> DEFINE E == {}
  <2>1. BlocksRight(t, s, E \cup {p})
    <3>1. E \cup {p} = {p}
      OBVIOUS
    <3> QED BY <1>2, <3>1
  <2> HIDE DEF E
  <2>2. BlocksRight(t, c, E)
    BY <1>5, <2>1, BlocksChecked
  <2> QED BY <2>2 DEF E
<1>11. c.apexCandidate = s.apexCandidate /\ ToSet(c.partials) = Q
  BY <1>8 DEF SearchSame, Q
<1> QED BY ONLY <1>2, <1>8, <1>9, <1>10, <1>11, c.failed = FALSE DEF SearchRight

LEMMA HalfWhole ==
  ASSUME NEW t, NEW s, NEW p, HalfRight(t, s, {p}), ~(t.type[p] = "C" /\ s.label[p] = "Partial")
  PROVE  SearchRight(t, s)
<1>1. BlocksRight(t, s, {})
  BY DEF HalfRight, BlocksRight
<1> QED BY <1>1 DEF HalfRight, SearchRight

\* The path goes on from x.
LEMMA AscendRight ==
  ASSUME NEW t, NEW d, NEW x, GoesUp(t, d, x, t.parent[x]), NEW mirrored, NEW a, a = Ascend(t, d, x, mirrored)
  PROVE  a \in TempType /\ (a.failed = FALSE => SearchRight(t, a))
<1> DEFINE p == t.parent[x]
           s == Reached(t, Leave(t, d, x, p), x, p)
<1>1. a = IF ~s.failed /\ t.type[p] = "C" /\ s.label[p] = "Partial" THEN CheckTPPartialCNode(t, s, p, mirrored) ELSE s
  BY DEF Ascend, Reached, Linked
<1>2. s \in TempType /\ HalfDone(t, d, s, p)
  BY ReachedRight
<1>3. p \in InUse(t) /\ p \in Inner /\ BlocksRight(t, d, {})
  BY DEF GoesUp, Taken
<1> HIDE DEF p, s
<1>4. s.failed \in BOOLEAN
  BY <1>2 DEF TempType
<1>5. CASE s.failed = TRUE
  <2>1. a = s
    BY <1>1, <1>5
  <2> QED BY <1>2, <1>5, <2>1
<1>6. CASE s.failed = FALSE /\ t.type[p] = "C" /\ s.label[p] = "Partial"
  <2>1. a = CheckTPPartialCNode(t, s, p, mirrored)
    BY <1>1, <1>6
  <2> QED BY <1>2, <1>3, <1>6, <2>1, HalfChecked
<1>7. CASE s.failed = FALSE /\ ~(t.type[p] = "C" /\ s.label[p] = "Partial")
  <2>1. a = s
    BY <1>1, <1>7
  <2>2. HalfRight(t, s, {p})
    BY <1>2, <1>7 DEF HalfDone
  <2> QED BY <1>2, <1>7, <2>1, <2>2, HalfWhole
<1> QED BY <1>4, <1>5, <1>6, <1>7

\* The way from x to its parent is open.
LEMMA OpenWay ==
  ASSUME NEW t, NEW d, NEW x, Taken(t, d, x), d.tpSucc[x] = Nil, ~EndsIShaped(d), ~CannotAscend(t, d, x)
  PROVE  GoesUp(t, d, x, t.parent[x])
<1> DEFINE p == t.parent[x]
           W == ToSet(d.partials) \cup {x}
<1>1. Sturdy(t) /\ WaitingRight(t, d, W) /\ d \in TempType
  BY DEF Taken, Core
<1>2. x \in InUse(t) /\ x \in Node /\ x \in Inner
  BY <1>1 DEF WaitingRight, InUse
<1>3. /\ Forest(t) /\ t \in TreeType /\ t.parent \in Parents
      /\ t.parent[t.root] = Nil /\ t.root \in Node
      /\ \A y \in InUse(t) : t.parent[y] = Nil <=> y = t.root
  BY <1>1, SturdyFacts
<1>4. x # t.root /\ p # Nil /\ p \in Node
  BY <1>2, <1>3 DEF CannotAscend, Parents
<1>5. p \in InUse(t)
  BY <1>2, <1>3, <1>4, InUseFacts
<1>6. d.label[p] # "Full" /\ ~(p = t.root /\ t.type[p] = "leaf")
  BY <1>4 DEF CannotAscend, IsFull
<1>7. p \in Inner
  <2> SUFFICES ASSUME p \in Leaves PROVE FALSE
    BY <1>4 DEF Node
  <2>1. t.type[p] = "leaf"
    BY <1>1, <1>4 DEF Sturdy
  <2>2. p = t.root
    <3>1. x \in Kids(t, p) /\ Len(t.kids[p]) <= (IF t.parent[p] = Nil THEN 1 ELSE 0)
      BY <1>2, <1>3, <1>4, <2>1 DEF Forest, Arranged
    <3>2. Len(t.kids[p]) \in Nat /\ Len(t.kids[p]) # 0
      BY <1>3, <1>4, <3>1, ForestKids DEF Forest
    <3> HIDE DEF p
    <3>3. t.parent[p] = Nil
      BY <3>1, <3>2
    <3> QED BY <1>3, <1>5, <3>3
  <2> QED BY <1>6, <2>1, <2>2
<1>8. x \notin Seen(d)
  BY DEF Seen
<1> HIDE DEF p
<1>9. d.partials # <<>> \/ d.apexCandidate # Nil
  BY DEF EndsIShaped
<1> QED BY <1>5, <1>6, <1>7, <1>8, <1>9 DEF GoesUp, p

\* The call has returned false, or the search has gone on and is right.
Searched ==
  \/ UNCHANGED tree /\ \E s \in TempType : Return(s, FALSE)
  \/ UNCHANGED <<tree, pc, work, client>> /\ SearchRight(tree', temp')

LEMMA ContinueRight ==
  ASSUME NEW s \in TempType, s.failed = FALSE => SearchRight(tree, s), Continue(s)
  PROVE  Searched
<1>1. CASE s.failed /\ Return(s, FALSE) /\ UNCHANGED tree
  BY <1>1 DEF Searched
<1>2. CASE ~s.failed /\ temp' = s /\ UNCHANGED <<tree, pc, work, client>>
  <2>1. s.failed = FALSE
    BY <1>2 DEF TempType
  <2>2. SearchRight(tree', temp')
    BY <1>2, <2>1
  <2> QED BY <1>2, <2>2 DEF Searched
<1> QED BY <1>1, <1>2 DEF Continue

\* A round of the search.
LEMMA VisitRight ==
  ASSUME SearchRight(tree, temp), VisitPartial
  PROVE  Searched
<1> DEFINE x == Head(temp.partials)
<1>1. PICK mirrored : temp.partials # <<>> /\ Visit(mirrored)
  BY DEF VisitPartial
<1> DEFINE d == Dequeue(tree, temp, mirrored)
<1>2. /\ d \in TempType /\ (d.failed = FALSE => Taken(tree, d, x))
  BY <1>1, Dequeued
<1>3. \/ (d.failed \/ d.tpSucc[x] # Nil) /\ Continue(d)
      \/ /\ ~d.failed /\ d.tpSucc[x] = Nil
         /\ EndsIShaped(d) \/ EndsAShaped(d, x) \/ CannotAscend(tree, d, x)
         /\ Continue(SetApexCandidate(d, x, FALSE))
      \/ /\ ~d.failed /\ d.tpSucc[x] = Nil
         /\ ~(EndsIShaped(d) \/ EndsAShaped(d, x) \/ CannotAscend(tree, d, x))
         /\ Continue(Ascend(tree, d, x, mirrored))
  BY <1>1 DEF Visit
<1> HIDE DEF d, x
<1>4. d.failed \in BOOLEAN
  BY <1>2 DEF TempType
<1>5. CASE (d.failed \/ d.tpSucc[x] # Nil) /\ Continue(d)
  <2>1. d.failed = FALSE => SearchRight(tree, d)
    BY <1>2, <1>5, SeenAlready
  <2> QED BY <1>2, <1>5, <2>1, ContinueRight
<1>6. CASE ~d.failed /\ d.tpSucc[x] = Nil /\ Continue(SetApexCandidate(d, x, FALSE))
  <2> DEFINE fix == FALSE
             r == SetApexCandidate(d, x, fix)
  <2>1. Taken(tree, d, x) /\ d.tpSucc[x] = Nil /\ fix = FALSE /\ Continue(r)
    BY <1>2, <1>4, <1>6
  <2> HIDE DEF fix
  <2>2. r \in TempType /\ (r.failed = FALSE => SearchRight(tree, r))
    BY <2>1, CandidateSet
  <2> HIDE DEF r
  <2> QED BY <2>1, <2>2, ContinueRight
<1>7. CASE /\ ~d.failed /\ d.tpSucc[x] = Nil
           /\ ~(EndsIShaped(d) \/ EndsAShaped(d, x) \/ CannotAscend(tree, d, x))
           /\ Continue(Ascend(tree, d, x, mirrored))
  <2> DEFINE a == Ascend(tree, d, x, mirrored)
  <2>1. Taken(tree, d, x) /\ d.tpSucc[x] = Nil /\ ~EndsIShaped(d) /\ ~CannotAscend(tree, d, x) /\ Continue(a)
    BY <1>2, <1>4, <1>7
  <2>2. GoesUp(tree, d, x, tree.parent[x])
    BY <2>1, OpenWay
  <2>3. a \in TempType /\ (a.failed = FALSE => SearchRight(tree, a))
    BY <2>2, AscendRight
  <2> HIDE DEF a
  <2> QED BY <2>1, <2>3, ContinueRight
<1> QED BY <1>3, <1>5, <1>6, <1>7

(***************************************************************************)
(* The end of the search.                                                  *)
(***************************************************************************)
\* The nodes of the chains that begin at p and q.
DownClosed(s, C) == \A y \in C : s.tpPred[y] # Nil => s.tpPred[y] \in C

Chains(s, S) == {y \in Node : \A C \in SUBSET Node : S \subseteq C /\ DownClosed(s, C) => y \in C}

LEMMA ChainsAre ==
  ASSUME NEW s \in TempType, NEW S \in SUBSET Node
  PROVE  /\ Chains(s, S) \subseteq Node /\ S \subseteq Chains(s, S) /\ DownClosed(s, Chains(s, S))
         /\ \A C \in SUBSET Node : S \subseteq C /\ DownClosed(s, C) => Chains(s, S) \subseteq C
<1>1. Chains(s, S) \subseteq Node /\ S \subseteq Chains(s, S)
  BY DEF Chains
<1>2. DownClosed(s, Chains(s, S))
  <2> SUFFICES ASSUME NEW y \in Chains(s, S), s.tpPred[y] # Nil PROVE s.tpPred[y] \in Chains(s, S)
    BY DEF DownClosed
  <2>1. s.tpPred[y] \in Node
    BY <1>1 DEF TempType, Ref
  <2>2. ASSUME NEW C \in SUBSET Node, S \subseteq C /\ DownClosed(s, C) PROVE s.tpPred[y] \in C
    BY <2>2 DEF Chains, DownClosed
  <2> QED BY <2>1, <2>2 DEF Chains
<1> QED BY <1>1, <1>2 DEF Chains

\* The apex has the search behind it.
ApexGiven(t, s, c) ==
  /\ c \in Seen(s)
  /\ s.apexTPPred2 # Nil => /\ t.parent[s.apexTPPred2] = c /\ s.apexTPPred2 \in Seen(s)
                            /\ s.tpPred[c] # s.apexTPPred2

\* The nodes of the two arms below the apex.
Ends(s, c) == {s.tpPred[c], s.apexTPPred2} \ {Nil}

Arms(s, c) == Chains(s, Ends(s, c))

ArmsFacts(t, s, c, Q) ==
  /\ PathSet(t, s, c, Q) /\ Q \subseteq Seen(s) /\ Ends(s, c) \subseteq Q /\ c \notin Q
  /\ \A y \in Q : /\ s.label[y] # "Full" /\ c \in Up(t.parent, y)
                  /\ s.tpPred[y] # Nil => s.tpPred[y] \in Q
  /\ Ends(s, c) = {} => Q = {}

LEMMA ArmsArePaths ==
  ASSUME NEW t, NEW s, Core(t, s, {}), BlocksRight(t, s, {}), NEW c, ApexGiven(t, s, c)
  PROVE  ArmsFacts(t, s, c, Arms(s, c))
<1> DEFINE S == {s.tpPred[c], s.apexTPPred2} \ {Nil}
           Q == Chains(s, S)
           pa == t.parent
<1>1. /\ Sturdy(t) /\ s \in TempType /\ LabelsRight(t, s) /\ WaitingRight(t, s, {}) /\ PredsRight(t, s, {})
      /\ pa \in Parents /\ Acyclic(pa) /\ Forest(t)
  BY SturdyFacts DEF Core
<1>2. c \in Node /\ c # Nil /\ c \in Seen(s)
  BY NodesAssumption DEF Seen, ApexGiven, Node
<1>3. \A p \in Node : s.tpPred[p] # Nil => pa[s.tpPred[p]] = p /\ s.tpPred[p] \in Seen(s) /\ p \in Seen(s)
  BY <1>1 DEF PredsRight
<1>4. \A y \in S : pa[y] = c /\ y \in Seen(s)
  BY <1>2, <1>3 DEF ApexGiven
<1>5. S \in SUBSET Node
  BY <1>4 DEF Seen
<1>6. /\ Q \subseteq Node /\ S \subseteq Q /\ DownClosed(s, Q)
      /\ \A C \in SUBSET Node : S \subseteq C /\ DownClosed(s, C) => Q \subseteq C
  BY <1>1, <1>5, ChainsAre
<1>7. \A y : y \in S <=> y # Nil /\ (y = s.tpPred[c] \/ y = s.apexTPPred2)
  OBVIOUS
<1>16. Q = Arms(s, c) /\ S = Ends(s, c)
  BY DEF Arms, Ends
<1> HIDE DEF Q, S
<1>8. Q \subseteq Seen(s)
  <2>1. Seen(s) \in SUBSET Node /\ S \subseteq Seen(s) /\ DownClosed(s, Seen(s))
    BY <1>3, <1>4 DEF DownClosed, Seen
  <2> QED BY <1>6, <2>1
<1>9. \A y \in Q : s.tpPred[y] # Nil => s.tpPred[y] \in Q /\ pa[s.tpPred[y]] = y
  BY <1>3, <1>6 DEF DownClosed
<1>10. \A y \in Q : pa[y] \in Q \cup {c}
  <2> DEFINE C == {y \in Q : pa[y] \in Q \cup {c}}
  <2>1. C \in SUBSET Node /\ S \subseteq C
    BY <1>4, <1>6
  <2>2. DownClosed(s, C)
    BY <1>9 DEF DownClosed
  <2> QED BY <1>6, <2>1, <2>2
<1>11. \A y \in Q : s.tpPred[pa[y]] = y \/ (pa[y] = c /\ y = s.apexTPPred2)
  <2> DEFINE C == {y \in Q : s.tpPred[pa[y]] = y \/ (pa[y] = c /\ y = s.apexTPPred2)}
  <2>1. C \in SUBSET Node /\ S \subseteq C
    BY <1>4, <1>6, <1>7
  <2>2. DownClosed(s, C)
    BY <1>9 DEF DownClosed
  <2> QED BY <1>6, <2>1, <2>2
<1>12. c \notin Q
  <2> SUFFICES ASSUME c \in Q PROVE FALSE
    OBVIOUS
  <2>1. \A y \in Q : pa[y] \in Q
    BY <1>10
  <2>2. Q # {} /\ Q \in SUBSET Node
    BY <1>6
  <2> HIDE DEF pa
  <2> QED BY <1>1, <2>1, <2>2 DEF Acyclic
<1>13. \A y \in Seen(s) : /\ y \in InUse(t) /\ y \in Inner /\ s.label[y] # "Full" /\ y \in Node
                          /\ s.label[y] = "Empty" => s.tpPred[y] # Nil
                          /\ ApexRight(t, s, y)
  BY <1>1 DEF WaitingRight, Seen, LabelsRight
<1>14. ASSUME NEW y \in Q PROVE Passed(t, s, y, c, Q)
  <2>1. y \in InUse(t) /\ y \in Inner /\ y \in Node /\ s.label[y] # "Full" /\ y \in Seen(s) /\ ApexRight(t, s, y)
    BY <1>8, <1>13
  <2>2. pa[y] \in Q \cup {c}
    BY <1>10
  <2>3. s.tpPred[pa[y]] # y => pa[y] = c /\ y = s.apexTPPred2
    BY <1>11
  <2>4. s.tpPred[y] # Nil => s.tpPred[y] \in Q /\ pa[s.tpPred[y]] = y
    BY <1>9
  <2>5. s.tpPred[y] = Nil => s.label[y] = "Partial"
    BY <1>1, <1>8, <1>13, <2>1 DEF TempType
  <2>6. ASSUME s.label[y] = "Partial"
        PROVE  /\ s.fullNeighbors[y] \in Seq(Node) /\ s.fullNeighbors[y] # <<>> /\ Distinct(s.fullNeighbors[y])
               /\ ToSet(s.fullNeighbors[y]) \subseteq Kids(t, y) \ Q
               /\ t.type[y] = "C" => {s.fbEnd1[y], s.fbEnd2[y]} \subseteq ToSet(s.fullNeighbors[y])
    <3>1. s.fullNeighbors[y] \in Seq(Node) /\ s.fullNeighbors[y] # <<>> /\ Distinct(s.fullNeighbors[y])
      BY <2>1, <2>6 DEF ApexRight
    <3>2. ASSUME NEW z \in ToSet(s.fullNeighbors[y]) PROVE z \in Kids(t, y) /\ z \notin Q
      <4>1. z \in Node /\ Adjacent(t, y, z) /\ s.label[z] = "Full"
        BY <2>1 DEF ApexRight
      <4>2. z \notin Q /\ z # c
        BY <1>2, <1>8, <1>13, <4>1
      <4>3. pa[z] = y
        BY <2>2, <4>1, <4>2 DEF Adjacent
      <4> QED BY <1>1, <2>1, <4>1, <4>2, <4>3 DEF Forest, Arranged
    <3>3. t.type[y] = "C" => {s.fbEnd1[y], s.fbEnd2[y]} \subseteq ToSet(s.fullNeighbors[y])
      BY <2>1, <2>6 DEF BlocksRight, BlockRight
    <3> QED BY <3>1, <3>2, <3>3
  <2> QED BY <2>1, <2>2, <2>3, <2>4, <2>5, <2>6 DEF Passed
<1>15. PathSet(t, s, c, Q)
  <2>1. s.tpPred[c] # Nil => s.tpPred[c] \in Q /\ pa[s.tpPred[c]] = c
    BY <1>2, <1>3, <1>6, <1>7
  <2>2. s.apexTPPred2 # Nil => /\ s.apexTPPred2 \in Q /\ pa[s.apexTPPred2] = c
                               /\ s.apexTPPred2 # s.tpPred[c]
    BY <1>4, <1>6, <1>7 DEF ApexGiven
  <2> QED BY <1>2, <1>6, <1>12, <1>14, <2>1, <2>2 DEF PathSet
<1>17. \A y \in Q : c \in Up(pa, y)
  <2> DEFINE C == {y \in Q : c \in Up(pa, y)}
  <2>1. \A y \in Node : y \in Up(pa, y) /\ UpClosed(pa, Up(pa, y))
    BY <1>1, UpIs
  <2>2. \A y \in Node : pa[y] = c => c \in Up(pa, y)
    BY <1>2, <2>1 DEF UpClosed
  <2>3. \A y \in Node, z \in Node : pa[y] = z /\ c \in Up(pa, z) => c \in Up(pa, y)
    <3> SUFFICES ASSUME NEW y \in Node, NEW z \in Node, pa[y] = z, c \in Up(pa, z) PROVE c \in Up(pa, y)
      OBVIOUS
    <3>1. z \in Up(pa, y)
      BY <2>1, NodesAssumption DEF UpClosed, Node
    <3> QED BY <1>1, <3>1, UpTransitive
  <2>4. C \in SUBSET Node /\ S \subseteq C
    BY <1>4, <1>6, <2>2
  <2>5. DownClosed(s, C)
    BY <1>6, <1>9, <2>3 DEF DownClosed
  <2> QED BY <1>6, <2>4, <2>5
<1>18. S = {} => Q = {}
  <2>1. DownClosed(s, {})
    BY DEF DownClosed
  <2> QED BY <1>6, <2>1
<1>19. ArmsFacts(t, s, c, Q)
  BY ONLY <1>6, <1>8, <1>9, <1>12, <1>13, <1>15, <1>16, <1>17, <1>18 DEF ArmsFacts
<1> QED BY <1>16, <1>19

\* A set of seen nodes, each on the path to a parent within the set, is empty.
LEMMA NoEndlessPath ==
  ASSUME NEW t, t.parent \in Parents, Acyclic(t.parent), NEW E \in SUBSET Node, \A y \in E : t.parent[y] \in E
  PROVE  E = {}
<1> DEFINE pa == t.parent
<1>1. Acyclic(pa) /\ \A y \in E : pa[y] \in E
  OBVIOUS
<1> HIDE DEF pa
<1> QED BY <1>1 DEF Acyclic

\* Who is above another has a child that is, too.
LEMMA ChildOnTheWay ==
  ASSUME NEW pa \in Parents, NEW k \in Node, NEW z \in Up(pa, k), z # k
  PROVE  \E w \in Up(pa, k) : pa[w] = z
<1> DEFINE C == {v \in Up(pa, k) : v = k \/ \E w \in Up(pa, k) : pa[w] = v}
<1>1. Up(pa, k) \subseteq Node /\ k \in Up(pa, k) /\ UpClosed(pa, Up(pa, k))
      /\ \A D \in SUBSET Node : k \in D /\ UpClosed(pa, D) => Up(pa, k) \subseteq D
  BY UpIs
<1>2. k \in C /\ C \in SUBSET Node /\ UpClosed(pa, C)
  BY <1>1 DEF UpClosed
<1> QED BY <1>1, <1>2

\* The path that the apex c and the length n stand for.
PathChosen(t, s, c, n) ==
  /\ n = 1 + Cardinality(Arms(s, c))
  /\ \A x \in InUse(t) : s.label[x] = "Partial" => x \in Arms(s, c) \cup {c}

\* Counting a part of the nodes that have been dealt with.
LEMMA PathIsChosen ==
  ASSUME NEW t, NEW s, Core(t, s, {}), NEW c, ArmsFacts(t, s, c, Arms(s, c)),
         NEW G, G \cap (Arms(s, c) \cup {c}) = {}, Seen(s) = G \cup Arms(s, c) \cup {c},
         \A y \in G : s.label[y] # "Partial"
  PROVE  Cardinality(Seen(s)) = Cardinality(G) + 1 + Cardinality(Arms(s, c))
         /\ \A x \in InUse(t) : s.label[x] = "Partial" => x \in Arms(s, c) \cup {c}
<1> DEFINE Q == Arms(s, c)
           R == Q \cup {c}
<1>1. c \notin Q /\ Q \cup G \subseteq Node /\ WaitingRight(t, s, {})
  BY DEF Core, ArmsFacts, Seen
<1>2. IsFiniteSet(Q) /\ IsFiniteSet(G) /\ Cardinality(Q) \in Nat /\ Cardinality(G) \in Nat
  BY <1>1, NodeIsFinite, FS_Subset, FS_CardinalityType
<1>3. Seen(s) = G \cup R /\ G \cap R = {}
  OBVIOUS
<1>4. \A x \in InUse(t) : s.label[x] = "Partial" => x \in R
  BY <1>1, <1>3 DEF WaitingRight
<1> HIDE DEF Q
<1>5. IsFiniteSet(R) /\ Cardinality(R) = Cardinality(Q) + 1
  BY <1>1, <1>2, FS_AddElement
<1> HIDE DEF R
<1>6. Cardinality(G \cup R) = Cardinality(G) + Cardinality(R) - Cardinality(G \cap R)
  BY <1>2, <1>5, FS_Union
<1>7. Cardinality(G \cap R) = 0
  BY <1>3, FS_EmptySet
<1>8. Cardinality(Seen(s)) = Cardinality(G) + 1 + Cardinality(Q)
  <2>1. Cardinality(Seen(s)) = Cardinality(G \cup R)
    BY ONLY <1>3
  <2> QED BY ONLY <1>2, <1>5, <1>6, <1>7, <2>1
<1> QED BY <1>4, <1>8 DEF Q, R

\* The candidate has two arms: whatever else has been dealt with is beyond it.
LEMMA FixedChosen ==
  ASSUME NEW t, NEW s, Core(t, s, {}), s.apexCandidateIsFix = TRUE, NEW c, c = s.apexCandidate, c # Nil,
         ArmsFacts(t, s, c, Arms(s, c))
  PROVE  PathChosen(t, s, c, s.terminalPathLength)
<1> DEFINE pa == t.parent
           Q == Arms(s, c)
           G == Beyond(t, s)
           E == Seen(s) \ (G \cup Q \cup {c})
           k == Base(s, c)
<1>1. /\ pa \in Parents /\ Acyclic(pa) /\ s \in TempType /\ PredsRight(t, s, {}) /\ PathsJoin(t, s)
      /\ BasesRight(t, s) /\ CountRight(t, s) /\ CandidateRight(t, s, {}) /\ WaitingRight(t, s, {})
  BY SturdyFacts DEF Core
<1>2. /\ Q \subseteq Seen(s) /\ Ends(s, c) \subseteq Q /\ c \notin Q
      /\ \A y \in Q : c \in Up(pa, y) /\ (s.tpPred[y] # Nil => s.tpPred[y] \in Q)
  BY DEF ArmsFacts
<1>3. /\ c \in Seen(s) /\ c \in Node /\ Seen(s) \subseteq Node
      /\ \A y \in Seen(s) : s.label[y] \in {"Empty", "Partial"}
  BY <1>1 DEF CandidateRight, Seen, WaitingRight, TempType
<1>4. \A y \in G : y \in Seen(s) /\ y # c /\ s.label[y] = "Empty" /\ y \in Up(pa, c) /\ s.tpPartialPred[y] = k
  BY DEF Beyond, BeyondOf
<1>5. \A y \in Seen(s) : y # c /\ s.label[y] = "Empty" /\ y \in Up(pa, c) /\ s.tpPartialPred[y] = k => y \in G
  BY DEF Beyond, BeyondOf
<1>6. \A y \in Seen(s) : OnPath(t, s, y) \/ y = c \/ y = s.apexTPPred2 \/ y \in G
  BY <1>1 DEF PathsJoin
<1>7. c \in Up(pa, k) /\ k \in Node /\ (s.label[c] # "Partial" => s.tpPartialPred[c] = k)
  <2>1. CASE s.label[c] = "Partial"
    BY <1>1, <1>3, <2>1, UpIs DEF Base
  <2>2. CASE s.label[c] # "Partial"
    <3>1. k = s.tpPartialPred[c] /\ k # Nil
      BY <1>1, <1>3, <2>2 DEF Base, WaitingRight
    <3>2. BaseRight(t, s, c, k)
      BY <1>1, <1>3, <3>1 DEF BasesRight
    <3> QED BY <3>1, <3>2 DEF BaseRight
  <2> QED BY <2>1, <2>2
<1>71. \A y \in Seen(s) : Base(s, y) = k => (s.label[y] = "Partial" => y = k) /\ (s.label[y] = "Empty" => s.tpPartialPred[y] = k)
  <2> HIDE DEF k
  <2> QED BY DEF Base
<1> HIDE DEF k, G, Q
<1>8. G \cap (Q \cup {c}) = {}
  <2> SUFFICES ASSUME NEW y \in G, y \in Q PROVE FALSE
    BY <1>4
  <2>1. c \in Up(pa, y) /\ y \in Up(pa, c) /\ y \in Node
    BY <1>2, <1>3, <1>4
  <2>2. y = c
    BY <1>1, <1>3, <2>1, UpAntisymmetric
  <2> QED BY <1>4, <2>2
<1>9. ASSUME NEW y \in Seen(s), OnPath(t, s, y)
      PROVE  pa[y] \in Seen(s) /\ pa[y] \in Node /\ s.tpPred[pa[y]] = y /\ y # Nil
  <2>1. pa[y] \in Node /\ s.tpPred[pa[y]] = y /\ y # Nil
    BY <1>1, <1>3, <1>9, NodesAssumption DEF OnPath, Parents, Node
  <2> QED BY <1>1, <2>1 DEF PredsRight
<1>10. ASSUME NEW y \in E PROVE pa[y] \in E
  <2> DEFINE q == pa[y]
  <2>1. OnPath(t, s, y) /\ y \in Seen(s) /\ y \notin G /\ y \notin Q /\ y # c
    <3>1. y \in Seen(s) /\ y \notin G /\ y \notin Q /\ y # c
      OBVIOUS
    <3>2. y # Nil
      BY <1>3, <3>1, NodesAssumption DEF Node
    <3>3. y # s.apexTPPred2
      BY <1>2, <3>1, <3>2 DEF Ends
    <3> QED BY <1>6, <3>1, <3>3
  <2>2. q \in Seen(s) /\ q \in Node /\ s.tpPred[q] = y /\ y # Nil
    BY <1>9, <2>1
  <2>3. q # c
    BY <1>2, <2>1, <2>2 DEF Ends
  <2>4. q \notin Q
    BY <1>2, <2>1, <2>2
  <2>5. ASSUME q \in G PROVE FALSE
    <3>1. q \in Up(pa, c) /\ s.tpPartialPred[q] = k /\ k # Nil
      BY <1>4, <1>7, <2>5, NodesAssumption DEF Node
    <3>2. BaseRight(t, s, q, k)
      BY <1>1, <2>2, <3>1 DEF BasesRight
    <3> HIDE DEF q
    <3>3. PICK w \in Up(pa, c) : pa[w] = q
      BY <1>1, <1>3, <2>3, <3>1, ChildOnTheWay
    <3>4. w \in Node /\ w \in Up(pa, k)
      BY <1>1, <1>3, <1>7, <3>3, UpIs, UpTransitive
    <3>5. w \notin Up(pa, q)
      <4> SUFFICES ASSUME w \in Up(pa, q) PROVE FALSE
        OBVIOUS
      <4>1. q \in Up(pa, w) /\ q # Nil
        BY <1>1, <2>2, <3>3, <3>4, UpIs, NodesAssumption DEF UpClosed, Node
      <4>2. w = q
        BY <1>1, <2>2, <3>4, <4>1, UpAntisymmetric
      <4> HIDE DEF pa
      <4> QED BY <1>1, <3>3, <3>4, <4>1, <4>2, NotAboveItself
    <3>6. w \in Seen(s) /\ OnPath(t, s, w) /\ Base(s, w) = k
      BY <3>2, <3>4, <3>5 DEF BaseRight
    <3>7. w = y
      BY <2>2, <3>3, <3>6 DEF OnPath
    <3>8. s.label[y] # "Partial"
      <4> SUFFICES ASSUME s.label[y] = "Partial" PROVE FALSE
        OBVIOUS
      <4>1. y = k
        BY <1>71, <3>6, <3>7
      <4>2. y = c
        BY <1>1, <1>3, <1>7, <3>3, <3>7, <4>1, UpAntisymmetric
      <4> QED BY <2>1, <4>2
    <3>9. y \in G
      BY <1>3, <1>5, <1>71, <2>1, <3>3, <3>6, <3>7, <3>8
    <3> QED BY <2>1, <3>9
  <2> QED BY <2>2, <2>3, <2>4, <2>5
<1>11. E = {}
  <2> HIDE DEF E
  <2>1. E \in SUBSET Node
    BY <1>3 DEF E
  <2> QED BY <1>1, <1>10, <2>1, NoEndlessPath
<1>12. Seen(s) = G \cup Q \cup {c}
  BY <1>2, <1>3, <1>4, <1>11
<1>13. /\ Cardinality(Seen(s)) = Cardinality(G) + 1 + Cardinality(Q)
       /\ \A x \in InUse(t) : s.label[x] = "Partial" => x \in Q \cup {c}
  BY <1>4, <1>8, <1>12, PathIsChosen DEF Q
<1>14. /\ Cardinality(G) \in Nat /\ Cardinality(Q) \in Nat /\ IsFiniteSet(Q) /\ Q \subseteq Node
       /\ Seen(s) \ G = Q \cup {c}
  <2>1. G \subseteq Node /\ Q \subseteq Node
    BY <1>2, <1>3, <1>4
  <2>2. Seen(s) \ G = Q \cup {c}
    BY <1>8, <1>12
  <2> QED BY <2>1, <2>2, NodeIsFinite, FS_Subset, FS_CardinalityType
<1>15. CASE Overshot(t, s)
  <2>1. s.terminalPathLength = Cardinality(Q \cup {c})
    BY <1>1, <1>14, <1>15 DEF CountRight, Counted, G
  <2>2. Cardinality(Q \cup {c}) = Cardinality(Q) + 1
    BY <1>2, <1>14, FS_AddElement
  <2> QED BY <1>13, <1>14, <2>1, <2>2 DEF PathChosen, Q
<1>16. CASE ~Overshot(t, s)
  <2>1. \A y \in G : OnPath(t, s, y)
    BY <1>16 DEF Overshot, G
  <2>2. ASSUME NEW y \in G PROVE pa[y] \in G
    <3>1. y \in Node /\ y \in Up(pa, c) /\ y # c /\ pa[y] \in Seen(s) /\ pa[y] \in Node /\ pa[y] # Nil
      BY <1>3, <1>4, <1>9, <2>1, NodesAssumption DEF Node
    <3> DEFINE q == pa[y]
    <3>2. q \in Up(pa, c) /\ q \in Up(pa, y)
      BY <1>1, <1>3, <3>1, UpIs DEF UpClosed
    <3>3. q # c
      <4> SUFFICES ASSUME c = q PROVE FALSE
        OBVIOUS
      <4>1. c \in Up(pa, y)
        BY <3>2
      <4>2. y = c
        BY <1>1, <1>3, <3>1, <4>1, UpAntisymmetric
      <4> QED BY <3>1, <4>2
    <3>4. q \notin Q
      <4> SUFFICES ASSUME q \in Q PROVE FALSE
        OBVIOUS
      <4>1. c \in Up(pa, q) /\ q \in Node
        BY <1>2, <3>1
      <4> HIDE DEF q
      <4>2. q = c
        BY <1>1, <1>3, <3>2, <4>1, UpAntisymmetric
      <4> QED BY <3>3, <4>2
    <3> QED BY <1>12, <3>1, <3>3, <3>4
  <2>3. G = {}
    <3>1. G \in SUBSET Node
      BY <1>3, <1>4
    <3> QED BY <1>1, <2>2, <3>1, NoEndlessPath
  <2>4. Cardinality(G) = 0
    BY <2>3, FS_EmptySet
  <2>5. s.terminalPathLength = Cardinality(Seen(s))
    BY <1>1, <1>16 DEF CountRight, Counted
  <2> QED BY <1>13, <1>14, <2>4, <2>5 DEF PathChosen, Q
<1> QED BY <1>15, <1>16

\* The candidate has one arm, which has been counted from end to end.
LEMMA LooseChosen ==
  ASSUME NEW t, NEW s, Core(t, s, {}), s.apexCandidateIsFix = FALSE, NEW c, c = s.apexCandidate, c # Nil,
         ArmsFacts(t, s, c, Arms(s, c))
  PROVE  PathChosen(t, s, c, s.terminalPathLength)
<1> DEFINE pa == t.parent
           Q == Arms(s, c)
           E == Seen(s) \ (Q \cup {c})
<1>1. /\ pa \in Parents /\ Acyclic(pa) /\ PredsRight(t, s, {}) /\ PathsJoin(t, s)
      /\ CountRight(t, s) /\ CandidateRight(t, s, {})
  BY SturdyFacts DEF Core
<1>2. /\ Q \subseteq Seen(s) /\ Ends(s, c) \subseteq Q /\ c \notin Q
      /\ \A y \in Q : s.tpPred[y] # Nil => s.tpPred[y] \in Q
  BY DEF ArmsFacts
<1>3. c \in Seen(s) /\ c \in Node /\ Seen(s) \subseteq Node
  BY <1>1 DEF CandidateRight, Seen
<1> HIDE DEF Q
<1>4. ASSUME NEW y \in E PROVE pa[y] \in E
  <2>1. pa[y] \in Node /\ s.tpPred[pa[y]] = y /\ y # Nil
    BY <1>1, <1>3, NodesAssumption DEF PathsJoin, OnPath, Parents, Node
  <2>2. pa[y] \in Seen(s)
    BY <1>1, <2>1 DEF PredsRight
  <2> QED BY <1>2, <2>1, <2>2 DEF Ends
<1>5. E = {}
  <2> HIDE DEF E
  <2>1. E \in SUBSET Node
    BY <1>3 DEF E
  <2> QED BY <1>1, <1>4, <2>1, NoEndlessPath
<1> DEFINE G == {}
<1>6. Seen(s) = G \cup Q \cup {c} /\ G \cap (Q \cup {c}) = {} /\ (\A y \in G : s.label[y] # "Partial") /\ G = {}
  BY <1>2, <1>3, <1>5
<1> HIDE DEF G
<1>7. /\ Cardinality(Seen(s)) = Cardinality(G) + 1 + Cardinality(Q)
      /\ \A x \in InUse(t) : s.label[x] = "Partial" => x \in Q \cup {c}
  BY <1>6, PathIsChosen DEF Q
<1>8. Cardinality(G) = 0 /\ Cardinality(Q) \in Nat
  <2>1. Q \subseteq Node
    BY <1>2, <1>3
  <2> QED BY <1>6, <2>1, FS_EmptySet, NodeIsFinite, FS_Subset, FS_CardinalityType
<1>9. s.terminalPathLength = Cardinality(Seen(s))
  BY <1>1 DEF CountRight, Counted, Overshot
<1> QED BY <1>7, <1>8, <1>9 DEF PathChosen, Q

\* The candidate was never confirmed: the path ends at the partial node that
\* it began at.
LEMMA BackToPartial ==
  ASSUME NEW t, NEW s, Core(t, s, {}), BlocksRight(t, s, {}), NEW a, a = s.apexCandidate, a # Nil, Backtracks(s),
         NEW k, k = s.tpPartialPred[a]
  PROVE  /\ ApexGiven(t, s, k) /\ s.label[k] = "Partial"
         /\ PathChosen(t, s, k, s.terminalPathLength - s.tpPartialHeight[a])
<1> DEFINE pa == t.parent
           h == s.tpPartialHeight[a]
           D == Up(pa, k) \ Up(pa, a)
           F == D \cup {a}
           G == F \ {k}
           Q == Arms(s, k)
           E == Seen(s) \ (F \cup Q)
<1>1. /\ pa \in Parents /\ Acyclic(pa) /\ WaitingRight(t, s, {}) /\ s \in TempType
      /\ PredsRight(t, s, {}) /\ PathsJoin(t, s) /\ CandidateRight(t, s, {}) /\ BasesRight(t, s) /\ CountRight(t, s)
  BY SturdyFacts DEF Core
<1>2. a \in Seen(s) /\ Seen(s) \subseteq Node /\ a \in Node
  BY <1>1 DEF CandidateRight, Seen
<1>3. s.apexCandidateIsFix = FALSE /\ s.label[a] # "Partial" /\ s.apexTPPred2 = Nil
  BY <1>1 DEF Backtracks, TempType, CandidateRight
<1>4. k # Nil
  BY <1>1, <1>2, <1>3 DEF WaitingRight, TempType
<1>5. BaseRight(t, s, a, k)
  BY <1>1, <1>2, <1>4 DEF BasesRight
<1>6. /\ k \in InUse(t) /\ k \in Node /\ s.label[k] = "Partial" /\ a \in Up(pa, k)
      /\ Cardinality(Up(pa, k)) = Cardinality(Up(pa, a)) + h
      /\ \A y \in D : y \in Seen(s) /\ OnPath(t, s, y) /\ Base(s, y) = k
  BY <1>5 DEF BaseRight
<1>7. s.terminalPathLength = Cardinality(Seen(s))
  BY <1>1, <1>3 DEF CountRight, Counted, Overshot
<1>8. k \in Seen(s)
  BY <1>1, <1>6 DEF WaitingRight
<1>81. ApexGiven(t, s, k)
  BY <1>3, <1>8 DEF ApexGiven
<1>82. ArmsFacts(t, s, k, Q)
  BY <1>81, ArmsArePaths
<1>83. /\ Q \subseteq Seen(s) /\ Ends(s, k) \subseteq Q /\ k \notin Q
       /\ \A y \in Q : k \in Up(pa, y) /\ (s.tpPred[y] # Nil => s.tpPred[y] \in Q)
  BY <1>82 DEF ArmsFacts
<1>9. h \in Nat /\ Cardinality(D) = h /\ IsFiniteSet(D) /\ a \notin D /\ a \in Up(pa, a)
  <2>1. h \in Nat
    BY <1>1, <1>2 DEF TempType
  <2>2. a \in Up(pa, a)
    BY <1>1, <1>2, UpIs
  <2>3. Cardinality(Up(pa, a)) \in Nat
    BY <1>1, <1>2, UpFinite
  <2>4. IsFiniteSet(D) /\ Cardinality(D) = Cardinality(Up(pa, k)) - Cardinality(Up(pa, a))
    BY <1>1, <1>2, <1>6, UpDifference
  <2> HIDE DEF h
  <2>5. Cardinality(D) = h
    BY <1>6, <2>1, <2>3, <2>4
  <2> QED BY <2>1, <2>2, <2>4, <2>5
<1>91. k \in F
  <2>1. k \in Up(pa, k)
    BY <1>1, <1>6, UpIs
  <2>2. k \in Up(pa, a) => k = a
    BY <1>1, <1>2, <1>6, UpAntisymmetric
  <2> QED BY <2>1, <2>2
<1>92. \A y \in D : y \in Up(pa, k)
  OBVIOUS
<1> HIDE DEF h, Q
<1>10. F \subseteq Seen(s) /\ IsFiniteSet(F) /\ Cardinality(F) = h + 1
  <2>1. F \subseteq Seen(s)
    BY <1>2, <1>6
  <2> HIDE DEF D
  <2>2. IsFiniteSet(F) /\ Cardinality(F) = Cardinality(D) + 1
    BY <1>9, FS_AddElement
  <2> QED BY <1>9, <2>1, <2>2
<1>11. Cardinality(G) = h
  <2> HIDE DEF F, D
  <2>1. Cardinality(F \ {k}) = Cardinality(F) - 1
    BY <1>10, <1>91, FS_RemoveElement
  <2> QED BY <1>9, <1>10, <2>1
<1>12. ASSUME NEW y \in E PROVE pa[y] \in E
  <2>1. pa[y] \in Node /\ s.tpPred[pa[y]] = y /\ y # Nil /\ y \notin D /\ y \notin Q
    BY <1>1, <1>2, <1>3, NodesAssumption DEF PathsJoin, OnPath, Parents, Node
  <2>2. pa[y] \in Seen(s)
    BY <1>1, <2>1 DEF PredsRight
  <2> DEFINE z == pa[y]
  <2>3. z \notin Q /\ z # k
    BY <1>83, <2>1 DEF Ends
  <2>4. ASSUME z \in F PROVE FALSE
    <3>1. z \in Up(pa, k) /\ (z \in Up(pa, a) => z = a)
      BY <1>6, <2>4 DEF D
    <3> HIDE DEF z
    <3>2. PICK w \in Up(pa, k) : pa[w] = z
      BY <1>1, <1>6, <2>3, <3>1, ChildOnTheWay
    <3>3. w \in Node /\ z \in Node
      BY <1>1, <1>6, <2>1, <3>2, UpIs DEF z
    <3>4. w \notin Up(pa, a)
      <4> SUFFICES ASSUME w \in Up(pa, a) PROVE FALSE
        OBVIOUS
      <4>1. z \in Up(pa, a) /\ z # Nil
        BY <1>1, <1>2, <3>2, <3>3, UpIs, NodesAssumption DEF UpClosed, Node
      <4>2. z = a
        BY <3>1, <4>1
      <4>3. pa[w] = a /\ pa[w] # Nil
        BY <3>2, <4>1, <4>2
      <4>4. a \in Up(pa, w)
        BY <1>1, <3>3, <4>3, UpIs DEF UpClosed
      <4>5. w = a
        BY <1>1, <1>2, <3>3, <4>4, UpAntisymmetric
      <4> HIDE DEF pa
      <4> QED BY <1>1, <3>3, <4>3, <4>5, NotAboveItself
    <3>5. w \in D
      BY <3>2, <3>4 DEF D
    <3>6. s.tpPred[z] = w
      BY <1>6, <3>2, <3>5 DEF OnPath
    <3> QED BY <2>1, <3>5, <3>6 DEF z
  <2> QED BY <2>2, <2>3, <2>4
<1>13. E = {}
  <2> HIDE DEF E
  <2>1. E \in SUBSET Node
    BY <1>2 DEF E
  <2> QED BY <1>1, <1>12, <2>1, NoEndlessPath
<1>14. Seen(s) = G \cup Q \cup {k}
  BY <1>10, <1>13, <1>83, <1>91, <1>8
<1>15. G \cap (Q \cup {k}) = {}
  <2> SUFFICES ASSUME NEW y \in G, y \in Q PROVE FALSE
    OBVIOUS
  <2>1. y \in Up(pa, k) /\ k \in Up(pa, y) /\ y \in Node /\ y # k
    BY <1>2, <1>6, <1>83, <1>92
  <2> QED BY <1>1, <1>6, <2>1, UpAntisymmetric
<1>16. \A y \in G : s.label[y] # "Partial"
  BY <1>3, <1>6 DEF Base
<1>17. /\ Cardinality(Seen(s)) = Cardinality(G) + 1 + Cardinality(Q)
       /\ \A x \in InUse(t) : s.label[x] = "Partial" => x \in Q \cup {k}
  <2> HIDE DEF G, F, D
  <2> QED BY <1>14, <1>15, <1>16, <1>82, PathIsChosen DEF Q
<1>18. Cardinality(Q) \in Nat
  <2>1. Q \subseteq Node
    BY <1>2, <1>83
  <2> QED BY <2>1, NodeIsFinite, FS_Subset, FS_CardinalityType
<1>19. s.terminalPathLength - h = 1 + Cardinality(Q)
  BY <1>7, <1>9, <1>11, <1>17, <1>18
<1> QED BY <1>6, <1>17, <1>19, <1>81 DEF PathChosen, Q, h

ApexFixed(s, c, n) ==
  [s EXCEPT !.apexCandidate = c, !.apexCandidateIsFix = TRUE, !.terminalPathLength = n, !.tpSucc[c] = Nil]

FixedFacts(s, r, c, n) ==
  /\ r \in TempType /\ ChainsStay(s, r) /\ r.apexTPPred2 = s.apexTPPred2
  /\ r.ebEnd1 = s.ebEnd1 /\ r.fbEnd1 = s.fbEnd1 /\ r.fbEnd2 = s.fbEnd2 /\ r.ebEnd2 = s.ebEnd2
  /\ r.apexCandidate = c /\ r.terminalPathLength = n

LEMMA ApexFixedIs ==
  ASSUME NEW s \in TempType, NEW c \in Node, NEW n \in Nat, NEW r, r = ApexFixed(s, c, n)
  PROVE  FixedFacts(s, r, c, n)
<1>1. s.tpSucc \in [Node -> Ref] /\ Nil \in Ref /\ c \in Ref
  BY DEF TempType, Ref
<1>2. r = [s EXCEPT !.apexCandidate = c, !.apexCandidateIsFix = TRUE, !.terminalPathLength = n,
                    !.tpSucc = [@ EXCEPT ![c] = Nil]]
  BY DEF ApexFixed, TempType
<1>3. [s.tpSucc EXCEPT ![c] = Nil] \in [Node -> Ref]
  BY <1>1
<1>4. r \in TempType
  BY ZenonT(40), <1>1, <1>2, <1>3 DEF TempType
<1>5. /\ ChainsStay(s, r) /\ r.apexTPPred2 = s.apexTPPred2
      /\ r.ebEnd1 = s.ebEnd1 /\ r.fbEnd1 = s.fbEnd1 /\ r.fbEnd2 = s.fbEnd2 /\ r.ebEnd2 = s.ebEnd2
      /\ r.apexCandidate = c /\ r.terminalPathLength = n
  BY <1>2 DEF TempType, ChainsStay
<1> QED BY <1>4, <1>5 DEF FixedFacts

\* The apex and the length that the end of the search leaves.
ApexChosen(t, s, c, n) ==
  /\ ApexGiven(t, s, c) /\ PathChosen(t, s, c, n)
  /\ s.apexTPPred2 # Nil => s.tpPred[c] # Nil
  /\ s.label[c] = "Empty" => s.apexTPPred2 # Nil

LEMMA ChosenLength ==
  ASSUME NEW t, NEW s, Core(t, s, {}), BlocksRight(t, s, {}), NEW c, NEW n, ApexChosen(t, s, c, n)
  PROVE  n \in Nat
<1>1. ArmsFacts(t, s, c, Arms(s, c))
  BY ArmsArePaths DEF ApexChosen
<1>2. Arms(s, c) \subseteq Node
  BY <1>1 DEF ArmsFacts, PathSet
<1>3. Cardinality(Arms(s, c)) \in Nat
  BY <1>2, NodeIsFinite, FS_Subset, FS_CardinalityType
<1> QED BY <1>3 DEF ApexChosen, PathChosen

LEMMA ChosenIsFound ==
  ASSUME NEW t, NEW s, Core(t, s, {}), BlocksRight(t, s, {}), NEW c, NEW n, ApexChosen(t, s, c, n),
         NEW r, FixedFacts(s, r, c, n)
  PROVE  FoundRight(t, r)
<1> DEFINE Q == Arms(s, c)
<1>1. /\ Sturdy(t) /\ s \in TempType /\ LabelsRight(t, s) /\ WaitingRight(t, s, {}) /\ PredsRight(t, s, {})
  BY DEF Core
<1>2. ApexGiven(t, s, c) /\ c \in Seen(s) /\ c \in InUse(t) /\ c \in Inner /\ s.label[c] # "Full"
  BY <1>1 DEF ApexChosen, ApexGiven, WaitingRight
<1>3. ApexRight(t, s, c)
  BY <1>1, <1>2 DEF LabelsRight
<1>4. /\ r \in TempType /\ r.apexTPPred2 = s.apexTPPred2
      /\ r.ebEnd1 = s.ebEnd1 /\ r.fbEnd1 = s.fbEnd1 /\ r.fbEnd2 = s.fbEnd2 /\ r.ebEnd2 = s.ebEnd2
      /\ r.apexCandidate = c /\ r.terminalPathLength = n
      /\ r.label = s.label /\ r.fullNeighbors = s.fullNeighbors /\ r.tpPred = s.tpPred
  BY DEF FixedFacts, ChainsStay
<1>5. ArmsFacts(t, s, c, Q)
  BY <1>2, ArmsArePaths
<1>6. PathSet(t, s, c, Q) /\ (\A y \in Q : s.label[y] # "Full") /\ Q \subseteq Node /\ (Ends(s, c) = {} => Q = {})
  BY <1>5 DEF ArmsFacts, PathSet
<1>7. n = 1 + Cardinality(Q) /\ \A x \in InUse(t) : s.label[x] = "Partial" => x \in Q \cup {c}
  BY DEF ApexChosen, PathChosen
<1> HIDE DEF Q
<1>8. PathSet(t, r, c, Q) /\ \A y \in Q : r.label[y] # "Full"
  BY <1>4, <1>6 DEF PathSet, Passed
<1>9. ApexRight(t, r, c)
  BY <1>3, <1>4 DEF ApexRight
<1>10. t.type[c] = "C" /\ s.label[c] = "Partial" /\ s.tpPred[c] # Nil =>
         /\ {s.fbEnd1[c], s.fbEnd2[c]} \subseteq ToSet(s.fullNeighbors[c])
         /\ s.tpPred[c] \in {s.ebEnd1[c], s.ebEnd2[c]}
  BY <1>2 DEF BlocksRight, BlockRight
<1>11. /\ s.apexTPPred2 # Nil => s.tpPred[c] # Nil
       /\ s.label[c] = "Empty" => s.apexTPPred2 # Nil
  BY DEF ApexChosen
<1>12. Cardinality(Q) \in Nat
  BY <1>6, NodeIsFinite, FS_Subset, FS_CardinalityType
<1>13. n # 0
  BY <1>7, <1>12
<1>14. ASSUME s.tpPred[c] = Nil PROVE n = 1
  <2>1. Q = {}
    BY <1>6, <1>11, <1>14 DEF Ends
  <2> QED BY <1>7, <2>1, FS_EmptySet
<1>15. r.terminalPathLength = 1 + Cardinality(Q) /\ r.terminalPathLength # 0
       /\ \A x \in InUse(t) : r.label[x] = "Partial" => x \in Q \cup {c}
  BY <1>4, <1>7, <1>13
<1>16. FoundRight(t, r)
  BY ONLY <1>1, <1>4, <1>8, <1>9, <1>10, <1>11, <1>14, <1>15 DEF FoundRight
<1> QED BY <1>16

LEMMA ChosenRight ==
  ASSUME NEW t, NEW s, Core(t, s, {}), BlocksRight(t, s, {}), NEW a, a = s.apexCandidate, a # Nil,
         NEW c, c = IF Backtracks(s) THEN s.tpPartialPred[a] ELSE a,
         NEW n, n = IF Backtracks(s) THEN s.terminalPathLength - s.tpPartialHeight[a] ELSE s.terminalPathLength
  PROVE  ApexChosen(t, s, c, n)
<1>1. s \in TempType /\ CandidateRight(t, s, {}) /\ s.apexCandidateIsFix \in BOOLEAN
  BY DEF Core, TempType
<1>2. a \in Seen(s) /\ a \in Node /\ (s.apexCandidateIsFix <=> s.apexTPPred2 # Nil)
  BY <1>1 DEF CandidateRight, Seen
<1>3. CASE Backtracks(s)
  <2>1. c = s.tpPartialPred[a] /\ n = s.terminalPathLength - s.tpPartialHeight[a]
    BY <1>3
  <2>2. ApexGiven(t, s, c) /\ s.label[c] = "Partial" /\ PathChosen(t, s, c, n)
    BY <1>3, <2>1, BackToPartial
  <2>3. s.apexTPPred2 = Nil
    BY <1>1, <1>2, <1>3 DEF Backtracks
  <2> QED BY <2>2, <2>3 DEF ApexChosen
<1>4. CASE ~Backtracks(s)
  <2>1. c = a /\ n = s.terminalPathLength
    BY <1>4
  <2>2. CASE s.apexCandidateIsFix = TRUE
    <3>1. /\ s.apexTPPred2 # Nil /\ t.parent[s.apexTPPred2] = a /\ s.apexTPPred2 \in Seen(s)
          /\ s.tpPred[a] \notin {Nil, s.apexTPPred2}
      BY <1>1, <1>2, <2>2 DEF CandidateRight
    <3>2. ApexGiven(t, s, c)
      BY <1>2, <2>1, <3>1 DEF ApexGiven
    <3>3. ArmsFacts(t, s, c, Arms(s, c))
      BY <3>2, ArmsArePaths
    <3>4. PathChosen(t, s, c, n)
      BY <2>1, <2>2, <3>3, FixedChosen
    <3> QED BY <2>1, <3>1, <3>2, <3>4 DEF ApexChosen
  <2>3. CASE s.apexCandidateIsFix = FALSE
    <3>1. s.label[a] = "Partial" /\ s.apexTPPred2 = Nil
      BY <1>2, <1>4, <2>3 DEF Backtracks
    <3>2. ApexGiven(t, s, c)
      BY <1>2, <2>1, <3>1 DEF ApexGiven
    <3>3. ArmsFacts(t, s, c, Arms(s, c))
      BY <3>2, ArmsArePaths
    <3>4. PathChosen(t, s, c, n)
      BY <2>1, <2>3, <3>3, LooseChosen
    <3> QED BY <2>1, <3>1, <3>2, <3>4 DEF ApexChosen
  <2> QED BY <1>1, <2>2, <2>3
<1> QED BY <1>3, <1>4

\* The end of the search.
LEMMA FixApexRight ==
  ASSUME SearchRight(tree, temp), FixApex
  PROVE  FoundRight(tree', temp')
<1> DEFINE a == temp.apexCandidate
           c == IF Backtracks(temp) THEN temp.tpPartialPred[a] ELSE a
           n == IF Backtracks(temp) THEN temp.terminalPathLength - temp.tpPartialHeight[a] ELSE temp.terminalPathLength
<1>1. /\ temp.partials = <<>> /\ tree' = tree
      /\ temp' = [temp EXCEPT !.apexCandidate = c, !.apexCandidateIsFix = TRUE,
                              !.terminalPathLength =
                                IF Backtracks(temp) THEN @ - temp.tpPartialHeight[a] ELSE @,
                              !.tpSucc[c] = Nil]
  BY DEF FixApex
<1>2. /\ Core(tree, temp, ToSet(temp.partials)) /\ BlocksRight(tree, temp, {})
      /\ temp.apexCandidate = Nil => temp.partials # <<>>
  BY DEF SearchRight
<1>3. ToSet(temp.partials) = {}
  BY <1>1 DEF ToSet
<1>4. Core(tree, temp, {}) /\ a # Nil /\ temp \in TempType
  BY <1>1, <1>2, <1>3 DEF Core
<1>5. ApexChosen(tree, temp, c, n)
  BY <1>2, <1>4, ChosenRight
<1>6. c \in Node /\ n \in Nat
  <2>1. c \in Node
    BY <1>5 DEF ApexChosen, ApexGiven, Seen
  <2>2. n \in Nat
    BY <1>2, <1>4, <1>5, ChosenLength
  <2> QED BY <2>1, <2>2
<1>7. temp' = ApexFixed(temp, c, n)
  <2>1. n = IF Backtracks(temp) THEN temp.terminalPathLength - temp.tpPartialHeight[a] ELSE temp.terminalPathLength
    OBVIOUS
  <2> HIDE DEF c, n
  <2> QED BY <1>1, <1>4, <2>1 DEF ApexFixed, TempType
<1> HIDE DEF c, n
<1>8. FixedFacts(temp, temp', c, n)
  <2> DEFINE r == temp'
  <2>1. r = ApexFixed(temp, c, n)
    BY <1>7
  <2> HIDE DEF r
  <2>2. FixedFacts(temp, r, c, n)
    BY <1>4, <1>6, <2>1, ApexFixedIs
  <2> QED BY <2>2 DEF r
<1>9. FoundRight(tree, temp')
  <2> DEFINE r == temp'
  <2>1. FixedFacts(temp, r, c, n)
    BY <1>8
  <2> HIDE DEF r
  <2>2. FoundRight(tree, r)
    BY <1>2, <1>4, <1>5, <2>1, ChosenIsFound
  <2> QED BY <2>2 DEF r
<1> QED BY <1>1, <1>9

\* When leaves are marked and nobody waits to be marked in turn, a node is
\* partial.
LEMMA SomePartial ==
  ASSUME NEW t, Tree(t), Leaves \subseteq InUse(t),
         NEW l, NEW f, NEW ps, NEW M, Labelled(t, l, f, ps, Nil, M), NEW m \in M
  PROVE  ps # <<>>
<1> SUFFICES ASSUME ps = <<>> PROVE FALSE
  OBVIOUS
<1>1. ToSet(ps) = {}
  BY DEF ToSet
<1>2. \A x \in InUse(t) : l[x] # "Partial"
  BY <1>1 DEF Labelled, PartialsListed
<1>3. \A x \in InUse(t) : x \in Node
  BY DEF InUse
<1> DEFINE S == {p \in Node \X Node : ~(p[1] \in ToSet(f[p[2]]) /\ p[2] \notin ToSet(f[p[1]]))}
<1>4. ASSUME NEW x \in InUse(t), NEW y \in Around(t, x), \A z \in Around(t, y) \ {x} : <<y, z>> \in S
      PROVE  <<x, y>> \in S
  <2>1. y \in InUse(t) /\ x \in Node /\ y \in Node
    BY <1>3, AroundIs
  <2> SUFFICES ASSUME x \in ToSet(f[y]), y \notin ToSet(f[x]) PROVE FALSE
    BY <2>1
  <2>2. f[y] \in Seq(Node) /\ f[y] # <<>> /\ Len(f[y]) # 0
    <3>1. f[y] \in Seq(Node)
      BY <2>1 DEF Labelled, LabelTypes
    <3>2. f[y] # <<>>
      BY DEF ToSet
    <3> QED BY <3>1, <3>2
  <2>3. y \in Inner
    <3>1. y \notin Leaves
      BY <2>2 DEF Labelled, LeavesLabelled
    <3> QED BY <2>1, <3>1 DEF Node
  <2>4. l[y] = "Full"
    BY <1>2, <2>1, <2>2, <2>3 DEF Labelled, InnerLabelled, LabelTypes
  <2>5. PICK z \in Around(t, y) : y \in ToSet(f[z]) /\ z \notin ToSet(f[y])
    BY <2>1, <2>4 DEF Labelled, FullAreListed
  <2>6. z # x /\ z \in Node
    BY <1>3, <2>1, <2>5, AroundIs
  <2>7. <<y, z>> \in S
    BY <1>4, <2>5, <2>6
  <2> QED BY <2>5, <2>7
<1>5. \A x \in InUse(t) : \A y \in Around(t, x) : <<x, y>> \in S
  <2> HIDE DEF S
  <2> QED BY <1>4, FromBehind
<1>6. m \in Leaves /\ m \in InUse(t) /\ l[m] = "Full"
  BY DEF Labelled, LabelTypes, LeavesLabelled
<1>7. PICK x \in Around(t, m) : m \in ToSet(f[x]) /\ x \notin ToSet(f[m])
  BY <1>6 DEF Labelled, FullAreListed
<1>8. <<m, x>> \in S
  BY <1>5, <1>6, <1>7
<1> QED BY <1>7, <1>8

\* The search has not begun: the fields of ClearedTemp but the labels.
Fresh(s) ==
  /\ s.apexCandidate = Nil /\ s.apexCandidateIsFix = FALSE /\ s.apexTPPred2 = Nil
  /\ s.terminalPathLength = 0 /\ s.failed = FALSE
  /\ \A x \in Node : s.tpPred[x] = Nil /\ s.tpPartialPred[x] = Nil /\ s.tpSucc[x] = Nil /\ s.ebEnd1[x] = Nil

LEMMA LabelsToLists ==
  ASSUME NEW t, Sturdy(t), NEW s \in TempType, NEW M, Labelled(t, s.label, s.fullNeighbors, s.partials, Nil, M),
         NEW x \in InUse(t), x \in Inner, s.label[x] # "Full"
  PROVE  ApexRight(t, s, x)
<1> DEFINE l == s.label
           f == s.fullNeighbors
           ps == s.partials
<1>1. Tree(t) /\ x \in Node /\ x # Nil /\ Forest(t)
  BY SturdyIsValid, SturdyFacts, NodesAssumption DEF InUse, Node
<1>2. Labelled(t, l, f, ps, Nil, M)
  OBVIOUS
<1>3. f[x] \in Seq(Node) /\ Distinct(f[x])
  BY <1>1, <1>2 DEF Labelled, LabelTypes, ListedAreFull
<1>4. \A y \in ToSet(f[x]) : y \in Node /\ Adjacent(t, x, y) /\ l[y] = "Full"
  <2>1. \A y \in ToSet(f[x]) : y \in Around(t, x) /\ l[y] = "Full"
    BY <1>2 DEF Labelled, ListedAreFull
  <2>2. \A y \in Around(t, x) : y \in Node
    BY <1>1, AroundIs DEF InUse
  <2> QED BY <2>1, <2>2, AroundIsAdjacent
<1>5. \A y \in Node : Adjacent(t, x, y) /\ l[y] = "Full" => y \in ToSet(f[x])
  <2> SUFFICES ASSUME NEW y \in Node, Adjacent(t, x, y), l[y] = "Full" PROVE y \in ToSet(f[x])
    OBVIOUS
  <2>1. y \in Around(t, x)
    BY AroundIsAdjacent
  <2>2. l[x] # "Full"
    OBVIOUS
  <2> HIDE DEF l, f, ps
  <2> QED BY <1>1, <1>2, <2>1, <2>2, NotFullListsFull
<1>6. Len(f[x]) + 2 <= Degree(t, x) /\ (l[x] = "Empty" <=> Len(f[x]) = 0)
  <2>1. Degree(t, x) \in Nat /\ Len(f[x]) \in Nat
    BY <1>1, <1>3, DegreeIs DEF Tree
  <2>2. /\ Len(f[x]) <= Degree(t, x) - 1
        /\ l[x] = "Empty" <=> Len(f[x]) = 0
        /\ Len(f[x]) # Degree(t, x) - 1
    BY <1>1, <1>2 DEF Labelled, InnerLabelled
  <2> QED BY <2>1, <2>2
<1>7. l[x] = "Empty" <=> f[x] = <<>>
  BY <1>3, <1>6
<1> HIDE DEF ps
<1> QED BY <1>3, <1>4, <1>5, <1>6, <1>7 DEF ApexRight

LEMMA SearchBegins ==
  ASSUME NEW t, Sturdy(t), NEW s \in TempType, NEW M, Labelled(t, s.label, s.fullNeighbors, s.partials, Nil, M),
         M # {}, Fresh(s)
  PROVE  SearchRight(t, s)
<1> DEFINE W == ToSet(s.partials)
<1>1. Tree(t) /\ Leaves \subseteq InUse(t) /\ \A x \in InUse(t) : x \in Node
  BY SturdyIsValid DEF InUse
<1>2. W = {x \in InUse(t) : s.label[x] = "Partial"} /\ Distinct(s.partials)
  BY DEF Labelled, PartialsListed
<1>3. s.partials # <<>>
  <2> DEFINE l == s.label
             f == s.fullNeighbors
             ps == s.partials
  <2>1. Labelled(t, l, f, ps, Nil, M) /\ \E m \in M : TRUE
    OBVIOUS
  <2> HIDE DEF l, f, ps
  <2>2. ps # <<>>
    BY <1>1, <2>1, SomePartial
  <2> QED BY <2>2 DEF ps
<1>4. /\ s.apexCandidate = Nil /\ s.apexCandidateIsFix = FALSE /\ s.apexTPPred2 = Nil
      /\ s.terminalPathLength = 0 /\ s.failed = FALSE
      /\ \A x \in Node : s.tpPred[x] = Nil /\ s.tpPartialPred[x] = Nil /\ s.tpSucc[x] = Nil /\ s.ebEnd1[x] = Nil
  BY DEF Fresh
<1>5. Seen(s) = {}
  BY <1>4 DEF Seen
<1>6. LabelsRight(t, s)
  BY LabelsToLists DEF LabelsRight
<1>7. WaitingRight(t, s, W)
  <2>1. ASSUME NEW x \in W PROVE x \in InUse(t) /\ x \in Inner /\ s.label[x] = "Partial" /\ x \in Node
    <3>1. x \notin Leaves
      BY <1>2 DEF Labelled, LeavesLabelled
    <3> QED BY <1>1, <1>2, <3>1 DEF Node
  <2> HIDE DEF W
  <2> QED BY <1>2, <1>5, <2>1 DEF WaitingRight
<1>8. PredsRight(t, s, W) /\ BasesRight(t, s)
  BY <1>4 DEF PredsRight, BasesRight
<1>9. CandidateRight(t, s, W)
  BY <1>4, <1>5 DEF CandidateRight
<1>10. PathsJoin(t, s) /\ CountRight(t, s)
  BY <1>4, <1>5, FS_EmptySet DEF PathsJoin, CountRight, Counted, Overshot
<1>11. BlocksRight(t, s, {})
  BY <1>1, <1>4, <1>5 DEF BlocksRight, BlockRight
<1>12. Core(t, s, W)
  BY <1>6, <1>7, <1>8, <1>9, <1>10 DEF Core
<1> QED BY <1>2, <1>3, <1>4, <1>11, <1>12 DEF SearchRight

(***************************************************************************)
(* The invariant of the call.                                              *)
(***************************************************************************)
ClientRight ==
  /\ client \in [request : (SUBSET Leaves) \cup {Nil}, answer : BOOLEAN, before : TreeType \cup {Nil}]
  /\ IF pc = "idle" THEN client.request = Nil /\ client.before = Nil
     ELSE client.request \in SUBSET Leaves /\ client.before \in TreeType

CallRight ==
  /\ LabelInv
  /\ Sturdy(tree) /\ temp \in TempType /\ work \in WorkType /\ ClientRight
  /\ pc \in {"idle", "called", "marking", "searching", "found", "merging"}
  /\ pc = "marking" => Fresh(temp) /\ client.request # {}
  /\ pc = "searching" => SearchRight(tree, temp)
  /\ pc = "found" => FoundRight(tree, temp)
  /\ pc = "merging" => MergeRight(tree, temp, work) /\ temp.terminalPathLength # 0
  /\ pc # "merging" => work.merged = 0

LEMMA ClearedIs == ClearedTemp \in TempType /\ Fresh(ClearedTemp) /\ NoWork \in WorkType /\ NoWork.merged = 0
<1>1. \A v \in {"Empty", "Partial", "Full"} : [x \in Node |-> v] \in [Node -> {"Empty", "Partial", "Full"}]
  OBVIOUS
<1>2. /\ [x \in Node |-> "Empty"] \in [Node -> {"Empty", "Partial", "Full"}]
      /\ [x \in Node |-> <<>>] \in [Node -> Seq(Node)]
      /\ [x \in Node |-> Nil] \in [Node -> Ref] /\ [x \in Node |-> 0] \in [Node -> Nat]
      /\ <<>> \in Seq(Node) /\ <<>> \in Seq(Leaves) /\ Nil \in Ref
  BY <1>1 DEF Ref
<1>3. ClearedTemp \in TempType
  BY <1>2 DEF ClearedTemp, TempType
<1>4. Fresh(ClearedTemp)
  BY DEF ClearedTemp, Fresh
<1>5. NoWork \in WorkType /\ NoWork.merged = 0
  BY <1>2 DEF NoWork, WorkType
<1> QED BY <1>3, <1>4, <1>5

LEMMA ReturnRight ==
  ASSUME NEW s \in TempType, NEW ok \in BOOLEAN, Return(s, ok), Sturdy(tree')
  PROVE  CallRight'
<1>1. /\ pc' = "idle" /\ work' = NoWork /\ temp' = s
      /\ client' = [request |-> Nil, answer |-> ok, before |-> Nil]
  BY DEF Return
<1>2. LabelInv'
  <2>1. client' = [request |-> Nil, answer |-> client'.answer, before |-> Nil]
    BY <1>1
  <2> QED BY <1>1, <2>1 DEF LabelInv
<1>3. ClientRight'
  BY <1>1 DEF ClientRight
<1>4. work' \in WorkType /\ work'.merged = 0
  BY <1>1, ClearedIs
<1> QED BY <1>1, <1>2, <1>3, <1>4 DEF CallRight

LEMMA InitRight ==
  ASSUME Init
  PROVE  CallRight
<1>1. /\ tree \in InitTrees /\ temp = ClearedTemp /\ pc = "idle" /\ work = NoWork
      /\ client = [request |-> Nil, answer |-> TRUE, before |-> Nil]
  BY DEF Init
<1>2. Sturdy(tree)
  <2>1. Tree(tree) /\ Leaves \subseteq InUse(tree)
    BY <1>1, StartsAssumption DEF Tree
  <2>2. Unlinked(tree)
    BY <1>1, StartsAssumption DEF Unlinked, InUse
  <2> QED BY <2>1, <2>2, ValidIsSturdy
<1>3. LabelInv
  <2>1. client = [request |-> Nil, answer |-> client.answer, before |-> Nil]
    BY <1>1
  <2> QED BY <1>1, <2>1 DEF LabelInv
<1>4. ClientRight
  BY <1>1 DEF ClientRight
<1> QED BY <1>1, <1>2, <1>3, <1>4, ClearedIs DEF CallRight

LEMMA CallBegins ==
  ASSUME CallRight, NEW leaves \in Requests, MakeConsecutive(leaves)
  PROVE  CallRight'
<1>1. /\ pc = "idle" /\ pc' = "called" /\ tree' = tree /\ temp' = temp
      /\ work' = [work EXCEPT !.todo = leaves]
      /\ client' = [client EXCEPT !.request = ToSet(leaves), !.before = tree]
  BY DEF MakeConsecutive
<1>2. /\ work = NoWork /\ client = [request |-> Nil, answer |-> client.answer, before |-> Nil]
      /\ Sturdy(tree) /\ temp \in TempType /\ work \in WorkType /\ ClientRight
  BY <1>1 DEF CallRight, LabelInv
<1>3. work'.todo = leaves /\ work'.full = Nil /\ {"full", "todo"} \subseteq DOMAIN work'
  BY <1>1, <1>2 DEF NoWork
<1>4. leaves \in Seq(Leaves) /\ Distinct(leaves)
  BY RequestsAssumption, DistinctIsInjective
<1>5. ToSet(leaves) \subseteq Leaves
  BY <1>4 DEF ToSet
<1>6. client' = [request |-> ToSet(leaves), answer |-> client.answer, before |-> tree]
  BY <1>1, <1>2
<1>7. Tree(tree) /\ Leaves \subseteq InUse(tree) /\ tree \in TreeType
  BY <1>2, SturdyIsValid, SturdyFacts
<1>8. UsableTree'
  BY <1>1, <1>7 DEF UsableTree
<1>9. RequestRight'
  BY <1>3, <1>4, <1>5, <1>6 DEF RequestRight
<1>10. LabelInv'
  BY <1>1, <1>3, <1>6, <1>8, <1>9 DEF LabelInv
<1>11. work' \in WorkType /\ work'.merged = 0
  BY <1>1, <1>2, <1>4, ClearedIs DEF WorkType
<1>12. ClientRight'
  BY <1>1, <1>2, <1>5, <1>6, <1>7 DEF ClientRight
<1> QED BY <1>1, <1>2, <1>10, <1>11, <1>12 DEF CallRight

LEMMA MarkingBegins ==
  ASSUME CallRight, StartMarking
  PROVE  CallRight'
<1>1. /\ pc = "called" /\ pc' = "marking" /\ temp' = ClearedTemp /\ tree' = tree /\ work' = work
      /\ client' = client /\ ~IsTrivialRestriction(Len(work.todo))
  BY DEF StartMarking
<1>2. /\ LabelInv /\ Sturdy(tree) /\ work \in WorkType /\ ClientRight
  BY DEF CallRight
<1>3. LabelInv'
  BY <1>2, StartMarkingInv
<1>4. client.request # {}
  <2>1. work.todo \in Seq(Leaves) /\ client.request = ToSet(work.todo) /\ ~(Len(work.todo) <= 1)
    BY <1>1, <1>2 DEF LabelInv, WorkType, IsTrivialRestriction
  <2>2. 1 \in DOMAIN work.todo
    BY <2>1
  <2> QED BY <2>1, <2>2 DEF ToSet
<1>5. ClientRight'
  BY <1>1, <1>2 DEF ClientRight
<1>6. temp' \in TempType /\ Fresh(temp')
  BY <1>1, ClearedIs
<1> QED BY <1>1, <1>2, <1>3, <1>4, <1>5, <1>6 DEF CallRight

\* What a call of markFull writes.
Remarked(s, a, b, c) == [s EXCEPT !.label = a, !.fullNeighbors = b, !.partials = c]

LEMMA RemarkedIs ==
  ASSUME NEW s \in TempType, NEW a, NEW b, NEW c
  PROVE  /\ Remarked(s, a, b, c).label = a /\ Remarked(s, a, b, c).fullNeighbors = b
         /\ Remarked(s, a, b, c).partials = c
  BY DEF Remarked, TempType

ToldAt(u, q, x) == [u EXCEPT !.fullNeighbors[q] = Append(@, x)]

BegunAt(u, q) == [u EXCEPT !.label[q] = "Partial", !.partials = Append(@, q)]

LEMMA RemarkedTwice ==
  ASSUME NEW s \in TempType, NEW a, NEW b, NEW c, NEW q, NEW x
  PROVE  /\ \E d : ToldAt(Remarked(s, a, b, c), q, x) = Remarked(s, a, d, c)
         /\ \E d, e : BegunAt(Remarked(s, a, b, c), q) = Remarked(s, d, b, e)
<1>1. ToldAt(Remarked(s, a, b, c), q, x) = Remarked(s, a, [b EXCEPT ![q] = Append(@, x)], c)
  BY DEF Remarked, TempType, ToldAt
<1>2. BegunAt(Remarked(s, a, b, c), q) = Remarked(s, [a EXCEPT ![q] = "Partial"], b, Append(c, q))
  BY DEF Remarked, TempType, BegunAt
<1> QED BY <1>1, <1>2

LEMMA MarkFullRight ==
  ASSUME CallRight, pc = "marking", NEW x \in InUse(tree), MarkFull(x),
         \/ x \in Leaves /\ work.full = Nil /\ work.todo # <<>> /\ x = Head(work.todo)
         \/ x \in Inner /\ x = work.full
  PROVE  CallRight'
<1>1. /\ LabelInv /\ Sturdy(tree) /\ temp \in TempType /\ work \in WorkType /\ ClientRight
      /\ Fresh(temp) /\ client.request # {}
  BY DEF CallRight
<1>2. LabelInv'
  BY <1>1, MarkFullInv
<1>3. tree' = tree /\ pc' = pc /\ client' = client
  BY DEF MarkFull
<1>4. /\ temp'.label \in [Node -> {"Empty", "Partial", "Full"}] /\ temp'.fullNeighbors \in [Node -> Seq(Node)]
      /\ temp'.partials \in Seq(Node) /\ work'.full \in Ref /\ work'.todo \in Seq(Leaves)
  BY <1>2, <1>3 DEF LabelInv, MarkingRight, RequestRight, Labelled, LabelTypes, Node, Ref
<1>5. temp' = [temp EXCEPT !.label = temp'.label, !.fullNeighbors = temp'.fullNeighbors, !.partials = temp'.partials]
  <2> DEFINE s1 == [temp EXCEPT !.label[x] = "Full",
                                !.partials = IF x \in Leaves THEN @ ELSE RemoveAt(@, PositionOf(@, x))]
             c1 == IF x \in Leaves THEN temp.partials ELSE RemoveAt(temp.partials, PositionOf(temp.partials, x))
             a1 == [temp.label EXCEPT ![x] = "Full"]
             q  == PartialNeighbor(tree, s1, x)
             s2 == [s1 EXCEPT !.fullNeighbors[q] = Append(@, x)]
             n  == Len(s2.fullNeighbors[q])
             b2 == [temp.fullNeighbors EXCEPT ![q] = Append(@, x)]
             s3 == [s2 EXCEPT !.label[q] = "Partial", !.partials = Append(@, q)]
  <2>1. temp' = (IF n = 1 THEN s3 ELSE s2)
    BY DEF MarkFull
  <2>2. s1 = Remarked(temp, a1, temp.fullNeighbors, c1)
    BY <1>1 DEF Remarked, TempType
  <2> HIDE DEF s1, a1, c1
  <2> HIDE DEF q, n
  <2>3. s2 = ToldAt(s1, q, x) /\ s3 = BegunAt(s2, q)
    BY DEF ToldAt, BegunAt
  <2> HIDE DEF s2, s3
  <2>4. PICK d : s2 = Remarked(temp, a1, d, c1)
    BY ONLY <1>1, <2>2, <2>3, RemarkedTwice
  <2>5. PICK d3, e3 : s3 = Remarked(temp, d3, d, e3)
    BY ONLY <1>1, <2>3, <2>4, RemarkedTwice
  <2>6. \E a, b, c : temp' = Remarked(temp, a, b, c)
    BY ONLY <2>1, <2>4, <2>5
  <2>7. PICK a, b, c : temp' = Remarked(temp, a, b, c)
    BY ONLY <2>6
  <2>8. temp'.label = a /\ temp'.fullNeighbors = b /\ temp'.partials = c
    BY ONLY <1>1, <2>7, RemarkedIs
  <2> QED BY ONLY <2>7, <2>8 DEF Remarked
<1>6. work' = [work EXCEPT !.full = work'.full, !.todo = work'.todo]
  BY <1>1 DEF MarkFull, WorkType
<1>7. work' \in WorkType /\ work'.merged = work.merged
  BY <1>1, <1>4, <1>6 DEF WorkType
<1>8. temp' \in TempType /\ Fresh(temp')
  <2>1. temp' \in TempType
    BY <1>1, <1>4, <1>5 DEF TempType
  <2>2. Fresh(temp')
    BY <1>1, <1>5 DEF Fresh, TempType
  <2> QED BY <2>1, <2>2
<1>9. ClientRight'
  BY <1>1, <1>3 DEF ClientRight
<1> QED BY <1>1, <1>2, <1>3, <1>7, <1>8, <1>9 DEF CallRight

LEMMA MarkingRightStep ==
  ASSUME CallRight, MarkLeafFull \/ MarkInnerFull
  PROVE  CallRight'
<1>1. LabelInv
  BY DEF CallRight
<1>2. CASE MarkLeafFull
  <2>1. pc = "marking" /\ work.full = Nil /\ work.todo # <<>> /\ MarkFull(Head(work.todo))
    BY <1>2 DEF MarkLeafFull
  <2>2. Head(work.todo) \in Leaves /\ Leaves \subseteq InUse(tree)
    BY <1>1, <2>1 DEF LabelInv, RequestRight, UsableTree
  <2> QED BY <2>1, <2>2, MarkFullRight
<1>3. CASE MarkInnerFull
  <2>1. pc = "marking" /\ work.full # Nil /\ MarkFull(work.full)
    BY <1>3 DEF MarkInnerFull
  <2>2. work.full \in InUse(tree) \cap Inner
    BY <1>1, <2>1 DEF LabelInv, MarkingRight, Labelled, LabelTypes
  <2> QED BY <2>1, <2>2, MarkFullRight
<1> QED BY <1>2, <1>3

LEMMA LaterLabelInv ==
  ASSUME pc' \in {"searching", "found", "merging"}
  PROVE  LabelInv'
BY DEF LabelInv

LEMMA SearchStarts ==
  ASSUME CallRight, StartSearch
  PROVE  CallRight'
<1>1. /\ pc = "marking" /\ work.full = Nil /\ work.todo = <<>> /\ pc' = "searching"
      /\ tree' = tree /\ temp' = temp /\ work' = work /\ client' = client
  BY DEF StartSearch
<1>2. /\ LabelInv /\ Sturdy(tree) /\ temp \in TempType /\ work \in WorkType /\ ClientRight
      /\ Fresh(temp) /\ client.request # {}
  BY <1>1 DEF CallRight
<1>3. Marked = client.request
  BY <1>1 DEF Marked, ToSet
<1>4. Labelled(tree, temp.label, temp.fullNeighbors, temp.partials, Nil, Marked)
  BY <1>1, <1>2 DEF LabelInv, MarkingRight
<1>5. SearchRight(tree, temp)
  BY <1>2, <1>3, <1>4, SearchBegins
<1>6. LabelInv'
  BY <1>1, LaterLabelInv
<1>7. ClientRight'
  BY <1>1, <1>2 DEF ClientRight
<1> QED BY <1>1, <1>2, <1>5, <1>6, <1>7 DEF CallRight

LEMMA SearchGoesOn ==
  ASSUME CallRight, Searching
  PROVE  CallRight'
<1>1. pc = "searching" /\ SearchRight(tree, temp) /\ Sturdy(tree) /\ work \in WorkType /\ ClientRight
  BY DEF CallRight, Searching, VisitPartial, FixApex
<1>2. CASE FixApex
  <2>1. FoundRight(tree', temp') /\ pc' = "found" /\ work' = work /\ client' = client
    BY <1>1, <1>2, FixApexRight DEF FixApex
  <2>2. LabelInv'
    BY <2>1, LaterLabelInv
  <2>3. ClientRight'
    BY <1>1, <2>1 DEF ClientRight
  <2>4. Sturdy(tree') /\ temp' \in TempType
    BY <2>1 DEF FoundRight
  <2> QED BY <1>1, <2>1, <2>2, <2>3, <2>4 DEF CallRight
<1>3. CASE VisitPartial
  <2>1. Searched
    BY <1>1, <1>3, VisitRight
  <2>2. CASE UNCHANGED tree /\ \E s \in TempType : Return(s, FALSE)
    <3>1. PICK s \in TempType : Return(s, FALSE)
      BY <2>2
    <3> DEFINE no == FALSE
    <3>2. no \in BOOLEAN /\ Return(s, no) /\ Sturdy(tree')
      BY <1>1, <2>2, <3>1
    <3> HIDE DEF no
    <3> QED BY <3>2, ReturnRight
  <2>3. CASE UNCHANGED <<tree, pc, work, client>> /\ SearchRight(tree', temp')
    <3>1. pc' = "searching" /\ work' = work /\ client' = client
      BY <1>1, <2>3
    <3>2. LabelInv'
      BY <3>1, LaterLabelInv
    <3>3. ClientRight'
      BY <1>1, <3>1 DEF ClientRight
    <3>4. Sturdy(tree') /\ temp' \in TempType
      BY <2>3 DEF SearchRight, Core
    <3> QED BY <1>1, <2>3, <3>1, <3>2, <3>3, <3>4 DEF CallRight
  <2> QED BY <2>1, <2>2, <2>3 DEF Searched
<1> QED BY <1>2, <1>3 DEF Searching

LEMMA MergeGoesOn ==
  ASSUME CallRight, MergePNode \/ MergeCNode \/ StartSecondArm
  PROVE  CallRight'
<1>1. pc = "merging"
  BY DEF MergePNode, MergeCNode, StartSecondArm
<1>2. MergeRight(tree, temp, work) /\ work \in WorkType /\ ClientRight /\ temp.terminalPathLength # 0
  BY <1>1 DEF CallRight
<1>3. pc' = pc /\ client' = client
  BY DEF MergePNode, MergeCNode, StartSecondArm, MergeDone
<1>4. MergeRight(tree', temp', work') /\ CountKept(temp, temp') /\ work' \in WorkType
  BY <1>2, MergePNodeStep, MergeCNodeStep, StartSecondArmStep
<1>5. LabelInv'
  BY <1>1, <1>3, LaterLabelInv
<1>6. ClientRight'
  BY <1>2, <1>3 DEF ClientRight
<1>7. Sturdy(tree') /\ temp' \in TempType /\ temp'.terminalPathLength # 0
  BY <1>2, <1>4 DEF MergeRight, CountKept
<1> QED BY <1>1, <1>3, <1>4, <1>5, <1>6, <1>7 DEF CallRight

LEMMA CentralIsRight ==
  ASSUME CallRight, CreateCentralNode
  PROVE  CallRight'
<1> DEFINE a == temp.apexCandidate
           r == IF tree.type[a] = "P" THEN CentralOfPNode(tree, temp) ELSE CentralOfCNode(tree, temp)
           w2 == StartArm(r.s, work, r.node, r.s.tpPred[r.node])
<1>1. /\ pc = "found" /\ temp.terminalPathLength # 1 /\ pc' = "merging" /\ client' = client
      /\ tree' = r.t /\ temp' = r.s /\ work' = w2
  BY DEF CreateCentralNode
<1>2. FoundRight(tree, temp) /\ work \in WorkType /\ work.merged = 0 /\ ClientRight
  BY <1>1 DEF CallRight
<1>3. a \in InUse(tree) /\ a \in Inner /\ Sturdy(tree) /\ temp.terminalPathLength # 0
  BY <1>2 DEF FoundRight, ApexRight
<1>4. tree.type[a] \in {"P", "C"}
  BY <1>3, SturdyInner
<1>5. MergeRight(r.t, r.s, w2) /\ CountKept(temp, r.s) /\ w2 \in WorkType
  <2>1. CASE tree.type[a] = "P"
    <3>1. r = CentralOfPNode(tree, temp)
      BY <2>1
    <3>2. w2 = StartArm(r.s, work, r.node, r.s.tpPred[r.node]) /\ a = temp.apexCandidate
      OBVIOUS
    <3> HIDE DEF r, w2, a
    <3> QED BY <1>1, <1>2, <2>1, <3>1, <3>2, PNodeCentral
  <2>2. CASE tree.type[a] = "C"
    <3>1. r = CentralOfCNode(tree, temp)
      BY <2>2
    <3>2. w2 = StartArm(r.s, work, r.node, r.s.tpPred[r.node]) /\ a = temp.apexCandidate
      OBVIOUS
    <3> HIDE DEF r, w2, a
    <3> QED BY <1>1, <1>2, <2>2, <3>1, <3>2, CNodeCentral
  <2> QED BY <1>4, <2>1, <2>2
<1> HIDE DEF r, w2
<1>6. MergeRight(tree', temp', work')
  BY <1>1, <1>5
<1>7. Sturdy(tree') /\ temp' \in TempType /\ temp'.terminalPathLength # 0
  BY <1>1, <1>3, <1>5, <1>6 DEF MergeRight, CountKept
<1>8. LabelInv'
  BY <1>1, LaterLabelInv
<1>9. ClientRight'
  BY <1>1, <1>2 DEF ClientRight
<1> QED BY <1>1, <1>5, <1>6, <1>7, <1>8, <1>9 DEF CallRight

LEMMA SingletonIsRight ==
  ASSUME CallRight, UpdateSingletonTerminalPath
  PROVE  CallRight'
<1> DEFINE a == temp.apexCandidate
           full == Len(temp.fullNeighbors[a])
           skip == TRUE
           split == SplitOffFullPNode(tree, temp, a, skip)
           u == SingletonJoined(tree, temp, a, split)
           yes == TRUE
<1>1. /\ pc = "found"
      /\ \/ /\ tree.type[a] = "P" /\ full > 1 /\ Degree(tree, a) - full > 1
            /\ tree' = u /\ Return(split.s, yes)
         \/ UNCHANGED tree /\ Return(temp, yes)
  BY DEF UpdateSingletonTerminalPath, SingletonJoined
<1>2. FoundRight(tree, temp) /\ Sturdy(tree) /\ temp \in TempType
  BY <1>1 DEF CallRight
<1>3. yes \in BOOLEAN /\ skip = TRUE
  OBVIOUS
<1> HIDE DEF yes, skip
<1>4. CASE UNCHANGED tree /\ Return(temp, yes)
  BY <1>2, <1>3, <1>4, ReturnRight
<1>5. CASE /\ tree.type[a] = "P" /\ full > 1 /\ Degree(tree, a) - full > 1
           /\ tree' = u /\ Return(split.s, yes)
  <2>1. split = SplitOffFullPNode(tree, temp, a, skip) /\ u = SingletonJoined(tree, temp, a, split)
        /\ a = temp.apexCandidate /\ Len(temp.fullNeighbors[a]) > 1 /\ Degree(tree, a) - Len(temp.fullNeighbors[a]) > 1
    BY <1>5
  <2> HIDE DEF split, u, a
  <2>2. Sturdy(u) /\ split.s \in TempType
    BY <1>2, <1>3, <1>5, <2>1, SingletonSturdy
  <2> DEFINE s == split.s
  <2>3. s \in TempType /\ Return(s, yes) /\ Sturdy(tree')
    BY <1>5, <2>2
  <2> HIDE DEF s
  <2> QED BY <1>3, <2>3, ReturnRight
<1> QED BY <1>1, <1>4, <1>5

LEMMA RootChangeIsRight ==
  ASSUME CallRight, NEW x \in NewRoots, UserChangesRoot(x)
  PROVE  CallRight'
<1>1. /\ pc = "idle" /\ x # tree.root /\ tree.type[x] # "free"
      /\ temp' = temp /\ pc' = pc /\ work' = work /\ client' = client
  BY DEF UserChangesRoot
<1>2. PICK mirrored : tree' = ChangeRoot(tree, x, mirrored)
  BY DEF UserChangesRoot
<1>3. Sturdy(tree) /\ temp \in TempType /\ work \in WorkType /\ ClientRight /\ LabelInv
  BY DEF CallRight
<1>4. x \in InUse(tree)
  BY <1>1, NewRootsAssumption DEF InUse
<1>5. Sturdy(tree')
  <2> DEFINE u == ChangeRoot(tree, x, mirrored)
  <2>1. u = ChangeRoot(tree, x, mirrored)
    OBVIOUS
  <2> HIDE DEF u
  <2>2. Sturdy(u)
    BY <1>1, <1>3, <1>4, <2>1, ChangeRootSturdy
  <2> QED BY <1>2, <2>1, <2>2
<1>6. LabelInv'
  BY <1>1, <1>3 DEF LabelInv
<1>7. ClientRight'
  BY <1>1, <1>3 DEF ClientRight
<1> QED BY <1>1, <1>3, <1>5, <1>6, <1>7 DEF CallRight

LEMMA NextRight ==
  ASSUME CallRight, [Next]_vars
  PROVE  CallRight'
<1>1. Sturdy(tree) /\ temp \in TempType /\ ClearedTemp \in TempType
  BY ClearedIs DEF CallRight
<1> DEFINE yes == TRUE
<1>2. yes \in BOOLEAN /\ yes = TRUE
  OBVIOUS
<1> HIDE DEF yes
<1>3. CASE ReturnTrivial
  <2> DEFINE s == ClearedTemp
  <2>1. s \in TempType /\ Return(s, yes) /\ Sturdy(tree')
    BY <1>1, <1>2, <1>3 DEF ReturnTrivial
  <2> HIDE DEF s
  <2> QED BY <1>2, <2>1, ReturnRight
<1>4. CASE ReturnUpdated
  <2>1. Return(temp, yes) /\ Sturdy(tree')
    BY <1>1, <1>2, <1>4 DEF ReturnUpdated
  <2> QED BY <1>1, <1>2, <2>1, ReturnRight
<1>5. CASE \E leaves \in Requests : MakeConsecutive(leaves)
  BY <1>5, CallBegins
<1>6. CASE StartMarking
  BY <1>6, MarkingBegins
<1>7. CASE MarkLeafFull \/ MarkInnerFull
  BY <1>7, MarkingRightStep
<1>8. CASE StartSearch
  BY <1>8, SearchStarts
<1>9. CASE Searching
  BY <1>9, SearchGoesOn
<1>10. CASE UpdateSingletonTerminalPath
  BY <1>10, SingletonIsRight
<1>11. CASE CreateCentralNode
  BY <1>11, CentralIsRight
<1>12. CASE MergePNode \/ MergeCNode \/ StartSecondArm
  BY <1>12, MergeGoesOn
<1>13. CASE \E x \in NewRoots : UserChangesRoot(x)
  BY <1>13, RootChangeIsRight
<1>14. CASE UNCHANGED vars
  BY <1>14 DEF vars, CallRight, LabelInv, UsableTree, RequestRight, MarkingRight, Marked, ClientRight
<1> QED BY <1>3, <1>4, <1>5, <1>6, <1>7, <1>8, <1>9, <1>10, <1>11, <1>12, <1>13, <1>14
        DEF Next, CallStep, Marking, Updating

LEMMA RightIsValid ==
  ASSUME CallRight
  PROVE  ValidTree
<1>1. /\ Sturdy(tree) /\ temp \in TempType /\ work \in WorkType /\ ClientRight
      /\ pc \in {"idle", "called", "marking", "searching", "found", "merging"}
  BY DEF CallRight
<1>2. Tree(tree) /\ Leaves \subseteq InUse(tree)
  BY <1>1, SturdyIsValid
<1>3. pc \in {"found", "merging"} => temp.terminalPathLength # 0
  BY DEF CallRight, FoundRight
<1>4. TypeOK
  <2>1. temp.terminalPathLength \in (IF pc \in {"found", "merging"} THEN Nat \ {0} ELSE Nat)
    BY <1>1, <1>3 DEF TempType
  <2>2. /\ temp.label \in [Node -> {"Empty", "Partial", "Full"}]
        /\ temp.fullNeighbors \in [Node -> Seq(Node)]
        /\ \A f \in {temp.tpPred, temp.tpPartialPred, temp.tpSucc, temp.ebEnd1,
                     temp.fbEnd1, temp.fbEnd2, temp.ebEnd2} : f \in [Node -> Ref]
        /\ temp.tpPartialHeight \in [Node -> Nat]
        /\ temp.partials \in Seq(Node)
        /\ {temp.apexCandidate, temp.apexTPPred2} \subseteq Ref
        /\ {temp.apexCandidateIsFix, temp.failed} \subseteq BOOLEAN
    BY <1>1 DEF TempType
  <2>3. /\ work.todo \in Seq(Leaves)
        /\ {work.full, work.central, work.tpNeigh} \subseteq Ref
        /\ work.slot \in {1, 2} /\ work.merged \in Nat
    BY <1>1 DEF WorkType
  <2>4. /\ client.answer \in BOOLEAN
        /\ IF pc = "idle" THEN client.request = Nil /\ client.before = Nil
           ELSE client.request \in SUBSET Leaves /\ client.before \in TreeType
    BY <1>1 DEF ClientRight
  <2>5. tree \in TreeType
    BY <1>2 DEF Tree
  <2> QED BY ONLY <1>1, <2>1, <2>2, <2>3, <2>4, <2>5 DEF TypeOK
<1> QED BY <1>2, <1>4 DEF ValidTree, Tree

\* Whatever the user asks for, and whichever nodes become the root in between.
THEOREM TreeStaysValid == Spec => []ValidTree
<1>1. Init => CallRight
  BY InitRight
<1>2. CallRight /\ [Next]_vars => CallRight'
  BY NextRight
<1>3. CallRight => ValidTree
  BY RightIsValid
<1> QED BY <1>1, <1>2, <1>3, PTL DEF Spec

\* Between two leaves, and before the search reads the labels, they are what
\* markFull promises, whatever the earlier calls have made of the tree.
THEOREM LabelsCorrect == Spec => []LabelsExact
<1>1. Init => CallRight
  BY InitRight
<1>2. CallRight /\ [Next]_vars => CallRight'
  BY NextRight
<1>3. CallRight => LabelsExact
  BY InvImpliesExact DEF CallRight
<1> QED BY <1>1, <1>2, <1>3, PTL DEF Spec

(***************************************************************************)
(* The chains of tpPred.                                                   *)
(***************************************************************************)
\* One more node of the chain.
Longer(s, c) == IF Last(c) = Nil THEN c ELSE Append(c, s.tpPred[Last(c)])

Links(s, x) ==
  CHOOSE f : f = [k \in 0..Cardinality(Node) |-> IF k = 0 THEN <<x>> ELSE Longer(s, f[k - 1])]

LEMMA ChainByLinks ==
  ASSUME NEW s, NEW x
  PROVE  Chain(s, x) = Front(Links(s, x)[Cardinality(Node)])
BY DEF Chain, Links, Longer

\* What has been followed of the chain after some steps.
Followed(s, x, R, c, n) ==
  /\ c \in Seq(R \cup {Nil}) /\ Len(c) \in 1..n + 1 /\ c[1] = x
  /\ \A i \in 1..Len(c) - 1 : c[i] \in R /\ c[i + 1] = s.tpPred[c[i]]
  /\ Last(c) # Nil => Len(c) = n + 1

Downward(s, R) == \A y \in R : s.tpPred[y] \in R \cup {Nil}

LEMMA FollowOn ==
  ASSUME NEW s, NEW R, Nil \notin R, Downward(s, R), NEW x \in R \cup {Nil}, NEW n \in Nat,
         NEW c, Followed(s, x, R, c, n)
  PROVE  Followed(s, x, R, Longer(s, c), n + 1)
<1> DEFINE d == Longer(s, c)
           m == Len(c)
<1>1. /\ c \in Seq(R \cup {Nil}) /\ m \in 1..n + 1 /\ c[1] = x /\ m \in Nat /\ DOMAIN c = 1..m
      /\ \A i \in 1..m - 1 : c[i] \in R /\ c[i + 1] = s.tpPred[c[i]]
      /\ c[m] # Nil => m = n + 1
      /\ c[m] \in R \cup {Nil} /\ m = Len(c) /\ Last(c) = c[m]
  BY DEF Followed, Last
<1> HIDE DEF m
<1>2. CASE c[m] = Nil
  <2>1. d = c
    BY <1>1, <1>2 DEF Longer
  <2> QED BY <1>1, <1>2, <2>1 DEF Followed
<1>3. CASE c[m] # Nil
  <2> DEFINE e == s.tpPred[c[m]]
  <2>1. d = Append(c, e) /\ e \in R \cup {Nil}
    BY <1>1, <1>3 DEF Longer, Downward
  <2> HIDE DEF e, d
  <2>2. /\ d \in Seq(R \cup {Nil}) /\ Len(d) = m + 1 /\ d[m + 1] = e
        /\ \A i \in 1..m : d[i] = c[i]
    <3> DEFINE V == R \cup {Nil}
    <3>1. c \in Seq(V) /\ e \in V /\ m = Len(c) /\ m \in Nat
      BY <1>1, <2>1
    <3> HIDE DEF V
    <3>2. /\ d \in Seq(V) /\ Len(d) = m + 1 /\ d[m + 1] = e
          /\ \A i \in 1..m : d[i] = c[i]
      BY ONLY <2>1, <3>1
    <3> QED BY ONLY <3>2 DEF V
  <2>20. m \in Nat /\ m \in 1..n + 1 /\ (c[m] # Nil => m = n + 1) /\ c[1] = x /\ Len(d) = m + 1 /\ n \in Nat
         /\ (\A i \in 1..m : d[i] = c[i]) /\ d[m + 1] = e
         /\ \A i \in 1..m - 1 : c[i] \in R /\ c[i + 1] = s.tpPred[c[i]]
    BY ONLY <1>1, <2>2, n \in Nat
  <2>3. Last(d) = e
    BY <2>2 DEF Last
  <2>4. \A i \in 1..m : d[i] \in R /\ d[i + 1] = s.tpPred[d[i]]
    <3> SUFFICES ASSUME NEW i \in 1..m PROVE d[i] \in R /\ d[i + 1] = s.tpPred[d[i]]
      OBVIOUS
    <3>1. CASE i = m
      BY <1>1, <1>3, <2>2, <3>1 DEF e
    <3>2. CASE i # m
      <4>1. i \in 1..m - 1 /\ i + 1 \in 1..m
        BY ONLY <2>20, <3>2, i \in 1..m
      <4> QED BY ONLY <2>20, <4>1, i \in 1..m
    <3> QED BY <3>1, <3>2
  <2>5. Len(d) = n + 2
    BY ONLY <1>3, <2>20
  <2>6. d[1] = x
    BY ONLY <2>20
  <2>7. Len(d) - 1 = m
    BY ONLY <2>20
  <2>8. Followed(s, x, R, d, n + 1)
    <3>1. Len(d) = (n + 1) + 1 /\ Len(d) \in 1..(n + 1) + 1
      BY <2>5
    <3> QED BY <2>1, <2>2, <2>4, <2>6, <2>7, <3>1 DEF Followed
  <2> QED BY <2>8 DEF d
<1> QED BY <1>2, <1>3

LEMMA LinksAre ==
  ASSUME NEW s, NEW x, NEW N, N = Cardinality(Node)
  PROVE  Links(s, x) = [k \in 0..N |-> IF k = 0 THEN <<x>> ELSE Longer(s, Links(s, x)[k - 1])]
<1> DEFINE Are(f, n) == /\ f = [k \in 0..n |-> f[k]]
                        /\ \A k \in 0..n : f[k] = IF k = 0 THEN <<x>> ELSE Longer(s, f[k - 1])
           S == {n \in Nat : \E f : Are(f, n)}
<1>1. 0 \in S
  <2> DEFINE f == [k \in 0..0 |-> <<x>>]
  <2>1. Are(f, 0)
    OBVIOUS
  <2> QED BY <2>1
<1>2. ASSUME NEW n \in Nat, n \in S PROVE n + 1 \in S
  <2>1. PICK f : Are(f, n)
    BY <1>2
  <2> DEFINE g == [k \in 0..n + 1 |-> IF k = n + 1 THEN Longer(s, f[n]) ELSE f[k]]
  <2>2. \A k \in 0..n : g[k] = f[k]
    OBVIOUS
  <2>3. g[n + 1] = Longer(s, f[n])
    OBVIOUS
  <2>4. g = [k \in 0..n + 1 |-> g[k]]
    OBVIOUS
  <2> HIDE DEF g
  <2>5. ASSUME NEW k \in 0..n + 1 PROVE g[k] = IF k = 0 THEN <<x>> ELSE Longer(s, g[k - 1])
    <3>1. CASE k = n + 1
      <4>1. k # 0 /\ k - 1 = n /\ g[k - 1] = f[n]
        BY <2>2, <3>1
      <4> QED BY <2>3, <3>1, <4>1
    <3>2. CASE k \in 0..n /\ k # 0
      <4>1. k - 1 \in 0..n
        BY <3>2
      <4>2. f[k] = Longer(s, f[k - 1])
        BY <2>1, <3>2
      <4> QED BY <2>2, <3>2, <4>1, <4>2
    <3>3. CASE k = 0
      <4>1. f[0] = <<x>> /\ 0 \in 0..n
        <5>1. 0 \in 0..n
          OBVIOUS
        <5> QED BY <2>1, <5>1
      <4> QED BY <2>2, <3>3, <4>1
    <3> QED BY <3>1, <3>2, <3>3
  <2>6. Are(g, n + 1)
    BY <2>4, <2>5
  <2> HIDE DEF Are
  <2> QED BY <2>6
<1> HIDE DEF S
<1>3. N \in S
  BY <1>1, <1>2, NatSetInduction, NodeIsFinite
<1>4. PICK f : Are(f, N)
  BY <1>3 DEF S
<1> DEFINE Fits(g) == g = [k \in 0..N |-> IF k = 0 THEN <<x>> ELSE Longer(s, g[k - 1])]
<1>5. Fits(f)
  BY <1>4
<1>6. Links(s, x) = CHOOSE g : Fits(g)
  BY DEF Links
<1> HIDE DEF Fits
<1>7. Fits(Links(s, x))
  BY <1>5, <1>6
<1> QED BY <1>7 DEF Fits

\* Below x, each node of the chain one further down.
ChainIs(t, s, x, R, C) ==
  /\ C \in Seq(Node) /\ Distinct(C) /\ ToSet(C) \subseteq R
  /\ x = Nil => C = <<>>
  /\ x # Nil => C # <<>> /\ C[1] = x
  /\ \A y \in ToSet(C) : s.tpPred[y] # Nil => s.tpPred[y] \in ToSet(C)
  /\ \A y \in ToSet(C) : y = x \/ (t.parent[y] \in ToSet(C) /\ s.tpPred[t.parent[y]] = y)

LinkedDown(t, s, R) == \A y \in R : s.tpPred[y] # Nil => s.tpPred[y] \in R /\ t.parent[s.tpPred[y]] = y

LEMMA ChainGoesDown ==
  ASSUME NEW t, t.parent \in Parents, Acyclic(t.parent), NEW s, NEW R \in SUBSET Node, LinkedDown(t, s, R),
         NEW x \in R \cup {Nil}
  PROVE  ChainIs(t, s, x, R, Chain(s, x))
<1> DEFINE pa == t.parent
           N == Cardinality(Node)
           L == Links(s, x)
           S == {n \in Nat : n <= N => Followed(s, x, R, L[n], n)}
           c == L[N]
           m == Len(c)
           C == Front(c)
           Level(y) == Cardinality(Up(pa, y))
<1>1. /\ N \in Nat /\ pa \in Parents /\ Acyclic(pa) /\ Nil \notin R /\ Downward(s, R)
      /\ \A y \in Node : y # Nil
  BY NodeIsFinite, NodesAssumption DEF Node, LinkedDown, Downward
<1>2. /\ L[0] = <<x>>
      /\ \A n \in Nat : n + 1 <= N => L[n + 1] = Longer(s, L[n])
  <2> HIDE DEF L, N
  <2>1. N = Cardinality(Node)
    BY DEF N
  <2>2. L = [k \in 0..N |-> IF k = 0 THEN <<x>> ELSE Longer(s, L[k - 1])]
    BY <2>1, LinksAre DEF L
  <2>3. \A k \in 0..N : L[k] = IF k = 0 THEN <<x>> ELSE Longer(s, L[k - 1])
    BY ONLY <2>2
  <2>4. 0 \in 0..N /\ \A n \in Nat : n + 1 <= N => n + 1 \in 0..N /\ n + 1 # 0 /\ (n + 1) - 1 = n
    BY <1>1
  <2> QED BY <2>3, <2>4
<1> HIDE DEF L, N
<1>3. 0 \in S
  <2>1. Followed(s, x, R, <<x>>, 0)
    BY DEF Followed, Last
  <2> QED BY <1>2, <2>1
<1>4. \A n \in Nat : n \in S => n + 1 \in S
  <2> SUFFICES ASSUME NEW n \in Nat, n \in S, n + 1 <= N PROVE Followed(s, x, R, L[n + 1], n + 1)
    OBVIOUS
  <2>1. Followed(s, x, R, L[n], n)
    BY <1>1
  <2> QED BY <1>1, <1>2, <2>1, FollowOn
<1>5. Followed(s, x, R, c, N)
  <2> HIDE DEF S
  <2>1. N \in S
    BY <1>1, <1>3, <1>4, NatSetInduction
  <2> QED BY <1>1, <2>1 DEF S
<1> HIDE DEF c
<1>6. /\ c \in Seq(R \cup {Nil}) /\ m \in 1..N + 1 /\ c[1] = x /\ m \in Nat /\ DOMAIN c = 1..m
      /\ \A i \in 1..m - 1 : c[i] \in R /\ c[i + 1] = s.tpPred[c[i]]
      /\ c[m] # Nil => m = N + 1
      /\ c[m] \in R \cup {Nil}
  BY <1>1, <1>5 DEF Followed, Last
<1>61. C = SubSeq(c, 1, m - 1)
  BY DEF Front
<1> HIDE DEF Level, m, C
<1>7. \A y \in Node : Level(y) \in Nat
  BY <1>1, UpFinite DEF Level
<1>8. \A y \in R : s.tpPred[y] # Nil => Level(s.tpPred[y]) = Level(y) + 1
  <2> SUFFICES ASSUME NEW y \in R, s.tpPred[y] # Nil PROVE Level(s.tpPred[y]) = Level(y) + 1
    OBVIOUS
  <2> DEFINE z == s.tpPred[y]
  <2>1. z \in Node /\ pa[z] = y /\ pa[z] # Nil
    BY <1>1 DEF LinkedDown
  <2> HIDE DEF z
  <2>2. Cardinality(Up(pa, z)) = Cardinality(Up(pa, y)) + 1
    BY <1>1, <2>1, UpOneMore
  <2> QED BY <2>2 DEF Level, z
\* The depth grows by one with every node.
<1> DEFINE T == {i \in Nat : i + 1 <= m /\ c[i + 1] # Nil => Level(c[i + 1]) = Level(x) + i}
<1>9. Nat \subseteq T
  <2>1. 0 \in T
    <3>1. c[0 + 1] = x
      BY <1>6
    <3>2. Level(x) = Level(x) + 0 \/ x = Nil
      BY <1>7
    <3> QED BY <3>1, <3>2
  <2>2. ASSUME NEW i \in Nat, i \in T PROVE i + 1 \in T
    <3> SUFFICES ASSUME i + 2 <= m, c[i + 2] # Nil PROVE Level(c[i + 2]) = Level(x) + (i + 1)
      OBVIOUS
    <3>1. i + 1 \in 1..m - 1 /\ (i + 1) + 1 = i + 2 /\ i + 1 <= m
      BY <1>6
    <3>2. c[i + 1] \in R /\ c[i + 2] = s.tpPred[c[i + 1]]
      BY <1>6, <3>1
    <3>3. c[i + 1] # Nil
      BY <1>1, <3>2
    <3>4. Level(c[i + 1]) = Level(x) + i
      BY <2>2, <3>1, <3>3
    <3>5. Level(c[i + 2]) = Level(c[i + 1]) + 1
      BY <1>8, <3>2
    <3>6. x # Nil
      BY <1>6, <3>1, <1>1
    <3>7. Level(x) \in Nat
      BY <1>7, <3>6
    <3> QED BY <3>4, <3>5, <3>7
  <2> HIDE DEF T
  <2> QED BY <2>1, <2>2, NatSetInduction
<1>10. c[m] = Nil
  <2> SUFFICES ASSUME c[m] # Nil PROVE FALSE
    OBVIOUS
  <2>1. m = N + 1 /\ c[m] \in Node /\ N \in T
    BY <1>1, <1>6, <1>9
  <2>2. x # Nil
    BY <1>1, <1>6, <2>1
  <2>3. x \in Node /\ x \in Up(pa, x)
    BY <1>1, <2>2, UpIs
  <2>4. Level(x) \in Nat /\ Level(x) # 0
    <3>1. Up(pa, x) # {} /\ IsFiniteSet(Up(pa, x))
      BY <1>1, <2>3, UpFinite
    <3> QED BY <1>7, <2>3, <3>1, FS_EmptySet DEF Level
  <2>5. Level(c[m]) = Level(x) + N
    BY <1>1, <2>1
  <2>6. Level(c[m]) <= N
    <3>1. Up(pa, c[m]) \subseteq Node
      BY <1>1, <2>1, UpIs
    <3> QED BY <3>1, NodeIsFinite, FS_Subset DEF Level, N
  <2> QED BY <1>1, <2>4, <2>5, <2>6
<1>11. /\ C \in Seq(Node) /\ Len(C) = m - 1 /\ DOMAIN C = 1..m - 1
       /\ \A i \in 1..m - 1 : C[i] = c[i] /\ C[i] \in R
  <2>2. m - 1 \in Nat /\ \A i \in 1..m - 1 : i \in 1..m
    BY <1>6
  <2>3. Len(C) = m - 1 /\ DOMAIN C = 1..m - 1 /\ \A i \in 1..m - 1 : C[i] = c[i]
    BY <1>6, <1>61, <2>2
  <2>4. \A i \in 1..m - 1 : C[i] \in R
    BY <1>6, <2>3
  <2>5. C = [i \in 1..m - 1 |-> c[i]]
    BY <1>6, <1>61, <2>2
  <2>6. C \in Seq(Node)
    BY <1>6, <2>2, <2>5
  <2> QED BY <2>3, <2>4, <2>6
<1>12. Distinct(C)
  <2> SUFFICES ASSUME NEW i \in 1..m - 1, NEW j \in 1..m - 1, C[i] = C[j] PROVE i = j
    BY <1>11 DEF Distinct
  <2>1. i - 1 \in T /\ j - 1 \in T
    BY <1>6, <1>9
  <2>2. (i - 1) + 1 = i /\ (j - 1) + 1 = j /\ i <= m /\ j <= m /\ c[i] # Nil /\ c[j] # Nil /\ c[i] = c[j]
    BY <1>1, <1>6, <1>11
  <2>3. Level(c[i]) = Level(x) + (i - 1) /\ Level(c[j]) = Level(x) + (j - 1)
    BY <2>1, <2>2
  <2>4. x # Nil
    BY <1>1, <1>6
  <2>5. Level(x) \in Nat
    BY <1>7, <2>4
  <2> QED BY <2>2, <2>3, <2>5
<1>13. \A y : y \in ToSet(C) <=> \E i \in 1..m - 1 : y = C[i]
  BY <1>11 DEF ToSet
<1>14. x = Nil => C = <<>>
  <2> SUFFICES ASSUME x = Nil PROVE C = <<>>
    OBVIOUS
  <2>1. ~(1 \in 1..m - 1)
    BY <1>1, <1>6
  <2> QED BY <1>6, <1>11, <2>1
<1>15. x # Nil => C # <<>> /\ C[1] = x
  <2> SUFFICES ASSUME x # Nil PROVE C # <<>> /\ C[1] = x
    OBVIOUS
  <2>1. m # 1
    BY <1>6, <1>10
  <2>2. 1 \in 1..m - 1
    BY <1>6, <2>1
  <2> QED BY <1>6, <1>11, <2>2
<1>16. ASSUME NEW y \in ToSet(C), s.tpPred[y] # Nil PROVE s.tpPred[y] \in ToSet(C)
  <2>1. PICK i \in 1..m - 1 : y = C[i]
    BY <1>13
  <2>2. c[i + 1] = s.tpPred[y]
    BY <1>6, <1>11, <2>1
  <2>3. i + 1 # m
    BY <1>10, <1>16, <2>2
  <2>4. i + 1 \in 1..m - 1
    BY <1>6, <2>3
  <2> QED BY <1>11, <1>13, <2>2, <2>4
<1>17. ASSUME NEW y \in ToSet(C), y # x PROVE pa[y] \in ToSet(C) /\ s.tpPred[pa[y]] = y
  <2>1. PICK i \in 1..m - 1 : y = C[i]
    BY <1>13
  <2>2. i # 1
    BY <1>6, <1>11, <1>17, <2>1
  <2>3. i - 1 \in 1..m - 1 /\ (i - 1) + 1 = i
    BY <1>6, <2>2
  <2>4. c[i - 1] \in R /\ y = s.tpPred[c[i - 1]] /\ C[i - 1] = c[i - 1] /\ y \in R
    BY <1>6, <1>11, <2>1, <2>3
  <2>5. pa[y] = c[i - 1]
    BY <1>1, <2>4 DEF LinkedDown
  <2> QED BY <1>13, <2>3, <2>4, <2>5
<1>18. Chain(s, x) = C
  BY ChainByLinks DEF C, c, L, N
<1>19. ToSet(C) \subseteq R
  BY <1>11, <1>13
<1>20. ChainIs(t, s, x, R, C)
  BY <1>11, <1>12, <1>14, <1>15, <1>16, <1>17, <1>19 DEF ChainIs
<1> QED BY <1>18, <1>20

\* The nodes of R hang off each other, down from x and from z.
TwoArms(t, s, R, x, z) ==
  /\ R \subseteq Node /\ LinkedDown(t, s, R) /\ x \in R \cup {Nil} /\ z \in R \cup {Nil}
  /\ x = z => x = Nil
  /\ \A y \in R : y \in {x, z} \/ (t.parent[y] \in R /\ s.tpPred[t.parent[y]] = y)
  /\ \A y \in {x, z} \ {Nil} : ~(t.parent[y] \in R /\ s.tpPred[t.parent[y]] = y)

LEMMA ChainsCover ==
  ASSUME NEW t, t.parent \in Parents, Acyclic(t.parent), NEW s, NEW R, NEW x, NEW z, TwoArms(t, s, R, x, z)
  PROVE  /\ Distinct(Chain(s, x) \o Chain(s, z)) /\ Chain(s, x) \in Seq(Node) /\ Chain(s, z) \in Seq(Node)
         /\ ToSet(Chain(s, x) \o Chain(s, z)) = R
         /\ Len(Chain(s, x)) + Len(Chain(s, z)) = Cardinality(R)
<1> DEFINE pa == t.parent
           A == Chain(s, x)
           B == Chain(s, z)
           E == ToSet(A) \cap ToSet(B)
           F == R \ (ToSet(A) \cup ToSet(B))
<1>1. /\ R \in SUBSET Node /\ LinkedDown(t, s, R) /\ x \in R \cup {Nil} /\ z \in R \cup {Nil} /\ (x = z => x = Nil)
      /\ \A y \in R : y \in {x, z} \/ (pa[y] \in R /\ s.tpPred[pa[y]] = y)
      /\ \A y \in {x, z} \ {Nil} : ~(pa[y] \in R /\ s.tpPred[pa[y]] = y)
      /\ pa \in Parents /\ Acyclic(pa) /\ Nil \notin Node
  BY NodesAssumption DEF TwoArms, Node
<1>2. ChainIs(t, s, x, R, A) /\ ChainIs(t, s, z, R, B)
  BY <1>1, ChainGoesDown
<1> HIDE DEF A, B
<1>3. /\ A \in Seq(Node) /\ Distinct(A) /\ ToSet(A) \subseteq R /\ (x = Nil => A = <<>>)
      /\ x # Nil => A # <<>> /\ A[1] = x
      /\ \A y \in ToSet(A) : s.tpPred[y] # Nil => s.tpPred[y] \in ToSet(A)
      /\ \A y \in ToSet(A) : y = x \/ (pa[y] \in ToSet(A) /\ s.tpPred[pa[y]] = y)
  BY <1>2 DEF ChainIs
<1>4. /\ B \in Seq(Node) /\ Distinct(B) /\ ToSet(B) \subseteq R /\ (z = Nil => B = <<>>)
      /\ z # Nil => B # <<>> /\ B[1] = z
      /\ \A y \in ToSet(B) : s.tpPred[y] # Nil => s.tpPred[y] \in ToSet(B)
      /\ \A y \in ToSet(B) : y = z \/ (pa[y] \in ToSet(B) /\ s.tpPred[pa[y]] = y)
  BY <1>2 DEF ChainIs
<1>5. x # Nil => x \in ToSet(A)
  BY <1>3 DEF ToSet
<1>6. z # Nil => z \in ToSet(B)
  BY <1>4 DEF ToSet
<1>7. ASSUME NEW y \in E PROVE pa[y] \in E
  <2>1. y \in Node /\ y # Nil
    BY <1>1, <1>3
  <2>2. y # x
    <3> SUFFICES ASSUME y = x PROVE FALSE
      OBVIOUS
    <3>1. y # z
      BY <1>1, <2>1
    <3>2. pa[y] \in R /\ s.tpPred[pa[y]] = y
      BY <1>4, <3>1
    <3> QED BY <1>1, <2>1, <3>2
  <2>3. y # z
    <3> SUFFICES ASSUME y = z PROVE FALSE
      OBVIOUS
    <3>1. pa[y] \in R /\ s.tpPred[pa[y]] = y
      BY <1>3, <2>2
    <3> QED BY <1>1, <2>1, <3>1
  <2> QED BY <1>3, <1>4, <2>2, <2>3
<1>8. E = {}
  <2>1. E \in SUBSET Node
    BY <1>1, <1>3
  <2> HIDE DEF E
  <2> QED BY <1>1, <1>7, <2>1, NoEndlessPath
<1>9. ASSUME NEW y \in F PROVE pa[y] \in F
  <2>1. y \in Node /\ y # Nil /\ y # x /\ y # z /\ y \in R
    BY <1>1, <1>5, <1>6
  <2>2. pa[y] \in R /\ s.tpPred[pa[y]] = y
    BY <1>1, <2>1
  <2> QED BY <1>3, <1>4, <2>1, <2>2
<1>10. F = {}
  <2>1. F \in SUBSET Node
    BY <1>1
  <2> HIDE DEF F
  <2> QED BY <1>1, <1>9, <2>1, NoEndlessPath
<1>11. R = ToSet(A) \cup ToSet(B) /\ ToSet(A) \cap ToSet(B) = {}
  BY <1>3, <1>4, <1>8, <1>10
<1> HIDE DEF E, F
<1>12. /\ IsFiniteSet(ToSet(A)) /\ Cardinality(ToSet(A)) = Len(A) /\ Len(A) \in Nat
       /\ IsFiniteSet(ToSet(B)) /\ Cardinality(ToSet(B)) = Len(B) /\ Len(B) \in Nat
  BY <1>3, <1>4, DistinctLength
<1>13. Cardinality(ToSet(A) \cup ToSet(B)) = Cardinality(ToSet(A)) + Cardinality(ToSet(B)) - Cardinality(ToSet(A) \cap ToSet(B))
  BY <1>12, FS_Union
<1>14. Cardinality(ToSet(A) \cap ToSet(B)) = 0
  BY <1>11, FS_EmptySet
<1>15. Len(A) + Len(B) = Cardinality(R)
  <2>1. Cardinality(R) = Cardinality(ToSet(A) \cup ToSet(B))
    BY ONLY <1>11
  <2> QED BY ONLY <1>12, <1>13, <1>14, <2>1
<1> DEFINE C == A \o B
<1>16. /\ C \in Seq(Node) /\ DOMAIN C = 1..Len(A) + Len(B)
       /\ \A i \in 1..Len(A) + Len(B) : C[i] = IF i <= Len(A) THEN A[i] ELSE B[i - Len(A)]
       /\ DOMAIN A = 1..Len(A) /\ DOMAIN B = 1..Len(B)
  BY <1>3, <1>4
<1> HIDE DEF C
<1>17. \A i \in 1..Len(A) : A[i] \in ToSet(A)
  BY <1>16 DEF ToSet
<1>18. \A i \in 1..Len(B) : B[i] \in ToSet(B)
  BY <1>16 DEF ToSet
<1>19. Distinct(C)
  <2> SUFFICES ASSUME NEW i \in 1..Len(A) + Len(B), NEW j \in 1..Len(A) + Len(B), C[i] = C[j] PROVE i = j
    BY <1>16 DEF Distinct
  <2>1. CASE i <= Len(A) /\ j <= Len(A)
    BY <1>3, <1>12, <1>16, <2>1 DEF Distinct
  <2>2. CASE i <= Len(A) /\ ~(j <= Len(A))
    <3>1. i \in 1..Len(A) /\ j - Len(A) \in 1..Len(B)
      BY <1>12, <2>2
    <3>2. C[i] = A[i] /\ C[j] = B[j - Len(A)]
      BY <1>16, <2>2
    <3>3. C[i] \in ToSet(A) /\ C[j] \in ToSet(B)
      BY <1>17, <1>18, <3>1, <3>2
    <3> QED BY <1>11, <3>3
  <2>3. CASE ~(i <= Len(A)) /\ j <= Len(A)
    <3>1. j \in 1..Len(A) /\ i - Len(A) \in 1..Len(B)
      BY <1>12, <2>3
    <3>2. C[j] = A[j] /\ C[i] = B[i - Len(A)]
      BY <1>16, <2>3
    <3>3. C[j] \in ToSet(A) /\ C[i] \in ToSet(B)
      BY <1>17, <1>18, <3>1, <3>2
    <3> QED BY <1>11, <3>3
  <2>4. CASE ~(i <= Len(A)) /\ ~(j <= Len(A))
    <3>1. i - Len(A) \in DOMAIN B /\ j - Len(A) \in DOMAIN B
      BY <1>12, <1>16, <2>4
    <3>2. B[i - Len(A)] = B[j - Len(A)]
      BY <1>16, <2>4
    <3>3. i - Len(A) = j - Len(A)
      BY <1>4, <3>1, <3>2 DEF Distinct
    <3> QED BY <1>12, <3>3
  <2> QED BY <2>1, <2>2, <2>3, <2>4
<1>20. ToSet(C) = R
  <2>1. ASSUME NEW y \in ToSet(C) PROVE y \in R
    <3>1. PICK i \in 1..Len(A) + Len(B) : y = C[i]
      BY <1>16 DEF ToSet
    <3>2. CASE i <= Len(A)
      <4>1. i \in 1..Len(A) /\ y = A[i]
        BY <1>12, <1>16, <3>1, <3>2
      <4> QED BY <1>11, <1>17, <4>1
    <3>3. CASE ~(i <= Len(A))
      <4>1. i - Len(A) \in 1..Len(B) /\ y = B[i - Len(A)]
        BY <1>12, <1>16, <3>1, <3>3
      <4> QED BY <1>11, <1>18, <4>1
    <3> QED BY <3>2, <3>3
  <2>2. ASSUME NEW y \in ToSet(A) PROVE y \in ToSet(C)
    <3>1. PICK i \in 1..Len(A) : y = A[i]
      BY <1>16 DEF ToSet
    <3>2. i \in DOMAIN C /\ y = C[i]
      BY <1>12, <1>16, <3>1
    <3> QED BY <3>2 DEF ToSet
  <2>3. ASSUME NEW y \in ToSet(B) PROVE y \in ToSet(C)
    <3>1. PICK i \in 1..Len(B) : y = B[i]
      BY <1>16 DEF ToSet
    <3>2. i + Len(A) \in DOMAIN C /\ ~(i + Len(A) <= Len(A)) /\ (i + Len(A)) - Len(A) = i
      BY <1>12, <1>16
    <3>3. y = C[i + Len(A)]
      BY <1>16, <3>1, <3>2
    <3> QED BY <3>2, <3>3 DEF ToSet
  <2> QED BY <1>11, <2>1, <2>2, <2>3
<1> QED BY <1>3, <1>4, <1>15, <1>19, <1>20 DEF A, B, C

\* The paths below the apex, and the paths with the apex.
LEMMA PathsAreArms ==
  ASSUME NEW t, t.parent \in Parents, Acyclic(t.parent), NEW s \in TempType, NEW c, NEW Q, PathSet(t, s, c, Q)
  PROVE  /\ TwoArms(t, s, Q, s.tpPred[c], s.apexTPPred2)
         /\ TwoArms(t, s, Q \cup {c}, c, s.apexTPPred2)
<1> DEFINE pa == t.parent
           x == s.tpPred[c]
           z == s.apexTPPred2
           R == Q \cup {c}
<1>1. /\ Q \subseteq Node /\ c \in Node /\ c \notin Q /\ Nil \notin Node /\ pa \in Parents /\ Acyclic(pa)
      /\ x # Nil => x \in Q /\ pa[x] = c
      /\ z # Nil => z \in Q /\ pa[z] = c /\ z # x
      /\ \A y \in Q : /\ pa[y] \in Q \cup {c} /\ (s.tpPred[pa[y]] # y => pa[y] = c /\ y = z)
                      /\ s.tpPred[y] # Nil => s.tpPred[y] \in Q /\ pa[s.tpPred[y]] = y
  BY NodesAssumption DEF PathSet, Passed, Node
<1>2. pa[c] \notin R
  <2> SUFFICES ASSUME pa[c] \in R PROVE FALSE
    OBVIOUS
  <2>1. R \in SUBSET Node /\ R # {} /\ \A y \in R : pa[y] \in R
    BY <1>1
  <2> HIDE DEF R, pa
  <2> QED BY <1>1, <2>1 DEF Acyclic
<1>3. s.tpPred[c] = x
  OBVIOUS
<1> HIDE DEF pa, x, z
<1>4. LinkedDown(t, s, Q) /\ LinkedDown(t, s, R)
  BY <1>1, <1>3 DEF LinkedDown, pa
<1>5. \A y \in Q : y \in {x, z} \/ (pa[y] \in Q /\ s.tpPred[pa[y]] = y)
  BY <1>1, <1>3
<1>6. \A y \in {x, z} \ {Nil} : pa[y] \notin Q
  BY <1>1
<1>7. \A y \in R : y \in {c, z} \/ (pa[y] \in R /\ s.tpPred[pa[y]] = y)
  BY <1>1
<1>8. \A y \in {c, z} \ {Nil} : ~(pa[y] \in R /\ s.tpPred[pa[y]] = y)
  BY <1>1, <1>2, <1>3
<1>9. x \in Q \cup {Nil} /\ z \in Q \cup {Nil} /\ (x = z => x = Nil) /\ c \in R /\ z \in R \cup {Nil} /\ c # z
  BY <1>1
<1>10. TwoArms(t, s, Q, x, z)
  BY ONLY <1>1, <1>4, <1>5, <1>6, <1>9 DEF TwoArms, pa
<1>11. TwoArms(t, s, R, c, z)
  BY ONLY <1>1, <1>4, <1>7, <1>8, <1>9 DEF TwoArms, pa, R
<1> QED BY <1>10, <1>11 DEF x, z

LEMMA RightIsCounted ==
  ASSUME CallRight
  PROVE  LengthCounted
<1>1. CASE pc = "found"
  <2> DEFINE c == temp.apexCandidate
             z == temp.apexTPPred2
  <2>1. FoundRight(tree, temp)
    BY <1>1 DEF CallRight
  <2>2. PICK Q : PathSet(tree, temp, c, Q) /\ temp.terminalPathLength = 1 + Cardinality(Q)
    BY <2>1 DEF FoundRight
  <2>3. tree.parent \in Parents /\ Acyclic(tree.parent) /\ temp \in TempType
    BY <2>1, SturdyFacts DEF FoundRight
  <2> DEFINE R == Q \cup {c}
  <2>4. TwoArms(tree, temp, R, c, z)
    BY <2>2, <2>3, PathsAreArms
  <2>5. IsFiniteSet(Q) /\ c \notin Q /\ Cardinality(Q) \in Nat
    BY <2>2, NodeIsFinite, FS_Subset, FS_CardinalityType DEF PathSet
  <2>6. Cardinality(R) = Cardinality(Q) + 1
    BY <2>5, FS_AddElement
  <2> HIDE DEF R, c, z
  <2>7. Len(Chain(temp, c)) + Len(Chain(temp, z)) = Cardinality(R)
    BY <2>3, <2>4, ChainsCover
  <2> QED BY <1>1, <2>2, <2>5, <2>6, <2>7 DEF LengthCounted, c, z
<1>2. CASE pc = "merging"
  <2> DEFINE c == work.central
             x == temp.tpPred[c]
             z == temp.apexTPPred2
  <2>1. MergeRight(tree, temp, work) /\ work.merged \in Nat
    BY <1>2 DEF CallRight, WorkType
  <2>2. PICK Q : PathSet(tree, temp, c, Q) /\ temp.terminalPathLength = 1 + work.merged + Cardinality(Q)
    BY <2>1 DEF MergeRight
  <2>3. tree.parent \in Parents /\ Acyclic(tree.parent) /\ temp \in TempType
    BY <2>1, SturdyFacts DEF MergeRight
  <2>4. TwoArms(tree, temp, Q, x, z)
    BY <2>2, <2>3, PathsAreArms
  <2> HIDE DEF x, z
  <2>5. /\ Len(Chain(temp, x)) + Len(Chain(temp, z)) = Cardinality(Q)
        /\ Chain(temp, x) \in Seq(Node) /\ Chain(temp, z) \in Seq(Node)
    BY <2>3, <2>4, ChainsCover
  <2>6. Len(Chain(temp, x)) \in Nat /\ Len(Chain(temp, z)) \in Nat
    BY <2>5
  <2>7. temp.terminalPathLength = 1 + work.merged + Len(Chain(temp, x)) + Len(Chain(temp, z))
    BY <2>1, <2>2, <2>5, <2>6
  <2> QED BY <1>2, <2>7 DEF LengthCounted, x, z, c
<1>3. CASE pc \notin {"found", "merging"}
  BY <1>3 DEF LengthCounted
<1> QED BY <1>1, <1>2, <1>3

\* m_terminalPathLength, which findTerminalPath counts up, setApexCandidate
\* takes back and updateTerminalPath trusts, is the number of nodes of the path
\* that was found, and while the path is merged the number of those merged and
\* those left.
THEOREM PathLengthCounted == Spec => []LengthCounted
<1>1. Init => CallRight
  BY InitRight
<1>2. CallRight /\ [Next]_vars => CallRight'
  BY NextRight
<1>3. CallRight => LengthCounted
  BY RightIsCounted
<1> QED BY <1>1, <1>2, <1>3, PTL DEF Spec

(***************************************************************************)
(* The terminal path is the one that the labels prescribe.                 *)
(***************************************************************************)
Mixed(T, S) == T \cap S # {} /\ T \ S # {}

\* The labels of the inner nodes when the leaves S have been marked.
Settled(t, l, f, S) ==
  /\ S \subseteq Leaves
  /\ \A x \in InUse(t) \cap Inner :
       /\ f[x] \in Seq(Node) /\ Distinct(f[x])
       /\ ToSet(f[x]) = {y \in Around(t, x) : Through(t, x, y) \subseteq S}
       /\ l[x] = "Empty" <=> Len(f[x]) = 0
       /\ l[x] # "Full" => Len(f[x]) + 2 <= Degree(t, x)
       /\ l[x] \notin {"Empty", "Full"} => l[x] = "Partial"
       /\ l[x] = "Full" => Len(f[x]) = Degree(t, x) - 1

LEMMA SettledLabels ==
  ASSUME NEW t, Tree(t), Leaves \subseteq InUse(t), NEW l, NEW f, NEW ps, NEW S, Labelled(t, l, f, ps, Nil, S),
         NEW a \in Leaves \ S, NEW b \in Leaves \ S, a # b
  PROVE  Settled(t, l, f, S)
<1>1. S \subseteq Leaves
  BY DEF Labelled, LabelTypes
<1>2. ASSUME NEW x \in InUse(t) \cap Inner
      PROVE  /\ f[x] \in Seq(Node) /\ Distinct(f[x])
             /\ ToSet(f[x]) = {y \in Around(t, x) : Through(t, x, y) \subseteq S}
             /\ l[x] = "Empty" <=> Len(f[x]) = 0
             /\ l[x] # "Full" => Len(f[x]) + 2 <= Degree(t, x)
             /\ l[x] \notin {"Empty", "Full"} => l[x] = "Partial"
             /\ l[x] = "Full" => Len(f[x]) = Degree(t, x) - 1
  <2>1. /\ x \in Node /\ x # Nil /\ f[x] \in Seq(Node) /\ Distinct(f[x]) /\ ToSet(f[x]) \subseteq Around(t, x)
        /\ \A y \in ToSet(f[x]) : Through(t, x, y) \subseteq S
        /\ l[x] \in {"Empty", "Partial", "Full"}
    BY NodesAssumption DEF Labelled, LabelTypes, ListedAreFull, Node
  <2>2. \A y \in Around(t, x) : Through(t, x, y) \subseteq S => y \in ToSet(f[x])
    BY ListsComplete
  <2>3. /\ Len(f[x]) <= Degree(t, x) - 1 /\ (l[x] = "Empty" <=> Len(f[x]) = 0)
        /\ Len(f[x]) = Degree(t, x) - 1 <=> l[x] = "Full"
    BY <2>1 DEF Labelled, InnerLabelled
  <2>4. Degree(t, x) \in Nat /\ Len(f[x]) \in Nat
    BY <2>1, DegreeIs DEF Tree
  <2>5. l[x] # "Full" => Len(f[x]) + 2 <= Degree(t, x)
    BY <2>3, <2>4
  <2>6. ToSet(f[x]) = {y \in Around(t, x) : Through(t, x, y) \subseteq S}
    BY <2>1, <2>2
  <2> QED BY <2>1, <2>3, <2>5, <2>6
<1> QED BY <1>1, <1>2 DEF Settled

\* There is a leaf behind every neighbor.
LEMMA SomeLeafBehind ==
  ASSUME NEW t, Sturdy(t)
  PROVE  \A x \in InUse(t) : \A y \in Around(t, x) : Through(t, x, y) # {}
<1>1. Tree(t) /\ \A x \in InUse(t) : x \in Node
  BY SturdyIsValid DEF InUse
<1> DEFINE E == {p \in Node \X Node : Through(t, p[1], p[2]) # {}}
<1>2. ASSUME NEW x \in InUse(t), NEW y \in Around(t, x), \A z \in Around(t, y) \ {x} : <<y, z>> \in E
      PROVE  <<x, y>> \in E
  <2>1. y \in InUse(t) /\ x \in Node /\ y \in Node
    BY <1>1, AroundIs
  <2>2. Through(t, x, y) = Own(t, y) \cup UNION {Through(t, y, z) : z \in Around(t, y) \ {x}}
    BY <1>1, ThroughIs
  <2>3. CASE t.type[y] = "leaf"
    <3>1. y \in Through(t, x, y)
      BY <2>2, <2>3 DEF Own
    <3> QED BY <2>1, <3>1
  <2>4. CASE t.type[y] # "leaf"
    <3>1. Degree(t, y) >= 3 /\ Degree(t, y) \in Nat
      BY <1>1, <2>1, <2>4, DegreeIs DEF Tree, CheckValid
    <3>2. IsFiniteSet(Around(t, y)) /\ Cardinality(Around(t, y)) = Degree(t, y)
      BY <1>1, <2>1, AroundFinite
    <3>3. PICK z \in Around(t, y) : z # x
      <4> SUFFICES ASSUME Around(t, y) \subseteq {x} PROVE FALSE
        OBVIOUS
      <4>1. IsFiniteSet({x}) /\ Cardinality({x}) = 1
        BY FS_Singleton
      <4>2. Cardinality(Around(t, y)) <= Cardinality({x})
        BY <4>1, FS_Subset
      <4> QED BY <3>1, <3>2, <4>1, <4>2
    <3>4. <<y, z>> \in E
      BY <1>2, <3>3
    <3>5. Through(t, y, z) # {} /\ Through(t, y, z) \subseteq Through(t, x, y)
      BY <2>2, <3>3, <3>4
    <3> QED BY <2>1, <3>5
  <2> QED BY <2>3, <2>4
<1>3. \A x \in InUse(t) : \A y \in Around(t, x) : <<x, y>> \in E
  <2> HIDE DEF E
  <2> QED BY <1>1, <1>2, FromBehind
<1> QED BY <1>3

\* k is on the side of x of the edge from w.
OnSide(t, w, x, k) == IF t.parent[x] = w THEN x \in Up(t.parent, k) ELSE w \notin Up(t.parent, k)

LEMMA FurtherOn ==
  ASSUME NEW t, Sturdy(t), NEW w \in InUse(t), NEW x \in Around(t, w), NEW k \in Node
  PROVE  /\ OnSide(t, w, x, x)
         /\ \A z \in Around(t, x) \ {w} : OnSide(t, x, z, k) => OnSide(t, w, x, k)
<1> DEFINE pa == t.parent
<1>1. Tree(t) /\ pa \in Parents /\ Acyclic(pa) /\ w \in Node /\ x \in Node /\ Nil \notin Node /\ x \in InUse(t)
  BY SturdyFacts, SturdyIsValid, AroundIs, NodesAssumption DEF InUse, Node
<1>2. pa[x] = w \/ (pa[w] = x /\ pa[x] # w)
  BY <1>1, AroundIsSymmetric
<1>3. \A z \in Around(t, x) : z \in Node /\ z # x /\ (pa[z] = x \/ (pa[x] = z /\ pa[z] # x))
  <2> SUFFICES ASSUME NEW z \in Around(t, x) PROVE z \in Node /\ z # x /\ (pa[z] = x \/ (pa[x] = z /\ pa[z] # x))
    OBVIOUS
  <2>1. z \in InUse(t)
    BY <1>1, AroundIs
  <2> QED BY <1>1, <2>1, AroundIsSymmetric DEF InUse
<1>4. \A y \in Node : y \in Up(pa, y) /\ (pa[y] # Nil => y \notin Up(pa, pa[y]) /\ pa[y] \in Node)
  BY <1>1, UpIs, NotAboveItself
<1>5. \A y \in Node : y \in Up(pa, k) /\ pa[y] # Nil => pa[y] \in Up(pa, k)
  BY <1>1, UpIs DEF UpClosed
<1> HIDE DEF pa
<1>6. OnSide(t, w, x, x)
  <2>1. CASE pa[x] = w
    BY <1>1, <1>4, <2>1 DEF OnSide, pa
  <2>2. CASE pa[w] = x /\ pa[x] # w
    <3>1. w \notin Up(pa, x)
      BY <1>1, <1>4, <2>2
    <3> QED BY <2>2, <3>1 DEF OnSide, pa
  <2> QED BY <1>2, <2>1, <2>2
<1>7. ASSUME NEW z \in Around(t, x) \ {w}, OnSide(t, x, z, k) PROVE OnSide(t, w, x, k)
  <2>1. z \in Node /\ z # x /\ z # w /\ (pa[z] = x \/ (pa[x] = z /\ pa[z] # x))
    BY <1>3
  <2>2. CASE pa[z] = x
    <3>1. z \in Up(pa, k)
      BY <1>7, <2>2 DEF OnSide, pa
    <3>2. x \in Up(pa, k)
      BY <1>1, <1>5, <2>1, <2>2, <3>1
    <3>3. CASE pa[x] = w
      BY <3>2, <3>3 DEF OnSide, pa
    <3>4. CASE pa[w] = x /\ pa[x] # w
      <4>1. w \notin Up(pa, k)
        <5> SUFFICES ASSUME w \in Up(pa, k) PROVE FALSE
          OBVIOUS
        <5>1. w \in Up(pa, z) \/ z \in Up(pa, w)
          BY <1>1, <3>1, UpComparable
        <5>2. /\ Up(pa, z) = {z} \cup Up(pa, x) /\ Up(pa, w) = {w} \cup Up(pa, x)
          BY <1>1, <2>1, <2>2, <3>4, UpIs
        <5>3. w \notin Up(pa, x) /\ z \notin Up(pa, x)
          BY <1>1, <1>4, <2>1, <2>2, <3>4
        <5> QED BY <2>1, <5>1, <5>2, <5>3
      <4> QED BY <3>4, <4>1 DEF OnSide, pa
    <3> QED BY <1>2, <3>3, <3>4
  <2>3. CASE pa[x] = z /\ pa[z] # x
    <3>1. x \notin Up(pa, k)
      BY <1>7, <2>3 DEF OnSide, pa
    <3>2. pa[w] = x /\ pa[x] # w
      BY <1>2, <2>1, <2>3
    <3>3. w \notin Up(pa, k)
      BY <1>1, <1>5, <3>1, <3>2
    <3> QED BY <3>2, <3>3 DEF OnSide, pa
  <2> QED BY <2>1, <2>2, <2>3
<1> QED BY <1>6, <1>7

\* Behind an edge that has marked and other leaves behind it, and other ones
\* on this side, there is a partial node.
LEMMA PartialBehind ==
  ASSUME NEW t, Sturdy(t), NEW l, NEW f, NEW S, Settled(t, l, f, S)
  PROVE  \A w \in InUse(t) : \A x \in Around(t, w) :
           Mixed(Through(t, w, x), S) /\ ~(Through(t, x, w) \subseteq S) =>
             \E k \in InUse(t) : l[k] = "Partial" /\ OnSide(t, w, x, k)
<1>1. Tree(t) /\ \A x \in InUse(t) : x \in Node
  BY SturdyIsValid DEF InUse
<1> DEFINE Good(w, x) == Mixed(Through(t, w, x), S) /\ ~(Through(t, x, w) \subseteq S) =>
                           \E k \in InUse(t) : l[k] = "Partial" /\ OnSide(t, w, x, k)
           E == {p \in Node \X Node : Good(p[1], p[2])}
<1>2. ASSUME NEW w \in InUse(t), NEW x \in Around(t, w), \A z \in Around(t, x) \ {w} : <<x, z>> \in E
      PROVE  <<w, x>> \in E
  <2>1. x \in InUse(t) /\ x \in Node /\ w \in Node /\ w \in Around(t, x)
    BY <1>1, AroundIs, AroundIsSymmetric
  <2>2. SUFFICES ASSUME Mixed(Through(t, w, x), S), ~(Through(t, x, w) \subseteq S)
                 PROVE  \E k \in InUse(t) : l[k] = "Partial" /\ OnSide(t, w, x, k)
    BY <2>1
  <2> HIDE DEF Good
  <2>3. Through(t, w, x) = Own(t, x) \cup UNION {Through(t, x, z) : z \in Around(t, x) \ {w}}
    BY <1>1, ThroughIs
  <2>4. ASSUME NEW z \in Around(t, x) \ {w} PROVE Good(x, z) /\ ~(Through(t, z, x) \subseteq S)
    <3>1. z \in InUse(t) /\ x \in Around(t, z) /\ z \in Node /\ w \in Around(t, x) \ {z}
      BY <1>1, <2>1, AroundIs, AroundIsSymmetric
    <3>2. Through(t, z, x) = Own(t, x) \cup UNION {Through(t, x, y) : y \in Around(t, x) \ {z}}
      BY <1>1, <3>1, ThroughIs
    <3>3. Through(t, x, w) \subseteq Through(t, z, x)
      BY <3>1, <3>2
    <3>4. <<x, z>> \in E
      BY <1>2
    <3> QED BY <2>2, <3>3, <3>4
  <2>5. CASE \E z \in Around(t, x) \ {w} : Mixed(Through(t, x, z), S)
    <3>1. PICK z \in Around(t, x) \ {w} : Mixed(Through(t, x, z), S)
      BY <2>5
    <3>2. PICK k \in InUse(t) : l[k] = "Partial" /\ OnSide(t, x, z, k)
      BY <2>4, <3>1 DEF Good
    <3>3. OnSide(t, w, x, k)
      BY <1>1, <3>2, FurtherOn
    <3> QED BY <3>2, <3>3
  <2>6. CASE \A z \in Around(t, x) \ {w} : ~Mixed(Through(t, x, z), S)
    <3>1. t.type[x] # "leaf"
      <4> SUFFICES ASSUME t.type[x] = "leaf" PROVE FALSE
        OBVIOUS
      <4>1. x \in InUse(t) \cap Leaves
        BY <1>1, <2>1, OfTree
      <4>2. Around(t, x) \ {w} = {}
        BY <1>1, <2>1, <4>1, LeafAround
      <4>3. Through(t, w, x) = {x}
        BY <2>3, <4>2 DEF Own
      <4> QED BY <2>2, <4>3 DEF Mixed
    <3>2. x \in InUse(t) \cap Inner
      BY <1>1, <2>1, <3>1, OfTree DEF Node
    <3>3. Through(t, w, x) = UNION {Through(t, x, z) : z \in Around(t, x) \ {w}}
      BY <2>3, <3>1 DEF Own
    <3>4. PICK y \in Around(t, x) \ {w} : Through(t, x, y) \cap S # {}
      BY <2>2, <3>3 DEF Mixed
    <3>5. PICK z \in Around(t, x) \ {w} : ~(Through(t, x, z) \subseteq S)
      BY <2>2, <3>3 DEF Mixed
    <3>6. Through(t, x, y) \subseteq S
      BY <2>6, <3>4 DEF Mixed
    <3>7. /\ f[x] \in Seq(Node) /\ Distinct(f[x])
          /\ ToSet(f[x]) = {v \in Around(t, x) : Through(t, x, v) \subseteq S}
          /\ l[x] = "Empty" <=> Len(f[x]) = 0
          /\ l[x] \notin {"Empty", "Full"} => l[x] = "Partial"
          /\ l[x] = "Full" => Len(f[x]) = Degree(t, x) - 1
      BY <3>2 DEF Settled
    <3>8. y \in ToSet(f[x]) /\ z \notin ToSet(f[x]) /\ w \notin ToSet(f[x]) /\ z # w
      BY <2>1, <2>2, <3>5, <3>6, <3>7
    <3>9. l[x] # "Empty"
      <4>1. Len(f[x]) # 0
        BY <3>7, <3>8 DEF ToSet
      <4> QED BY <3>7, <4>1
    <3>10. l[x] # "Full"
      <4> SUFFICES ASSUME l[x] = "Full" PROVE FALSE
        OBVIOUS
      <4>1. /\ IsFiniteSet(Around(t, x)) /\ Cardinality(Around(t, x)) = Degree(t, x)
            /\ ToSet(f[x]) \subseteq Around(t, x)
        BY <1>1, <2>1, <3>7, AroundFinite
      <4>2. \E v \in Around(t, x) : ToSet(f[x]) = Around(t, x) \ {v}
        BY <3>7, <4>1, AllButOne
      <4> QED BY <2>1, <3>8, <4>2
    <3>11. OnSide(t, w, x, x)
      BY <2>1, FurtherOn
    <3> QED BY <2>1, <3>7, <3>9, <3>10, <3>11
  <2> QED BY <2>5, <2>6
<1>3. \A w \in InUse(t) : \A x \in Around(t, w) : <<w, x>> \in E
  <2> HIDE DEF E
  <2> QED BY <1>1, <1>2, FromBehind
<1> QED BY <1>3

\* The edge from x up has marked and other leaves on both sides.
IsTop(t, S, x) ==
  /\ t.parent[x] # Nil
  /\ Mixed(Through(t, t.parent[x], x), S) /\ Mixed(Through(t, x, t.parent[x]), S)

\* What the search has left, with the nodes Q of the path below the apex c.
PathFound(t, s, c, Q) ==
  /\ Sturdy(t) /\ s \in TempType /\ PathSet(t, s, c, Q) /\ ApexRight(t, s, c)
  /\ \A y \in Q : s.label[y] # "Full"
  /\ \A x \in InUse(t) : s.label[x] = "Partial" => x \in Q \cup {c}
  /\ s.apexTPPred2 # Nil => s.tpPred[c] # Nil
  /\ s.label[c] = "Empty" => s.apexTPPred2 # Nil

LEMMA PathHangs ==
  ASSUME NEW t, NEW s, NEW c, NEW Q, PathFound(t, s, c, Q)
  PROVE  /\ Tree(t) /\ t.parent \in Parents /\ Acyclic(t.parent) /\ Nil \notin Node
         /\ Q \subseteq InUse(t) \cap Inner /\ Q \subseteq Node /\ c \in InUse(t) \cap Inner /\ c \in Node /\ c \notin Q
         /\ \A y \in Q : t.parent[y] \in Q \cup {c} /\ t.parent[y] # Nil /\ c \in Up(t.parent, y)
<1> DEFINE pa == t.parent
           E == {y \in Q : c \notin Up(pa, y)}
<1>1. /\ Tree(t) /\ pa \in Parents /\ Acyclic(pa) /\ Nil \notin Node
      /\ c \in InUse(t) \cap Inner /\ c \in Node /\ c \notin Q /\ Q \subseteq Node
      /\ \A y \in Q : y \in InUse(t) /\ y \in Inner /\ pa[y] \in Q \cup {c}
  BY SturdyIsValid, SturdyFacts, NodesAssumption DEF PathFound, PathSet, Passed, ApexRight, Node
<1>2. \A y \in E : pa[y] \in E
  <2> SUFFICES ASSUME NEW y \in Q, c \notin Up(pa, y) PROVE pa[y] \in Q /\ c \notin Up(pa, pa[y])
    OBVIOUS
  <2>1. y \in Node /\ pa[y] \in Node /\ pa[y] # Nil
    BY <1>1
  <2>2. Up(pa, y) = {y} \cup Up(pa, pa[y]) /\ pa[y] \in Up(pa, pa[y])
    BY <1>1, <2>1, UpIs
  <2> QED BY <1>1, <2>2
<1>3. E \in SUBSET Node
  BY <1>1
<1> HIDE DEF E
<1>4. E = {}
  BY <1>1, <1>2, <1>3, NoEndlessPath
<1> QED BY <1>1, <1>4 DEF E

\* Whoever is on the path below the apex is below a terminal edge.
LEMMA TopIsPassed ==
  ASSUME NEW t, NEW s, NEW c, NEW Q, PathFound(t, s, c, Q), NEW S, Settled(t, s.label, s.fullNeighbors, S),
         NEW x \in InUse(t), IsTop(t, S, x)
  PROVE  x \in Q
<1> DEFINE pa == t.parent
           p == pa[x]
<1>1. /\ Tree(t) /\ pa \in Parents /\ Acyclic(pa) /\ Nil \notin Node
      /\ Q \subseteq Node /\ c \in Node /\ c \notin Q /\ Sturdy(t)
      /\ \A y \in Q : pa[y] \in Q \cup {c} /\ c \in Up(pa, y)
      /\ \A y \in InUse(t) : s.label[y] = "Partial" => y \in Q \cup {c}
  BY PathHangs DEF PathFound
<1>2. /\ p # Nil /\ Mixed(Through(t, p, x), S) /\ Mixed(Through(t, x, p), S)
      /\ x \in Node /\ p \in Node
  BY <1>1 DEF IsTop, InUse, Parents
<1>3. p \in InUse(t) /\ x \in Around(t, p) /\ p \in Around(t, x)
  <2>1. x # t.root /\ p \in InUse(t)
    BY <1>1, <1>2, OfTree
  <2>2. p \in Around(t, x)
    BY <1>1, <2>1, AroundIs
  <2> QED BY <1>1, <2>1, <2>2, AroundIsSymmetric
<1>4. pa[p] # x
  BY <1>1, <1>3, AroundIsSymmetric
<1>5. ~(Through(t, x, p) \subseteq S) /\ ~(Through(t, p, x) \subseteq S)
  BY <1>2 DEF Mixed
<1>6. PICK z1 \in InUse(t) : s.label[z1] = "Partial" /\ OnSide(t, p, x, z1)
  BY <1>1, <1>2, <1>3, <1>5, PartialBehind
<1>7. PICK z2 \in InUse(t) : s.label[z2] = "Partial" /\ OnSide(t, x, p, z2)
  BY <1>1, <1>2, <1>3, <1>5, PartialBehind
<1>8. x \in Up(pa, z1) /\ x \notin Up(pa, z2) /\ z1 \in Q \cup {c} /\ z2 \in Q \cup {c}
  BY <1>1, <1>4, <1>6, <1>7 DEF OnSide
<1> HIDE DEF p, pa
<1>9. c \in Up(pa, z2) /\ Up(pa, c) \subseteq Up(pa, z2)
  <2>1. z2 \in Node /\ c \in Up(pa, z2)
    BY <1>1, <1>8, UpIs
  <2> QED BY <1>1, <2>1, UpTransitive
<1>10. Up(pa, z1) \subseteq Q \cup Up(pa, c)
  <2> DEFINE C == Q \cup Up(pa, c)
  <2>1. /\ C \in SUBSET Node /\ z1 \in C /\ z1 \in Node /\ c \in Up(pa, c)
        /\ \A y \in Up(pa, c) : pa[y] # Nil => pa[y] \in Up(pa, c)
    BY <1>1, <1>8, UpIs DEF UpClosed
  <2>2. UpClosed(pa, C)
    BY <1>1, <2>1 DEF UpClosed
  <2> HIDE DEF C
  <2>3. Up(pa, z1) \subseteq C
    BY <1>1, <2>1, <2>2, UpIs
  <2> QED BY <2>3 DEF C
<1> QED BY <1>8, <1>9, <1>10

\* A partial node has a full neighbor, and besides y one that is not full.
LEMMA PartialHasBoth ==
  ASSUME NEW t, Sturdy(t), NEW l, NEW f, NEW S, Settled(t, l, f, S),
         NEW x \in InUse(t) \cap Inner, l[x] \notin {"Empty", "Full"}, NEW y
  PROVE  /\ \E z \in ToSet(f[x]) : z \in Around(t, x) /\ Through(t, x, z) \subseteq S /\ Through(t, x, z) # {}
         /\ \E z \in Around(t, x) \ {y} : z \notin ToSet(f[x]) /\ ~(Through(t, x, z) \subseteq S)
<1>1. /\ f[x] \in Seq(Node) /\ Distinct(f[x]) /\ Len(f[x]) # 0 /\ Len(f[x]) + 2 <= Degree(t, x)
      /\ ToSet(f[x]) = {z \in Around(t, x) : Through(t, x, z) \subseteq S}
  BY DEF Settled
<1>2. Tree(t) /\ x \in Node
  BY SturdyIsValid DEF InUse
<1>3. \E z \in ToSet(f[x]) : z \in Around(t, x) /\ Through(t, x, z) \subseteq S /\ Through(t, x, z) # {}
  <2>1. f[x][1] \in ToSet(f[x])
    BY <1>1 DEF ToSet
  <2> QED BY <1>1, <2>1, SomeLeafBehind
<1>4. \E z \in Around(t, x) \ {y} : z \notin ToSet(f[x])
  <2> SUFFICES ASSUME Around(t, x) \ {y} \subseteq ToSet(f[x]) PROVE FALSE
    OBVIOUS
  <2>1. IsFiniteSet(Around(t, x)) /\ Cardinality(Around(t, x)) = Degree(t, x)
    BY <1>2, AroundFinite
  <2>2. Degree(t, x) \in Nat /\ Len(f[x]) \in Nat
    BY <1>1, <1>2, DegreeIs DEF Tree
  <2>3. ToSet(f[x]) \subseteq Around(t, x)
    BY <1>1
  <2>4. CASE y \in Around(t, x)
    <3>1. Len(f[x]) >= Cardinality(Around(t, x)) - 1
      BY <1>1, <2>1, <2>3, <2>4, AllButOne
    <3> QED BY <1>1, <2>1, <2>2, <3>1
  <2>5. CASE y \notin Around(t, x)
    <3>1. Around(t, x) = ToSet(f[x])
      BY <2>3, <2>5
    <3>2. Cardinality(ToSet(f[x])) = Len(f[x])
      BY <1>1, DistinctLength
    <3>3. Cardinality(ToSet(f[x])) = Degree(t, x)
      BY ONLY <2>1, <3>1
    <3> QED BY ONLY <1>1, <2>2, <3>2, <3>3
  <2> QED BY <2>4, <2>5
<1> QED BY <1>1, <1>3, <1>4

\* What is behind the edges from a node x up to p.
LEMMA BehindUp ==
  ASSUME NEW t, Tree(t), NEW x \in InUse(t), NEW p, p = t.parent[x], p # Nil
  PROVE  /\ p \in InUse(t) /\ x \in Around(t, p) /\ p \in Around(t, x)
         /\ \A z \in Around(t, x) \ {p} : t.parent[z] = x /\ Through(t, x, z) \subseteq Through(t, p, x)
         /\ \A z \in Around(t, p) \ {x} : Through(t, p, z) \subseteq Through(t, x, p)
<1>1. x # t.root /\ p \in InUse(t)
  BY OfTree
<1>2. p \in Around(t, x) /\ Around(t, x) = Kids(t, x) \cup {p}
  BY <1>1, AroundIs
<1>3. x \in Around(t, p)
  BY <1>2, AroundIsSymmetric
<1>4. \A z \in Around(t, x) \ {p} : t.parent[z] = x
  BY <1>2, OfTree
<1>5. Through(t, p, x) = Own(t, x) \cup UNION {Through(t, x, z) : z \in Around(t, x) \ {p}}
  BY <1>1, <1>3, ThroughIs
<1>6. Through(t, x, p) = Own(t, p) \cup UNION {Through(t, p, z) : z \in Around(t, p) \ {x}}
  BY <1>2, ThroughIs
<1> QED BY <1>1, <1>2, <1>3, <1>4, <1>5, <1>6

LEMMA MixedGrows ==
  ASSUME NEW A, NEW B, A \subseteq B, NEW S
  PROVE  /\ Mixed(A, S) => Mixed(B, S)
         /\ A \subseteq S /\ A # {} => B \cap S # {}
         /\ ~(A \subseteq S) => B \ S # {}
BY DEF Mixed

\* Below a node of the path there are marked and other leaves.
LEMMA PassedIsMixed ==
  ASSUME NEW t, NEW s, NEW c, NEW Q, PathFound(t, s, c, Q), NEW S, Settled(t, s.label, s.fullNeighbors, S)
  PROVE  \A y \in Q : Mixed(Through(t, t.parent[y], y), S)
<1> DEFINE pa == t.parent
           E == {y \in Q : ~Mixed(Through(t, pa[y], y), S)}
<1>1. /\ Tree(t) /\ Sturdy(t) /\ pa \in Parents /\ Acyclic(pa) /\ Nil \notin Node
      /\ Q \subseteq InUse(t) \cap Inner /\ Q \subseteq Node
      /\ \A y \in Q : pa[y] # Nil /\ s.label[y] # "Full" /\ Passed(t, s, y, c, Q)
  BY PathHangs DEF PathFound, PathSet
<1>2. ASSUME NEW y \in E PROVE \E z \in E : pa[z] = y
  <2>1. y \in Q /\ y \in InUse(t) \cap Inner /\ pa[y] # Nil /\ ~Mixed(Through(t, pa[y], y), S)
    BY <1>1
  <2>2. CASE s.label[y] = "Empty"
    <3> DEFINE z == s.tpPred[y]
    <3>1. z \in Q /\ pa[z] = y /\ z \in InUse(t)
      BY <1>1, <2>2 DEF Passed
    <3> HIDE DEF z
    <3>2. z \in Around(t, y) /\ z # pa[y]
      <4>1. z \in Around(t, y)
        BY <1>1, <3>1, BehindUp
      <4>2. z # pa[y]
        BY <1>1, <3>1, <4>1, AroundIsSymmetric
      <4> QED BY <4>1, <4>2
    <3>3. Through(t, y, z) \subseteq Through(t, pa[y], y)
      BY <1>1, <2>1, <3>2, BehindUp
    <3>4. ~Mixed(Through(t, pa[z], z), S)
      BY <1>2, <3>1, <3>3, MixedGrows
    <3> QED BY <3>1, <3>4
  <2>3. CASE s.label[y] # "Empty"
    <3> DEFINE l == s.label
               f == s.fullNeighbors
               p == pa[y]
    <3>1. l[y] \notin {"Empty", "Full"} /\ Settled(t, l, f, S) /\ p = t.parent[y] /\ p # Nil
      BY <1>1, <2>1, <2>3
    <3>2. l[y] = "Partial"
      BY <2>1, <3>1 DEF Settled
    <3>3. ToSet(f[y]) \subseteq Kids(t, y)
      BY <1>1, <2>1, <3>2 DEF Passed
    <3>4. ~Mixed(Through(t, p, y), S)
      BY <1>2
    <3>5. p \notin Kids(t, y)
      BY <1>1, <2>1, OfTree, AroundIs
    <3> HIDE DEF l, f, p
    <3>6. PICK z \in ToSet(f[y]) : z \in Around(t, y) /\ Through(t, y, z) \subseteq S /\ Through(t, y, z) # {}
      BY <1>1, <2>1, <3>1, PartialHasBoth
    <3>7. PICK v \in Around(t, y) \ {p} : ~(Through(t, y, v) \subseteq S)
      BY <1>1, <2>1, <3>1, PartialHasBoth
    <3>8. \A u \in Around(t, y) \ {p} : Through(t, y, u) \subseteq Through(t, p, y)
      BY <1>1, <2>1, <3>1, BehindUp
    <3>9. z \in Around(t, y) \ {p}
      BY <3>3, <3>5, <3>6
    <3>10. Through(t, p, y) \cap S # {}
      BY <3>6, <3>8, <3>9, MixedGrows
    <3>11. Through(t, p, y) \ S # {}
      BY <3>7, <3>8, MixedGrows
    <3> QED BY <3>4, <3>10, <3>11 DEF Mixed
  <2> QED BY <2>2, <2>3
<1>3. E \in SUBSET Node
  BY <1>1
<1> HIDE DEF E
<1>4. \A z \in E : pa[z] \in E
  BY <1>1, <1>2, <1>3, ChildrenWithin
<1>5. E = {}
  <2>1. \A z \in E : t.parent[z] \in E
    BY <1>4
  <2> QED BY <1>1, <1>3, <2>1, NoEndlessPath
<1> QED BY <1>5 DEF E

\* So there are above it.
LEMMA PassedIsTop ==
  ASSUME NEW t, NEW s, NEW c, NEW Q, PathFound(t, s, c, Q), NEW S, Settled(t, s.label, s.fullNeighbors, S)
  PROVE  \A y \in Q : IsTop(t, S, y)
<1> DEFINE pa == t.parent
           E == {y \in Q : ~Mixed(Through(t, y, pa[y]), S)}
<1>1. /\ Tree(t) /\ Sturdy(t) /\ pa \in Parents /\ Acyclic(pa) /\ Nil \notin Node
      /\ Q \subseteq InUse(t) \cap Inner /\ Q \subseteq Node /\ c \in InUse(t) \cap Inner
      /\ \A y \in Q : pa[y] # Nil /\ pa[y] \in Q \cup {c} /\ Mixed(Through(t, pa[y], y), S)
      /\ s.label[c] # "Full"
  BY PathHangs, PassedIsMixed DEF PathFound, ApexRight
<1>2. ASSUME NEW y \in E PROVE pa[y] \in E
  <2> DEFINE p == pa[y]
  <2>1. /\ p = t.parent[y] /\ p # Nil /\ y \in InUse(t) /\ ~Mixed(Through(t, y, p), S) /\ y \in Q
        /\ Mixed(Through(t, p, y), S)
    BY <1>1
  <2> HIDE DEF p
  <2>2. /\ p \in InUse(t) /\ y \in Around(t, p)
        /\ \A z \in Around(t, p) \ {y} : Through(t, p, z) \subseteq Through(t, y, p)
    BY <1>1, <2>1, BehindUp
  <2>3. CASE p \in Q
    <3>1. pa[p] \in Around(t, p) /\ pa[p] # y
      <4>1. pa[p] \in Around(t, p)
        BY <1>1, <2>3, BehindUp
      <4> QED BY <1>1, <2>1, <2>2, <4>1, AroundIsSymmetric
    <3>2. ~Mixed(Through(t, p, pa[p]), S)
      BY <2>1, <2>2, <3>1, MixedGrows
    <3> QED BY <2>3, <3>2 DEF p
  <2>4. CASE p = c /\ s.label[c] # "Empty"
    <3> DEFINE l == s.label
               f == s.fullNeighbors
    <3>1. p \in InUse(t) \cap Inner /\ l[p] \notin {"Empty", "Full"} /\ Settled(t, l, f, S)
      BY <1>1, <2>4
    <3> HIDE DEF l, f
    <3>2. PICK z \in ToSet(f[p]) : z \in Around(t, p) /\ Through(t, p, z) \subseteq S /\ Through(t, p, z) # {}
      BY <1>1, <3>1, PartialHasBoth
    <3>3. PICK v \in Around(t, p) \ {y} : ~(Through(t, p, v) \subseteq S)
      BY <1>1, <3>1, PartialHasBoth
    <3>4. z # y
      BY <2>1, <3>2 DEF Mixed
    <3>5. Through(t, y, p) \cap S # {}
      BY <2>2, <3>2, <3>4, MixedGrows
    <3>6. Through(t, y, p) \ S # {}
      BY <2>2, <3>3, MixedGrows
    <3> QED BY <2>1, <3>5, <3>6 DEF Mixed
  <2>5. CASE p = c /\ s.label[c] = "Empty"
    <3>1. PICK z \in Q : pa[z] = c /\ z # y
      BY <2>5 DEF PathFound, PathSet
    <3>2. z \in Around(t, p)
      BY <1>1, <2>5, <3>1, BehindUp
    <3>3. Mixed(Through(t, p, z), S)
      BY <1>1, <2>5, <3>1
    <3>4. Mixed(Through(t, y, p), S)
      BY <2>2, <3>1, <3>2, <3>3, MixedGrows
    <3> QED BY <2>1, <3>4
  <2> QED BY <1>1, <2>1, <2>3, <2>4, <2>5
<1>3. E \in SUBSET Node
  BY <1>1
<1> HIDE DEF E
<1>4. E = {}
  <2>1. \A z \in E : t.parent[z] \in E
    BY <1>2
  <2> QED BY <1>1, <1>3, <2>1, NoEndlessPath
<1> QED BY <1>1, <1>4 DEF E, IsTop

\* The labels stay as long as the search goes on.
Keeps(s, c) ==
  {"label", "fullNeighbors"} \subseteq DOMAIN s =>
    /\ {"label", "fullNeighbors"} \subseteq DOMAIN c
    /\ c.label = s.label /\ c.fullNeighbors = s.fullNeighbors

LEMMA CheckKeeps ==
  ASSUME NEW t, NEW s, NEW x, NEW mirrored
  PROVE  Keeps(s, CheckTPPartialCNode(t, s, x, mirrored))
<1> DEFINE c == CheckTPPartialCNode(t, s, x, mirrored)
<1>1. \E e1, e2, b : c = Failing(s, b) \/ c = Failing(WithEnds(s, x, e1, e2), b)
  <2> DEFINE e1 == EndOfFullBlock(t, s, x, x \notin mirrored)
             e2 == EndOfFullBlock(t, s, x, x \in mirrored)
             s1 == IF s.ebEnd1[x] # Nil THEN s ELSE WithEnds(s, x, e1, e2)
             offBlock(y) == y # Nil /\ y \notin {s1.ebEnd1[x], s1.ebEnd2[x]}
             b == \/ s.ebEnd1[x] = Nil /\ 1 + e1.count + e2.count # Len(s.fullNeighbors[x])
                  \/ offBlock(s1.tpPred[x])
                  \/ x = s1.apexCandidate /\ offBlock(s1.apexTPPred2)
  <2>1. c = Failing(s1, b)
    BY DEF CheckTPPartialCNode, Failing, WithEnds
  <2>2. s1 = s \/ s1 = WithEnds(s, x, e1, e2)
    OBVIOUS
  <2> HIDE DEF c, b, s1, e1, e2
  <2> QED BY <2>1, <2>2
<1> HIDE DEF c
<1>2. PICK e1, e2, b : c = Failing(s, b) \/ c = Failing(WithEnds(s, x, e1, e2), b)
  BY <1>1
<1>3. \A u : Keeps(u, Failing(u, b))
  BY DEF Keeps, Failing
<1>4. Keeps(s, WithEnds(s, x, e1, e2))
  BY DEF Keeps, WithEnds
<1>5. Keeps(s, c)
  BY <1>2, <1>3, <1>4 DEF Keeps
<1> QED BY <1>5 DEF c

LEMMA DequeueKeeps ==
  ASSUME NEW t, NEW s, NEW mirrored
  PROVE  Keeps(s, Dequeue(t, s, mirrored))
<1> DEFINE x == Head(s.partials)
           s1 == PopPartial(s)
           c == IF t.type[x] = "C" THEN CheckTPPartialCNode(t, s1, x, mirrored) ELSE s1
           d == Dequeue(t, s, mirrored)
<1>1. d = s1 \/ d = Rebased(c, x)
  BY DEF Dequeue, Rebased
<1>2. Keeps(s, s1)
  BY DEF Keeps, PopPartial
<1>3. Keeps(s1, c)
  BY CheckKeeps DEF Keeps
<1> HIDE DEF c, d, s1, x
<1>4. Keeps(c, Rebased(c, x))
  BY DEF Keeps, Rebased
<1>5. Keeps(s, d)
  BY <1>1, <1>2, <1>3, <1>4 DEF Keeps
<1> QED BY <1>5 DEF d

\* The call has returned, or the search goes on with the same labels.
LabelsStay ==
  \/ pc' = "idle"
  \/ /\ UNCHANGED <<tree, pc, client>>
     /\ temp'.label = temp.label /\ temp'.fullNeighbors = temp.fullNeighbors

LEMMA ContinueKeeps ==
  ASSUME NEW s \in TempType, s.failed = FALSE => s.label = temp.label /\ s.fullNeighbors = temp.fullNeighbors,
         Continue(s)
  PROVE  LabelsStay
<1>1. CASE s.failed /\ Return(s, FALSE)
  BY <1>1 DEF LabelsStay, Return
<1>2. CASE ~s.failed /\ temp' = s /\ UNCHANGED <<tree, pc, work, client>>
  <2>1. s.failed = FALSE
    BY <1>2 DEF TempType
  <2> QED BY <1>2, <2>1 DEF LabelsStay
<1> QED BY <1>1, <1>2 DEF Continue

\* A step that does not fail leaves the labels of d.
LabelsOf(d, a) == a.failed = FALSE => a.label = d.label /\ a.fullNeighbors = d.fullNeighbors

LEMMA AscendKeeps ==
  ASSUME NEW t, NEW d, NEW x, GoesUp(t, d, x, t.parent[x]), NEW mirrored, NEW a, a = Ascend(t, d, x, mirrored)
  PROVE  LabelsOf(d, a)
<1> DEFINE p == t.parent[x]
           s == Reached(t, Leave(t, d, x, p), x, p)
           c == CheckTPPartialCNode(t, s, p, mirrored)
<1>1. a = IF ~s.failed /\ t.type[p] = "C" /\ s.label[p] = "Partial" THEN c ELSE s
  BY DEF Ascend, Reached, Linked
<1>2. s \in TempType /\ HalfDone(t, d, s, p)
  BY ReachedRight
<1>3. Keeps(s, c)
  BY CheckKeeps
<1> SUFFICES ASSUME a.failed = FALSE PROVE a.label = d.label /\ a.fullNeighbors = d.fullNeighbors
  BY DEF LabelsOf
<1> HIDE DEF p, s, c
<1>4. s.failed \in BOOLEAN /\ {"label", "fullNeighbors"} \subseteq DOMAIN s
  BY <1>2 DEF TempType
<1>5. s.failed = FALSE
  BY <1>1, <1>4
<1>6. s.label = d.label /\ s.fullNeighbors = d.fullNeighbors
  BY <1>2, <1>5 DEF HalfDone
<1> QED BY <1>1, <1>3, <1>4, <1>6 DEF Keeps

LEMMA VisitKeeps ==
  ASSUME SearchRight(tree, temp), VisitPartial
  PROVE  LabelsStay
<1> DEFINE x == Head(temp.partials)
<1>1. PICK mirrored : temp.partials # <<>> /\ Visit(mirrored)
  BY DEF VisitPartial
<1> DEFINE d == Dequeue(tree, temp, mirrored)
<1>2. d \in TempType /\ (d.failed = FALSE => Taken(tree, d, x)) /\ temp \in TempType
  BY <1>1, Dequeued DEF SearchRight, Core
<1>3. \/ (d.failed \/ d.tpSucc[x] # Nil) /\ Continue(d)
      \/ ~d.failed /\ d.tpSucc[x] = Nil /\ Continue(SetApexCandidate(d, x, FALSE))
      \/ /\ ~d.failed /\ d.tpSucc[x] = Nil
         /\ ~(EndsIShaped(d) \/ EndsAShaped(d, x) \/ CannotAscend(tree, d, x))
         /\ Continue(Ascend(tree, d, x, mirrored))
  BY <1>1 DEF Visit
<1>4. d.label = temp.label /\ d.fullNeighbors = temp.fullNeighbors
  <2>1. Keeps(temp, d)
    BY DequeueKeeps
  <2>2. {"label", "fullNeighbors"} \subseteq DOMAIN temp
    BY <1>2 DEF TempType
  <2> HIDE DEF d
  <2> QED BY <2>1, <2>2 DEF Keeps
<1> HIDE DEF d, x
<1>5. d.failed \in BOOLEAN
  BY <1>2 DEF TempType
<1>6. CASE (d.failed \/ d.tpSucc[x] # Nil) /\ Continue(d)
  BY <1>2, <1>4, <1>6, ContinueKeeps
<1>7. CASE ~d.failed /\ d.tpSucc[x] = Nil /\ Continue(SetApexCandidate(d, x, FALSE))
  <2> DEFINE fix == FALSE
             r == SetApexCandidate(d, x, fix)
  <2>1. Taken(tree, d, x) /\ d.tpSucc[x] = Nil /\ fix = FALSE /\ fix \in BOOLEAN /\ Continue(r)
    BY <1>2, <1>5, <1>7
  <2> HIDE DEF fix
  <2>2. x \in Node
    BY <2>1 DEF Taken, Core, WaitingRight
  <2>3. r \in TempType
    BY <2>1, CandidateSet
  <2>4. SetApexFacts(d, r, x, fix)
    BY <1>2, <2>1, <2>2, SetApexIs
  <2> HIDE DEF r
  <2>5. r.label = temp.label /\ r.fullNeighbors = temp.fullNeighbors
    BY <1>4, <2>4 DEF SetApexFacts, SearchStays
  <2> QED BY <2>1, <2>3, <2>5, ContinueKeeps
<1>8. CASE /\ ~d.failed /\ d.tpSucc[x] = Nil
           /\ ~(EndsIShaped(d) \/ EndsAShaped(d, x) \/ CannotAscend(tree, d, x))
           /\ Continue(Ascend(tree, d, x, mirrored))
  <2> DEFINE a == Ascend(tree, d, x, mirrored)
  <2>1. Taken(tree, d, x) /\ d.tpSucc[x] = Nil /\ ~EndsIShaped(d) /\ ~CannotAscend(tree, d, x) /\ Continue(a)
    BY <1>2, <1>5, <1>8
  <2>2. GoesUp(tree, d, x, tree.parent[x])
    BY <2>1, OpenWay
  <2>3. a \in TempType
    BY <2>2, AscendRight
  <2>4. a = Ascend(tree, d, x, mirrored)
    OBVIOUS
  <2> HIDE DEF a
  <2>5. LabelsOf(d, a)
    BY <2>2, <2>4, AscendKeeps
  <2> QED BY <1>4, <2>1, <2>3, <2>5, ContinueKeeps DEF LabelsOf
<1> QED BY <1>3, <1>6, <1>7, <1>8

(***************************************************************************)
(* What the labels mean stays known until the path is found.               *)
(***************************************************************************)
PathInv ==
  /\ CallRight
  /\ pc \in {"searching", "found"} => Settled(tree, temp.label, temp.fullNeighbors, client.request)

LEMMA PathInvNext ==
  ASSUME PathInv, [Next]_vars
  PROVE  PathInv'
<1>1. CallRight /\ CallRight'
  BY NextRight DEF PathInv
<1>2. SUFFICES ASSUME pc' \in {"searching", "found"}
               PROVE  Settled(tree', temp'.label, temp'.fullNeighbors, client'.request)
  BY <1>1 DEF PathInv
<1>3. CASE StartSearch
  <2>1. /\ pc = "marking" /\ work.full = Nil /\ work.todo = <<>>
        /\ tree' = tree /\ temp' = temp /\ client' = client
    BY <1>3 DEF StartSearch
  <2>2. Marked = client.request
    BY <2>1 DEF Marked, ToSet
  <2>3. /\ Tree(tree) /\ Leaves \subseteq InUse(tree)
        /\ Labelled(tree, temp.label, temp.fullNeighbors, temp.partials, Nil, client.request)
        /\ \E a, b \in Leaves \ client.request : a # b
    BY <1>1, <2>1, <2>2 DEF CallRight, LabelInv, MarkingRight, UsableTree
  <2> DEFINE l == temp.label
             f == temp.fullNeighbors
             ps == temp.partials
             S == client.request
  <2>4. /\ Labelled(tree, l, f, ps, Nil, S)
        /\ \E a, b \in Leaves \ S : a # b
    BY <2>3
  <2> HIDE DEF l, f, ps, S
  <2>5. Settled(tree, l, f, S)
    BY <2>3, <2>4, SettledLabels
  <2> QED BY <2>1, <2>5 DEF l, f, S
<1>4. CASE VisitPartial
  <2>1. pc = "searching" /\ SearchRight(tree, temp)
    BY <1>1, <1>4 DEF CallRight, VisitPartial
  <2>2. LabelsStay
    BY <1>4, <2>1, VisitKeeps
  <2>3. /\ tree' = tree /\ client' = client
        /\ temp'.label = temp.label /\ temp'.fullNeighbors = temp.fullNeighbors
    BY <1>2, <2>2 DEF LabelsStay
  <2> QED BY <2>1, <2>3 DEF PathInv
<1>5. CASE FixApex
  <2>1. pc = "searching" /\ temp \in TempType /\ tree' = tree /\ client' = client
    BY <1>1, <1>5 DEF CallRight, FixApex
  <2>2. temp'.label = temp.label /\ temp'.fullNeighbors = temp.fullNeighbors
    BY <1>5, <2>1 DEF FixApex, TempType
  <2> QED BY <2>1, <2>2 DEF PathInv
<1>6. CASE UNCHANGED vars
  BY <1>2, <1>6 DEF vars, PathInv
<1>7. ASSUME ReturnTrivial \/ StartMarking \/ MarkLeafFull \/ MarkInnerFull PROVE FALSE
  <2>1. CASE ReturnTrivial
    BY <1>2, <2>1 DEF ReturnTrivial, Return
  <2>2. CASE StartMarking
    BY <1>2, <2>2 DEF StartMarking
  <2>3. CASE MarkLeafFull
    BY <1>2, <2>3 DEF MarkLeafFull, MarkFull
  <2>4. CASE MarkInnerFull
    BY <1>2, <2>4 DEF MarkInnerFull, MarkFull
  <2> QED BY <1>7, <2>1, <2>2, <2>3, <2>4
<1>8. ASSUME Updating \/ ReturnUpdated PROVE FALSE
  <2>1. CASE UpdateSingletonTerminalPath
    BY <1>2, <2>1 DEF UpdateSingletonTerminalPath, Return
  <2>2. CASE CreateCentralNode
    BY <1>2, <2>2 DEF CreateCentralNode
  <2>3. CASE MergePNode
    BY <1>2, <2>3 DEF MergePNode, MergeDone
  <2>4. CASE MergeCNode
    BY <1>2, <2>4 DEF MergeCNode, MergeDone
  <2>5. CASE StartSecondArm
    BY <1>2, <2>5 DEF StartSecondArm
  <2>6. CASE ReturnUpdated
    BY <1>2, <2>6 DEF ReturnUpdated, Return
  <2> QED BY <1>8, <2>1, <2>2, <2>3, <2>4, <2>5, <2>6 DEF Updating
<1>9. ASSUME \E leaves \in Requests : MakeConsecutive(leaves) PROVE FALSE
  BY <1>2, <1>9 DEF MakeConsecutive
<1>10. ASSUME \E x \in NewRoots : UserChangesRoot(x) PROVE FALSE
  BY <1>2, <1>10 DEF UserChangesRoot
<1> QED BY <1>3, <1>4, <1>5, <1>6, <1>7, <1>8, <1>9, <1>10 DEF Next, CallStep, Marking, Searching

LEMMA TerminalIsTop ==
  ASSUME Sturdy(tree), NEW S \in SUBSET Leaves, NEW x \in InUse(tree)
  PROVE  Terminal(x, S, LeavesBelow(tree)) <=> IsTop(tree, S, x)
<1> DEFINE t == tree
           p == t.parent[x]
           B == LeavesBelow(t)
<1>1. Tree(t) /\ Leaves \subseteq InUse(t) /\ B[t.root] = Leaves /\ x \in Node
  <2>1. Tree(tree) /\ Leaves \subseteq InUse(tree)
    BY SturdyIsValid
  <2>2. LeavesBelow(tree)[tree.root] = InUse(tree) \cap Leaves
    BY <2>1, BelowRoot
  <2>3. x \in Node
    BY DEF InUse
  <2> QED BY <2>1, <2>2, <2>3
<1>2. CASE p = Nil
  BY <1>2 DEF Terminal, IsTop
<1>3. CASE p # Nil
  <2>1. p \in InUse(t) /\ x \in Around(t, p) /\ p \in Around(t, x)
    BY <1>1, <1>3, BehindUp
  <2>2. x # t.parent[p]
    BY <1>1, <2>1, AroundIsSymmetric
  <2>3. Through(t, p, x) = B[x] /\ Through(t, x, p) = Leaves \ B[x]
    BY <1>1, <2>2 DEF Through, LeavesThrough
  <2> HIDE DEF B
  <2>4. IsTop(t, S, x) <=> Mixed(B[x], S) /\ Mixed(Leaves \ B[x], S)
    BY <1>3, <2>3 DEF IsTop
  <2>5. Terminal(x, S, B) <=> /\ S \cap B[x] # {} /\ B[x] \ S # {}
                              /\ S \ B[x] # {} /\ Leaves \ (B[x] \cup S) # {}
    BY <1>3 DEF Terminal
  <2>6. Terminal(x, S, B) <=> Mixed(B[x], S) /\ Mixed(Leaves \ B[x], S)
    BY <2>5 DEF Mixed
  <2> QED BY <2>4, <2>6 DEF B
<1> QED BY <1>2, <1>3

\* The path that the search has left, the tops T of the edges that it should
\* run along, and what a path along just these edges is.
PathAndTops(t, s, c, Q, S, T, path) ==
  /\ PathFound(t, s, c, Q) /\ Settled(t, s.label, s.fullNeighbors, S)
  /\ T = {x \in InUse(t) : IsTop(t, S, x)}
  /\ path = Chain(s, c) \o Chain(s, s.apexTPPred2)

RunsAlong(t, s, c, T, path) ==
  /\ Distinct(path)
  /\ T = {} => path = <<c>> /\ s.label[c] = "Partial"
  /\ T # {} => ToSet(path) = T \cup {t.parent[x] : x \in T}
  /\ \A x \in ToSet(path) : s.tpPred[x] # Nil => t.parent[s.tpPred[x]] = x

\* The nodes of the path are the ends of the terminal edges.
LEMMA PathIsTops ==
  ASSUME NEW t, NEW s, NEW c, NEW Q, NEW S, NEW T, NEW path, PathAndTops(t, s, c, Q, S, T, path)
  PROVE  RunsAlong(t, s, c, T, path)
<1>0. /\ PathFound(t, s, c, Q) /\ Settled(t, s.label, s.fullNeighbors, S)
      /\ T = {x \in InUse(t) : IsTop(t, S, x)}
      /\ path = Chain(s, c) \o Chain(s, s.apexTPPred2)
  BY DEF PathAndTops
<1> DEFINE pa == t.parent
           z == s.apexTPPred2
           A == Chain(s, c)
           B == Chain(s, z)
           R == Q \cup {c}
<1>1. /\ Tree(t) /\ t.parent \in Parents /\ Acyclic(t.parent) /\ Nil \notin Node
      /\ Q \subseteq InUse(t) \cap Inner /\ Q \subseteq Node /\ c \in InUse(t) \cap Inner /\ c \in Node /\ c \notin Q
      /\ \A y \in Q : pa[y] \in Q \cup {c} /\ pa[y] # Nil /\ c \in Up(pa, y)
      /\ s \in TempType /\ PathSet(t, s, c, Q)
  BY <1>0, PathHangs DEF PathFound
<1>2. T = Q
  <2>1. \A x \in T : x \in Q
    BY <1>0, TopIsPassed
  <2>2. \A x \in Q : x \in T
    BY <1>0, <1>1, PassedIsTop
  <2> QED BY <2>1, <2>2
<1>3. TwoArms(t, s, R, c, z)
  BY <1>1, PathsAreArms
<1> HIDE DEF z
<1>4. /\ Distinct(A \o B) /\ A \in Seq(Node) /\ B \in Seq(Node) /\ ToSet(A \o B) = R
      /\ Len(A) + Len(B) = Cardinality(R)
  BY <1>1, <1>3, ChainsCover
<1>5. path = A \o B
  BY <1>0 DEF z
<1>6. ASSUME T = {} PROVE path = <<c>> /\ s.label[c] = "Partial"
  <2>1. z = Nil
    BY <1>0, <1>2, <1>6 DEF PathFound, PathSet, z
  <2>2. s.label[c] = "Partial"
    BY <1>0, <1>1, <2>1 DEF PathFound, ApexRight, TempType, z
  <2>3. ChainIs(t, s, c, R, A) /\ ChainIs(t, s, z, R, B)
    BY <1>1, <1>3, ChainGoesDown DEF TwoArms
  <2> HIDE DEF A, B
  <2>4. B = <<>> /\ A # <<>> /\ A[1] = c
    BY <1>1, <2>1, <2>3 DEF ChainIs
  <2>5. Cardinality(R) = 1
    <3>1. R = {c}
      BY <1>2, <1>6
    <3> HIDE DEF R
    <3> QED BY <3>1, FS_Singleton
  <2>6. Len(A) = 1 /\ Len(B) = 0
    BY <1>4, <2>4, <2>5
  <2>7. A = <<c>>
    BY <1>1, <1>4, <2>4, <2>6
  <2>8. A \o B = <<c>>
    BY <1>1, <2>4, <2>7
  <2> QED BY <1>5, <2>2, <2>8
<1>7. ASSUME T # {} PROVE ToSet(path) = T \cup {pa[x] : x \in T}
  <2>1. \E y \in Q : pa[y] = c
    <3> SUFFICES ASSUME \A y \in Q : pa[y] # c PROVE FALSE
      OBVIOUS
    <3>1. \A y \in Q : t.parent[y] \in Q
      BY <1>1
    <3> QED BY <1>1, <1>2, <1>7, <3>1, NoEndlessPath
  <2> HIDE DEF pa, A, B
  <2>2. R = Q \cup {pa[x] : x \in Q}
    BY <1>1, <2>1
  <2> HIDE DEF R
  <2> QED BY <1>2, <1>4, <1>5, <2>2
<1>8. \A x \in R : s.tpPred[x] # Nil => t.parent[s.tpPred[x]] = x
  BY <1>1 DEF PathSet, Passed
<1> HIDE DEF R, A, B
<1> QED BY <1>4, <1>5, <1>6, <1>7, <1>8 DEF RunsAlong

LEMMA FoundIsPath ==
  ASSUME NEW t, NEW s, FoundRight(t, s)
  PROVE  \E Q : PathFound(t, s, s.apexCandidate, Q)
BY DEF FoundRight, PathFound

LEMMA FoundIsExact ==
  ASSUME PathInv
  PROVE  TerminalPathExact
<1> SUFFICES ASSUME pc = "found" PROVE TerminalPathExact
  BY DEF TerminalPathExact
<1> DEFINE S == client.request
           c == temp.apexCandidate
           T == {x \in InUse(tree) : IsTop(tree, S, x)}
           below == LeavesBelow(tree)
           tops == {x \in InUse(tree) : Terminal(x, S, below)}
           path == Chain(temp, c) \o Chain(temp, temp.apexTPPred2)
<1>1. FoundRight(tree, temp) /\ Settled(tree, temp.label, temp.fullNeighbors, S) /\ Sturdy(tree)
  BY DEF PathInv, CallRight
<1>2. PICK Q : PathFound(tree, temp, c, Q)
  BY <1>1, FoundIsPath
<1>3. S \in SUBSET Leaves
  BY <1>1 DEF Settled
<1>4. tops = T
  BY <1>1, <1>3, TerminalIsTop
<1> HIDE DEF S, T, c, path, below
<1>5. T = {x \in InUse(tree) : IsTop(tree, S, x)} /\ path = Chain(temp, c) \o Chain(temp, temp.apexTPPred2)
  BY DEF T, path
<1>6. RunsAlong(tree, temp, c, T, path)
  <2> DEFINE s == temp
  <2>1. PathAndTops(tree, s, c, Q, S, T, path)
    BY <1>1, <1>2, <1>5 DEF PathAndTops
  <2> HIDE DEF s
  <2>2. RunsAlong(tree, s, c, T, path)
    BY <2>1, PathIsTops
  <2> QED BY <2>2 DEF s
<1>7. IsInjective(path)
  BY <1>6, DistinctIsInjective DEF RunsAlong
<1>8. T = {} => path[1] = c
  BY <1>6 DEF RunsAlong
<1> HIDE DEF tops
<1>9. /\ IsInjective(path)
      /\ IF tops = {} THEN path = <<c>> /\ temp.label[path[1]] = "Partial"
         ELSE ToSet(path) = tops \cup {tree.parent[x] : x \in tops}
      /\ \A x \in ToSet(path) : temp.tpPred[x] # Nil => tree.parent[temp.tpPred[x]] = x
  BY <1>4, <1>6, <1>7, <1>8 DEF RunsAlong
<1> QED BY <1>9 DEF TerminalPathExact, S, c, path, below, tops

\* When findTerminalPath is successful, the nodes that tpPred leads to from the
\* apex are the ends of the edges with marked and other leaves on both sides,
\* each once, or there is no such edge and the apex is partial.
THEOREM PathIsTerminal == Spec => []TerminalPathExact
<1>1. Init => PathInv
  <2> SUFFICES ASSUME Init PROVE PathInv
    OBVIOUS
  <2>1. CallRight /\ pc = "idle"
    BY InitRight DEF Init
  <2> QED BY <2>1 DEF PathInv
<1>2. PathInv /\ [Next]_vars => PathInv'
  BY PathInvNext
<1>3. PathInv => TerminalPathExact
  BY FoundIsExact
<1> QED BY <1>1, <1>2, <1>3, PTL DEF Spec
=============================================================================
