-------------------------- MODULE NodeParentsProofs ---------------------------
(***************************************************************************)
(* Theorems about the parents of the nodes and the union-find structure    *)
(* that they are looked up in.                                             *)
(*                                                                         *)
(* DisjointSets, for any number of elements: find and quickUnion return    *)
(* and do what they should although find rewrites what it reads.           *)
(*                                                                         *)
(* CNodeParents, for any finite set of nodes: getParent() is right after   *)
(* any sequence of operations.                                             *)
(*                                                                         *)
(* And the link between them: the representatives change as CNodeParents   *)
(* has it.                                                                 *)
(***************************************************************************)
EXTENDS CNodeParents, DisjointSets, FiniteSetTheorems, TLAPS

(***************************************************************************)
(* DisjointSets.                                                           *)
(***************************************************************************)
(***************************************************************************)
(* The empty structure satisfies the invariant.                            *)
(***************************************************************************)
LEMMA SetsInitInv == SetsInit => Inv
BY SizesAssumption DEF SetsInit, Inv, SetsTypeOK, PartitionKept, OrderedByIndex, WalkInSet, Walking, Element

(***************************************************************************)
(* makeSet keeps the invariant: the new element is alone in its set, and   *)
(* there is room for it in the array.                                      *)
(***************************************************************************)
LEMMA MakeSetInv == Inv /\ MakeSet => Inv'
<1> SUFFICES ASSUME Inv, MakeSet PROVE Inv'
  OBVIOUS
<1> USE DEF MakeSet, GrownCapacity, Inv, locals, Walking
<1>1. Element' = Element \cup {numberOfElements} /\ numberOfElements \notin Element
  BY DEF Element, SetsTypeOK
<1>2. SetsTypeOK'
  BY <1>1 DEF SetsTypeOK, Element
<1>3. PartitionKept'
  BY <1>1 DEF SetsTypeOK, PartitionKept, Element
<1>4. OrderedByIndex'
  BY <1>1 DEF SetsTypeOK, OrderedByIndex, Element
<1>5. WalkInSet'
  BY DEF WalkInSet
<1> QED BY <1>2, <1>3, <1>4, <1>5

(***************************************************************************)
(* init() keeps the invariant.                                             *)
(***************************************************************************)
LEMMA ResetInv == Inv /\ Reset => Inv'
<1> SUFFICES ASSUME Inv, Reset PROVE Inv'
  OBVIOUS
<1>1. Element' = {}
  BY DEF Reset, Element
<1> QED BY <1>1 DEF Inv, Reset, locals, Walking, SetsTypeOK, PartitionKept, OrderedByIndex, WalkInSet, Element

(***************************************************************************)
(* Making the smaller of two roots a child of the larger one keeps the     *)
(* pointers inside the sets and going up.                                  *)
(***************************************************************************)
LEMMA JoinInv ==
  ASSUME Inv, NEW r1 \in Element, NEW r2 \in Element,
         parents[r1] = r1, parents[r2] = r2, r1 # r2,
         Join(r1, r2), UNCHANGED shape
  PROVE  /\ parents' \in [Element -> Element]
         /\ rep' \in [Element -> Element]
         /\ PartitionKept'
         /\ OrderedByIndex'
<1> DEFINE winner == IF r1 < r2 THEN r2 ELSE r1
           loser  == IF r1 < r2 THEN r1 ELSE r2
<1>1. /\ winner \in Element /\ loser \in Element /\ loser < winner
      /\ parents[winner] = winner /\ parents[loser] = loser
  BY DEF Element, Inv, SetsTypeOK
<1>2. /\ parents' = [parents EXCEPT ![loser] = winner]
      /\ rep' = [i \in Element |-> IF rep[i] = loser THEN winner ELSE rep[i]]
  BY DEF Join
<1>3. Element' = Element
  BY DEF Element, shape
<1> HIDE DEF winner, loser
<1>4. rep[winner] = winner /\ rep[loser] = loser
  BY <1>1 DEF Inv, PartitionKept
<1>5. parents' \in [Element -> Element] /\ rep' \in [Element -> Element]
  BY <1>1, <1>2 DEF Inv, SetsTypeOK
<1>6. PartitionKept'
  <2> SUFFICES ASSUME NEW i \in Element
               PROVE  /\ rep'[parents'[i]] = rep'[i]
                      /\ parents'[rep'[i]] = rep'[i]
                      /\ parents'[i] = i => rep'[i] = i
    BY <1>3 DEF PartitionKept
  <2>1. i \in Element /\ parents[i] \in Element /\ rep[i] \in Element
    BY DEF Inv, SetsTypeOK
  <2>2. rep'[parents'[i]] = rep'[i]
    BY <1>1, <1>2, <1>4, <2>1 DEF Inv, SetsTypeOK, PartitionKept
  <2>3. parents'[rep'[i]] = rep'[i]
    BY <1>1, <1>2, <1>4, <2>1 DEF Inv, SetsTypeOK, PartitionKept
  <2>4. parents'[i] = i => rep'[i] = i
    BY <1>1, <1>2, <1>4, <2>1 DEF Inv, SetsTypeOK, PartitionKept, Element
  <2> QED BY <2>2, <2>3, <2>4
<1>7. OrderedByIndex'
  <2> SUFFICES ASSUME NEW i \in Element PROVE i <= parents'[i]
    BY <1>3 DEF OrderedByIndex
  <2>1. CASE i = loser
    BY <2>1, <1>1, <1>2 DEF Inv, SetsTypeOK, Element
  <2>2. CASE i # loser
    BY <2>2, <1>2 DEF Inv, SetsTypeOK, OrderedByIndex
  <2> QED BY <2>1, <2>2
<1> QED BY <1>5, <1>6, <1>7

(***************************************************************************)
(* link on two representatives keeps the invariant.                        *)
(***************************************************************************)
LEMMA LinkInv ==
  ASSUME Inv, NEW r1 \in Element, NEW r2 \in Element, Link(r1, r2)
  PROVE  Inv'
<1>1. Element' = Element
  BY DEF Link, shape, Element
<1>2. CASE r1 = r2
  BY <1>1, <1>2 DEF Link, Inv, shape, locals, Walking, SetsTypeOK, PartitionKept, OrderedByIndex, WalkInSet
<1>3. CASE r1 # r2
  <2>1. Join(r1, r2) /\ UNCHANGED shape /\ parents[r1] = r1 /\ parents[r2] = r2
    BY <1>3 DEF Link
  <2>2. /\ parents' \in [Element -> Element] /\ rep' \in [Element -> Element]
        /\ PartitionKept' /\ OrderedByIndex'
    BY <1>3, <2>1, JoinInv
  <2>3. numberOfSets' \in Int /\ result' \in Int
    BY <1>3, <2>1 DEF Join, Link, Inv, SetsTypeOK, Element
  <2>4. SetsTypeOK'
    BY <1>1, <2>2, <2>3 DEF Link, shape, locals, Walking, Inv, SetsTypeOK
  <2>5. WalkInSet'
    BY DEF Link, WalkInSet, Walking
  <2> QED BY <2>2, <2>4, <2>5 DEF Inv
<1> QED BY <1>2, <1>3

(***************************************************************************)
(* A call that starts keeps the invariant, and so does quickUnion when it  *)
(* returns from its parent check or goes on to its first find.             *)
(***************************************************************************)
LEMMA CallInv ==
  ASSUME Inv, NEW x \in Element, NEW y \in Element,
         CallFind(x) \/ CallQuickUnion(x, y) \/ ReturnKnown \/ EnterFirst
  PROVE  Inv'
<1>1. UNCHANGED <<parents, numberOfElements, capacity, numberOfSets, rep>>
  BY DEF CallFind, CallQuickUnion, ReturnKnown, EnterFirst, shape
<1>2. Element' = Element /\ PartitionKept' /\ OrderedByIndex'
  BY <1>1 DEF Element, Inv, PartitionKept, OrderedByIndex
<1>3. CASE CallFind(x) \/ EnterFirst
  <2>1. PICK z \in Element :
          /\ set1' = z /\ pc' \in {"find", "first"} /\ result' = result
          /\ pc' = "first" => set2' \in Element
          /\ set' = z /\ parent' = parents[z] /\ grandParent' = parents[parents[z]]
    BY <1>3 DEF CallFind, EnterFirst, Enter, Inv, SetsTypeOK
  <2>2. SetsTypeOK'
    BY <1>1, <1>2, <2>1 DEF Inv, SetsTypeOK, Walking
  <2>3. WalkInSet'
    BY <1>1, <2>1 DEF WalkInSet
  <2> QED BY <1>2, <2>2, <2>3 DEF Inv
<1>4. CASE CallQuickUnion(x, y) \/ ReturnKnown
  <2>1. \/ pc' = "union" /\ set1' = x /\ set2' = y /\ result' = result
        \/ pc' = "idle" /\ result' = 0
    BY <1>4 DEF CallQuickUnion, ReturnKnown
  <2> QED BY <1>1, <1>2, <2>1 DEF Inv, SetsTypeOK, WalkInSet, Walking
<1> QED BY <1>3, <1>4

(***************************************************************************)
(* One round of find's loop keeps the invariant: the pointer that is       *)
(* written skips one element of the same set, and it is not the pointer of *)
(* a root, nor one that the locals were read from.                         *)
(***************************************************************************)
LEMMA SplitInv == Inv /\ Split => Inv'
<1> SUFFICES ASSUME Inv, Split PROVE Inv'
  OBVIOUS
<1>1. /\ parents' = [parents EXCEPT ![set] = grandParent]
      /\ set' = parent /\ parent' = grandParent /\ grandParent' = parents[grandParent]
      /\ UNCHANGED <<numberOfElements, capacity, numberOfSets, rep, pc, set1, set2, result>>
      /\ Walking /\ Walking' /\ pc # "idle" /\ parent # grandParent
  BY DEF Split, shape, Walking
<1>2. Element' = Element
  BY <1>1 DEF Element
<1>3. /\ set \in Element /\ parent \in Element /\ grandParent \in Element
      /\ parents \in [Element -> Element]
      /\ \A i \in Element : i \in Int
  <2>1. \A i \in Element : i \in Int
    BY DEF Inv, SetsTypeOK, Element
  <2> QED BY <1>1, <2>1 DEF Inv, SetsTypeOK
<1>4. parent = parents[set] /\ grandParent = parents[parent]
  BY <1>1 DEF Inv, WalkInSet
<1>5. set < parent /\ parent < grandParent
  <2>1. set <= parents[set] /\ parent <= parents[parent]
    BY <1>3 DEF Inv, OrderedByIndex
  <2>2. set # parent
    BY <1>1, <1>4
  <2> QED BY <1>1, <1>3, <1>4, <2>1, <2>2
<1>6. rep[grandParent] = rep[set]
  BY <1>3, <1>4 DEF Inv, PartitionKept
<1>7. SetsTypeOK'
  BY <1>1, <1>2, <1>3 DEF Inv, SetsTypeOK
<1>8. PartitionKept'
  BY <1>1, <1>2, <1>3, <1>4, <1>5, <1>6 DEF Inv, SetsTypeOK, PartitionKept
<1>9. OrderedByIndex'
  <2> SUFFICES ASSUME NEW i \in Element PROVE i <= parents'[i]
    BY <1>2 DEF OrderedByIndex
  <2>1. CASE i = set
    BY <2>1, <1>1, <1>3, <1>5
  <2>2. CASE i # set
    BY <2>2, <1>1, <1>3 DEF Inv, OrderedByIndex
  <2> QED BY <2>1, <2>2
<1>10. WalkInSet'
  <2>1. parents[set] # set
    BY <1>3, <1>4, <1>5
  <2>2. parents'[parent] = grandParent /\ parents'[grandParent] = parents[grandParent]
    BY <1>1, <1>3, <1>4, <1>5
  <2>3. rep[parent] = rep[set]
    BY <1>3, <1>4 DEF Inv, PartitionKept
  <2>4. pc = "second" => parents'[set1] = set1
    BY <1>1, <1>3, <2>1 DEF Inv, SetsTypeOK, WalkInSet
  <2> QED BY <1>1, <2>2, <2>3, <2>4 DEF Inv, WalkInSet
<1> QED BY <1>7, <1>8, <1>9, <1>10 DEF Inv

(***************************************************************************)
(* When the loop ends, parent is the representative of its set.            *)
(***************************************************************************)
LEMMA WalkEndsAtRep ==
  ASSUME Inv, Walking, parent = grandParent
  PROVE  /\ parent = rep[IF pc = "second" THEN set2 ELSE set1]
         /\ parents[parent] = parent
         /\ parent \in Element
<1>1. {set, parent} \subseteq Element /\ parent = parents[set] /\ parents[parent] = parent
  BY DEF Inv, SetsTypeOK, WalkInSet
<1>2. rep[parent] = parent /\ rep[parent] = rep[set]
  BY <1>1 DEF Inv, PartitionKept
<1> QED BY <1>1, <1>2 DEF Inv, WalkInSet

(***************************************************************************)
(* The end of a find keeps the invariant.                                  *)
(***************************************************************************)
LEMMA ReturnInv == Inv /\ (ReturnFind \/ ReturnFirst \/ ReturnSecond) => Inv'
<1> SUFFICES ASSUME Inv, ReturnFind \/ ReturnFirst \/ ReturnSecond PROVE Inv'
  OBVIOUS
<1>0. Element' = Element /\ \A i \in Element : i \in Int
  BY DEF ReturnFind, ReturnFirst, ReturnSecond, shape, Element, Inv, SetsTypeOK
<1>1. CASE ReturnFind
  <2>1. parent \in Int
    BY <1>0, <1>1 DEF ReturnFind, Inv, SetsTypeOK, Walking
  <2>2. /\ pc' = "idle" /\ result' = parent
        /\ UNCHANGED <<parents, numberOfElements, capacity, numberOfSets, rep>>
    BY <1>1 DEF ReturnFind, shape
  <2>3. SetsTypeOK' /\ WalkInSet'
    BY <1>0, <2>1, <2>2 DEF Inv, SetsTypeOK, WalkInSet, Walking
  <2>4. PartitionKept' /\ OrderedByIndex'
    BY <1>0, <2>2 DEF Inv, PartitionKept, OrderedByIndex
  <2> QED BY <2>3, <2>4 DEF Inv
<1>2. CASE ReturnFirst
  <2>1. /\ pc = "first" /\ pc' = "second" /\ set1' = parent
        /\ set' = set2 /\ parent' = parents[set2] /\ grandParent' = parents[parents[set2]]
        /\ UNCHANGED <<parents, numberOfElements, capacity, numberOfSets, rep, set2, result>>
    BY <1>2 DEF ReturnFirst, Enter, shape
  <2>2. parents[parent] = parent /\ parent \in Element
    BY <1>2, <2>1, WalkEndsAtRep DEF ReturnFirst, Walking
  <2>3. SetsTypeOK'
    BY <1>0, <2>1, <2>2 DEF Inv, SetsTypeOK, Walking
  <2>4. PartitionKept' /\ OrderedByIndex'
    BY <1>0, <2>1 DEF Inv, PartitionKept, OrderedByIndex
  <2>5. WalkInSet'
    BY <2>1, <2>2 DEF WalkInSet
  <2> QED BY <2>3, <2>4, <2>5 DEF Inv
<1>3. CASE ReturnSecond
  <2>1. /\ pc = "second" /\ pc' = "idle" /\ parent = grandParent
        /\ UNCHANGED <<numberOfElements, capacity, set1, set2, set, parent, grandParent>>
    BY <1>3 DEF ReturnSecond, shape, locals
  <2>2. WalkInSet'
    BY <2>1 DEF WalkInSet, Walking
  <2>3. CASE set1 = parent
    BY <1>0, <1>3, <2>1, <2>2, <2>3 DEF ReturnSecond, Walking, Inv, SetsTypeOK, PartitionKept, OrderedByIndex
  <2>4. CASE set1 # parent
    <3>1. /\ Join(set1, parent) /\ UNCHANGED shape /\ result' = 1
      BY <1>3, <2>4 DEF ReturnSecond
    <3>2. /\ set1 \in Element /\ parent \in Element
          /\ parents[set1] = set1 /\ parents[parent] = parent
      BY <2>1, WalkEndsAtRep DEF Inv, SetsTypeOK, WalkInSet, Walking
    <3>3. /\ parents' \in [Element -> Element] /\ rep' \in [Element -> Element]
          /\ PartitionKept' /\ OrderedByIndex'
      BY <2>4, <3>1, <3>2, JoinInv
    <3>4. numberOfSets' \in Int
      BY <3>1 DEF Join, Inv, SetsTypeOK
    <3>5. SetsTypeOK'
      BY <1>0, <2>1, <3>1, <3>3, <3>4 DEF Inv, SetsTypeOK, Walking
    <3> QED BY <2>2, <3>3, <3>5 DEF Inv
  <2> QED BY <2>3, <2>4
<1> QED BY <1>1, <1>2, <1>3

(***************************************************************************)
(* Every step keeps the invariant.                                         *)
(***************************************************************************)
LEMMA NextInv == Inv /\ [SetsNext]_setsVars => Inv'
<1> SUFFICES ASSUME Inv, [SetsNext]_setsVars PROVE Inv'
  OBVIOUS
<1>1. CASE MakeSet
  BY <1>1, MakeSetInv
<1>2. CASE Reset
  BY <1>2, ResetInv
<1>3. ASSUME NEW x \in Element, NEW y \in Element, Link(x, y) PROVE Inv'
  BY <1>3, LinkInv
<1>4. ASSUME NEW x \in Element, NEW y \in Element, CallQuickUnion(x, y) PROVE Inv'
  BY <1>4, CallInv
<1>5. ASSUME NEW x \in Element, CallFind(x) PROVE Inv'
  BY <1>5, CallInv
<1>6. CASE ReturnKnown \/ EnterFirst
  <2>1. set1 \in Element
    BY <1>6 DEF ReturnKnown, EnterFirst, Inv, SetsTypeOK
  <2> QED BY <1>6, <2>1, CallInv
<1>7. CASE Split \/ ReturnFind \/ ReturnFirst \/ ReturnSecond
  BY <1>7, SplitInv, ReturnInv
<1>8. CASE UNCHANGED setsVars
  BY <1>8 DEF setsVars, shape, locals, Walking, Inv, SetsTypeOK, PartitionKept, OrderedByIndex, WalkInSet, Element
<1> QED BY <1>1, <1>2, <1>3, <1>4, <1>5, <1>6, <1>7, <1>8 DEF SetsNext, Run

(***************************************************************************)
(* The invariant holds throughout: types are right, the array has room,    *)
(* pointers stay inside their sets and go up, and the locals of find are   *)
(* never stale (find, link, quickUnion, makeSet and init in                *)
(* DisjointSets.h, for any number of elements).                            *)
(***************************************************************************)
THEOREM InvHolds == SetsSpec => []Inv
BY SetsInitInv, NextInv, PTL DEF SetsSpec

\* Types, and the bounds of the array (makeSet's growth).
THEOREM SetsTypeCorrect == SetsSpec => []SetsTypeOK
<1>1. Inv => SetsTypeOK
  BY DEF Inv
<1> QED BY <1>1, InvHolds, PTL

(***************************************************************************)
(* No call of find, link or quickUnion ever moves an element out of its    *)
(* set other than by uniting it with another one.                          *)
(***************************************************************************)
THEOREM PartitionCorrect == SetsSpec => []PartitionKept
<1>1. Inv => PartitionKept
  BY DEF Inv
<1> QED BY <1>1, InvHolds, PTL

(***************************************************************************)
(* Pointers never go down, so following them comes to an end.              *)
(***************************************************************************)
THEOREM IndexOrder == SetsSpec => []OrderedByIndex
<1>1. Inv => OrderedByIndex
  BY DEF Inv
<1> QED BY <1>1, InvHolds, PTL

(***************************************************************************)
(* The locals of find are up to date at every round, and the root that     *)
(* quickUnion found first stays one while it looks for the second.         *)
(***************************************************************************)
THEOREM WalkCorrect == SetsSpec => []WalkInSet
<1>1. Inv => WalkInSet
  BY DEF Inv
<1> QED BY <1>1, InvHolds, PTL

(***************************************************************************)
(* find returns the representative of its argument.                        *)
(***************************************************************************)
THEOREM FindCorrect == SetsSpec => FindReturnsRep
<1>1. Inv /\ [SetsNext]_setsVars => [pc = "find" /\ pc' = "idle" => result' = rep[set1]]_setsVars
  <2> SUFFICES ASSUME Inv, SetsNext, pc = "find", pc' = "idle" PROVE result' = rep[set1]
    BY DEF setsVars, shape, locals
  <2>1. ReturnFind
    BY DEF SetsNext, MakeSet, Reset, Link, CallFind, CallQuickUnion,
           Run, Split, ReturnKnown, EnterFirst, ReturnFirst, ReturnSecond
  <2> QED BY <2>1, WalkEndsAtRep DEF ReturnFind, Walking
<1> QED BY <1>1, InvHolds, PTL DEF SetsSpec, FindReturnsRep

(***************************************************************************)
(* quickUnion unites the sets of its arguments and no other, and returns   *)
(* whether they were two sets; elements with the same parent, for which it *)
(* returns before any find, are in one.                                    *)
(***************************************************************************)
THEOREM QuickUnionCorrect == SetsSpec => QuickUnionUnites
<1> DEFINE United == /\ result' = 1 <=> rep[set1] # rep[set2]
                     /\ \A i, j \in Element :
                          rep'[i] = rep'[j] <=> \/ rep[i] = rep[j]
                                                \/ {rep[i], rep[j]} = {rep[set1], rep[set2]}
<1>1. Inv /\ ReturnKnown => United
  <2> SUFFICES ASSUME Inv, ReturnKnown PROVE United
    OBVIOUS
  <2>1. rep[set1] = rep[set2]
    BY DEF ReturnKnown, SameParent, Inv, SetsTypeOK, PartitionKept
  <2>2. result' = 0 /\ rep' = rep
    BY DEF ReturnKnown
  <2> QED BY <2>1, <2>2
<1>2. Inv /\ ReturnSecond => United
  <2> SUFFICES ASSUME Inv, ReturnSecond PROVE United
    OBVIOUS
  <2>1. ReturnSecond
    OBVIOUS
  <2>2. /\ parent = rep[set2] /\ parent \in Element
        /\ set1 \in Element /\ rep[set1] = set1
    BY <2>1, WalkEndsAtRep DEF ReturnSecond, Inv, SetsTypeOK, PartitionKept, WalkInSet, Walking
  <2>3. CASE set1 = parent
    BY <2>1, <2>2, <2>3 DEF ReturnSecond
  <2>4. CASE set1 # parent
    <3>1. result' = 1 /\ rep[set1] # rep[set2]
      BY <2>1, <2>2, <2>4 DEF ReturnSecond
    <3>2. \E winner, loser \in Element :
             /\ {winner, loser} = {rep[set1], rep[set2]}
             /\ rep' = [i \in Element |-> IF rep[i] = loser THEN winner ELSE rep[i]]
      <4>1. Join(set1, parent)
        BY <2>1, <2>4 DEF ReturnSecond
      <4>2. CASE set1 < parent
        BY <4>1, <4>2, <2>2 DEF Join
      <4>3. CASE ~(set1 < parent)
        BY <4>1, <4>3, <2>2 DEF Join
      <4> QED BY <4>2, <4>3
    <3> QED BY <3>1, <3>2
  <2> QED BY <2>3, <2>4
<1>3. Inv /\ [SetsNext]_setsVars => [UnionReturns => United]_setsVars
  <2> SUFFICES ASSUME Inv, SetsNext, UnionReturns PROVE United
    BY DEF setsVars, shape, locals
  <2>1. ReturnKnown \/ ReturnSecond
    BY DEF SetsNext, MakeSet, Reset, Link, CallFind, CallQuickUnion, UnionReturns,
           Run, Split, ReturnFind, EnterFirst, ReturnFirst
  <2> QED BY <2>1, <1>1, <1>2
<1> QED BY <1>3, InvHolds, PTL DEF SetsSpec, QuickUnionUnites

(***************************************************************************)
(* The number of sets is the number of roots.                              *)
(***************************************************************************)
Roots == {i \in Element : parents[i] = i}

LEMMA RootsFinite == SetsTypeOK => IsFiniteSet(Roots)
<1> SUFFICES ASSUME SetsTypeOK PROVE IsFiniteSet(Roots)
  OBVIOUS
<1>1. IsFiniteSet(Element)
  BY FS_Interval DEF SetsTypeOK, Element
<1> QED BY <1>1, FS_Subset DEF Roots

(***************************************************************************)
(* Uniting two sets leaves one root less.                                  *)
(***************************************************************************)
LEMMA JoinCounted ==
  ASSUME Inv, SetsCounted, NEW r1 \in Element, NEW r2 \in Element,
         parents[r1] = r1, parents[r2] = r2, r1 # r2,
         Join(r1, r2), UNCHANGED shape
  PROVE  SetsCounted'
<1>1. PICK winner \in Element, loser \in Element :
         /\ winner # loser /\ parents[loser] = loser
         /\ parents' = [parents EXCEPT ![loser] = winner]
  <2>1. CASE r1 < r2
    BY <2>1 DEF Join
  <2>2. CASE ~(r1 < r2)
    BY <2>2 DEF Join
  <2> QED BY <2>1, <2>2
<1>2. Roots' = Roots \ {loser} /\ loser \in Roots
  BY <1>1 DEF Roots, Element, shape, Inv, SetsTypeOK
<1>3. Cardinality(Roots') = Cardinality(Roots) - 1
  BY <1>2, RootsFinite, FS_RemoveElement DEF Inv
<1> QED BY <1>3 DEF Join, SetsCounted, Roots

THEOREM CountCorrect == SetsSpec => []SetsCounted
<1>1. SetsInit => SetsCounted
  BY FS_EmptySet DEF SetsInit, SetsCounted, Element
<1>2. Inv /\ SetsCounted /\ [SetsNext]_setsVars => SetsCounted'
  <2> SUFFICES ASSUME Inv, SetsCounted, [SetsNext]_setsVars PROVE SetsCounted'
    OBVIOUS
  <2>1. CASE MakeSet
    <3>1. Roots' = Roots \cup {numberOfElements} /\ numberOfElements \notin Roots
      BY <2>1 DEF MakeSet, GrownCapacity, Roots, Element, Inv, SetsTypeOK
    <3>2. Cardinality(Roots') = Cardinality(Roots) + 1
      BY <3>1, RootsFinite, FS_AddElement DEF Inv
    <3> QED BY <2>1, <3>2 DEF MakeSet, GrownCapacity, SetsCounted, Roots
  <2>2. CASE Reset
    <3>1. Roots' = {}
      BY <2>2 DEF Reset, Roots, Element
    <3> QED BY <2>2, <3>1, FS_EmptySet DEF Reset, SetsCounted, Roots
  <2>3. ASSUME NEW x \in Element, NEW y \in Element, Link(x, y) PROVE SetsCounted'
    <3>1. CASE x = y
      BY <2>3, <3>1 DEF Link, SetsCounted, Element, shape
    <3>2. CASE x # y
      BY <2>3, <3>2, JoinCounted DEF Link
    <3> QED BY <3>1, <3>2
  <2>4. CASE Split
    <3>1. Roots' = Roots
      <4>1. /\ parents' = [parents EXCEPT ![set] = grandParent]
            /\ parents[set] # set /\ grandParent # set
            /\ Element' = Element /\ set \in Element
        BY SMTT(20), <2>4 DEF Split, Walking, shape, Element, Inv, SetsTypeOK, WalkInSet, OrderedByIndex
      <4> QED BY <4>1 DEF Roots, Inv, SetsTypeOK
    <3> QED BY <2>4, <3>1 DEF Split, SetsCounted, Roots
  <2>5. CASE ReturnSecond
    <3>1. CASE set1 = parent
      BY <2>5, <3>1 DEF ReturnSecond, SetsCounted, Element, shape
    <3>2. CASE set1 # parent
      <4>1. /\ set1 \in Element /\ parents[set1] = set1
            /\ parent \in Element /\ parents[parent] = parent
        BY <2>5, WalkEndsAtRep DEF ReturnSecond, Inv, SetsTypeOK, WalkInSet, Walking
      <4> QED BY <2>5, <3>2, <4>1, JoinCounted DEF ReturnSecond
    <3> QED BY <3>1, <3>2
  <2>6. CASE UNCHANGED <<parents, numberOfElements, numberOfSets>>
    BY <2>6 DEF SetsCounted, Element
  <2> QED BY <2>1, <2>2, <2>3, <2>4, <2>5, <2>6
          DEF SetsNext, Run, CallFind, CallQuickUnion, ReturnKnown, EnterFirst,
              ReturnFind, ReturnFirst, setsVars, shape
<1> QED BY <1>1, <1>2, InvHolds, PTL DEF SetsSpec

(***************************************************************************)
(* find never moves a pointer down, nor does a union.                      *)
(***************************************************************************)
THEOREM PointersGoUp == SetsSpec => NeverDown
<1> DEFINE Up == \A i \in Element \cap Element' : parents[i] <= parents'[i]
<1>1. Inv /\ [SetsNext]_setsVars => [Up]_setsVars
  <2> SUFFICES ASSUME Inv, SetsNext PROVE Up
    OBVIOUS
  <2>0. \A i \in Element : parents[i] \in Int /\ i \in Int
    BY DEF Inv, SetsTypeOK, Element
  <2>1. CASE MakeSet
    <3>1. \A i \in Element : parents'[i] = parents[i]
      BY <2>1 DEF MakeSet, GrownCapacity, Element, Inv, SetsTypeOK
    <3> QED BY <2>0, <3>1
  <2>2. CASE Reset
    BY <2>2 DEF Reset, Element
  <2>3. ASSUME NEW x \in Element, NEW y \in Element, Join(x, y),
               parents[x] = x, parents[y] = y
        PROVE  Up
    <3>1. CASE x < y
      BY <2>0, <2>3, <3>1 DEF Join, Inv, SetsTypeOK
    <3>2. CASE ~(x < y)
      BY <2>0, <2>3, <3>2 DEF Join, Inv, SetsTypeOK
    <3> QED BY <3>1, <3>2
  <2>4. CASE Split
    <3>1. /\ set \in Element /\ parent \in Element
          /\ parents[set] <= grandParent
          /\ parents' = [parents EXCEPT ![set] = grandParent]
      BY <2>4 DEF Split, Walking, Inv, SetsTypeOK, WalkInSet, OrderedByIndex
    <3> QED BY <2>0, <3>1 DEF Inv, SetsTypeOK
  <2>5. CASE UNCHANGED parents
    BY <2>0, <2>5
  <2>6. ASSUME NEW x \in Element, NEW y \in Element, Link(x, y) PROVE Up
    BY <2>3, <2>5, <2>6 DEF Link
  <2>7. CASE ReturnSecond
    <3>1. /\ set1 \in Element /\ parents[set1] = set1
          /\ parent \in Element /\ parents[parent] = parent
      BY <2>7, WalkEndsAtRep DEF ReturnSecond, Inv, SetsTypeOK, WalkInSet, Walking
    <3> QED BY <2>3, <2>5, <2>7, <3>1 DEF ReturnSecond
  <2> QED BY <2>1, <2>2, <2>4, <2>5, <2>6, <2>7
          DEF SetsNext, Run, CallFind, CallQuickUnion, ReturnKnown, EnterFirst, ReturnFind, ReturnFirst
<1> QED BY <1>1, InvHolds, PTL DEF SetsSpec, NeverDown

(***************************************************************************)
(* CNodeParents with the representatives for its find.                     *)
(***************************************************************************)
Finds == INSTANCE CNodeParents WITH find <- rep

\* makeSet() as in Register, link() as in MergeIntoParent, init() as in Clear.
SeenAsFind ==
  \/ LET next == Cardinality(Finds!Id)
     IN  rep' = [i \in 0..next |-> IF i = next THEN i ELSE rep[i]]
  \/ \E i, j \in Finds!Id : i # j /\ rep[i] = i /\ rep[j] = j /\ rep' = Finds!Linked(i, j)
  \/ rep' = [i \in {} |-> EmptyId]
  \/ UNCHANGED rep

(***************************************************************************)
(* Whatever the rounds of find do to the pointers, the representatives     *)
(* start like the find of CNodeParents, and only change in the ways in     *)
(* which it does.                                                          *)
(***************************************************************************)
THEOREM RepsAreFinds == SetsSpec => rep = [i \in {} |-> EmptyId] /\ [][SeenAsFind]_setsVars
<1>2. SetsInit => rep = [i \in {} |-> EmptyId]
  <2> SUFFICES ASSUME SetsInit PROVE rep = [i \in {} |-> EmptyId]
    OBVIOUS
  <2> QED BY DEF SetsInit
<1>1. Inv /\ [SetsNext]_setsVars => [SeenAsFind]_setsVars
  <2> SUFFICES ASSUME Inv, SetsNext PROVE SeenAsFind
    OBVIOUS
  <2>1. SetsTypeOK /\ PartitionKept /\ WalkInSet
    BY DEF Inv
  <2>2. Finds!Id = Element /\ Cardinality(Finds!Id) = numberOfElements /\ DOMAIN rep = Element
    <3>1. DOMAIN rep = 0..(numberOfElements - 1) /\ numberOfElements \in Nat
      BY <2>1 DEF SetsTypeOK, Element
    <3>2. Cardinality(0..(numberOfElements - 1)) = numberOfElements
      BY <3>1, FS_Interval
    <3> QED BY <3>1, <3>2 DEF Finds!Id, Element
  <2>3. ASSUME NEW r1 \in Element, NEW r2 \in Element, r1 # r2, parents[r1] = r1, parents[r2] = r2, Join(r1, r2)
        PROVE  SeenAsFind
    <3>1. rep[r1] = r1 /\ rep[r2] = r2 /\ r1 \in Int /\ r2 \in Int
      BY <2>1, <2>3 DEF PartitionKept, Element
    <3>2. PICK winner, loser : /\ winner = (IF r1 < r2 THEN r2 ELSE r1)
                               /\ loser = (IF r1 < r2 THEN r1 ELSE r2)
      OBVIOUS
    <3>3. rep' = [i \in Element |-> IF rep[i] = loser THEN winner ELSE rep[i]]
      BY <2>3, <3>2 DEF Join
    <3>4. {r1, r2} = {winner, loser}
      BY <3>1, <3>2
    <3>5. Finds!Linked(r1, r2) = [k \in Element |-> IF rep[k] \in {winner, loser} THEN winner ELSE rep[k]]
      BY <2>2, <3>2, <3>4 DEF Finds!Linked, Finds!Id
    <3>6. rep' = Finds!Linked(r1, r2)
      BY <3>3, <3>5
    <3> QED BY <2>2, <2>3, <3>1, <3>6 DEF SeenAsFind
  <2>4. CASE MakeSet
    BY <2>2, <2>4 DEF MakeSet, SeenAsFind
  <2>5. CASE Reset
    <3>1. rep' = [i \in {} |-> EmptyId]
      BY <2>5 DEF Reset
    <3> QED BY <3>1 DEF SeenAsFind
  <2>6. ASSUME NEW x \in Element, NEW y \in Element, Link(x, y) PROVE SeenAsFind
    <3>1. CASE x = y
      BY <2>6, <3>1 DEF Link, SeenAsFind
    <3>2. CASE x # y
      BY <2>3, <2>6, <3>2 DEF Link
    <3> QED BY <3>1, <3>2
  <2>7. CASE ReturnSecond
    <3>1. CASE set1 = parent
      BY <2>7, <3>1 DEF ReturnSecond, SeenAsFind
    <3>2. CASE set1 # parent
      <4>1. parents[set1] = set1 /\ set1 \in Element /\ parent \in Element
        BY <2>1, <2>7 DEF ReturnSecond, WalkInSet, SetsTypeOK, Walking
      <4>2. parents[parent] = parent
        BY <2>1, <2>7 DEF ReturnSecond, WalkInSet, Walking
      <4> QED BY <2>3, <2>7, <3>2, <4>1, <4>2 DEF ReturnSecond
    <3> QED BY <3>1, <3>2
  <2>8. CASE Split \/ ReturnFind \/ ReturnKnown \/ EnterFirst \/ ReturnFirst
    BY <2>8 DEF Split, ReturnFind, ReturnKnown, EnterFirst, ReturnFirst, SeenAsFind
  <2>9. ASSUME NEW x \in Element, NEW y \in Element, CallFind(x) \/ CallQuickUnion(x, y)
        PROVE  SeenAsFind
    BY <2>9 DEF CallFind, CallQuickUnion, SeenAsFind
  <2> QED BY <2>4, <2>5, <2>6, <2>7, <2>8, <2>9 DEF SetsNext, Run
<1> QED BY <1>1, <1>2, InvHolds, PTL DEF SetsSpec

(***************************************************************************)
(* CNodeParents.                                                           *)
(***************************************************************************)
Placed == {x \in Node : status[x] \in {"used", "out"}}

\* What the two fields of a node say about its parent.
DetachedRef(x) ==
  /\ parentCNodeId[x] = EmptyId
  /\ x \in Placed => parentPNode[x] = Nil

AttachedRef(x) ==
  /\ up[x] \in Placed /\ x \in Placed
  /\ status[up[x]] = status[x]
  /\ IF type[up[x]] = "C"
       THEN /\ parentPNode[x] = Nil
            /\ parentCNodeId[x] \in Id
            /\ find[parentCNodeId[x]] = nodeListIndex[up[x]]
            /\ find[nodeListIndex[up[x]]] = nodeListIndex[up[x]]
       ELSE parentPNode[x] = up[x] /\ parentCNodeId[x] = EmptyId

RefExact(x) == IF up[x] = Nil THEN DetachedRef(x) ELSE AttachedRef(x)

RefsExact == \A x \in Node : RefExact(x)

\* Which indices belong to which nodes.
HasIndex(x) == x \in Placed /\ type[x] = "C"

IndicesOwned ==
  /\ \A x \in Node : nodeListIndex[x] \in Id <=> HasIndex(x)
  /\ \A x, y \in Node : HasIndex(x) /\ HasIndex(y) /\ nodeListIndex[x] = nodeListIndex[y] => x = y

EntriesRight ==
  /\ \A x \in Node : HasIndex(x) => IF status[x] = "used"
                                       THEN cNodes[nodeListIndex[x]] = x
                                       ELSE find[nodeListIndex[x]] = nodeListIndex[x]
  /\ \A i \in Id : cNodes[i] # Nil => /\ status[cNodes[i]] = "used"
                                      /\ type[cNodes[i]] = "C"
                                      /\ nodeListIndex[cNodes[i]] = i

FindIdempotent == \A i \in Id : find[find[i]] = find[i]

\* The inductive invariant.
IInv ==
  /\ TypeOK /\ NextId \in Nat
  /\ RefsExact /\ IndicesOwned /\ EntriesRight /\ FindIdempotent
  /\ PoolLinked

(***************************************************************************)
(* The empty forest satisfies the invariant.                               *)
(***************************************************************************)
LEMMA InitInv == Init => IInv
<1> SUFFICES ASSUME Init PROVE IInv
  OBVIOUS
<1>1. Id = {} /\ NextId = 0
  BY FS_EmptySet DEF Init, Id, NextId
<1>2. TypeOK
  BY <1>1, NodesAssumption DEF Init, TypeOK, NodeType, EmptyId
<1>3. RefsExact /\ IndicesOwned /\ EntriesRight /\ FindIdempotent
  BY <1>1 DEF Init, RefsExact, RefExact, DetachedRef, Placed, IndicesOwned, HasIndex, EntriesRight,
              FindIdempotent
<1>4. PoolLinked
  BY DEF Init, PoolLinked
<1> QED BY <1>1, <1>2, <1>3, <1>4 DEF IInv

(***************************************************************************)
(* getParent() is right where the references are, and the index that it    *)
(* leaves behind is found in the same way.                                 *)
(***************************************************************************)
LEMMA ParentIsUp ==
  ASSUME IInv, NEW x \in Used
  PROVE  Parent(x) = up[x]
<1>1. x \in Node /\ x \in Placed /\ Nil \notin Node
  BY NodesAssumption DEF Used, Placed
<1>2. CASE up[x] = Nil
  BY <1>1, <1>2 DEF IInv, RefsExact, RefExact, DetachedRef, Parent
<1>3. CASE up[x] # Nil
  <2>1. AttachedRef(x) /\ up[x] \in Node
    BY <1>1, <1>3 DEF IInv, RefsExact, RefExact, TypeOK
  <2>2. CASE type[up[x]] = "C"
    <3>1. HasIndex(up[x]) /\ status[up[x]] = "used"
      BY <2>1, <2>2 DEF AttachedRef, HasIndex, Used
    <3>2. cNodes[nodeListIndex[up[x]]] = up[x]
      BY <2>1, <3>1 DEF IInv, EntriesRight
    <3>3. parentCNodeId[x] # EmptyId
      BY <2>1, <2>2 DEF AttachedRef, IInv, TypeOK, EmptyId
    <3> QED BY <2>1, <2>2, <3>2, <3>3 DEF AttachedRef, Parent
  <2>3. CASE type[up[x]] # "C"
    BY <1>3, <2>1, <2>3 DEF AttachedRef, Parent
  <2> QED BY <2>2, <2>3
<1> QED BY <1>2, <1>3

(***************************************************************************)
(* A node in a tree whose fields are empty has no parent.                  *)
(***************************************************************************)
LEMMA DetachedHasNoUp ==
  ASSUME IInv, NEW x \in Node, IsDetached(x)
  PROVE  up[x] = Nil
<1> SUFFICES ASSUME up[x] # Nil PROVE FALSE
  OBVIOUS
<1>1. AttachedRef(x)
  BY DEF IInv, RefsExact, RefExact
<1> QED BY <1>1 DEF AttachedRef, IsDetached, IInv, TypeOK, EmptyId

(***************************************************************************)
(* A node that is in no tree has no child.                                 *)
(***************************************************************************)
LEMMA OnlyPlacedHaveKids ==
  ASSUME IInv, NEW x \in Node, x \notin Placed
  PROVE  /\ up[x] = Nil /\ parentCNodeId[x] = EmptyId
         /\ \A y \in Node : up[y] # x
BY NodesAssumption DEF IInv, RefsExact, RefExact, AttachedRef, DetachedRef

(***************************************************************************)
(* The list of reusable nodes is disturbed by nothing that leaves it and   *)
(* the references of its members alone.                                    *)
(***************************************************************************)
LEMMA PoolKept ==
  ASSUME PoolLinked, UNCHANGED pool,
         {x \in Node : status[x] = "free"} = {x \in Node : status'[x] = "free"},
         \A x \in Node : status[x] = "free" => parentPNode'[x] = parentPNode[x]
  PROVE  PoolLinked'
BY DEF PoolLinked, pool

(***************************************************************************)
(* What unregisterNode and registerNode do to the tables: a C-node that is *)
(* registered is the last entry and alone in its set, one that is not      *)
(* registered any more has no entry; everything else stays.                *)
(***************************************************************************)
LEMMA RegisterTables ==
  ASSUME IInv, NEW x \in Node, NEW old \in NodeType \cup {"none"},
         NEW new \in NodeType \cup {"none"}, Register(x, old, new),
         old = "C" => nodeListIndex[x] \in Id
  PROVE  /\ Id' = (IF new = "C" THEN Id \cup {NextId} ELSE Id) /\ NextId \notin Id
         /\ NextId' \in Nat /\ Id' = 0..(NextId' - 1)
         /\ find' \in [Id' -> Id'] /\ cNodes' \in [Id' -> Node \cup {Nil}]
         /\ nodeListIndex' \in [Node -> Id' \cup {EmptyId}]
         /\ \A i \in Id' : find'[i] = IF i \in Id THEN find[i] ELSE i
         /\ \A i \in Id' : cNodes'[i] = IF i \notin Id THEN x
                                        ELSE IF old = "C" /\ i = nodeListIndex[x] THEN Nil
                                        ELSE cNodes[i]
         /\ \A y \in Node : nodeListIndex'[y] = IF y # x THEN nodeListIndex[y]
                                                ELSE IF new = "C" THEN NextId
                                                ELSE IF old = "C" THEN EmptyId
                                                ELSE nodeListIndex[x]
<1>1. /\ NextId \in Nat /\ Id = 0..(NextId - 1) /\ find \in [Id -> Id]
      /\ cNodes \in [Id -> Node \cup {Nil}] /\ nodeListIndex \in [Node -> Id \cup {EmptyId}]
  BY DEF IInv, TypeOK
<1>2. /\ Without(x, old) \in [Id -> Node \cup {Nil}]
      /\ \A i \in Id : Without(x, old)[i] = IF old = "C" /\ i = nodeListIndex[x] THEN Nil
                                            ELSE cNodes[i]
  BY <1>1 DEF Without
<1>3. CASE new = "C"
  <2>1. /\ find' = [i \in 0..NextId |-> IF i = NextId THEN i ELSE find[i]]
        /\ cNodes' = [i \in 0..NextId |-> IF i = NextId THEN x ELSE Without(x, old)[i]]
        /\ nodeListIndex' = [nodeListIndex EXCEPT ![x] = NextId]
    BY <1>3 DEF Register
  <2>2. Id' = 0..NextId /\ Id' = Id \cup {NextId} /\ NextId \notin Id
    BY <1>1, <2>1 DEF Id
  <2>3. NextId' = NextId + 1
    <3>1. Cardinality(0..NextId) = NextId + 1
      BY <1>1, FS_Interval
    <3> QED BY <2>2, <3>1 DEF NextId
  <2>4. NextId' \in Nat /\ Id' = 0..(NextId' - 1)
    BY <1>1, <2>2, <2>3
  <2> HIDE DEF Id, NextId
  <2>5. /\ find' \in [Id' -> Id']
        /\ \A i \in Id' : find'[i] = IF i \in Id THEN find[i] ELSE i
    BY <1>1, <2>1, <2>2
  <2>6. /\ cNodes' \in [Id' -> Node \cup {Nil}]
        /\ \A i \in Id' : cNodes'[i] = IF i \in Id THEN Without(x, old)[i] ELSE x
    BY <1>2, <2>1, <2>2
  <2>7. /\ nodeListIndex' \in [Node -> Id' \cup {EmptyId}]
        /\ \A y \in Node : nodeListIndex'[y] = IF y = x THEN NextId ELSE nodeListIndex[y]
    BY <1>1, <2>1, <2>2
  <2> QED BY <1>2, <1>3, <2>2, <2>4, <2>5, <2>6, <2>7
<1>4. CASE new # "C"
  <2>1. find' = find /\ cNodes' = Without(x, old) /\ nodeListIndex' = WithoutIndex(x, old)
    BY <1>4 DEF Register
  <2>2. Id' = Id /\ NextId' = NextId /\ NextId \notin Id
    BY <1>1, <2>1 DEF Id, NextId
  <2>3. /\ WithoutIndex(x, old) \in [Node -> Id \cup {EmptyId}]
        /\ \A y \in Node : WithoutIndex(x, old)[y] = IF y = x /\ old = "C" THEN EmptyId
                                                     ELSE nodeListIndex[y]
    BY <1>1 DEF WithoutIndex
  <2> QED BY <1>1, <1>2, <1>4, <2>1, <2>2, <2>3
<1> QED BY <1>3, <1>4

(***************************************************************************)
(* The counters and the set of leaves keep their types.                    *)
(***************************************************************************)
LEMMA RegisterCounts ==
  ASSUME IInv, NEW x \in Node, NEW old, NEW new, Register(x, old, new)
  PROVE  leaves' \subseteq Node /\ pNodeCount' \in Int /\ cNodeCount' \in Int
BY DEF IInv, TypeOK, Register, Count, Bit

(***************************************************************************)
(* The tables are right again after a registration that fits to the change *)
(* of the node: it is a C-node in use afterwards exactly if it is          *)
(* registered as one.                                                      *)
(***************************************************************************)
LEMMA RegisterInv ==
  ASSUME IInv, NEW x \in Node, NEW old \in NodeType \cup {"none"},
         NEW new \in NodeType \cup {"none"}, Register(x, old, new),
         old = "C" <=> HasIndex(x), new = "C" <=> HasIndex(x)',
         new = "C" => status'[x] = "used",
         \A y \in Node \ {x} : status'[y] = status[y] /\ type'[y] = type[y]
  PROVE  IndicesOwned' /\ EntriesRight' /\ FindIdempotent'
<1>1. nodeListIndex[x] \in Id <=> old = "C"
  BY DEF IInv, IndicesOwned
<1>2. \A y \in Node \ {x} : HasIndex(y)' <=> HasIndex(y)
  BY DEF HasIndex, Placed
<1>3. /\ Id' = (IF new = "C" THEN Id \cup {NextId} ELSE Id) /\ NextId \notin Id
      /\ \A i \in Id' : find'[i] = IF i \in Id THEN find[i] ELSE i
  BY <1>1, RegisterTables
<1>4. \A i \in Id' : cNodes'[i] = IF i \notin Id THEN x
                                  ELSE IF old = "C" /\ i = nodeListIndex[x] THEN Nil
                                  ELSE cNodes[i]
  BY <1>1, RegisterTables
<1>5. \A y \in Node : nodeListIndex'[y] = IF y # x THEN nodeListIndex[y]
                                          ELSE IF new = "C" THEN NextId
                                          ELSE IF old = "C" THEN EmptyId
                                          ELSE nodeListIndex[x]
  BY <1>1, RegisterTables
<1>6. EmptyId \notin Id' /\ NextId # EmptyId /\ \A i \in Id : find[i] \in Id
  <2>1. NextId' \in Nat /\ Id' = 0..(NextId' - 1)
    BY <1>1, RegisterTables
  <2> QED BY <2>1 DEF IInv, TypeOK, EmptyId
<1>7. IndicesOwned'
  <2>1. \A y \in Node : nodeListIndex'[y] \in Id' <=> HasIndex(y)'
    <3> SUFFICES ASSUME NEW y \in Node PROVE nodeListIndex'[y] \in Id' <=> HasIndex(y)'
      OBVIOUS
    <3>1. CASE y = x
      BY <1>1, <1>3, <1>5, <1>6, <3>1
    <3>2. CASE y # x
      <4>1. nodeListIndex[y] \in Id \cup {EmptyId} /\ EmptyId \notin Id
        BY <1>3, <1>6 DEF IInv, TypeOK
      <4> QED BY <1>2, <1>3, <1>5, <1>6, <3>2, <4>1 DEF IInv, IndicesOwned
    <3> QED BY <3>1, <3>2
  <2>2. ASSUME NEW y \in Node, NEW z \in Node, HasIndex(y)', HasIndex(z)',
               nodeListIndex'[y] = nodeListIndex'[z]
        PROVE  y = z
    <3>1. \A u \in Node \ {x} : HasIndex(u)' => nodeListIndex[u] \in Id
      BY <1>2 DEF IInv, IndicesOwned
    <3> QED BY <1>2, <1>3, <1>5, <2>2, <3>1 DEF IInv, IndicesOwned
  <2> QED BY <2>1, <2>2 DEF IndicesOwned
<1>8. EntriesRight'
  <2>1. ASSUME NEW y \in Node, HasIndex(y)'
        PROVE  IF status'[y] = "used" THEN cNodes'[nodeListIndex'[y]] = y
               ELSE find'[nodeListIndex'[y]] = nodeListIndex'[y]
    <3>1. CASE y = x
      BY <1>3, <1>4, <1>5, <2>1, <3>1
    <3>2. CASE y # x
      <4>1. HasIndex(y) /\ nodeListIndex[y] \in Id /\ nodeListIndex'[y] = nodeListIndex[y]
        BY <1>2, <1>5, <2>1, <3>2 DEF IInv, IndicesOwned
      <4>2. old = "C" => nodeListIndex[y] # nodeListIndex[x]
        BY <3>2, <4>1 DEF IInv, IndicesOwned
      <4> QED BY <1>3, <1>4, <3>2, <4>1, <4>2 DEF IInv, EntriesRight
    <3> QED BY <3>1, <3>2
  <2>2. ASSUME NEW i \in Id', cNodes'[i] # Nil
        PROVE  /\ status'[cNodes'[i]] = "used" /\ type'[cNodes'[i]] = "C"
               /\ nodeListIndex'[cNodes'[i]] = i
    <3>1. CASE i \notin Id
      BY <1>3, <1>4, <1>5, <3>1 DEF HasIndex
    <3>2. CASE i \in Id
      <4>1. cNodes'[i] = cNodes[i] /\ ~(old = "C" /\ i = nodeListIndex[x])
        BY <1>4, <2>2, <3>2
      <4>2. /\ cNodes[i] \in Node /\ status[cNodes[i]] = "used" /\ type[cNodes[i]] = "C"
            /\ nodeListIndex[cNodes[i]] = i
        BY <2>2, <3>2, <4>1 DEF IInv, TypeOK, EntriesRight
      <4>3. cNodes[i] # x
        BY <3>2, <4>1, <4>2, <1>1
      <4> QED BY <1>5, <4>1, <4>2, <4>3
    <3> QED BY <3>1, <3>2
  <2> QED BY <2>1, <2>2 DEF EntriesRight
<1>9. FindIdempotent'
  BY <1>3, <1>6 DEF IInv, FindIdempotent
<1> QED BY <1>7, <1>8, <1>9

(***************************************************************************)
(* The reference of a node stays right if neither the node nor its parent  *)
(* changes and the sets of indices only become more.                       *)
(***************************************************************************)
LEMMA RefKept ==
  ASSUME IInv, NEW y \in Node,
         Id \subseteq Id', \A i \in Id : find'[i] = find[i],
         status'[y] = status[y], up'[y] = up[y],
         parentPNode'[y] = parentPNode[y], parentCNodeId'[y] = parentCNodeId[y],
         up[y] # Nil => /\ status'[up[y]] = status[up[y]] /\ type'[up[y]] = type[up[y]]
                        /\ nodeListIndex'[up[y]] = nodeListIndex[up[y]]
  PROVE  RefExact(y)'
<1>1. y \in Placed' <=> y \in Placed
  BY DEF Placed
<1>2. CASE up[y] = Nil
  BY <1>1, <1>2 DEF IInv, RefsExact, RefExact, DetachedRef
<1>3. CASE up[y] # Nil
  <2>1. AttachedRef(y)
    BY <1>3 DEF IInv, RefsExact, RefExact
  <2>2. up[y] \in Placed' /\ status'[up[y]] = status'[y]
    BY <1>3, <2>1 DEF AttachedRef, Placed
  <2>3. type[up[y]] = "C" => nodeListIndex[up[y]] \in Id
    BY <2>1 DEF AttachedRef, Placed, IInv, IndicesOwned, HasIndex
  <2> QED BY <1>1, <1>3, <2>1, <2>2, <2>3 DEF RefExact, AttachedRef
<1> QED BY <1>2, <1>3

(***************************************************************************)
(* newNode: the node that is taken from the list, or allocated, was in no  *)
(* tree, and the list loses its head alone.                                *)
(***************************************************************************)
LEMMA NewNodeInv ==
  ASSUME IInv, NEW x \in Node, NEW t \in NodeType, NEW p \in Node \cup {Nil}, NewNode(x, t, p)
  PROVE  IInv'
<1>1. x \notin Placed
  BY NodesAssumption DEF NewNode, IInv, PoolLinked, Placed, TypeOK
<1>2. up[x] = Nil /\ parentCNodeId[x] = EmptyId /\ \A y \in Node : up[y] # x
  BY <1>1, OnlyPlacedHaveKids
<1>3. ~HasIndex(x)
  BY <1>1 DEF HasIndex
<1>4. /\ status' = [status EXCEPT ![x] = "used"] /\ type' = [type EXCEPT ![x] = t]
      /\ parentPNode' = [parentPNode EXCEPT ![x] = PRef(p)]
      /\ up' = [up EXCEPT ![x] = p] /\ root' \in {x, root}
      /\ Register(x, "none", t)
      /\ p # Nil => p \in Used /\ p # x /\ ValidNode(p)
  BY DEF NewNode, MayHaveChild, ValidNode, Used
<1>5. parentCNodeId' = [parentCNodeId EXCEPT ![x] = CRef(p)]
  BY <1>2 DEF NewNode, CRef, IInv, TypeOK
<1>6. \A y \in Node \ {x} : /\ status'[y] = status[y] /\ type'[y] = type[y] /\ up'[y] = up[y]
                            /\ parentPNode'[y] = parentPNode[y]
                            /\ parentCNodeId'[y] = parentCNodeId[y]
  BY <1>4, <1>5 DEF IInv, TypeOK
<1>7. /\ status'[x] = "used" /\ type'[x] = t /\ up'[x] = p
      /\ parentPNode'[x] = PRef(p) /\ parentCNodeId'[x] = CRef(p)
  BY <1>4, <1>5 DEF IInv, TypeOK
<1>8. HasIndex(x)' <=> t = "C"
  BY <1>7 DEF HasIndex, Placed
<1>9. "none" # "C" /\ "none" \in NodeType \cup {"none"} /\ t \in NodeType \cup {"none"}
  OBVIOUS
<1>10. IndicesOwned' /\ EntriesRight' /\ FindIdempotent'
  BY <1>3, <1>4, <1>6, <1>7, <1>8, <1>9, RegisterInv
<1>11. /\ Id \subseteq Id' /\ NextId' \in Nat /\ Id' = 0..(NextId' - 1)
       /\ \A i \in Id : find'[i] = find[i]
       /\ \A y \in Node \ {x} : nodeListIndex'[y] = nodeListIndex[y]
       /\ find' \in [Id' -> Id'] /\ cNodes' \in [Id' -> Node \cup {Nil}]
       /\ nodeListIndex' \in [Node -> Id' \cup {EmptyId}]
  BY <1>4, <1>9, RegisterTables
<1>12. IsCNode(p) => nodeListIndex[p] \in Id /\ find[nodeListIndex[p]] = nodeListIndex[p]
  BY <1>4 DEF IsCNode, ValidNode, Used, HasIndex, Placed, IInv, IndicesOwned
<1>13. TypeOK'
  <2>1. leaves' \subseteq Node /\ pNodeCount' \in Int /\ cNodeCount' \in Int
    BY <1>4, RegisterCounts
  <2>2. reusable' \in Node \cup {Nil} /\ place' \in [Node -> Nat] /\ poolSize' \in Nat
    BY NodesAssumption DEF NewNode, pool, IInv, PoolLinked, TypeOK
  <2>3. PRef(p) \in Node \cup {Nil} /\ CRef(p) \in Id \cup {EmptyId}
    BY <1>12 DEF PRef, CRef, IsCNode
  <2>4. parentCNodeId' \in [Node -> Id' \cup {EmptyId}]
    BY <1>5, <1>11, <2>3 DEF IInv, TypeOK
  <2>5. /\ status' \in [Node -> {"fresh", "used", "out", "free"}] /\ type' \in [Node -> NodeType]
        /\ parentPNode' \in [Node -> Node \cup {Nil}] /\ up' \in [Node -> Node \cup {Nil}]
        /\ root' \in Node \cup {Nil}
    BY <1>4, <2>3 DEF IInv, TypeOK
  <2> QED BY <1>11, <2>1, <2>2, <2>4, <2>5 DEF TypeOK
<1>14. RefsExact'
  <2> SUFFICES ASSUME NEW y \in Node PROVE RefExact(y)'
    BY DEF RefsExact
  <2>1. CASE y = x /\ p = Nil
    BY <1>7, <2>1 DEF RefExact, DetachedRef, PRef, CRef, IsCNode
  <2>2. CASE y = x /\ p # Nil
    <3>1. p \in Placed' /\ x \in Placed' /\ status'[p] = "used" /\ type'[p] = type[p]
      BY <1>4, <1>6, <1>7, <2>2 DEF Used, Placed
    <3>2. nodeListIndex'[p] = nodeListIndex[p]
      BY <1>4, <1>11, <2>2 DEF Used
    <3>3. IsCNode(p) => find'[nodeListIndex[p]] = nodeListIndex[p] /\ nodeListIndex[p] \in Id'
      BY <1>11, <1>12
    <3> QED BY <1>7, <2>2, <3>1, <3>2, <3>3 DEF RefExact, AttachedRef, PRef, CRef, IsCNode
  <2>3. CASE y # x
    <3>1. up[y] # Nil => up[y] \in Node \ {x}
      BY <1>2 DEF IInv, TypeOK
    <3> QED BY <1>6, <1>11, <2>3, <3>1, RefKept
  <2> QED BY <2>1, <2>2, <2>3
<1>15. PoolLinked'
  <2> DEFINE free == {y \in Node : status[y] = "free"}
  <2>1. free' = free \ {x} /\ \A y \in free \ {x} : parentPNode'[y] = parentPNode[y]
    BY <1>6, <1>7
  <2>2. CASE reusable = Nil
    <3>1. status[x] = "fresh" /\ UNCHANGED pool
      BY <2>2 DEF NewNode
    <3>2. free' = free
      BY <2>1, <3>1
    <3> QED BY <2>1, <3>1, <3>2, PoolKept DEF IInv
  <2>3. CASE reusable # Nil
    <3>1. /\ x = reusable /\ reusable' = parentPNode[x]
          /\ place' = [place EXCEPT ![x] = 0] /\ poolSize' = poolSize - 1
      BY <2>3 DEF NewNode
    <3>2. /\ poolSize # 0 /\ x \in free /\ place[x] = poolSize /\ poolSize \in Nat
          /\ place \in [Node -> Nat]
      BY <2>3, <3>1 DEF IInv, PoolLinked, TypeOK
    <3>3. \A y \in free' : place'[y] = place[y] /\ place[y] \in 1..poolSize'
      <4>1. /\ \A y \in free : place[y] \in 1..poolSize
            /\ \A y \in free : place[y] = place[x] => y = x
        BY <3>2 DEF IInv, PoolLinked
      <4>2. free' \subseteq Node /\ \A y \in free' : y \in free /\ y # x
        BY <2>1
      <4> HIDE DEF free
      <4> QED BY <3>1, <3>2, <4>1, <4>2
    <3>4. \A y, z \in free' : place'[y] = place'[z] => y = z
      BY <2>1, <3>3 DEF IInv, PoolLinked
    <3>5. IF poolSize' = 0 THEN reusable' = Nil
          ELSE reusable' \in free' /\ place'[reusable'] = poolSize'
      BY <2>1, <3>1, <3>2 DEF IInv, PoolLinked
    <3>6. ASSUME NEW y \in free'
          PROVE  IF place'[y] = 1 THEN parentPNode'[y] = Nil
                 ELSE parentPNode'[y] \in free' /\ place'[parentPNode'[y]] = place'[y] - 1
      <4>1. y \in free /\ place'[y] = place[y] /\ place[y] < poolSize /\ parentPNode'[y] = parentPNode[y]
        BY <2>1, <3>1, <3>2, <3>3
      <4>2. IF place[y] = 1 THEN parentPNode[y] = Nil
            ELSE parentPNode[y] \in free /\ place[parentPNode[y]] = place[y] - 1
        BY <4>1 DEF IInv, PoolLinked
      <4>3. place[y] # 1 => parentPNode[y] \in free' /\ place'[parentPNode[y]] = place[parentPNode[y]]
        BY <2>1, <3>2, <3>3, <4>1, <4>2
      <4> QED BY <4>1, <4>2, <4>3
    <3> HIDE DEF free
    <3> QED BY <3>3, <3>4, <3>5, <3>6 DEF PoolLinked, free
  <2> QED BY <2>2, <2>3
<1> QED BY <1>10, <1>11, <1>13, <1>14, <1>15 DEF IInv

(***************************************************************************)
(* Operations that write references only keep the invariant if the         *)
(* references are right afterwards.                                        *)
(***************************************************************************)
LEMMA RefsOnly ==
  ASSUME IInv, UNCHANGED <<status, type, nodeListIndex, table, pool, counts>>,
         parentPNode' \in [Node -> Node \cup {Nil}],
         parentCNodeId' \in [Node -> Id \cup {EmptyId}],
         up' \in [Node -> Node \cup {Nil}], root' \in Node \cup {Nil},
         \A y \in Node : RefExact(y)',
         \A y \in Node : status[y] = "free" => parentPNode'[y] = parentPNode[y]
  PROVE  IInv'
<1>1. Id' = Id /\ NextId' = NextId
  BY DEF Id, NextId, table
<1>2. TypeOK' /\ (NextId \in Nat)'
  BY <1>1 DEF IInv, TypeOK, table, pool, counts
<1>3. IndicesOwned' /\ EntriesRight' /\ FindIdempotent'
  BY <1>1 DEF IInv, IndicesOwned, EntriesRight, FindIdempotent, HasIndex, Placed, table
<1>4. PoolLinked'
  <2>1. {y \in Node : status[y] = "free"} = {y \in Node : status'[y] = "free"}
    OBVIOUS
  <2> QED BY <2>1, PoolKept DEF IInv
<1>5. RefsExact'
  BY DEF RefsExact
<1> QED BY <1>2, <1>3, <1>4, <1>5 DEF IInv

(***************************************************************************)
(* The same for a node whose reference does not change, which is enough    *)
(* where the nodes and the tables are left alone.                          *)
(***************************************************************************)
LEMMA RefUntouched ==
  ASSUME IInv, UNCHANGED <<status, type, nodeListIndex, table>>, NEW y \in Node,
         up'[y] = up[y], parentPNode'[y] = parentPNode[y], parentCNodeId'[y] = parentCNodeId[y]
  PROVE  RefExact(y)'
<1>1. Id' = Id /\ find' = find
  BY DEF Id, table
<1> QED BY <1>1, RefKept

(***************************************************************************)
(* setParent writes a right reference.                                     *)
(***************************************************************************)
LEMMA ReferenceTo ==
  ASSUME IInv, UNCHANGED <<status, type, nodeListIndex, table>>,
         NEW x \in Used, NEW p \in Used,
         IsCNode(p) => find[nodeListIndex[p]] = nodeListIndex[p],
         up'[x] = p, parentPNode'[x] = PRef(p), parentCNodeId'[x] = CRef(p)
  PROVE  RefExact(x)' /\ PRef(p) \in Node \cup {Nil} /\ CRef(p) \in Id \cup {EmptyId}
<1>1. p # Nil /\ p \in Placed' /\ x \in Placed' /\ status'[p] = status'[x]
  BY NodesAssumption DEF Used, Placed
<1>2. IsCNode(p) => nodeListIndex[p] \in Id
  BY DEF IsCNode, Used, HasIndex, Placed, IInv, IndicesOwned
<1>3. Id' = Id /\ find' = find
  BY DEF Id, table
<1> QED BY <1>1, <1>2, <1>3 DEF RefExact, AttachedRef, PRef, CRef, IsCNode, Used

(***************************************************************************)
(* The index that getParent() leaves in a field is as right as the one     *)
(* before.                                                                 *)
(***************************************************************************)
LEMMA CachedIsRight ==
  ASSUME IInv, NEW x \in Node
  PROVE  /\ CachedId(x) \in Id \cup {EmptyId}
         /\ CachedId(x) = EmptyId <=> parentCNodeId[x] = EmptyId
         /\ CachedId(x) # EmptyId => find[CachedId(x)] = find[parentCNodeId[x]]
BY DEF CachedId, IInv, TypeOK, FindIdempotent, EmptyId

(***************************************************************************)
(* A node that takes over the fields of another one, or its own, after     *)
(* getParent() has its parent.                                             *)
(***************************************************************************)
LEMMA ReferenceCopied ==
  ASSUME IInv, UNCHANGED <<status, type, nodeListIndex, table>>,
         NEW x \in Used, NEW r \in Used,
         up'[r] = up[x], parentPNode'[r] = parentPNode[x], parentCNodeId'[r] = CachedId(x)
  PROVE  RefExact(r)'
<1>1. Id' = Id /\ find' = find /\ r \in Placed' /\ x \in Placed /\ status'[r] = status[x]
  BY DEF Id, table, Used, Placed
<1>2. CASE up[x] = Nil
  BY <1>1, <1>2, CachedIsRight DEF IInv, RefsExact, RefExact, DetachedRef, Placed
<1>3. CASE up[x] # Nil
  <2>1. AttachedRef(x) /\ up[x] \in Placed'
    BY <1>1, <1>3 DEF IInv, RefsExact, RefExact, AttachedRef, Placed
  <2> QED BY <1>1, <1>3, <2>1, CachedIsRight DEF RefExact, AttachedRef, EmptyId, IInv, TypeOK, Placed
<1> QED BY <1>2, <1>3

(***************************************************************************)
(* appendChild                                                             *)
(***************************************************************************)
LEMMA AppendChildInv ==
  ASSUME IInv, NEW p \in Node, NEW x \in Node, AppendChild(p, x)
  PROVE  IInv'
<1>1. /\ x \in Used /\ p \in Used /\ IsDetached(x)
      /\ IsCNode(p) => find[nodeListIndex[p]] = nodeListIndex[p]
      /\ UNCHANGED <<status, type, nodeListIndex, table, pool, counts, root>>
      /\ up' = [up EXCEPT ![x] = p]
  BY DEF AppendChild, MayHaveChild, MayBeChild, ValidNode, IsCNode, Used, SetParent
<1>2. /\ parentPNode' = [parentPNode EXCEPT ![x] = PRef(p)]
      /\ parentCNodeId' = [parentCNodeId EXCEPT ![x] = CRef(p)]
  BY <1>1 DEF AppendChild, SetParent, IsDetached, PRef, CRef, IInv, TypeOK
<1>3. /\ up'[x] = p /\ parentPNode'[x] = PRef(p) /\ parentCNodeId'[x] = CRef(p)
      /\ \A y \in Node \ {x} : /\ up'[y] = up[y] /\ parentPNode'[y] = parentPNode[y]
                               /\ parentCNodeId'[y] = parentCNodeId[y]
  BY <1>1, <1>2 DEF IInv, TypeOK
<1>4. RefExact(x)' /\ PRef(p) \in Node \cup {Nil} /\ CRef(p) \in Id \cup {EmptyId}
  BY <1>1, <1>3, ReferenceTo
<1>5. \A y \in Node \ {x} : RefExact(y)'
  BY <1>1, <1>3, RefUntouched
<1>6. /\ parentPNode' \in [Node -> Node \cup {Nil}]
      /\ parentCNodeId' \in [Node -> Id \cup {EmptyId}]
      /\ up' \in [Node -> Node \cup {Nil}] /\ root' \in Node \cup {Nil}
  BY <1>1, <1>2, <1>4 DEF IInv, TypeOK
<1>7. \A y \in Node : status[y] = "free" => parentPNode'[y] = parentPNode[y]
  BY <1>1, <1>3 DEF Used
<1> QED BY <1>1, <1>4, <1>5, <1>6, <1>7, RefsOnly

(***************************************************************************)
(* insertBetween, beside a child of p                                      *)
(***************************************************************************)
LEMMA InsertBetweenInv ==
  ASSUME IInv, NEW x \in Node, NEW sib \in Node, InsertBetween(x, sib)
  PROVE  IInv'
<1> DEFINE p == Parent(sib)
<1>1. /\ sib \in Used /\ x \in Used /\ IsDetached(x) /\ p # Nil
      /\ UNCHANGED <<status, type, nodeListIndex, table, pool, counts, root>>
      /\ up' = [up EXCEPT ![x] = p]
  BY DEF InsertBetween, MayBeChild, ValidNode, Used
<1>2. p = up[sib] /\ up[x] = Nil /\ x # sib
  BY <1>1, ParentIsUp, DetachedHasNoUp
<1>3. /\ AttachedRef(sib) /\ p \in Used
      /\ IsCNode(p) => find[nodeListIndex[p]] = nodeListIndex[p]
  <2>1. AttachedRef(sib)
    BY <1>1, <1>2 DEF IInv, RefsExact, RefExact
  <2> QED BY <1>1, <1>2, <2>1 DEF AttachedRef, IsCNode, Used, Placed
<1> HIDE DEF p
<1>4. /\ parentPNode' = [parentPNode EXCEPT ![x] = PRef(p)]
      /\ parentCNodeId' = [parentCNodeId EXCEPT ![sib] = CachedId(sib), ![x] = CRef(p)]
  BY <1>1, <1>2 DEF InsertBetween, IsDetached, PRef, CRef, IInv, TypeOK, p
<1>5. /\ up'[x] = p /\ parentPNode'[x] = PRef(p) /\ parentCNodeId'[x] = CRef(p)
      /\ \A y \in Node \ {x} : up'[y] = up[y] /\ parentPNode'[y] = parentPNode[y]
      /\ \A y \in Node \ {x, sib} : parentCNodeId'[y] = parentCNodeId[y]
      /\ parentCNodeId'[sib] = CachedId(sib)
  BY <1>1, <1>2, <1>4 DEF IInv, TypeOK
<1>6. RefExact(x)' /\ PRef(p) \in Node \cup {Nil} /\ CRef(p) \in Id \cup {EmptyId}
  BY <1>1, <1>3, <1>5, ReferenceTo
<1>7. RefExact(sib)'
  BY <1>1, <1>2, <1>5, ReferenceCopied DEF Used
<1>8. \A y \in Node \ {x, sib} : RefExact(y)'
  BY <1>1, <1>5, RefUntouched
<1>9. /\ parentPNode' \in [Node -> Node \cup {Nil}]
      /\ parentCNodeId' \in [Node -> Id \cup {EmptyId}]
      /\ up' \in [Node -> Node \cup {Nil}] /\ root' \in Node \cup {Nil}
  BY <1>1, <1>3, <1>4, <1>6, CachedIsRight DEF IInv, TypeOK, Used
<1>10. \A y \in Node : status[y] = "free" => parentPNode'[y] = parentPNode[y]
  BY <1>1, <1>5 DEF Used
<1> QED BY <1>1, <1>6, <1>7, <1>8, <1>9, <1>10, RefsOnly

(***************************************************************************)
(* detach                                                                  *)
(***************************************************************************)
LEMMA DetachInv ==
  ASSUME IInv, NEW x \in Node, Detach(x)
  PROVE  IInv'
<1>1. /\ x \in Used
      /\ UNCHANGED <<status, type, nodeListIndex, table, pool, counts, root>>
      /\ up' = [up EXCEPT ![x] = Nil] /\ parentPNode' = [parentPNode EXCEPT ![x] = Nil]
      /\ parentCNodeId' = [parentCNodeId EXCEPT ![x] = EmptyId]
  BY DEF Detach, ValidNode, Unlinked, Used
<1>2. /\ up'[x] = Nil /\ parentPNode'[x] = Nil /\ parentCNodeId'[x] = EmptyId
      /\ \A y \in Node \ {x} : /\ up'[y] = up[y] /\ parentPNode'[y] = parentPNode[y]
                               /\ parentCNodeId'[y] = parentCNodeId[y]
  BY <1>1 DEF IInv, TypeOK
<1>3. RefExact(x)'
  BY <1>2 DEF RefExact, DetachedRef
<1>4. \A y \in Node \ {x} : RefExact(y)'
  BY <1>1, <1>2, RefUntouched
<1>5. /\ parentPNode' \in [Node -> Node \cup {Nil}]
      /\ parentCNodeId' \in [Node -> Id \cup {EmptyId}]
      /\ up' \in [Node -> Node \cup {Nil}] /\ root' \in Node \cup {Nil}
  BY <1>1 DEF IInv, TypeOK
<1>6. \A y \in Node : status[y] = "free" => parentPNode'[y] = parentPNode[y]
  BY <1>1, <1>2 DEF Used
<1> QED BY <1>1, <1>3, <1>4, <1>5, <1>6, RefsOnly

(***************************************************************************)
(* replaceWith                                                             *)
(***************************************************************************)
LEMMA ReplaceWithInv ==
  ASSUME IInv, NEW x \in Node, NEW r \in Node, ReplaceWith(x, r)
  PROVE  IInv'
<1>1. /\ x \in Used /\ r \in Used /\ r # x
      /\ UNCHANGED <<status, type, nodeListIndex, table, pool, counts, root>>
      /\ up' = [up EXCEPT ![r] = up[x], ![x] = Nil]
      /\ parentPNode' = [parentPNode EXCEPT ![r] = parentPNode[x], ![x] = Nil]
      /\ parentCNodeId' = [parentCNodeId EXCEPT ![r] = CachedId(x), ![x] = EmptyId]
  BY DEF ReplaceWith, ValidNode, Unlinked, Used
<1>2. /\ up'[x] = Nil /\ parentPNode'[x] = Nil /\ parentCNodeId'[x] = EmptyId
      /\ up'[r] = up[x] /\ parentPNode'[r] = parentPNode[x] /\ parentCNodeId'[r] = CachedId(x)
      /\ \A y \in Node \ {x, r} : /\ up'[y] = up[y] /\ parentPNode'[y] = parentPNode[y]
                                  /\ parentCNodeId'[y] = parentCNodeId[y]
  BY <1>1 DEF IInv, TypeOK
<1>3. RefExact(x)'
  BY <1>2 DEF RefExact, DetachedRef
<1>4. RefExact(r)'
  BY <1>1, <1>2, ReferenceCopied
<1>5. \A y \in Node \ {x, r} : RefExact(y)'
  BY <1>1, <1>2, RefUntouched
<1>6. /\ parentPNode' \in [Node -> Node \cup {Nil}]
      /\ parentCNodeId' \in [Node -> Id \cup {EmptyId}]
      /\ up' \in [Node -> Node \cup {Nil}] /\ root' \in Node \cup {Nil}
  BY <1>1, CachedIsRight DEF IInv, TypeOK
<1>7. \A y \in Node : status[y] = "free" => parentPNode'[y] = parentPNode[y]
  BY <1>1, <1>2 DEF Used
<1> QED BY <1>1, <1>3, <1>4, <1>5, <1>6, <1>7, RefsOnly

(***************************************************************************)
(* getParent                                                               *)
(***************************************************************************)
LEMMA GetParentInv ==
  ASSUME IInv, NEW x \in Node, GetParent(x)
  PROVE  IInv'
<1>1. /\ x \in Used
      /\ UNCHANGED <<status, type, parentPNode, nodeListIndex, table, pool, counts, root, up>>
      /\ parentCNodeId' = [parentCNodeId EXCEPT ![x] = CachedId(x)]
  BY DEF GetParent, Used
<1>2. /\ parentCNodeId'[x] = CachedId(x)
      /\ \A y \in Node \ {x} : parentCNodeId'[y] = parentCNodeId[y]
  BY <1>1 DEF IInv, TypeOK
<1>3. RefExact(x)'
  BY <1>1, <1>2, ReferenceCopied
<1>4. \A y \in Node \ {x} : RefExact(y)'
  BY <1>1, <1>2, RefUntouched
<1>5. /\ parentPNode' \in [Node -> Node \cup {Nil}]
      /\ parentCNodeId' \in [Node -> Id \cup {EmptyId}]
      /\ up' \in [Node -> Node \cup {Nil}] /\ root' \in Node \cup {Nil}
  BY <1>1, CachedIsRight DEF IInv, TypeOK
<1> QED BY <1>1, <1>3, <1>4, <1>5, RefsOnly

(***************************************************************************)
(* setRoot                                                                 *)
(***************************************************************************)
LEMMA SetRootInv ==
  ASSUME IInv, NEW x \in Node, SetRoot(x)
  PROVE  IInv'
<1>1. UNCHANGED <<status, type, refs, nodeListIndex, table, pool, counts>> /\ root' = x
  BY DEF SetRoot
<1>2. \A y \in Node : RefExact(y)'
  BY <1>1, RefUntouched DEF refs
<1>3. /\ parentPNode' \in [Node -> Node \cup {Nil}]
      /\ parentCNodeId' \in [Node -> Id \cup {EmptyId}]
      /\ up' \in [Node -> Node \cup {Nil}] /\ root' \in Node \cup {Nil}
  BY <1>1 DEF refs, IInv, TypeOK
<1> QED BY <1>1, <1>2, <1>3, RefsOnly DEF refs

(***************************************************************************)
(* changeRoot: every node on the way becomes the child of one that was its *)
(* own child.                                                              *)
(***************************************************************************)
LEMMA ChangeRootInv ==
  ASSUME IInv, NEW x \in Node, ChangeRoot(x)
  PROVE  IInv'
<1>1. PICK way \in SUBSET Node :
        LET below(y) == CHOOSE z \in way : up[z] = y
        IN  /\ IsWayUp(way, x)
            /\ \A y \in way : ValidNode(y)
            /\ parentPNode' = [y \in Node |-> IF y \notin way THEN parentPNode[y]
                                               ELSE IF y = x THEN Nil ELSE PRef(below(y))]
            /\ parentCNodeId' = [y \in Node |-> IF y \notin way THEN parentCNodeId[y]
                                                 ELSE IF y = x THEN EmptyId ELSE CRef(below(y))]
            /\ up' = [y \in Node |-> IF y \notin way THEN up[y]
                                      ELSE IF y = x THEN Nil ELSE below(y)]
            /\ root' = x
            /\ UNCHANGED <<status, type, nodeListIndex, table, pool, counts>>
  BY DEF ChangeRoot
<1> DEFINE below(y) == CHOOSE z \in way : up[z] = y
<1>2. UNCHANGED <<status, type, nodeListIndex, table, pool, counts>> /\ root' = x
  BY <1>1
<1>3. /\ way \subseteq Used /\ x \in way
      /\ \A z \in way : IsCNode(z) => find[nodeListIndex[z]] = nodeListIndex[z]
  BY <1>1 DEF ValidNode, Used, IsCNode, IsWayUp
<1>4. \A y \in way \ {x} : below(y) \in way
  BY <1>1, <1>3 DEF IsWayUp, Used
<1> HIDE DEF below
<1>5. /\ \A y \in Node \ way : /\ up'[y] = up[y] /\ parentPNode'[y] = parentPNode[y]
                               /\ parentCNodeId'[y] = parentCNodeId[y]
      /\ up'[x] = Nil /\ parentPNode'[x] = Nil /\ parentCNodeId'[x] = EmptyId
      /\ \A y \in way \ {x} : /\ up'[y] = below(y) /\ parentPNode'[y] = PRef(below(y))
                              /\ parentCNodeId'[y] = CRef(below(y))
  BY <1>1, <1>3 DEF below
<1>6. RefExact(x)'
  BY <1>5 DEF RefExact, DetachedRef
<1>7. ASSUME NEW y \in way \ {x}
      PROVE  RefExact(y)' /\ PRef(below(y)) \in Node \cup {Nil} /\ CRef(below(y)) \in Id \cup {EmptyId}
  BY <1>2, <1>3, <1>4, <1>5, ReferenceTo
<1>8. \A y \in Node \ way : RefExact(y)'
  BY <1>2, <1>5, RefUntouched
<1>9. /\ parentPNode' \in [Node -> Node \cup {Nil}]
      /\ parentCNodeId' \in [Node -> Id \cup {EmptyId}]
      /\ up' \in [Node -> Node \cup {Nil}] /\ root' \in Node \cup {Nil}
  <2>1. /\ DOMAIN parentPNode' = Node /\ parentPNode' = [y \in Node |-> parentPNode'[y]]
        /\ DOMAIN parentCNodeId' = Node /\ parentCNodeId' = [y \in Node |-> parentCNodeId'[y]]
        /\ DOMAIN up' = Node /\ up' = [y \in Node |-> up'[y]]
    BY <1>1
  <2>2. \A y \in Node : /\ parentPNode'[y] \in Node \cup {Nil}
                        /\ parentCNodeId'[y] \in Id \cup {EmptyId}
                        /\ up'[y] \in Node \cup {Nil}
    <3> SUFFICES ASSUME NEW y \in Node
                 PROVE  /\ parentPNode'[y] \in Node \cup {Nil}
                        /\ parentCNodeId'[y] \in Id \cup {EmptyId}
                        /\ up'[y] \in Node \cup {Nil}
      OBVIOUS
    <3>1. CASE y = x
      BY <1>5, <3>1
    <3>2. CASE y \in way \ {x}
      BY <1>4, <1>5, <1>7, <3>2
    <3>3. CASE y \notin way
      BY <1>5, <3>3 DEF IInv, TypeOK
    <3> QED BY <3>1, <3>2, <3>3
  <2> QED BY <1>2, <2>1, <2>2
<1>10. \A y \in Node : status[y] = "free" => parentPNode'[y] = parentPNode[y]
  BY <1>3, <1>5 DEF Used
<1> QED BY <1>2, <1>3, <1>6, <1>7, <1>8, <1>9, <1>10, RefsOnly

(***************************************************************************)
(* What mergeIntoParent does: the sets of the two nodes become one, the    *)
(* representative of which is then the index of the parent.                *)
(***************************************************************************)
LEMMA MergeTables ==
  ASSUME IInv, NEW x \in Node, MergeIntoParent(x)
  PROVE  \E p \in Used :
           /\ p = up[x] /\ x \in Used /\ HasIndex(x) /\ HasIndex(p)
           /\ LET i == nodeListIndex[x]
                  j == nodeListIndex[p]
                  w == IF i < j THEN j ELSE i
              IN  /\ i \in Id /\ j \in Id /\ find[i] = i /\ find[j] = j /\ w \in {i, j}
                  /\ find' = [k \in Id |-> IF find[k] \in {i, j} THEN w ELSE find[k]]
                  /\ nodeListIndex'[p] = w
                  /\ \A y \in Node \ {x, p} : nodeListIndex'[y] = nodeListIndex[y]
                  /\ nodeListIndex' \in [Node -> Id \cup {EmptyId}]
                  /\ \/ UNCHANGED <<cNodes, nodeListIndex>>
                     \/ /\ cNodes' = [cNodes EXCEPT ![i] = p, ![j] = x]
                        /\ nodeListIndex' = [nodeListIndex EXCEPT ![x] = j, ![p] = i]
<1>1. x \in Used /\ HasIndex(x) /\ IsCNode(up[x]) /\ find[nodeListIndex[x]] = nodeListIndex[x]
  <2>1. x \in Used
    BY DEF MergeIntoParent, ValidNode, Used
  <2>2. Parent(x) = up[x]
    BY <2>1, ParentIsUp
  <2> QED BY <2>1, <2>2 DEF MergeIntoParent, ValidNode, HasIndex, Used, Placed
<1>2. AttachedRef(x)
  BY <1>1 DEF IsCNode, IInv, RefsExact, RefExact
<1> DEFINE p == up[x]
           i == nodeListIndex[x]
           j == nodeListIndex[p]
           w == IF i < j THEN j ELSE i
<1>3. p \in Used /\ HasIndex(p) /\ find[j] = j
  BY <1>1, <1>2 DEF AttachedRef, IsCNode, HasIndex, Used, Placed
<1>4. i \in Id /\ j \in Id /\ cNodes[i] = x /\ cNodes[j] = p
  BY <1>1, <1>3 DEF IInv, IndicesOwned, EntriesRight, HasIndex, Used
<1>5. w \in {i, j} /\ (j < i => w = i) /\ (~(j < i) => w = j)
  BY <1>4 DEF IInv, TypeOK
<1>6. find' = Linked(i, j) /\ Exchange(x, p)
  BY <1>1, ParentIsUp DEF MergeIntoParent
<1> HIDE DEF p
<1>7. CASE j < i
  <2>1. /\ cNodes' = [cNodes EXCEPT ![i] = p, ![j] = x]
        /\ nodeListIndex' = [nodeListIndex EXCEPT ![x] = j, ![p] = i]
    BY <1>4, <1>6, <1>7 DEF Exchange
  <2>2. /\ nodeListIndex'[p] = i /\ \A y \in Node \ {x, p} : nodeListIndex'[y] = nodeListIndex[y]
        /\ nodeListIndex' \in [Node -> Id \cup {EmptyId}]
    BY <1>3, <1>4, <2>1 DEF IInv, TypeOK, Used
  <2> QED BY <1>1, <1>3, <1>4, <1>5, <1>6, <1>7, <2>1, <2>2 DEF Linked, p
<1>8. CASE ~(j < i)
  <2>1. UNCHANGED <<cNodes, nodeListIndex>>
    BY <1>6, <1>8 DEF Exchange
  <2> QED BY <1>1, <1>3, <1>4, <1>5, <1>6, <1>8, <2>1 DEF Linked, p, IInv, TypeOK
<1> QED BY <1>7, <1>8

(***************************************************************************)
(* mergeIntoParent: the children of both nodes are found again, whichever  *)
(* index won.                                                              *)
(***************************************************************************)
LEMMA MergeIntoParentInv ==
  ASSUME IInv, NEW x \in Node, MergeIntoParent(x)
  PROVE  IInv'
<1>1. PICK p \in Used :
           /\ p = up[x] /\ x \in Used /\ HasIndex(x) /\ HasIndex(p)
           /\ LET i == nodeListIndex[x]
                  j == nodeListIndex[p]
                  w == IF i < j THEN j ELSE i
              IN  /\ i \in Id /\ j \in Id /\ find[i] = i /\ find[j] = j /\ w \in {i, j}
                  /\ find' = [k \in Id |-> IF find[k] \in {i, j} THEN w ELSE find[k]]
                  /\ nodeListIndex'[p] = w
                  /\ \A y \in Node \ {x, p} : nodeListIndex'[y] = nodeListIndex[y]
                  /\ nodeListIndex' \in [Node -> Id \cup {EmptyId}]
                  /\ \/ UNCHANGED <<cNodes, nodeListIndex>>
                     \/ /\ cNodes' = [cNodes EXCEPT ![i] = p, ![j] = x]
                        /\ nodeListIndex' = [nodeListIndex EXCEPT ![x] = j, ![p] = i]
  BY MergeTables
<1> DEFINE i == nodeListIndex[x]
           j == nodeListIndex[p]
           w == IF i < j THEN j ELSE i
<1>2. /\ p = up[x] /\ p \in Used /\ x \in Used /\ HasIndex(x) /\ HasIndex(p) /\ p \in Node
      /\ i \in Id /\ j \in Id /\ find[i] = i /\ find[j] = j /\ w \in {i, j}
      /\ Id' = Id /\ NextId' = NextId
      /\ find' \in [Id -> Id]
      /\ \A k \in Id : find'[k] = IF find[k] \in {i, j} THEN w ELSE find[k]
      /\ nodeListIndex'[p] = w
      /\ \A y \in Node \ {x, p} : nodeListIndex'[y] = nodeListIndex[y]
      /\ nodeListIndex' \in [Node -> Id \cup {EmptyId}]
  BY <1>1 DEF Id, NextId, Used, IInv, TypeOK
<1>3. \/ UNCHANGED <<cNodes, nodeListIndex>>
      \/ /\ cNodes' = [cNodes EXCEPT ![i] = p, ![j] = x]
         /\ nodeListIndex' = [nodeListIndex EXCEPT ![x] = j, ![p] = i]
  BY <1>1
<1> HIDE DEF i, j, w
<1>4. /\ UNCHANGED <<status, type, pool, counts, root>>
      /\ parentPNode' = [parentPNode EXCEPT ![x] = Nil]
      /\ parentCNodeId' = [parentCNodeId EXCEPT ![x] = EmptyId]
      /\ up' = [y \in Node |-> IF y = x THEN Nil ELSE IF up[y] = x THEN p ELSE up[y]]
  BY <1>2, ParentIsUp DEF MergeIntoParent, Unlinked
<1>5. TypeOK'
  <2>1. cNodes' \in [Id' -> Node \cup {Nil}]
    <3>1. cNodes \in [Id -> Node \cup {Nil}]
      BY DEF IInv, TypeOK
    <3> QED BY <1>2, <1>3, <3>1
  <2>2. /\ parentPNode' \in [Node -> Node \cup {Nil}] /\ up' \in [Node -> Node \cup {Nil}]
        /\ parentCNodeId' \in [Node -> Id' \cup {EmptyId}]
    BY <1>2, <1>4 DEF IInv, TypeOK
  <2>3. find' \in [Id' -> Id'] /\ nodeListIndex' \in [Node -> Id' \cup {EmptyId}]
    BY <1>2
  <2> QED BY <1>2, <1>4, <2>1, <2>2, <2>3 DEF IInv, TypeOK, pool, counts
<1>6. \A y \in Node : HasIndex(y)' <=> HasIndex(y)
  BY <1>4 DEF HasIndex, Placed
<1>7. \A y \in Node \ {x, p} : HasIndex(y) => nodeListIndex[y] \notin {i, j} /\ nodeListIndex[y] \in Id
  BY <1>2 DEF IInv, IndicesOwned, i, j
<1>8. RefsExact'
  <2> SUFFICES ASSUME NEW y \in Node PROVE RefExact(y)'
    BY DEF RefsExact
  <2>1. CASE y = x
    BY <1>4, <2>1 DEF IInv, TypeOK, RefExact, DetachedRef
  <2>2. CASE y # x
    <3>1. /\ parentPNode'[y] = parentPNode[y] /\ parentCNodeId'[y] = parentCNodeId[y]
          /\ up'[y] = IF up[y] = x THEN p ELSE up[y]
          /\ Placed' = Placed
      BY <1>4, <2>2 DEF IInv, TypeOK, Placed
    <3>2. CASE up[y] = Nil
      BY <1>4, <3>1, <3>2, NodesAssumption DEF IInv, RefsExact, RefExact, DetachedRef
    <3>3. CASE up[y] # Nil
      <4>1. AttachedRef(y) /\ Nil \notin Node
        BY <3>3, NodesAssumption DEF IInv, RefsExact, RefExact
      <4>2. CASE up[y] \in {x, p}
        <5>1. find[parentCNodeId[y]] \in {i, j} /\ parentCNodeId[y] \in Id /\ parentPNode[y] = Nil
          BY <1>2, <4>1, <4>2 DEF AttachedRef, HasIndex, i, j
        <5>2. up'[y] = p /\ type'[p] = "C" /\ status'[p] = status'[y] /\ p \in Placed /\ y \in Placed
          BY <1>2, <1>4, <3>1, <4>1, <4>2 DEF AttachedRef, HasIndex, Used
        <5> QED BY <1>2, <3>1, <4>1, <5>1, <5>2 DEF RefExact, AttachedRef
      <4>3. CASE up[y] \notin {x, p}
        <5>1. up'[y] = up[y] /\ up[y] \in Node \ {x, p}
          BY <3>1, <4>1, <4>3 DEF AttachedRef, Placed
        <5>2. type[up[y]] = "C" => HasIndex(up[y])
          BY <4>1 DEF AttachedRef, HasIndex
        <5> QED BY <1>2, <1>4, <1>7, <3>1, <3>3, <4>1, <5>1, <5>2 DEF RefExact, AttachedRef
      <4> QED BY <4>2, <4>3
    <3> QED BY <3>2, <3>3
  <2> QED BY <2>1, <2>2
<1>9. IndicesOwned'
  <2>1. CASE UNCHANGED nodeListIndex
    BY <1>2, <1>6, <2>1 DEF IInv, IndicesOwned
  <2>2. CASE nodeListIndex' = [nodeListIndex EXCEPT ![x] = j, ![p] = i]
    <3>1. p # x => nodeListIndex'[x] = j
      BY <1>2, <2>2 DEF IInv, TypeOK
    <3>2. nodeListIndex'[p] = i
      BY <1>2, <2>2 DEF IInv, TypeOK
    <3>3. p # x => i # j
      BY <1>2 DEF IInv, IndicesOwned, i, j
    <3>4. \A y \in Node : nodeListIndex'[y] \in Id' <=> HasIndex(y)'
      BY <1>2, <1>6, <3>1, <3>2 DEF IInv, IndicesOwned
    <3>5. \A y, z \in Node : HasIndex(y) /\ HasIndex(z) /\ nodeListIndex'[y] = nodeListIndex'[z] => y = z
      BY <1>2, <1>7, <3>1, <3>2, <3>3 DEF IInv, IndicesOwned
    <3> QED BY <1>6, <3>4, <3>5 DEF IndicesOwned
  <2> QED BY <1>3, <2>1, <2>2
<1>10. EntriesRight'
  <2>1. \A y \in Node : HasIndex(y) => IF status[y] = "used" THEN cNodes'[nodeListIndex'[y]] = y
                                       ELSE find'[nodeListIndex'[y]] = nodeListIndex'[y]
    <3> SUFFICES ASSUME NEW y \in Node, HasIndex(y)
                 PROVE  IF status[y] = "used" THEN cNodes'[nodeListIndex'[y]] = y
                        ELSE find'[nodeListIndex'[y]] = nodeListIndex'[y]
      OBVIOUS
    <3>1. CASE y \in {x, p}
      BY <1>2, <1>3, <3>1 DEF IInv, TypeOK, EntriesRight, IndicesOwned, Used, i, j
    <3>2. CASE y \notin {x, p}
      <4>1. nodeListIndex'[y] = nodeListIndex[y] /\ nodeListIndex[y] \in Id \ {i, j}
        BY <1>2, <1>7, <3>2
      <4>2. cNodes'[nodeListIndex[y]] = cNodes[nodeListIndex[y]]
        BY <1>3, <4>1 DEF IInv, TypeOK
      <4> QED BY <1>2, <4>1, <4>2 DEF IInv, EntriesRight
    <3> QED BY <3>1, <3>2
  <2>2. \A k \in Id : cNodes'[k] # Nil => /\ status[cNodes'[k]] = "used"
                                          /\ type[cNodes'[k]] = "C"
                                          /\ nodeListIndex'[cNodes'[k]] = k
    <3> SUFFICES ASSUME NEW k \in Id, cNodes'[k] # Nil
                 PROVE  /\ status[cNodes'[k]] = "used" /\ type[cNodes'[k]] = "C"
                        /\ nodeListIndex'[cNodes'[k]] = k
      OBVIOUS
    <3>1. CASE UNCHANGED <<cNodes, nodeListIndex>>
      BY <3>1 DEF IInv, EntriesRight
    <3>2. CASE /\ cNodes' = [cNodes EXCEPT ![i] = p, ![j] = x]
               /\ nodeListIndex' = [nodeListIndex EXCEPT ![x] = j, ![p] = i]
      <4>1. CASE k \in {i, j}
        BY <1>2, <3>2, <4>1 DEF IInv, TypeOK, EntriesRight, IndicesOwned, HasIndex, Used, i, j
      <4>2. CASE k \notin {i, j}
        <5>1. cNodes'[k] = cNodes[k] /\ cNodes[k] \in Node
          BY <3>2, <4>2 DEF IInv, TypeOK
        <5>2. status[cNodes[k]] = "used" /\ type[cNodes[k]] = "C" /\ nodeListIndex[cNodes[k]] = k
          BY <5>1, NodesAssumption DEF IInv, EntriesRight
        <5>3. cNodes[k] \notin {x, p}
          BY <4>2, <5>2 DEF i, j
        <5> QED BY <1>2, <5>1, <5>2, <5>3
      <4> QED BY <4>1, <4>2
    <3> QED BY <1>3, <3>1, <3>2
  <2> QED BY <1>2, <1>4, <1>6, <2>1, <2>2 DEF EntriesRight
<1>11. FindIdempotent'
  <2> SUFFICES ASSUME NEW k \in Id PROVE find'[find'[k]] = find'[k]
    BY <1>2 DEF FindIdempotent
  <2>1. find[k] \in Id /\ find[find[k]] = find[k] /\ w \in Id
    BY <1>2 DEF IInv, TypeOK, FindIdempotent
  <2>2. CASE find[k] \in {i, j}
    BY <1>2, <2>1, <2>2
  <2>3. CASE find[k] \notin {i, j}
    BY <1>2, <2>1, <2>3
  <2> QED BY <2>2, <2>3
<1>12. PoolLinked'
  <2>1. \A y \in Node : status[y] = "free" => parentPNode'[y] = parentPNode[y]
    BY <1>2, <1>4 DEF IInv, TypeOK, Used
  <2>2. {y \in Node : status[y] = "free"} = {y \in Node : status'[y] = "free"}
    BY <1>4
  <2> QED BY <1>4, <2>1, <2>2, PoolKept DEF IInv
<1> QED BY <1>2, <1>5, <1>8, <1>9, <1>10, <1>11, <1>12 DEF IInv

(***************************************************************************)
(* A node that is pushed on the list of reusable nodes becomes its head.   *)
(***************************************************************************)
LEMMA PushKeepsPool ==
  ASSUME IInv, NEW x \in Node, status[x] # "free",
         status' = [status EXCEPT ![x] = "free"], Push(x)
  PROVE  /\ PoolLinked'
         /\ reusable' \in Node /\ place' \in [Node -> Nat] /\ poolSize' \in Nat
<1> DEFINE free == {y \in Node : status[y] = "free"}
<1>1. free' = free \cup {x} /\ x \notin free
  BY DEF IInv, TypeOK
<1>2. /\ reusable' = x /\ poolSize' = poolSize + 1 /\ poolSize \in Nat
      /\ place'[x] = poolSize + 1 /\ \A y \in free : place'[y] = place[y]
      /\ parentPNode'[x] = reusable /\ \A y \in free : parentPNode'[y] = parentPNode[y]
      /\ place' \in [Node -> Nat]
  BY <1>1 DEF Push, IInv, TypeOK
<1>3. /\ \A y \in free : place[y] \in 1..poolSize
      /\ \A y, z \in free : place[y] = place[z] => y = z
      /\ IF poolSize = 0 THEN reusable = Nil
         ELSE reusable \in free /\ place[reusable] = poolSize
      /\ \A y \in free : IF place[y] = 1 THEN parentPNode[y] = Nil
                         ELSE /\ parentPNode[y] \in free
                              /\ place[parentPNode[y]] = place[y] - 1
  BY DEF IInv, PoolLinked
<1> HIDE DEF free
<1>4. /\ \A y \in free' : place'[y] \in 1..poolSize'
      /\ \A y, z \in free' : place'[y] = place'[z] => y = z
      /\ poolSize' # 0 /\ reusable' \in free' /\ place'[reusable'] = poolSize'
  BY <1>1, <1>2, <1>3
<1>5. ASSUME NEW y \in free'
      PROVE  IF place'[y] = 1 THEN parentPNode'[y] = Nil
             ELSE parentPNode'[y] \in free' /\ place'[parentPNode'[y]] = place'[y] - 1
  <2>1. CASE y = x
    BY <1>1, <1>2, <1>3, <2>1
  <2>2. CASE y # x
    BY <1>1, <1>2, <1>3, <2>2
  <2> QED BY <2>1, <2>2
<1> QED BY <1>2, <1>4, <1>5 DEF PoolLinked, free

(***************************************************************************)
(* destroyNode                                                             *)
(***************************************************************************)
LEMMA DestroyNodeInv ==
  ASSUME IInv, NEW x \in Node, DestroyNode(x)
  PROVE  IInv'
<1>1. /\ status[x] = "used" /\ IsDetached(x) /\ \A y \in Node : up[y] # x
      /\ Register(x, type[x], "none")
      /\ status' = [status EXCEPT ![x] = "free"]
      /\ Push(x)
      /\ UNCHANGED <<type, parentCNodeId, up, root>>
  BY DEF DestroyNode, Kids
<1>2. /\ status'[x] = "free" /\ \A y \in Node \ {x} : status'[y] = status[y] /\ type'[y] = type[y]
      /\ parentPNode' = [parentPNode EXCEPT ![x] = reusable]
      /\ \A y \in Node \ {x} : parentPNode'[y] = parentPNode[y]
  BY <1>1 DEF Push, IInv, TypeOK
<1>3. /\ type[x] = "C" <=> HasIndex(x)
      /\ "none" = "C" <=> HasIndex(x)'
      /\ type[x] \in NodeType \cup {"none"} /\ "none" \in NodeType \cup {"none"}
      /\ type[x] = "C" => nodeListIndex[x] \in Id
  BY <1>1, <1>2 DEF HasIndex, Placed, IInv, TypeOK, IndicesOwned
<1>4. IndicesOwned' /\ EntriesRight' /\ FindIdempotent'
  BY <1>1, <1>2, <1>3, RegisterInv
<1>5. /\ Id' = Id /\ NextId' \in Nat /\ Id' = 0..(NextId' - 1)
      /\ find' \in [Id' -> Id'] /\ cNodes' \in [Id' -> Node \cup {Nil}]
      /\ nodeListIndex' \in [Node -> Id' \cup {EmptyId}]
      /\ \A i \in Id : find'[i] = find[i]
      /\ \A y \in Node \ {x} : nodeListIndex'[y] = nodeListIndex[y]
  <2>1. "none" # "C"
    OBVIOUS
  <2>2. Id' = Id
    BY <1>1, <1>3, <2>1, RegisterTables
  <2> QED BY <1>1, <1>3, <2>1, <2>2, RegisterTables
<1>6. /\ PoolLinked' /\ reusable' \in Node /\ place' \in [Node -> Nat] /\ poolSize' \in Nat
  BY <1>1, PushKeepsPool
<1>7. leaves' \subseteq Node /\ pNodeCount' \in Int /\ cNodeCount' \in Int
  BY <1>1, RegisterCounts
<1>8. TypeOK'
  <2>1. /\ status' \in [Node -> {"fresh", "used", "out", "free"}] /\ type' \in [Node -> NodeType]
        /\ parentPNode' \in [Node -> Node \cup {Nil}] /\ up' \in [Node -> Node \cup {Nil}]
        /\ parentCNodeId' \in [Node -> Id' \cup {EmptyId}] /\ root' \in Node \cup {Nil}
    BY <1>1, <1>2, <1>5 DEF IInv, TypeOK
  <2> QED BY <1>5, <1>6, <1>7, <2>1 DEF TypeOK
<1>9. RefsExact'
  <2> SUFFICES ASSUME NEW y \in Node PROVE RefExact(y)'
    BY DEF RefsExact
  <2>1. CASE y = x
    <3>1. up[x] = Nil
      BY <1>1, DetachedHasNoUp
    <3> QED BY <1>1, <1>2, <2>1, <3>1 DEF RefExact, DetachedRef, IsDetached, Placed
  <2>2. CASE y # x
    <3>1. up[y] # Nil => up[y] \in Node \ {x}
      BY <1>1 DEF IInv, TypeOK
    <3> QED BY <1>1, <1>2, <1>5, <2>2, <3>1, RefKept
  <2> QED BY <2>1, <2>2
<1> QED BY <1>4, <1>5, <1>6, <1>8, <1>9 DEF IInv

(***************************************************************************)
(* changeNodeType: the children of a node that becomes a C-node, or was    *)
(* one, are given the other kind of reference.                             *)
(***************************************************************************)
LEMMA ChangeNodeTypeInv ==
  ASSUME IInv, NEW x \in Node, NEW t \in NodeType, ChangeNodeType(x, t)
  PROVE  IInv'
<1>1. /\ x \in Used /\ type[x] # t /\ Register(x, type[x], t)
      /\ type' = [type EXCEPT ![x] = t]
      /\ UNCHANGED <<status, up, pool, root>>
  BY DEF ChangeNodeType, ValidNode, Used
<1>2. type'[x] = t /\ \A y \in Node \ {x} : status'[y] = status[y] /\ type'[y] = type[y]
  BY <1>1 DEF IInv, TypeOK
<1>3. /\ type[x] = "C" <=> HasIndex(x)
      /\ t = "C" <=> HasIndex(x)'
      /\ t = "C" => status'[x] = "used"
      /\ type[x] \in NodeType \cup {"none"} /\ t \in NodeType \cup {"none"}
      /\ type[x] = "C" => nodeListIndex[x] \in Id
  BY <1>1, <1>2 DEF HasIndex, Placed, Used, IInv, TypeOK, IndicesOwned
<1>4. IndicesOwned' /\ EntriesRight' /\ FindIdempotent'
  BY <1>1, <1>2, <1>3, RegisterInv
<1>5. /\ Id \subseteq Id' /\ NextId' \in Nat /\ Id' = 0..(NextId' - 1)
      /\ find' \in [Id' -> Id'] /\ cNodes' \in [Id' -> Node \cup {Nil}]
      /\ nodeListIndex' \in [Node -> Id' \cup {EmptyId}]
      /\ \A i \in Id : find'[i] = find[i]
      /\ \A y \in Node \ {x} : nodeListIndex'[y] = nodeListIndex[y]
      /\ t = "C" => NextId \in Id' /\ find'[NextId] = NextId /\ nodeListIndex'[x] = NextId
  <2>1. Id \subseteq Id' /\ NextId \notin Id /\ (t = "C" => NextId \in Id')
    BY <1>1, <1>3, RegisterTables
  <2>2. /\ NextId' \in Nat /\ Id' = 0..(NextId' - 1)
        /\ find' \in [Id' -> Id'] /\ cNodes' \in [Id' -> Node \cup {Nil}]
        /\ nodeListIndex' \in [Node -> Id' \cup {EmptyId}]
    BY <1>1, <1>3, RegisterTables
  <2>3. \A i \in Id' : find'[i] = IF i \in Id THEN find[i] ELSE i
    BY <1>1, <1>3, RegisterTables
  <2>4. \A y \in Node : nodeListIndex'[y] = IF y # x THEN nodeListIndex[y]
                                             ELSE IF t = "C" THEN NextId
                                             ELSE IF type[x] = "C" THEN EmptyId
                                             ELSE nodeListIndex[x]
    BY <1>1, <1>3, RegisterTables
  <2> QED BY <2>1, <2>2, <2>3, <2>4
<1>6. leaves' \subseteq Node /\ pNodeCount' \in Int /\ cNodeCount' \in Int
  BY <1>1, RegisterCounts
<1>7. \A y \in Node : up[y] # x => parentPNode'[y] = parentPNode[y] /\ parentCNodeId'[y] = parentCNodeId[y]
  BY DEF ChangeNodeType
<1>8. \A y \in Node : up[y] = x =>
        /\ parentPNode'[y] = IF t = "C" THEN Nil ELSE x
        /\ parentCNodeId'[y] = IF t = "C" THEN NextId ELSE EmptyId
        /\ status[y] = "used"
  <2> SUFFICES ASSUME NEW y \in Node, up[y] = x
               PROVE  /\ parentPNode'[y] = IF t = "C" THEN Nil ELSE x
                      /\ parentCNodeId'[y] = IF t = "C" THEN NextId ELSE EmptyId
                      /\ status[y] = "used"
    OBVIOUS
  <2>1. AttachedRef(y) /\ status[y] = "used"
    BY <1>1, NodesAssumption DEF IInv, RefsExact, RefExact, AttachedRef, Used
  <2>2. CASE "C" \in {type[x], t}
    BY <2>1, <2>2 DEF ChangeNodeType
  <2>3. CASE "C" \notin {type[x], t}
    BY <2>1, <2>3 DEF ChangeNodeType, AttachedRef
  <2> QED BY <2>1, <2>2, <2>3
<1>9. RefsExact'
  <2> SUFFICES ASSUME NEW y \in Node PROVE RefExact(y)'
    BY DEF RefsExact
  <2>1. CASE up[y] = x
    <3>1. x \in Placed' /\ y \in Placed' /\ status'[x] = status'[y] /\ x # Nil /\ up'[y] = x
      BY <1>1, <1>8, <2>1, NodesAssumption DEF Used, Placed
    <3> QED BY <1>2, <1>5, <1>8, <2>1, <3>1 DEF RefExact, AttachedRef
  <2>2. CASE up[y] # x
    <3>1. up[y] # Nil => up[y] \in Node \ {x}
      BY <2>2 DEF IInv, TypeOK
    <3>2. status'[y] = status[y] /\ up'[y] = up[y]
      BY <1>1
    <3> QED BY <1>2, <1>5, <1>7, <2>2, <3>1, <3>2, RefKept
  <2> QED BY <2>1, <2>2
<1>10. TypeOK'
  <2>1. /\ \A y \in Node : parentPNode'[y] \in Node \cup {Nil}
        /\ \A y \in Node : parentCNodeId'[y] \in Id' \cup {EmptyId}
    BY <1>5, <1>7, <1>8 DEF IInv, TypeOK
  <2>2. /\ parentPNode' = [y \in Node |-> parentPNode'[y]]
        /\ parentCNodeId' = [y \in Node |-> parentCNodeId'[y]]
    BY DEF ChangeNodeType, IInv, TypeOK
  <2>3. /\ parentPNode' \in [Node -> Node \cup {Nil}]
        /\ parentCNodeId' \in [Node -> Id' \cup {EmptyId}]
    BY <2>1, <2>2
  <2>4. /\ status' \in [Node -> {"fresh", "used", "out", "free"}] /\ type' \in [Node -> NodeType]
        /\ up' \in [Node -> Node \cup {Nil}] /\ root' \in Node \cup {Nil}
        /\ reusable' \in Node \cup {Nil} /\ place' \in [Node -> Nat] /\ poolSize' \in Nat
    BY <1>1 DEF pool, IInv, TypeOK
  <2> QED BY <1>5, <1>6, <2>3, <2>4 DEF TypeOK
<1>11. PoolLinked'
  <2>1. \A y \in Node : status[y] = "free" => parentPNode'[y] = parentPNode[y]
    BY <1>7, <1>8
  <2>2. {y \in Node : status[y] = "free"} = {y \in Node : status'[y] = "free"}
    BY <1>1
  <2> QED BY <1>1, <2>1, <2>2, PoolKept DEF IInv
<1> QED BY <1>4, <1>5, <1>9, <1>10, <1>11 DEF IInv

(***************************************************************************)
(* A child is in a subtree with its parent, so that the reference of no    *)
(* node is disturbed when the nodes of a subtree leave the tree or return. *)
(***************************************************************************)
LEMMA SubtreeRefs ==
  ASSUME IInv, NEW x \in Node, NEW S \in SUBSET Node, IsSubtree(S, x), up[x] = Nil,
         NEW s \in {"used", "out"}, S \subseteq Placed,
         status' = [y \in Node |-> IF y \in S THEN s ELSE status[y]],
         UNCHANGED <<type, refs, nodeListIndex, find>>
  PROVE  RefsExact'
<1> SUFFICES ASSUME NEW y \in Node PROVE RefExact(y)'
  BY DEF RefsExact
<1>1. Placed' = Placed
  BY DEF Placed, IInv, TypeOK
<1>2. Id' = Id /\ up' = up /\ parentPNode' = parentPNode /\ parentCNodeId' = parentCNodeId
  BY DEF Id, refs
<1>3. CASE up[y] = Nil
  BY <1>1, <1>2, <1>3 DEF IInv, RefsExact, RefExact, DetachedRef
<1>4. CASE up[y] # Nil
  <2>1. AttachedRef(y) /\ up[y] \in Node
    BY <1>4 DEF IInv, RefsExact, RefExact, TypeOK
  <2>2. y \in S <=> up[y] \in S
    BY <1>4 DEF IsSubtree
  <2>3. status'[up[y]] = status'[y]
    BY <2>1, <2>2 DEF AttachedRef
  <2> QED BY <1>1, <1>2, <1>4, <2>1, <2>3 DEF RefExact, AttachedRef
<1> QED BY <1>3, <1>4

(***************************************************************************)
(* What is the same for both directions.                                   *)
(***************************************************************************)
LEMMA SubtreeMoves ==
  ASSUME IInv, NEW S \in SUBSET Node, NEW s \in {"used", "out"}, S \subseteq Placed,
         status' = [y \in Node |-> IF y \in S THEN s ELSE status[y]],
         UNCHANGED <<type, refs, nodeListIndex, find, pool>>
  PROVE  /\ Id' = Id /\ NextId' = NextId /\ Placed' = Placed
         /\ IndicesOwned' /\ FindIdempotent' /\ PoolLinked'
         /\ status' \in [Node -> {"fresh", "used", "out", "free"}]
         /\ \A y \in Node : HasIndex(y)' <=> HasIndex(y)
<1>1. Id' = Id /\ NextId' = NextId /\ Placed' = Placed
  BY DEF Id, NextId, Placed, IInv, TypeOK
<1>2. \A y \in Node : HasIndex(y)' <=> HasIndex(y)
  BY <1>1 DEF HasIndex
<1>3. IndicesOwned' /\ FindIdempotent'
  BY <1>1, <1>2 DEF IInv, IndicesOwned, FindIdempotent
<1>4. {y \in Node : status[y] = "free"} = {y \in Node : status'[y] = "free"}
  BY DEF Placed
<1>5. PoolLinked'
  BY <1>4, PoolKept DEF IInv, refs
<1>6. status' \in [Node -> {"fresh", "used", "out", "free"}]
  BY DEF IInv, TypeOK
<1> QED BY <1>1, <1>2, <1>3, <1>5, <1>6

(***************************************************************************)
(* Taking a subtree out, which intersect() does: its C-nodes are valid, so *)
(* their indices are representatives and stay so.                          *)
(***************************************************************************)
LEMMA TakeOutInv ==
  ASSUME IInv, NEW x \in Node, TakeOut(x)
  PROVE  IInv'
<1>1. PICK S \in SUBSET Node :
      /\ IsSubtree(S, x)
      /\ x \in Used /\ IsDetached(x) /\ x # root
      /\ \A y \in S : ValidNode(y)
      /\ status' = [y \in Node |-> IF y \in S THEN "out" ELSE status[y]]
      /\ leaves' = leaves \ S
      /\ pNodeCount' = pNodeCount - Cardinality(OfType(S, "P"))
      /\ cNodeCount' = cNodeCount - Cardinality(OfType(S, "C"))
      /\ cNodes' = [i \in Id |-> IF i \in Indices(S) THEN Nil ELSE cNodes[i]]
      /\ UNCHANGED <<type, refs, nodeListIndex, find, pool, root>>
  BY DEF TakeOut
<1>2. up[x] = Nil
  BY <1>1, DetachedHasNoUp
<1>3. /\ \A y \in S : status[y] = "used" /\ (type[y] = "C" => find[nodeListIndex[y]] = nodeListIndex[y])
      /\ S \subseteq Placed
  BY <1>1 DEF ValidNode, Placed
<1>4. /\ Id' = Id /\ NextId' = NextId /\ Placed' = Placed
      /\ IndicesOwned' /\ FindIdempotent' /\ PoolLinked'
      /\ status' \in [Node -> {"fresh", "used", "out", "free"}]
      /\ \A y \in Node : HasIndex(y)' <=> HasIndex(y)
  BY <1>1, <1>3, SubtreeMoves
<1>5. RefsExact'
  BY <1>1, <1>2, <1>3, SubtreeRefs
<1>6. TypeOK'
  <2>1. OfType(S, "P") \subseteq Node /\ OfType(S, "C") \subseteq Node
    BY DEF OfType
  <2>2. Cardinality(OfType(S, "P")) \in Nat /\ Cardinality(OfType(S, "C")) \in Nat
    BY <2>1, NodesAssumption, FS_Subset, FS_CardinalityType
  <2>3. leaves' \subseteq Node /\ pNodeCount' \in Int /\ cNodeCount' \in Int
    BY <1>1, <2>2 DEF IInv, TypeOK
  <2>4. cNodes' \in [Id' -> Node \cup {Nil}]
    BY <1>1, <1>4 DEF IInv, TypeOK
  <2> QED BY <1>1, <1>4, <2>3, <2>4 DEF IInv, TypeOK, refs, pool
<1>7. EntriesRight'
  <2>1. ASSUME NEW y \in Node, HasIndex(y)
        PROVE  IF status'[y] = "used" THEN cNodes'[nodeListIndex[y]] = y
               ELSE find[nodeListIndex[y]] = nodeListIndex[y]
    <3>1. nodeListIndex[y] \in Id
      BY <2>1 DEF IInv, IndicesOwned
    <3>2. CASE y \in S
      BY <1>1, <1>3, <2>1, <3>2 DEF HasIndex
    <3>3. CASE y \notin S
      <4>1. nodeListIndex[y] \notin Indices(S)
        BY <1>3, <2>1, <3>3 DEF Indices, OfType, HasIndex, IInv, IndicesOwned
      <4> QED BY <1>1, <2>1, <3>1, <3>3, <4>1 DEF IInv, EntriesRight
    <3> QED BY <3>2, <3>3
  <2>2. ASSUME NEW i \in Id, cNodes'[i] # Nil
        PROVE  /\ status'[cNodes'[i]] = "used" /\ type[cNodes'[i]] = "C"
               /\ nodeListIndex[cNodes'[i]] = i
    <3>1. cNodes'[i] = cNodes[i] /\ i \notin Indices(S) /\ cNodes[i] \in Node
      BY <1>1, <2>2 DEF IInv, TypeOK
    <3>2. status[cNodes[i]] = "used" /\ type[cNodes[i]] = "C" /\ nodeListIndex[cNodes[i]] = i
      BY <2>2, <3>1 DEF IInv, EntriesRight
    <3>3. cNodes[i] \notin S
      BY <3>1, <3>2 DEF Indices, OfType
    <3> QED BY <1>1, <3>1, <3>2, <3>3
  <2> QED BY <1>1, <1>4, <2>1, <2>2 DEF EntriesRight
<1> QED BY <1>4, <1>5, <1>6, <1>7 DEF IInv

(***************************************************************************)
(* Putting it back: no index has two owners, so each entry goes to the     *)
(* node that it was taken from.                                            *)
(***************************************************************************)
LEMMA PutBackInv ==
  ASSUME IInv, NEW x \in Node, PutBack(x)
  PROVE  IInv'
<1>1. PICK S \in SUBSET Node :
      /\ IsSubtree(S, x)
      /\ IsDetached(x)
      /\ \A y \in S : status[y] = "out"
      /\ status' = [y \in Node |-> IF y \in S THEN "used" ELSE status[y]]
      /\ leaves' = leaves \cup OfType(S, "Leaf")
      /\ pNodeCount' = pNodeCount + Cardinality(OfType(S, "P"))
      /\ cNodeCount' = cNodeCount + Cardinality(OfType(S, "C"))
      /\ cNodes' = [i \in Id |-> IF i \in Indices(S)
                                   THEN CHOOSE y \in OfType(S, "C") : nodeListIndex[y] = i
                                   ELSE cNodes[i]]
      /\ UNCHANGED <<type, refs, nodeListIndex, find, pool, root>>
  BY DEF PutBack
<1>2. up[x] = Nil
  BY <1>1, DetachedHasNoUp
<1>3. S \subseteq Placed
  BY <1>1 DEF Placed
<1>4. /\ Id' = Id /\ NextId' = NextId /\ Placed' = Placed
      /\ IndicesOwned' /\ FindIdempotent' /\ PoolLinked'
      /\ status' \in [Node -> {"fresh", "used", "out", "free"}]
      /\ \A y \in Node : HasIndex(y)' <=> HasIndex(y)
  BY <1>1, <1>3, SubtreeMoves
<1>5. RefsExact'
  BY <1>1, <1>2, <1>3, SubtreeRefs
<1>6. ASSUME NEW y \in OfType(S, "C")
      PROVE  nodeListIndex[y] \in Indices(S) /\ cNodes'[nodeListIndex[y]] = y
  <2>1. HasIndex(y) /\ nodeListIndex[y] \in Id /\ nodeListIndex[y] \in Indices(S) /\ y \in Node
    BY <1>3 DEF OfType, HasIndex, Indices, IInv, IndicesOwned
  <2>2. \A z \in OfType(S, "C") : nodeListIndex[z] = nodeListIndex[y] => z = y
    BY <1>3, <2>1 DEF OfType, HasIndex, IInv, IndicesOwned
  <2> QED BY <1>1, <2>1, <2>2
<1>7. TypeOK'
  <2>1. OfType(S, "P") \subseteq Node /\ OfType(S, "C") \subseteq Node /\ OfType(S, "Leaf") \subseteq Node
    BY DEF OfType
  <2>2. Cardinality(OfType(S, "P")) \in Nat /\ Cardinality(OfType(S, "C")) \in Nat
    BY <2>1, NodesAssumption, FS_Subset, FS_CardinalityType
  <2>3. leaves' \subseteq Node /\ pNodeCount' \in Int /\ cNodeCount' \in Int
    BY <1>1, <2>1, <2>2 DEF IInv, TypeOK
  <2>4. cNodes' \in [Id' -> Node \cup {Nil}]
    <3>1. \A i \in Id : cNodes'[i] \in Node \cup {Nil}
      <4> SUFFICES ASSUME NEW i \in Id PROVE cNodes'[i] \in Node \cup {Nil}
        OBVIOUS
      <4>1. CASE i \in Indices(S)
        <5>1. PICK y \in OfType(S, "C") : nodeListIndex[y] = i
          BY <4>1 DEF Indices
        <5> QED BY <1>6, <2>1, <5>1
      <4>2. CASE i \notin Indices(S)
        BY <1>1, <4>2 DEF IInv, TypeOK
      <4> QED BY <4>1, <4>2
    <3>2. cNodes' = [i \in Id |-> cNodes'[i]]
      BY <1>1
    <3> QED BY <1>4, <3>1, <3>2
  <2> QED BY <1>1, <1>4, <2>3, <2>4 DEF IInv, TypeOK, refs, pool
<1>8. EntriesRight'
  <2>1. ASSUME NEW y \in Node, HasIndex(y)
        PROVE  IF status'[y] = "used" THEN cNodes'[nodeListIndex[y]] = y
               ELSE find[nodeListIndex[y]] = nodeListIndex[y]
    <3>1. nodeListIndex[y] \in Id
      BY <2>1 DEF IInv, IndicesOwned
    <3>2. CASE y \in S
      BY <1>1, <1>6, <2>1, <3>2 DEF HasIndex, OfType
    <3>3. CASE y \notin S
      <4>1. nodeListIndex[y] \notin Indices(S)
        BY <1>3, <2>1, <3>3 DEF Indices, OfType, HasIndex, IInv, IndicesOwned
      <4> QED BY <1>1, <2>1, <3>1, <3>3, <4>1 DEF IInv, EntriesRight
    <3> QED BY <3>2, <3>3
  <2>2. ASSUME NEW i \in Id, cNodes'[i] # Nil
        PROVE  /\ status'[cNodes'[i]] = "used" /\ type[cNodes'[i]] = "C"
               /\ nodeListIndex[cNodes'[i]] = i
    <3>1. CASE i \in Indices(S)
      <4>1. PICK y \in OfType(S, "C") : nodeListIndex[y] = i
        BY <3>1 DEF Indices
      <4> QED BY <1>1, <1>6, <4>1 DEF OfType
    <3>2. CASE i \notin Indices(S)
      <4>1. cNodes'[i] = cNodes[i] /\ cNodes[i] \in Node
        BY <1>1, <2>2, <3>2 DEF IInv, TypeOK
      <4>2. status[cNodes[i]] = "used" /\ type[cNodes[i]] = "C" /\ nodeListIndex[cNodes[i]] = i
        BY <2>2, <4>1 DEF IInv, EntriesRight
      <4> QED BY <1>1, <4>1, <4>2
    <3> QED BY <3>1, <3>2
  <2> QED BY <1>1, <1>4, <2>1, <2>2 DEF EntriesRight
<1> QED BY <1>4, <1>5, <1>7, <1>8 DEF IInv

(***************************************************************************)
(* clear() destroys every node of the tree, in any order: the list of      *)
(* reusable nodes has them all, and no index is left.                      *)
(***************************************************************************)
LEMMA ClearPool ==
  ASSUME IInv, Clear
  PROVE  PoolLinked' /\ reusable' \in Node /\ place' \in [Node -> Nat] /\ poolSize' \in Nat
         /\ parentPNode' \in [Node -> Node \cup {Nil}]
<1> DEFINE n == Cardinality(Used)
           free == {y \in Node : status[y] = "free"}
<1>1. Used \subseteq Node /\ root \in Used /\ n \in Nat /\ n # 0
  <2>1. Used \subseteq Node /\ root \in Used /\ IsFiniteSet(Used)
    BY NodesAssumption, FS_Subset DEF Clear, IsSubtree, Used
  <2> QED BY <2>1, FS_CardinalityType, FS_EmptySet
<1>2. PICK order \in Orders(Used) :
       LET turn(x) == CHOOSE i \in DOMAIN order : order[i] = x
       IN  /\ place' = [x \in Node |-> IF x \in Used THEN poolSize + turn(x) ELSE place[x]]
           /\ parentPNode' = [x \in Node |->
                                IF x \notin Used THEN parentPNode[x]
                                ELSE IF turn(x) = 1 THEN reusable ELSE order[turn(x) - 1]]
           /\ reusable' = order[n]
           /\ poolSize' = poolSize + n
  BY DEF Clear
<1> DEFINE turn(x) == CHOOSE i \in DOMAIN order : order[i] = x
<1>3. /\ order \in [1..n -> Used]
      /\ \A x \in Used : \E i \in 1..n : \A j \in 1..n : order[j] = x <=> j = i
  BY <1>2 DEF Orders
<1>4. /\ \A x \in Used : turn(x) \in 1..n /\ order[turn(x)] = x
      /\ \A i \in 1..n : order[i] \in Used /\ turn(order[i]) = i
  BY <1>3
<1>5. /\ \A x \in Node : place'[x] = IF x \in Used THEN poolSize + turn(x) ELSE place[x]
      /\ \A x \in Node : parentPNode'[x] = IF x \notin Used THEN parentPNode[x]
                                           ELSE IF turn(x) = 1 THEN reusable
                                           ELSE order[turn(x) - 1]
      /\ reusable' = order[n] /\ poolSize' = poolSize + n
      /\ place' = [x \in Node |-> place'[x]] /\ parentPNode' = [x \in Node |-> parentPNode'[x]]
  BY <1>2
<1> HIDE DEF turn, n
<1>6. free' = free \cup Used /\ \A x \in free : x \notin Used /\ x \in Node
  BY DEF Clear, Used, IInv, TypeOK
<1>7. /\ \A y \in free : place[y] \in 1..poolSize
      /\ \A y, z \in free : place[y] = place[z] => y = z
      /\ IF poolSize = 0 THEN reusable = Nil
         ELSE reusable \in free /\ place[reusable] = poolSize
      /\ \A y \in free : IF place[y] = 1 THEN parentPNode[y] = Nil
                         ELSE /\ parentPNode[y] \in free
                              /\ place[parentPNode[y]] = place[y] - 1
      /\ poolSize \in Nat /\ place \in [Node -> Nat]
      /\ parentPNode \in [Node -> Node \cup {Nil}] /\ reusable \in Node \cup {Nil}
  BY DEF IInv, PoolLinked, TypeOK
<1> HIDE DEF free
<1>8. reusable' \in Used /\ place'[reusable'] = poolSize' /\ poolSize' \in Nat /\ poolSize' # 0
  BY <1>1, <1>4, <1>5, <1>7
<1>9. \A y \in free' : place'[y] \in 1..poolSize'
  BY <1>1, <1>4, <1>5, <1>6, <1>7
<1>10. ASSUME NEW y \in free', NEW z \in free', place'[y] = place'[z]
       PROVE  y = z
  <2>1. CASE y \in Used /\ z \in Used
    <3>1. turn(y) \in Nat /\ turn(z) \in Nat /\ poolSize + turn(y) = poolSize + turn(z)
      BY <1>1, <1>4, <1>5, <1>10, <2>1
    <3>2. turn(y) = turn(z)
      BY <1>7, <3>1
    <3> QED BY <1>4, <2>1, <3>2
  <2>2. CASE y \notin Used /\ z \notin Used
    BY <1>5, <1>6, <1>7, <1>10, <2>2
  <2>3. CASE y \in Used <=> z \notin Used
    BY <1>1, <1>4, <1>5, <1>6, <1>7, <1>10, <2>3
  <2> QED BY <2>1, <2>2, <2>3
<1>11. ASSUME NEW y \in free'
       PROVE  IF place'[y] = 1 THEN parentPNode'[y] = Nil
              ELSE parentPNode'[y] \in free' /\ place'[parentPNode'[y]] = place'[y] - 1
  <2>1. CASE y \in Used /\ turn(y) = 1
    <3>1. y \in Node /\ place'[y] = poolSize + 1 /\ parentPNode'[y] = reusable
      BY <1>1, <1>5, <2>1
    <3> QED BY <1>5, <1>6, <1>7, <3>1
  <2>2. CASE y \in Used /\ turn(y) # 1
    <3>1. turn(y) \in 1..n /\ turn(y) - 1 \in 1..n
      BY <1>1, <1>4, <2>2
    <3>2. /\ y \in Node /\ place'[y] = poolSize + turn(y) /\ parentPNode'[y] = order[turn(y) - 1]
          /\ order[turn(y) - 1] \in Used /\ turn(order[turn(y) - 1]) = turn(y) - 1
      BY <1>1, <1>4, <1>5, <2>2, <3>1
    <3>3. place'[order[turn(y) - 1]] = poolSize + (turn(y) - 1)
      BY <1>1, <1>5, <3>2
    <3>4. turn(y) \in Nat /\ turn(y) > 1
      BY <1>1, <2>2, <3>1
    <3> QED BY <1>6, <1>7, <3>2, <3>3, <3>4
  <2>3. CASE y \notin Used
    <3>1. y \in free /\ y \in Node /\ place'[y] = place[y] /\ parentPNode'[y] = parentPNode[y]
      BY <1>5, <1>6, <2>3
    <3>2. place[y] # 1 => /\ parentPNode[y] \in free /\ parentPNode[y] \notin Used
                          /\ place'[parentPNode[y]] = place[y] - 1
      BY <1>5, <1>6, <1>7, <3>1
    <3> QED BY <1>6, <1>7, <3>1, <3>2
  <2> QED BY <2>1, <2>2, <2>3
<1>12. PoolLinked'
  BY <1>6, <1>8, <1>9, <1>10, <1>11 DEF PoolLinked, free
<1>13. place' \in [Node -> Nat]
  <2>1. \A y \in Node : place'[y] \in Nat
    BY <1>1, <1>4, <1>5, <1>7
  <2> QED BY <1>5, <2>1
<1>14. parentPNode' \in [Node -> Node \cup {Nil}]
  <2>1. ASSUME NEW y \in Node PROVE parentPNode'[y] \in Node \cup {Nil}
    <3>1. y \in Used /\ turn(y) # 1 => turn(y) - 1 \in 1..n
      BY <1>1, <1>4
    <3> QED BY <1>1, <1>4, <1>5, <1>7, <3>1
  <2> QED BY <1>5, <2>1
<1> QED BY <1>1, <1>8, <1>12, <1>13, <1>14

(***************************************************************************)
(* After clear() no node is in a tree, has a parent or an index.           *)
(***************************************************************************)
LEMMA ClearInv == IInv /\ Clear => IInv'
<1> SUFFICES ASSUME IInv, Clear PROVE IInv'
  OBVIOUS
<1>1. Id' = {} /\ NextId' = 0
  <2>1. Id' = {}
    BY DEF Clear, Id
  <2> QED BY <2>1, FS_EmptySet DEF NextId
<1>2. \A x \in Node : x \notin Used => x \notin Placed /\ ~HasIndex(x)
  BY DEF Clear, Used, Placed, HasIndex
<1>3. /\ status' = [x \in Node |-> IF x \in Used THEN "free" ELSE status[x]]
      /\ parentCNodeId' = [x \in Node |-> IF x \in Used THEN EmptyId ELSE parentCNodeId[x]]
      /\ nodeListIndex' = [x \in Node |-> IF x \in OfType(Used, "C") THEN EmptyId
                                           ELSE nodeListIndex[x]]
      /\ up' = [x \in Node |-> IF x \in Used THEN Nil ELSE up[x]]
      /\ leaves' = {} /\ pNodeCount' = 0 /\ cNodeCount' = 0
      /\ cNodes' = [i \in {} |-> Nil] /\ find' = [i \in {} |-> EmptyId]
      /\ root' = Nil /\ type' = type
  BY DEF Clear
<1>4. \A x \in Node : /\ up'[x] = Nil /\ parentCNodeId'[x] = EmptyId /\ x \notin Placed'
                      /\ nodeListIndex'[x] = EmptyId
  <2> SUFFICES ASSUME NEW x \in Node
               PROVE  /\ up'[x] = Nil /\ parentCNodeId'[x] = EmptyId /\ x \notin Placed'
                      /\ nodeListIndex'[x] = EmptyId
    OBVIOUS
  <2>1. CASE x \in Used
    <3>1. type[x] # "C" => nodeListIndex[x] = EmptyId
      BY DEF IInv, TypeOK, IndicesOwned, HasIndex
    <3> QED BY <1>3, <2>1, <3>1 DEF Placed, OfType
  <2>2. CASE x \notin Used
    <3>1. up[x] = Nil /\ parentCNodeId[x] = EmptyId
      BY <1>2, <2>2, OnlyPlacedHaveKids
    <3>2. nodeListIndex[x] = EmptyId
      BY <1>2, <2>2 DEF IInv, TypeOK, IndicesOwned
    <3> QED BY <1>2, <1>3, <2>2, <3>1, <3>2 DEF Placed, OfType
  <2> QED BY <2>1, <2>2
<1>5. TypeOK'
  <2>1. /\ reusable' \in Node /\ place' \in [Node -> Nat] /\ poolSize' \in Nat
        /\ parentPNode' \in [Node -> Node \cup {Nil}]
    BY ClearPool
  <2>2. /\ status' \in [Node -> {"fresh", "used", "out", "free"}] /\ type' \in [Node -> NodeType]
        /\ up' \in [Node -> Node \cup {Nil}]
    BY <1>3 DEF IInv, TypeOK
  <2>3. /\ parentCNodeId' \in [Node -> Id' \cup {EmptyId}]
        /\ nodeListIndex' \in [Node -> Id' \cup {EmptyId}]
    <3>1. /\ parentCNodeId' = [x \in Node |-> parentCNodeId'[x]]
          /\ nodeListIndex' = [x \in Node |-> nodeListIndex'[x]]
      BY <1>3
    <3> QED BY <1>4, <3>1
  <2>4. find' \in [Id' -> Id'] /\ cNodes' \in [Id' -> Node \cup {Nil}] /\ Id' = 0..(NextId' - 1)
    BY <1>1, <1>3
  <2> QED BY <1>3, <2>1, <2>2, <2>3, <2>4 DEF TypeOK
<1>6. RefsExact'
  BY <1>4 DEF RefsExact, RefExact, DetachedRef
<1>7. IndicesOwned' /\ EntriesRight' /\ FindIdempotent'
  BY <1>1, <1>4 DEF IndicesOwned, EntriesRight, FindIdempotent, HasIndex
<1> QED BY <1>1, <1>5, <1>6, <1>7, ClearPool DEF IInv

(***************************************************************************)
(* The invariant holds always.                                             *)
(***************************************************************************)
THEOREM IInvHolds == Spec => []IInv
<1>1. Init => IInv
  BY InitInv
<1>2. IInv /\ [Next]_vars => IInv'
  <2> SUFFICES ASSUME IInv, [Next]_vars PROVE IInv'
    OBVIOUS
  <2>1. ASSUME NEW x \in Node, NEW t \in NodeType, NEW p \in Node \cup {Nil}, NewNode(x, t, p)
        PROVE  IInv'
    BY <2>1, NewNodeInv
  <2>2. ASSUME NEW x \in Node, NEW y \in Node,
               AppendChild(x, y) \/ InsertBetween(x, y) \/ ReplaceWith(x, y)
        PROVE  IInv'
    BY <2>2, AppendChildInv, InsertBetweenInv, ReplaceWithInv
  <2>3. ASSUME NEW x \in Node, \/ Detach(x) \/ MergeIntoParent(x) \/ DestroyNode(x)
                               \/ GetParent(x) \/ SetRoot(x) \/ ChangeRoot(x)
                               \/ TakeOut(x) \/ PutBack(x)
        PROVE  IInv'
    BY <2>3, DetachInv, MergeIntoParentInv, DestroyNodeInv, GetParentInv, SetRootInv,
       ChangeRootInv, TakeOutInv, PutBackInv
  <2>4. ASSUME NEW x \in Node, NEW t \in NodeType, ChangeNodeType(x, t)
        PROVE  IInv'
    BY <2>4, ChangeNodeTypeInv
  <2>5. CASE Clear
    BY <2>5, ClearInv
  <2>6. CASE UNCHANGED vars
    BY <2>6 DEF vars, refs, table, pool, counts, IInv, TypeOK, Id, NextId, RefsExact, RefExact,
                DetachedRef, AttachedRef, Placed, IndicesOwned, HasIndex, EntriesRight,
                FindIdempotent, PoolLinked
  <2> QED BY <2>1, <2>2, <2>3, <2>4, <2>5, <2>6 DEF Next
<1> QED BY <1>1, <1>2, PTL DEF Spec

(***************************************************************************)
(* Types are right, and no index outlives a clear().                       *)
(***************************************************************************)
THEOREM TypeCorrect == Spec => []TypeOK
<1>1. IInv => TypeOK
  BY DEF IInv
<1> QED BY <1>1, IInvHolds, PTL

(***************************************************************************)
(* getParent() returns the parent.                                         *)
(***************************************************************************)
THEOREM ParentCorrect == Spec => []ParentExact
<1>1. IInv => ParentExact
  BY ParentIsUp DEF ParentExact
<1> QED BY <1>1, IInvHolds, PTL

(***************************************************************************)
(* The table leads to the C-nodes in use and to no other node.             *)
(***************************************************************************)
THEOREM TableCorrect == Spec => []TableExact
<1>1. IInv => TableExact
  <2> SUFFICES ASSUME IInv PROVE TableExact
    OBVIOUS
  <2>1. ASSUME NEW x \in OfType(Used, "C")
        PROVE  cNodes[nodeListIndex[x]] = x /\ (Kids(x) # {} => ValidNode(x))
    <3>1. x \in Node /\ status[x] = "used" /\ type[x] = "C" /\ HasIndex(x)
      BY DEF OfType, Used, HasIndex, Placed
    <3>2. cNodes[nodeListIndex[x]] = x
      BY <3>1 DEF IInv, EntriesRight
    <3>3. ASSUME NEW c \in Node, up[c] = x PROVE find[nodeListIndex[x]] = nodeListIndex[x]
      BY <3>1, <3>3, NodesAssumption DEF IInv, RefsExact, RefExact, AttachedRef
    <3> QED BY <3>1, <3>2, <3>3 DEF Kids, ValidNode
  <2>2. \A i \in Id : cNodes[i] # Nil => /\ status[cNodes[i]] = "used" /\ type[cNodes[i]] = "C"
                                         /\ nodeListIndex[cNodes[i]] = i
    BY DEF IInv, EntriesRight
  <2> QED BY <2>1, <2>2 DEF TableExact
<1> QED BY <1>1, IInvHolds, PTL

(***************************************************************************)
(* The indices of nodes that were taken out wait for them.                 *)
(***************************************************************************)
THEOREM OutCorrect == Spec => []OutReserved
<1>1. IInv => OutReserved
  <2> SUFFICES ASSUME IInv, NEW x \in Node, status[x] = "out", type[x] = "C"
               PROVE  /\ cNodes[nodeListIndex[x]] = Nil
                      /\ find[nodeListIndex[x]] = nodeListIndex[x]
                      /\ \A y \in Used : parentCNodeId[y] # EmptyId =>
                                           find[parentCNodeId[y]] # nodeListIndex[x]
    BY DEF OutReserved
  <2>1. HasIndex(x) /\ nodeListIndex[x] \in Id
    BY DEF HasIndex, Placed, IInv, IndicesOwned
  <2>2. find[nodeListIndex[x]] = nodeListIndex[x]
    BY <2>1 DEF IInv, EntriesRight
  <2>3. cNodes[nodeListIndex[x]] = Nil
    <3> SUFFICES ASSUME cNodes[nodeListIndex[x]] # Nil PROVE FALSE
      OBVIOUS
    <3> DEFINE z == cNodes[nodeListIndex[x]]
    <3>1. z \in Node /\ HasIndex(z) /\ status[z] = "used" /\ nodeListIndex[z] = nodeListIndex[x]
      BY <2>1 DEF IInv, TypeOK, EntriesRight, HasIndex, Placed
    <3> HIDE DEF z
    <3> QED BY <2>1, <3>1 DEF IInv, IndicesOwned
  <2>4. ASSUME NEW y \in Used, parentCNodeId[y] # EmptyId
        PROVE  find[parentCNodeId[y]] # nodeListIndex[x]
    <3>1. y \in Node /\ status[y] = "used"
      BY DEF Used
    <3>2. up[y] # Nil
      BY <2>4, <3>1 DEF IInv, RefsExact, RefExact, DetachedRef
    <3>3. AttachedRef(y) /\ type[up[y]] = "C"
      BY <2>4, <3>1, <3>2 DEF IInv, RefsExact, RefExact, AttachedRef
    <3>4. HasIndex(up[y]) /\ up[y] \in Node /\ up[y] # x
      BY <3>1, <3>3 DEF AttachedRef, HasIndex, Placed
    <3> QED BY <2>1, <3>3, <3>4 DEF AttachedRef, IInv, IndicesOwned
  <2> QED BY <2>2, <2>3, <2>4
<1> QED BY <1>1, IInvHolds, PTL

(***************************************************************************)
(* The list of reusable nodes has every destroyed node once.               *)
(***************************************************************************)
THEOREM PoolCorrect == Spec => []PoolLinked
<1>1. IInv => PoolLinked
  BY DEF IInv
<1> QED BY <1>1, IInvHolds, PTL

(***************************************************************************)
(* The counters.  Counted(t) are the nodes of a type that they count.      *)
(***************************************************************************)
Counted(t) == OfType(Used, t)

LEMMA CountedFinite ==
  ASSUME NEW S \in SUBSET Node, NEW t
  PROVE  IsFiniteSet(OfType(S, t)) /\ Cardinality(OfType(S, t)) \in Nat
<1>1. OfType(S, t) \subseteq Node
  BY DEF OfType
<1> QED BY <1>1, NodesAssumption, FS_Subset, FS_CardinalityType

(***************************************************************************)
(* unregisterNode and registerNode keep the counters right if they are     *)
(* called with the types that the node had and gets, where it is in use.   *)
(***************************************************************************)
LEMMA CountRight ==
  ASSUME IInv, CountsExact, NEW x \in Node, NEW old, NEW new, Count(x, old, new),
         old = IF x \in Used THEN type[x] ELSE "none",
         new = IF x \in Used' THEN type'[x] ELSE "none",
         \A y \in Node \ {x} : status'[y] = status[y] /\ type'[y] = type[y]
  PROVE  CountsExact'
<1>1. Used \subseteq Node /\ Used' \subseteq Node
  BY DEF Used
<1>2. ASSUME NEW t \in NodeType
      PROVE  Counted(t)' = IF new = t THEN (Counted(t) \ {x}) \cup {x} ELSE Counted(t) \ {x}
  <2>1. x \in Counted(t)' <=> new = t
    BY DEF Counted, OfType, NodeType
  <2>2. \A y \in Node \ {x} : y \in Counted(t)' <=> y \in Counted(t)
    BY DEF Counted, OfType, Used
  <2> QED BY <1>1, <2>1, <2>2 DEF Counted, OfType
<1>3. ASSUME NEW t \in NodeType PROVE x \in Counted(t) <=> old = t
  BY DEF Counted, OfType, NodeType
<1>4. ASSUME NEW t \in NodeType
      PROVE  Cardinality(Counted(t)') = Cardinality(Counted(t)) - Bit(old = t) + Bit(new = t)
  <2>1. IsFiniteSet(Counted(t)) /\ Cardinality(Counted(t)) \in Nat
    BY <1>1, CountedFinite DEF Counted
  <2>2. /\ IsFiniteSet(Counted(t) \ {x})
        /\ Cardinality(Counted(t) \ {x}) = IF x \in Counted(t) THEN Cardinality(Counted(t)) - 1
                                           ELSE Cardinality(Counted(t))
    BY <2>1, FS_RemoveElement
  <2>3. Cardinality((Counted(t) \ {x}) \cup {x}) = Cardinality(Counted(t) \ {x}) + 1
    BY <2>2, FS_AddElement
  <2>4. Bit(old = t) = (IF old = t THEN 1 ELSE 0) /\ Bit(new = t) = (IF new = t THEN 1 ELSE 0)
    BY DEF Bit
  <2>5. Cardinality(Counted(t)') = IF new = t THEN Cardinality(Counted(t) \ {x}) + 1
                                   ELSE Cardinality(Counted(t) \ {x})
    BY <1>2, <2>3
  <2>6. x \in Counted(t) <=> old = t
    BY <1>3
  <2> HIDE DEF Counted
  <2> QED BY <2>1, <2>2, <2>4, <2>5, <2>6
<1>5. leaves' = Counted("Leaf")'
  BY <1>2 DEF Count, CountsExact, Counted, NodeType
<1> QED BY <1>4, <1>5 DEF Count, CountsExact, Counted, NodeType

(***************************************************************************)
(* Nothing to be counted changes.                                          *)
(***************************************************************************)
LEMMA CountsKept == CountsExact /\ UNCHANGED <<status, type, counts>> => CountsExact'
BY DEF CountsExact, OfType, Used, counts

(***************************************************************************)
(* A subtree that is in the tree before, or after, the step, but not both. *)
(***************************************************************************)
LEMMA SubtreeCounted ==
  ASSUME NEW A \in SUBSET Node, NEW S \in SUBSET Node, NEW t, S \cap A = {}
  PROVE  /\ OfType(A \cup S, t) = OfType(A, t) \cup OfType(S, t)
         /\ Cardinality(OfType(A \cup S, t)) = Cardinality(OfType(A, t)) + Cardinality(OfType(S, t))
<1> DEFINE a == OfType(A, t)
           b == OfType(S, t)
<1>1. OfType(A \cup S, t) = a \cup b /\ a \cap b = {}
  BY DEF OfType
<1>2. IsFiniteSet(a) /\ Cardinality(a) \in Nat /\ IsFiniteSet(b) /\ Cardinality(b) \in Nat
  BY CountedFinite
<1> HIDE DEF a, b
<1>3. Cardinality(a \cup b) = Cardinality(a) + Cardinality(b) - Cardinality(a \cap b)
  BY <1>2, FS_Union
<1>4. Cardinality(a \cap b) = 0
  BY <1>1, FS_EmptySet
<1>5. Cardinality(a \cup b) = Cardinality(a) + Cardinality(b)
  BY <1>2, <1>3, <1>4
<1> QED BY <1>1, <1>5 DEF a, b

(***************************************************************************)
(* The counters are right.                                                 *)
(***************************************************************************)
THEOREM CountsCorrect == Spec => []CountsExact
<1>1. Init => CountsExact
  <2> SUFFICES ASSUME Init PROVE CountsExact
    OBVIOUS
  <2>1. \A t : OfType(Used, t) = {}
    BY DEF Init, OfType, Used
  <2> QED BY <2>1, FS_EmptySet DEF Init, CountsExact
<1>2. IInv /\ CountsExact /\ [Next]_vars => CountsExact'
  <2> SUFFICES ASSUME IInv, CountsExact, [Next]_vars PROVE CountsExact'
    OBVIOUS
  <2>1. ASSUME NEW x \in Node, NEW t \in NodeType, NEW p \in Node \cup {Nil}, NewNode(x, t, p)
        PROVE  CountsExact'
    <3>1. x \notin Used
      BY <2>1, NodesAssumption DEF NewNode, IInv, PoolLinked, Used
    <3>2. /\ status' = [status EXCEPT ![x] = "used"] /\ type' = [type EXCEPT ![x] = t]
          /\ Count(x, "none", t)
      BY <2>1 DEF NewNode, Register
    <3>3. /\ x \in Used' /\ type'[x] = t
          /\ \A y \in Node \ {x} : status'[y] = status[y] /\ type'[y] = type[y]
      BY <3>2 DEF Used, IInv, TypeOK
    <3> QED BY <3>1, <3>2, <3>3, CountRight
  <2>2. ASSUME NEW x \in Node, DestroyNode(x) PROVE CountsExact'
    <3>1. /\ x \in Used /\ status' = [status EXCEPT ![x] = "free"] /\ type' = type
          /\ Count(x, type[x], "none")
      BY <2>2 DEF DestroyNode, Register, Used
    <3>2. x \notin Used' /\ \A y \in Node \ {x} : status'[y] = status[y] /\ type'[y] = type[y]
      BY <3>1 DEF Used, IInv, TypeOK
    <3> QED BY <3>1, <3>2, CountRight
  <2>3. ASSUME NEW x \in Node, NEW t \in NodeType, ChangeNodeType(x, t) PROVE CountsExact'
    <3>1. /\ x \in Used /\ status' = status /\ type' = [type EXCEPT ![x] = t]
          /\ Count(x, type[x], t)
      BY <2>3 DEF ChangeNodeType, ValidNode, Register, Used
    <3>2. /\ x \in Used' /\ type'[x] = t
          /\ \A y \in Node \ {x} : status'[y] = status[y] /\ type'[y] = type[y]
      BY <3>1 DEF Used, IInv, TypeOK
    <3> QED BY <3>1, <3>2, CountRight
  <2>4. ASSUME NEW x \in Node, TakeOut(x) PROVE CountsExact'
    <3>1. PICK S \in SUBSET Node :
            /\ \A y \in S : ValidNode(y)
            /\ status' = [y \in Node |-> IF y \in S THEN "out" ELSE status[y]]
            /\ leaves' = leaves \ S
            /\ pNodeCount' = pNodeCount - Cardinality(OfType(S, "P"))
            /\ cNodeCount' = cNodeCount - Cardinality(OfType(S, "C"))
            /\ type' = type
      BY <2>4 DEF TakeOut
    <3>2. Used = Used' \cup S /\ S \cap Used' = {} /\ Used' \subseteq Node
      BY <3>1 DEF Used, ValidNode
    <3>3. \A t : /\ OfType(Used, t) = OfType(Used', t) \cup OfType(S, t)
                 /\ Cardinality(OfType(Used, t)) = Cardinality(OfType(Used', t)) + Cardinality(OfType(S, t))
                 /\ Cardinality(OfType(Used', t)) \in Nat /\ Cardinality(OfType(S, t)) \in Nat
      <4> DEFINE A == Used'
      <4>1. Used = A \cup S /\ S \cap A = {} /\ A \in SUBSET Node
        BY <3>2
      <4> HIDE DEF A
      <4>2. \A t : /\ OfType(Used, t) = OfType(A, t) \cup OfType(S, t)
                   /\ Cardinality(OfType(Used, t)) = Cardinality(OfType(A, t)) + Cardinality(OfType(S, t))
        BY <4>1, SubtreeCounted
      <4>3. \A t : Cardinality(OfType(A, t)) \in Nat /\ Cardinality(OfType(S, t)) \in Nat
        BY <4>1, CountedFinite
      <4> QED BY <4>2, <4>3 DEF A
    <3>4. leaves' = OfType(Used', "Leaf")
      BY <3>1, <3>2, <3>3 DEF CountsExact, OfType
    <3>5. \A t : OfType(Used, t)' = OfType(Used', t)
      BY <3>1 DEF OfType
    <3> HIDE DEF OfType
    <3> QED BY <3>1, <3>3, <3>4, <3>5 DEF CountsExact
  <2>5. ASSUME NEW x \in Node, PutBack(x) PROVE CountsExact'
    <3>1. PICK S \in SUBSET Node :
            /\ \A y \in S : status[y] = "out"
            /\ status' = [y \in Node |-> IF y \in S THEN "used" ELSE status[y]]
            /\ leaves' = leaves \cup OfType(S, "Leaf")
            /\ pNodeCount' = pNodeCount + Cardinality(OfType(S, "P"))
            /\ cNodeCount' = cNodeCount + Cardinality(OfType(S, "C"))
            /\ type' = type
      BY <2>5 DEF PutBack
    <3>2. Used' = Used \cup S /\ S \cap Used = {} /\ Used \subseteq Node
      BY <3>1 DEF Used
    <3>3. \A t : /\ OfType(Used', t) = OfType(Used, t) \cup OfType(S, t)
                 /\ Cardinality(OfType(Used', t)) = Cardinality(OfType(Used, t)) + Cardinality(OfType(S, t))
      BY <3>2, SubtreeCounted
    <3>4. \A t : OfType(Used, t)' = OfType(Used', t)
      BY <3>1 DEF OfType
    <3> QED BY <3>1, <3>3, <3>4 DEF CountsExact
  <2>6. ASSUME NEW x \in Node, NEW y \in Node,
               \/ AppendChild(x, y) \/ InsertBetween(x, y) \/ ReplaceWith(x, y)
               \/ Detach(x) \/ MergeIntoParent(x) \/ GetParent(x) \/ SetRoot(x) \/ ChangeRoot(x)
        PROVE  CountsExact'
    <3>1. UNCHANGED <<status, type, counts>>
      BY <2>6 DEF AppendChild, InsertBetween, ReplaceWith, Detach, MergeIntoParent, GetParent,
                  SetRoot, ChangeRoot
    <3> QED BY <3>1, CountsKept
  <2>7. CASE Clear
    <3>1. \A t : OfType(Used, t)' = {}
      BY <2>7 DEF Clear, OfType, Used
    <3> QED BY <2>7, <3>1, FS_EmptySet DEF Clear, CountsExact
  <2>8. CASE UNCHANGED vars
    BY <2>8, CountsKept DEF vars
  <2> QED BY <2>1, <2>2, <2>3, <2>4, <2>5, <2>6, <2>7, <2>8 DEF Next
<1> QED BY <1>1, <1>2, IInvHolds, PTL DEF Spec
===============================================================================
