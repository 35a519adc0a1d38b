----------------------------- MODULE DisjointSets -----------------------------
(***************************************************************************)
(* DisjointSets<> (src/include/pctree/util/DisjointSets.h) with its        *)
(* default options, linking by index and path splitting, as the forest     *)
(* keeps it for its C-nodes.  The loop of find takes one step per round;   *)
(* quickUnion first compares the parents of its arguments, as line 41 of   *)
(* the header defines OGDF_DISJOINT_SETS_INTERMEDIATE_PARENT_CHECK.        *)
(***************************************************************************)
EXTENDS Integers, FiniteSets

CONSTANTS
  MaxElements,     \* bound: no more sets are made than this
  InitialCapacity  \* the constructor's maxNumberOfElements

ASSUME SizesAssumption ==
  /\ MaxElements \in Nat
  /\ InitialCapacity \in Nat \ {0}

VARIABLES
  parents,           \* m_parents, as far as it is initialised
  numberOfElements,  \* m_numberOfElements
  capacity,          \* m_maxNumberOfElements, the length of the array
  numberOfSets,      \* m_numberOfSets
  rep,               \* history: the representative of the set of an element
  pc,                \* "idle", "find", or in quickUnion: "union" before its
                     \* finds, then "first" and "second" in the two of them
  set1, set2,        \* the arguments of the call
  set, parent, grandParent,  \* the locals of find
  result             \* what the latest call returned

shape == <<numberOfElements, capacity>>
locals == <<set1, set2, set, parent, grandParent>>
setsVars == <<parents, shape, numberOfSets, rep, pc, locals, result>>

Element == 0..(numberOfElements - 1)

SetsInit ==
  /\ parents = [i \in {} |-> 0] /\ rep = [i \in {} |-> 0]
  /\ numberOfElements = 0 /\ capacity = InitialCapacity
  /\ numberOfSets = 0
  /\ pc = "idle"
  /\ set1 = 0 /\ set2 = 0 /\ set = 0 /\ parent = 0 /\ grandParent = 0
  /\ result = 0

\* The length of the array once it has room for the element id.
GrownCapacity(id) == IF id = capacity THEN capacity * 2 ELSE capacity

\* makeSet(), which doubles the array when it is used up.
MakeSet ==
  LET id == numberOfElements
  IN  /\ pc = "idle"
      /\ numberOfElements < MaxElements
      /\ capacity' = GrownCapacity(id)
      /\ numberOfElements' = id + 1
      /\ numberOfSets' = numberOfSets + 1
      /\ parents' = [i \in 0..id |-> IF i = id THEN id ELSE parents[i]]
      /\ rep' = [i \in 0..id |-> IF i = id THEN id ELSE rep[i]]
      /\ result' = id
      /\ UNCHANGED <<pc, locals>>

\* init(), which keeps the capacity.
Reset ==
  /\ pc = "idle"
  /\ parents' = [i \in {} |-> 0] /\ rep' = [i \in {} |-> 0]
  /\ numberOfElements' = 0 /\ numberOfSets' = 0
  /\ UNCHANGED <<capacity, pc, locals, result>>

\* linkPure by index on two different representatives: the larger one wins.
Join(r1, r2) ==
  LET winner == IF r1 < r2 THEN r2 ELSE r1
      loser  == IF r1 < r2 THEN r1 ELSE r2
  IN  /\ parents' = [parents EXCEPT ![loser] = winner]
      /\ rep' = [i \in Element |-> IF rep[i] = loser THEN winner ELSE rep[i]]
      /\ numberOfSets' = numberOfSets - 1

\* Mutant of Link: it counts a set less when the two are the same.
Link_CountsSame(r1, r2) ==
  /\ pc = "idle"
  /\ parents[r1] = r1 /\ parents[r2] = r2
  /\ IF r1 = r2
       THEN result' = -1 /\ numberOfSets' = numberOfSets - 1 /\ UNCHANGED <<parents, rep>>
       ELSE Join(r1, r2) /\ result' = IF r1 < r2 THEN r2 ELSE r1
  /\ UNCHANGED <<shape, pc, locals>>

\* link(r1, r2), which asserts that it is given two representatives.
Link(r1, r2) ==
  /\ pc = "idle"
  /\ parents[r1] = r1 /\ parents[r2] = r2
  /\ IF r1 = r2
       THEN result' = -1 /\ UNCHANGED <<parents, rep, numberOfSets>>
       ELSE Join(r1, r2) /\ result' = IF r1 < r2 THEN r2 ELSE r1
  /\ UNCHANGED <<shape, pc, locals>>

\* find(x) reads its first two ancestors.
Enter(x) ==
  /\ set' = x
  /\ parent' = parents[x]
  /\ grandParent' = parents[parents[x]]

CallFind(x) ==
  /\ pc = "idle"
  /\ pc' = "find"
  /\ set1' = x
  /\ Enter(x)
  /\ UNCHANGED <<parents, shape, numberOfSets, rep, set2, result>>

CallQuickUnion(x, y) ==
  /\ pc = "idle"
  /\ pc' = "union"
  /\ set1' = x /\ set2' = y
  /\ UNCHANGED <<parents, shape, numberOfSets, rep, set, parent, grandParent, result>>

\* Two elements with the same parent are known to be in one set.
SameParent(x, y) == parents[x] = parents[y]

\* quickUnion returns false before any find.
ReturnKnown ==
  /\ pc = "union"
  /\ set1 = set2 \/ SameParent(set1, set2)
  /\ pc' = "idle"
  /\ result' = 0
  /\ UNCHANGED <<parents, shape, numberOfSets, rep, locals>>

\* quickUnion starts its first find.
EnterFirst ==
  /\ pc = "union"
  /\ set1 # set2 /\ ~SameParent(set1, set2)
  /\ pc' = "first"
  /\ Enter(set1)
  /\ UNCHANGED <<parents, shape, numberOfSets, rep, set1, set2, result>>

\* A find has read the first ancestors and not returned yet.
Walking == pc \in {"find", "first", "second"}

\* Mutants of Split: set skips a node of the walk; the walk stays at set.
Split_TwoUp ==
  /\ Walking
  /\ parent # grandParent
  /\ parents' = [parents EXCEPT ![set] = grandParent]
  /\ set' = grandParent
  /\ parent' = grandParent
  /\ grandParent' = parents[grandParent]
  /\ UNCHANGED <<shape, numberOfSets, rep, pc, set1, set2, result>>

Split_Stays ==
  /\ Walking
  /\ parent # grandParent
  /\ parents' = [parents EXCEPT ![set] = grandParent]
  /\ UNCHANGED <<shape, numberOfSets, rep, pc, locals, result>>

\* One round of the loop: set skips its parent.
Split ==
  /\ Walking
  /\ parent # grandParent
  /\ parents' = [parents EXCEPT ![set] = grandParent]
  /\ set' = parent
  /\ parent' = grandParent
  /\ grandParent' = parents[grandParent]
  /\ UNCHANGED <<shape, numberOfSets, rep, pc, set1, set2, result>>

\* Mutant of ReturnFind: the node before the root is returned.
ReturnFind_Set ==
  /\ pc = "find"
  /\ parent = grandParent
  /\ pc' = "idle"
  /\ result' = set
  /\ UNCHANGED <<parents, shape, numberOfSets, rep, locals>>

ReturnFind ==
  /\ pc = "find"
  /\ parent = grandParent
  /\ pc' = "idle"
  /\ result' = parent
  /\ UNCHANGED <<parents, shape, numberOfSets, rep, locals>>

\* Mutant of ReturnFirst: the second find starts before the first has ended.
ReturnFirst_Early ==
  /\ pc = "first"
  /\ pc' = "second"
  /\ set1' = parent
  /\ Enter(set2)
  /\ UNCHANGED <<parents, shape, numberOfSets, rep, set2, result>>

\* quickUnion goes on with its second argument.
ReturnFirst ==
  /\ pc = "first"
  /\ parent = grandParent
  /\ pc' = "second"
  /\ set1' = parent
  /\ Enter(set2)
  /\ UNCHANGED <<parents, shape, numberOfSets, rep, set2, result>>

ReturnSecond ==
  /\ pc = "second"
  /\ parent = grandParent
  /\ pc' = "idle"
  /\ IF set1 # parent
       THEN Join(set1, parent) /\ result' = 1
       ELSE result' = 0 /\ UNCHANGED <<parents, rep, numberOfSets>>
  /\ UNCHANGED <<shape, locals>>

Run ==
  \/ Split \/ ReturnFind
  \/ ReturnKnown \/ EnterFirst \/ ReturnFirst \/ ReturnSecond

SetsNext ==
  \/ MakeSet
  \/ Reset
  \/ \E x, y \in Element : Link(x, y) \/ CallQuickUnion(x, y)
  \/ \E x \in Element : CallFind(x)
  \/ Run

SetsSpec == SetsInit /\ [][SetsNext]_setsVars

\* A call is an ordinary function: once entered it runs to its end.
FairSpec == SetsSpec /\ WF_setsVars(Run)

(***************************************************************************)
(* Type correctness; the array always has room for the elements.           *)
(***************************************************************************)
SetsTypeOK ==
  /\ numberOfElements \in Nat /\ capacity \in Nat \ {0}
  /\ numberOfElements <= capacity
  /\ parents \in [Element -> Element]
  /\ rep \in [Element -> Element]
  /\ numberOfSets \in Int
  /\ pc \in {"idle", "find", "union", "first", "second"}
  /\ pc # "idle" => set1 \in Element
  /\ pc \in {"union", "first", "second"} => set2 \in Element
  /\ Walking => {set, parent, grandParent} \subseteq Element
  /\ result \in Int

(***************************************************************************)
(* Parent pointers stay inside the set of their element, whatever find     *)
(* shortens on its way: an element and its parent have the same            *)
(* representative, and the representatives are exactly the roots.          *)
(***************************************************************************)
PartitionKept ==
  \A i \in Element : /\ rep[parents[i]] = rep[i]
                     /\ parents[rep[i]] = rep[i]
                     /\ parents[i] = i => rep[i] = i

(***************************************************************************)
(* Linking by index keeps the pointers free of cycles: they only go up.    *)
(***************************************************************************)
OrderedByIndex == \A i \in Element : i <= parents[i]

(***************************************************************************)
(* The locals of find are up to date although every round writes to the    *)
(* array they were read from, the walk stays in the set of the argument,   *)
(* and the root that the first find of quickUnion returned is still a root *)
(* when the second one ends.                                               *)
(***************************************************************************)
WalkInSet ==
  Walking =>
    /\ parent = parents[set]
    /\ grandParent = parents[parent]
    /\ rep[set] = rep[IF pc = "second" THEN set2 ELSE set1]
    /\ pc = "second" => parents[set1] = set1

(***************************************************************************)
(* All of this, in the middle of every find too.                           *)
(***************************************************************************)
Inv == SetsTypeOK /\ PartitionKept /\ OrderedByIndex /\ WalkInSet

(***************************************************************************)
(* getNumberOfSets() is the number of roots, counted along by makeSet,     *)
(* link and quickUnion.                                                    *)
(***************************************************************************)
SetsCounted ==
  numberOfSets = Cardinality({i \in Element : parents[i] = i})

(***************************************************************************)
(* find returns the representative of its argument, although it rewrites   *)
(* the pointers while it follows them.                                     *)
(***************************************************************************)
FindReturnsRep ==
  [][pc = "find" /\ pc' = "idle" => result' = rep[set1]]_setsVars

\* quickUnion returns, from its parent check or after both finds.
UnionReturns == pc \in {"union", "second"} /\ pc' = "idle"

(***************************************************************************)
(* quickUnion unites the sets of its two arguments, no more and no less,   *)
(* and says whether they were two, wherever it returns; after the finds    *)
(* set1 has been overwritten with the representative of the first set.     *)
(***************************************************************************)
QuickUnionUnites ==
  [][UnionReturns =>
       /\ result' = 1 <=> rep[set1] # rep[set2]
       /\ \A i, j \in Element :
            rep'[i] = rep'[j] <=> \/ rep[i] = rep[j]
                                  \/ {rep[i], rep[j]} = {rep[set1], rep[set2]}]_setsVars

(***************************************************************************)
(* A pointer is never moved down again: find only shortens the way up.     *)
(***************************************************************************)
NeverDown ==
  [][\A i \in Element \cap Element' : parents[i] <= parents'[i]]_setsVars

(***************************************************************************)
(* Every find and every quickUnion comes to its end.                       *)
(***************************************************************************)
FindEnds == pc # "idle" ~> pc = "idle"
=============================================================================
