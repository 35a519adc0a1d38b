-------------------------- MODULE PCTreeRestriction --------------------------
(***************************************************************************)
(* PCTree::makeConsecutive (src/include/pctree/PCTree.h and                *)
(* src/src/PCTree_restriction.cpp), one step per markFull call, per round  *)
(* of findTerminalPath's loop and per merge of updateTerminalPath.  The    *)
(* points between the steps are those at which an Observer is called.      *)
(*                                                                         *)
(* Between two calls the user may call changeRoot.                         *)
(***************************************************************************)
EXTENDS PCTreeShape

CONSTANTS
  InitTrees,  \* the trees the user may start with
  Requests,   \* the leaf sequences the user may pass to makeConsecutive
  NewRoots    \* the nodes the user may pass to changeRoot

ASSUME RequestsAssumption == \A leaves \in Requests : leaves \in Seq(Leaves) /\ IsInjective(leaves)

VARIABLES
  tree,
  temp,    \* the labels, the TempInfo of every node, and the PCTree's own
           \* "temp makeConsecutive variables"
  pc,      \* how far the call has come
  work,    \* the local variables of the call
  client   \* the user's view: the set of leaves of the pending request, the
           \* latest answer and, a history variable, the tree before the call

vars == <<tree, temp, pc, work, client>>

ClearedTemp ==
  [label           |-> [x \in Node |-> "Empty"],
   fullNeighbors   |-> [x \in Node |-> <<>>],
   tpPred          |-> [x \in Node |-> Nil],
   tpPartialPred   |-> [x \in Node |-> Nil],
   tpPartialHeight |-> [x \in Node |-> 0],
   tpSucc          |-> [x \in Node |-> Nil],
   ebEnd1          |-> [x \in Node |-> Nil],
   fbEnd1          |-> [x \in Node |-> Nil],
   fbEnd2          |-> [x \in Node |-> Nil],
   ebEnd2          |-> [x \in Node |-> Nil],
   partials        |-> <<>>,   \* m_firstPartial .. m_lastPartial
   apexCandidate   |-> Nil,
   apexCandidateIsFix |-> FALSE,
   apexTPPred2     |-> Nil,
   terminalPathLength |-> 0,
   failed          |-> FALSE]  \* a step of the search has returned false

\* The temporary data of a node that newNode has just handed out.
ClearedFor(s, x) ==
  [s EXCEPT !.label[x] = "Empty", !.fullNeighbors[x] = <<>>,
            !.tpPred[x] = Nil, !.tpPartialPred[x] = Nil,
            !.tpPartialHeight[x] = 0, !.tpSucc[x] = Nil,
            !.ebEnd1[x] = Nil, !.fbEnd1[x] = Nil,
            !.fbEnd2[x] = Nil, !.ebEnd2[x] = Nil]

NoWork == [todo |-> <<>>, full |-> Nil, central |-> Nil, tpNeigh |-> Nil,
           slot |-> 1, merged |-> 0]

Init ==
  /\ tree \in InitTrees
  /\ temp = ClearedTemp
  /\ pc = "idle"
  /\ work = NoWork
  /\ client = [request |-> Nil, answer |-> TRUE, before |-> Nil]

\* The call ends with the temporary data s and the answer ok.
Return(s, ok) ==
  /\ pc' = "idle"
  /\ temp' = s
  /\ work' = NoWork
  /\ client' = [request |-> Nil, answer |-> ok, before |-> Nil]

IsFull(s, x) == s.label[x] = "Full"

(***************************************************************************)
(* The call: resetTempData, the trivial cases, and markFull.               *)
(***************************************************************************)
MakeConsecutive(leaves) ==
  /\ pc = "idle"
  /\ pc' = "called"
  /\ work' = [work EXCEPT !.todo = leaves]
  /\ client' = [client EXCEPT !.request = ToSet(leaves), !.before = tree]
  /\ UNCHANGED <<tree, temp>>

IsTrivialRestriction(n) == n <= 1 \/ n >= Cardinality({x \in Leaves : tree.type[x] = "leaf"}) - 1

ReturnTrivial ==
  /\ pc = "called"
  /\ IsTrivialRestriction(Len(work.todo))
  /\ Return(ClearedTemp, TRUE)
  /\ UNCHANGED tree

StartMarking ==
  /\ pc = "called"
  /\ ~IsTrivialRestriction(Len(work.todo))
  /\ temp' = ClearedTemp
  /\ pc' = "marking"
  /\ UNCHANGED <<tree, work, client>>

\* The first child of x that is not full.
FirstOtherChild(t, s, x) ==
  LET kids == t.kids[x]
  IN  kids[CHOOSE i \in DOMAIN kids : /\ ~IsFull(s, kids[i])
                                      /\ \A j \in 1..(i - 1) : IsFull(s, kids[j])]

\* Mutant of PartialNeighbor: a full parent hears of x nevertheless.
PartialNeighbor_FullParent(t, s, x) ==
  IF t.parent[x] # Nil THEN t.parent[x]
  ELSE FirstOtherChild(t, s, x)

\* The neighbor that hears of x being full: the parent, unless there is none
\* or it is full itself; then the first child that is not.
PartialNeighbor(t, s, x) ==
  LET p == t.parent[x]
  IN  IF p # Nil /\ ~IsFull(s, p) THEN p
      ELSE FirstOtherChild(t, s, x)

\* markFull(x); the node that is full in turn is left in work.full.
MarkFull(x) ==
  LET s1 == [temp EXCEPT !.label[x] = "Full",
                          !.partials = IF x \in Leaves THEN @ ELSE RemoveAt(@, PositionOf(@, x))]
      q  == PartialNeighbor(tree, s1, x)
      s2 == [s1 EXCEPT !.fullNeighbors[q] = Append(@, x)]
      n  == Len(s2.fullNeighbors[q])
  IN  /\ temp' = IF n = 1
                   THEN [s2 EXCEPT !.label[q] = "Partial", !.partials = Append(@, q)]
                   ELSE s2
      /\ work' = [work EXCEPT !.full = IF n = Degree(tree, q) - 1 THEN q ELSE Nil,
                              !.todo = IF x \in Leaves THEN Tail(@) ELSE @]
      /\ UNCHANGED <<tree, pc, client>>

MarkLeafFull ==
  /\ pc = "marking"
  /\ work.full = Nil
  /\ work.todo # <<>>
  /\ MarkFull(Head(work.todo))

MarkInnerFull ==
  /\ pc = "marking"
  /\ work.full # Nil
  /\ MarkFull(work.full)

StartSearch ==
  /\ pc = "marking"
  /\ work.full = Nil
  /\ work.todo = <<>>
  /\ pc' = "searching"
  /\ UNCHANGED <<tree, temp, work, client>>

(***************************************************************************)
(* findTerminalPath.                                                       *)
(***************************************************************************)

\* The candidate non, from which there is no way up, lies above the confirmed
\* one on the same path: the search went too far.
TooFar(s, non, fixAC) ==
  /\ s.label[non] = "Empty"
  /\ s.tpPartialPred[non] = IF s.label[fixAC] = "Partial" THEN fixAC ELSE s.tpPartialPred[fixAC]

\* Mutant of Excess: the way from the partial node up to fixAC counts too.
Excess_FromPartial(s, non, fixAC) == s.tpPartialHeight[non]

\* How many nodes too far.
Excess(s, non, fixAC) ==
  s.tpPartialHeight[non] - IF s.label[fixAC] = "Partial" THEN 0 ELSE s.tpPartialHeight[fixAC]

\* setApexCandidate(ac, fix)
SetApexCandidate(s0, ac, fix) ==
  LET s == [s0 EXCEPT !.terminalPathLength = IF s0.tpSucc[ac] = Nil THEN @ + 1 ELSE @,
                      !.tpSucc[ac] = ac]
      old   == s.apexCandidate
      fixAC == IF fix THEN ac ELSE old
      non   == IF fix THEN old ELSE ac
  IN  IF old = Nil
        THEN [s EXCEPT !.apexCandidate = ac, !.apexCandidateIsFix = fix]
      ELSE IF old = ac
        THEN [s EXCEPT !.apexCandidateIsFix = @ \/ fix]
      ELSE IF fix # s.apexCandidateIsFix /\ TooFar(s, non, fixAC)
        THEN [s EXCEPT !.apexCandidate = fixAC, !.apexCandidateIsFix = TRUE,
                       !.terminalPathLength = @ - Excess(s, non, fixAC)]
      ELSE [s EXCEPT !.failed = TRUE]

\* findEndOfFullBlock from the first full neighbor of x both ways: the last
\* full and the first other neighbor, and how many full ones were passed.
\* getNextNeighbor(nullptr, _) may start in either direction; it starts
\* against the ring for the nodes in mirrored.
EndOfFullBlock(t, s, x, forward) ==
  LET ring == Neighbors(t, x)
      n    == Len(ring)
      i    == PositionOf(ring, Head(s.fullNeighbors[x]))
      at(k) == RingAt(ring, IF forward THEN i + k ELSE i + n - k)
      k    == CHOOSE k \in 1..n : /\ ~IsFull(s, at(k))
                                  /\ \A j \in 1..(k - 1) : IsFull(s, at(j))
  IN  [fullEnd |-> at(k - 1), emptyEnd |-> at(k), count |-> k - 1]

\* checkTPPartialCNode(x)
CheckTPPartialCNode(t, s, x, mirrored) ==
  LET e1 == EndOfFullBlock(t, s, x, x \notin mirrored)
      e2 == EndOfFullBlock(t, s, x, x \in mirrored)
      first == s.ebEnd1[x] = Nil
      scattered == first /\ 1 + e1.count + e2.count # Len(s.fullNeighbors[x])
      s1 == IF ~first THEN s
            ELSE [s EXCEPT !.fbEnd1[x] = e1.fullEnd, !.ebEnd1[x] = e1.emptyEnd,
                           !.fbEnd2[x] = e2.fullEnd, !.ebEnd2[x] = e2.emptyEnd]
      offBlock(y) == y # Nil /\ y \notin {s1.ebEnd1[x], s1.ebEnd2[x]}
  IN  [s1 EXCEPT !.failed = \/ scattered
                            \/ offBlock(s1.tpPred[x])
                            \/ x = s1.apexCandidate /\ offBlock(s1.apexTPPred2)]

\* Mutant of PopPartial: the node goes back to the end of the list.
PopPartial_Requeue(s) == [s EXCEPT !.partials = Append(Tail(@), Head(@))]

\* removePartialNode on the first of the list.
PopPartial(s) == [s EXCEPT !.partials = Tail(@)]

\* What the loop does with the first partial node before it decides where to
\* go from there.
Dequeue(t, s, mirrored) ==
  LET x  == Head(s.partials)
      s1 == PopPartial(s)
  IN  IF s.label[x] # "Partial" THEN s1
      ELSE [(IF t.type[x] = "C" THEN CheckTPPartialCNode(t, s1, x, mirrored) ELSE s1)
              EXCEPT !.tpPartialPred[x] = x, !.tpPartialHeight[x] = 0]

\* Mutants of BlocksAscent: only empty or only partial C-nodes are looked at.
BlocksAscent_EmptyOnly(t, s, x) ==
  /\ t.type[x] = "C" /\ s.label[x] = "Empty"
  /\ ~IsChildOuter(t, x, s.tpPred[x])

BlocksAscent_PartialOnly(t, s, x) ==
  /\ t.type[x] = "C" /\ s.label[x] # "Empty"
  /\ ~IsChildOuter(t, x, s.fbEnd1[x]) /\ ~IsChildOuter(t, x, s.fbEnd2[x])

\* A C-node that the path cannot leave towards its parent.
BlocksAscent(t, s, x) ==
  /\ t.type[x] = "C"
  /\ IF s.label[x] = "Empty"
       THEN ~IsChildOuter(t, x, s.tpPred[x])
       ELSE ~IsChildOuter(t, x, s.fbEnd1[x]) /\ ~IsChildOuter(t, x, s.fbEnd2[x])

\* Nothing else is queued and no apex is known: the path ends here for now.
EndsIShaped(s) == s.partials = <<>> /\ s.apexCandidate = Nil

\* Nothing else is queued, the two arms have met, and x is above their apex.
EndsAShaped(s, x) ==
  /\ s.partials = <<>>
  /\ s.apexCandidate # Nil
  /\ s.apexTPPred2 # Nil
  /\ s.tpPartialPred[x] = s.tpPartialPred[s.apexCandidate]

\* There is no way up from x.
CannotAscend(t, s, x) ==
  LET p == t.parent[x]
  IN  \/ x = t.root
      \/ p # Nil /\ IsFull(s, p)
      \/ p # Nil /\ p = t.root /\ t.type[p] = "leaf"
      \/ BlocksAscent(t, s, x)

\* The parent has been reached along a second path.
MeetAt(t, s0, x, p) ==
  LET s == SetApexCandidate(s0, p, TRUE)
      emptyC == t.type[p] = "C" /\ s.label[p] = "Empty"
  IN  IF \/ s.failed
         \/ s.apexTPPred2 \notin {Nil, x}
         \/ emptyC /\ ~AreNeighborsAdjacent(t, p, s.tpPred[p], x)
        THEN [s EXCEPT !.failed = TRUE]
      ELSE IF emptyC
        THEN [s EXCEPT !.apexTPPred2 = x,
                       !.ebEnd1[p] = s.tpPred[p], !.fbEnd2[p] = s.tpPred[p],
                       !.ebEnd2[p] = x, !.fbEnd1[p] = x]
      ELSE [s EXCEPT !.apexTPPred2 = x]

\* The path leaves x for its parent p.
Leave(t, s, x, p) ==
  LET s1 == [s EXCEPT !.terminalPathLength = @ + 1, !.tpSucc[x] = p]
  IN  IF t.type[x] = "C" /\ s.label[x] = "Empty"
        THEN [s1 EXCEPT !.ebEnd1[x] = s.tpPred[x], !.fbEnd2[x] = s.tpPred[x],
                        !.ebEnd2[x] = p, !.fbEnd1[x] = p]
        ELSE s1

\* The path goes on from x to its parent.
Ascend(t, s, x, mirrored) ==
  LET p  == t.parent[x]
      s2 == Leave(t, s, x, p)
      s3 == IF s2.tpPred[p] = Nil
              THEN IF s2.label[p] = "Partial" THEN [s2 EXCEPT !.tpPred[p] = x]
                   ELSE [s2 EXCEPT !.tpPred[p] = x,
                                   !.tpPartialPred[p] = s2.tpPartialPred[x],
                                   !.tpPartialHeight[p] = s2.tpPartialHeight[x] + 1,
                                   !.partials = Append(@, p)]
            ELSE IF s2.tpPred[p] # x THEN MeetAt(t, s2, x, p)
            ELSE s2
  IN  IF ~s3.failed /\ t.type[p] = "C" /\ s3.label[p] = "Partial"
        THEN CheckTPPartialCNode(t, s3, p, mirrored)
        ELSE s3

\* One round of the loop has led to the temporary data s.
Continue(s) ==
  \/ /\ s.failed
     /\ Return(s, FALSE)
     /\ UNCHANGED tree
  \/ /\ ~s.failed
     /\ temp' = s
     /\ UNCHANGED <<tree, pc, work, client>>

Visit(mirrored) ==
  LET x == Head(temp.partials)
      s == Dequeue(tree, temp, mirrored)
  IN  \/ /\ s.failed \/ s.tpSucc[x] # Nil
         /\ Continue(s)
      \/ /\ ~s.failed /\ s.tpSucc[x] = Nil
         /\ EndsIShaped(s) \/ EndsAShaped(s, x) \/ CannotAscend(tree, s, x)
         /\ Continue(SetApexCandidate(s, x, FALSE))
      \/ /\ ~s.failed /\ s.tpSucc[x] = Nil
         /\ ~(EndsIShaped(s) \/ EndsAShaped(s, x) \/ CannotAscend(tree, s, x))
         /\ Continue(Ascend(tree, s, x, mirrored))

VisitPartial ==
  /\ pc = "searching"
  /\ temp.partials # <<>>
  /\ LET x == Head(temp.partials)
     IN  \E mirrored \in SUBSET ({x, tree.parent[x]} \cap Inner) : Visit(mirrored)

\* Mutant of Backtracks: the last candidate is taken as it is.
Backtracks_Never(s) == FALSE

\* The candidate was never confirmed and is above the highest partial node.
Backtracks(s) == ~s.apexCandidateIsFix /\ s.label[s.apexCandidate] # "Partial"

\* The end of findTerminalPath.
FixApex ==
  /\ pc = "searching"
  /\ temp.partials = <<>>
  /\ LET a    == temp.apexCandidate
         apex == IF Backtracks(temp) THEN temp.tpPartialPred[a] ELSE a
     IN  temp' = [temp EXCEPT
                    !.apexCandidate = apex,
                    !.apexCandidateIsFix = TRUE,
                    !.terminalPathLength =
                        IF Backtracks(temp) THEN @ - temp.tpPartialHeight[a] ELSE @,
                    !.tpSucc[apex] = Nil]
  /\ pc' = "found"
  /\ UNCHANGED <<tree, work, client>>

(***************************************************************************)
(* The update of the tree.  Operators that change both the tree and the    *)
(* temporary data return a record [t, s].                                  *)
(***************************************************************************)

\* TempInfo::replaceNeighbor on the node x.
ReplaceNeighbor(s, x, old, new) ==
  LET swap(f) == [f EXCEPT ![x] = IF @ = old THEN new ELSE @]
  IN  [s EXCEPT !.tpPred = swap(@), !.tpPartialPred = swap(@), !.tpSucc = swap(@),
                !.ebEnd1 = swap(@), !.fbEnd1 = swap(@),
                !.fbEnd2 = swap(@), !.ebEnd2 = swap(@)]

\* splitOffFullPNode(x, skip_parent): the full neighbors of x other than its
\* parent leave x, a single one on its own, several below a new full P-node.
SplitOffFullPNode(t, s, x, skipParent) ==
  LET full  == s.fullNeighbors[x]
      moved == IF skipParent THEN Excluding(full, {t.parent[x]}) ELSE full
      kept  == Excluding(t.kids[x], ToSet(moved))
      node  == FreeInner(t)
      u     == NewNode(t, node, "P")
  IN  IF Len(full) = 1
        THEN [t |-> Detach(t, full[1]), s |-> s, node |-> full[1]]
        ELSE [t |-> [u EXCEPT
                       !.kids   = [@ EXCEPT ![node] = moved, ![x] = kept],
                       !.parent = [c \in Node |-> IF c \in ToSet(moved) THEN node ELSE @[c]]],
              s |-> [ClearedFor(s, node) EXCEPT !.label[node] = "Full",
                                                !.fullNeighbors[node] = moved],
              node |-> node]

\* updateSingletonTerminalPath: only a P-node with several full and several
\* other neighbors changes; the full ones are put below a node of their own.
UpdateSingletonTerminalPath ==
  LET a     == temp.apexCandidate
      full  == Len(temp.fullNeighbors[a])
      p     == tree.parent[a]
      split == SplitOffFullPNode(tree, temp, a, TRUE)
      joined == IF p # Nil /\ IsFull(temp, p)
                  THEN AppendChild(ReplaceWith(split.t, a, split.node), split.node, a, FALSE)
                  ELSE AppendChild(split.t, a, split.node, FALSE)
  IN  /\ pc = "found"
      /\ temp.terminalPathLength = 1
      /\ IF tree.type[a] = "P" /\ full > 1 /\ Degree(tree, a) - full > 1
           THEN tree' = joined /\ Return(split.s, TRUE)
           ELSE UNCHANGED tree /\ Return(temp, TRUE)

\* Mutant of SwapEnds: the ends of the full block stay.
SwapEnds_EmptyOnly(s, x) ==
  [s EXCEPT !.ebEnd1[x] = s.ebEnd2[x], !.ebEnd2[x] = s.ebEnd1[x]]

\* The two ends of the full block and their empty neighbors change names.
SwapEnds(s, x) ==
  [s EXCEPT !.ebEnd1[x] = s.ebEnd2[x], !.ebEnd2[x] = s.ebEnd1[x],
            !.fbEnd1[x] = s.fbEnd2[x], !.fbEnd2[x] = s.fbEnd1[x]]

\* createCentralNode for a C-node: the apex itself, its ends named so that the
\* first terminal path is at ebEnd1.
CentralOfCNode(t, s) ==
  LET a == s.apexCandidate
      stub1 == s.tpPred[a]
      stub2 == s.apexTPPred2
  IN  [t |-> t, node |-> a,
       s |-> IF s.label[a] # "Partial"
               THEN [s EXCEPT !.ebEnd1[a] = stub1, !.fbEnd1[a] = stub2,
                              !.fbEnd2[a] = stub1, !.ebEnd2[a] = stub2]
             ELSE IF s.ebEnd2[a] = stub1 THEN SwapEnds(s, a) ELSE s]

(***************************************************************************)
(* createCentralNode for a P-node a with parent p: a new C-node c with, in *)
(* this order, the first terminal path, the full neighbors, the second     *)
(* terminal path and the empty neighbors of a around it, each of the       *)
(* groups present being one node.                                          *)
(***************************************************************************)
ParentFull(s, p) == p # Nil /\ IsFull(s, p)

\* The stubs of the paths are isolated, the first becomes a child of c.
WithFirstStub(t, s, c) ==
  LET a     == s.apexCandidate
      stub1 == s.tpPred[a]
      stub2 == s.apexTPPred2
      apart == Detach(IF stub2 = Nil THEN t ELSE Detach(t, stub2), stub1)
  IN  [t |-> AppendChild(NewNode(apart, c, "C"), c, stub1, FALSE),
       s |-> ReplaceNeighbor(ClearedFor(s, c), stub1, a, c),
       node |-> Nil]

\* The full node, split off from a, comes next to c: above it if p is full.
Beside(split, a, p, c) ==
  [split EXCEPT !.t = IF ParentFull(split.s, p)
                        THEN AppendChild(ReplaceWith(@, a, split.node), split.node, c, FALSE)
                        ELSE AppendChild(@, c, split.node, FALSE)]

WithFullNode(r, p, c) ==
  LET a     == r.s.apexCandidate
      nFull == Len(r.s.fullNeighbors[a])
  IN  IF nFull = 0 THEN r
      ELSE IF nFull = 1 /\ ParentFull(r.s, p)
        THEN [r EXCEPT !.t = ReplaceWith(@, a, c), !.node = p]
      ELSE Beside(SplitOffFullPNode(r.t, r.s, a, ParentFull(r.s, p)), a, p, c)

WithSecondStub(r, p, c) ==
  LET stub2 == r.s.apexTPPred2
  IN  IF stub2 = Nil THEN r
      ELSE [r EXCEPT !.t = AppendChild(@, c, stub2, ParentFull(r.s, p)),
                     !.s = ReplaceNeighbor(@, stub2, r.s.apexCandidate, c)]

\* x becomes a child of c between the stubs, or beyond the only stub.
Attach(t, r, x, p, c) ==
  IF r.node # Nil /\ r.s.apexTPPred2 # Nil
    THEN InsertBetween(t, x, r.s.apexTPPred2, r.s.tpPred[r.s.apexCandidate])
    ELSE AppendChild(t, c, x, ParentFull(r.s, p))

\* The one neighbor of a that is empty: a child, or the parent.
IsOnlyChild(r, p) == ParentFull(r.s, p) \/ p = Nil
EmptyNode(r, p, nEmpty) ==
  LET a == r.s.apexCandidate
  IN  IF nEmpty = 0 THEN Nil
      ELSE IF nEmpty > 1 THEN a
      ELSE IF IsOnlyChild(r, p) THEN r.t.kids[a][1] ELSE p

\* Several empty neighbors stay around a; otherwise a is destroyed.
WithEmptyNode(r, e, p, c, nEmpty) ==
  LET a       == r.s.apexCandidate
      Drop(t) == DestroyNode([t EXCEPT !.root = IF a = @ THEN c ELSE @], a)
  IN  IF nEmpty > 1
        THEN IF ParentFull(r.s, p) THEN Attach(r.t, r, a, p, c) ELSE AppendChild(r.t, a, c, FALSE)
      ELSE IF nEmpty = 0 THEN Drop(r.t)
      ELSE IF IsOnlyChild(r, p) THEN Drop(Attach(Detach(r.t, e), r, e, p, c))
      ELSE Drop(ReplaceWith(r.t, a, c))

\* The ends of the full block of c and their other neighbors.
EndsNamed(s, c, full, e) ==
  LET stub1 == s.tpPred[s.apexCandidate]
      stub2 == s.apexTPPred2
  IN  [s EXCEPT !.label[c]  = IF full # Nil THEN "Partial" ELSE "Empty",
                !.fullNeighbors[c] = IF full # Nil THEN <<full>> ELSE <<>>,
                !.tpPred[c] = stub1,
                !.ebEnd1[c] = stub1,
                !.fbEnd1[c] = IF full # Nil THEN full ELSE stub2,
                !.fbEnd2[c] = IF full # Nil THEN full ELSE stub1,
                !.ebEnd2[c] = IF stub2 # Nil THEN stub2 ELSE e]

Surrounded(r, e, p, c, nEmpty) ==
  [t |-> WithEmptyNode(r, e, p, c, nEmpty), s |-> EndsNamed(r.s, c, r.node, e), node |-> c]

FinishCentral(r, p, c, nEmpty) == Surrounded(r, EmptyNode(r, p, nEmpty), p, c, nEmpty)

CentralOfPNode(t, s) ==
  LET a == s.apexCandidate
      p == t.parent[a]
      c == FreeInner(t)
      nEmpty == Degree(t, a) - Len(s.fullNeighbors[a]) - (IF s.apexTPPred2 = Nil THEN 1 ELSE 2)
  IN  FinishCentral(WithSecondStub(WithFullNode(WithFirstStub(t, s, c), p, c), p, c),
                    p, c, nEmpty)

\* updateTerminalPath takes up a path that begins at x: its insertion point
\* is the end of the full block next to x.
StartArm(s, w, central, x) ==
  [w EXCEPT !.central = central, !.tpNeigh = x,
            !.slot = IF s.ebEnd1[central] = x THEN 1 ELSE 2]

CreateCentralNode ==
  /\ pc = "found"
  /\ temp.terminalPathLength # 1
  /\ LET r == IF tree.type[temp.apexCandidate] = "P"
                THEN CentralOfPNode(tree, temp) ELSE CentralOfCNode(tree, temp)
     IN  /\ tree' = r.t
         /\ temp' = r.s
         /\ work' = StartArm(r.s, work, r.node, r.s.tpPred[r.node])
  /\ pc' = "merging"
  /\ UNCHANGED client

\* The neighbor of the central node next to which the next merge happens.
FullNeigh(s, w) == IF w.slot = 1 THEN s.fbEnd1[w.central] ELSE s.fbEnd2[w.central]

SetFullNeigh(s, w, x) ==
  IF w.slot = 1 THEN [s EXCEPT !.fbEnd1[w.central] = x]
                ELSE [s EXCEPT !.fbEnd2[w.central] = x]

\* replaceTPNeigh
ReplaceTPNeigh(s, c, old, new, newFull, otherEnd) ==
  IF old = s.tpPred[c]
    THEN [s EXCEPT !.tpPred[c] = new, !.ebEnd1[c] = new, !.fbEnd1[c] = newFull,
                   !.fbEnd2[c] = IF @ # old THEN @
                                 ELSE IF otherEnd # Nil THEN otherEnd ELSE new]
    ELSE [s EXCEPT !.apexTPPred2 = new, !.ebEnd2[c] = new, !.fbEnd2[c] = newFull,
                   !.fbEnd1[c] = IF @ # old THEN @
                                 ELSE IF otherEnd # Nil THEN otherEnd ELSE newFull]

\* A merge has led to the tree t, the temporary data s, in which the full
\* block next to the path ends at newFull, and otherEnd is its other end if
\* the merged node x brought full neighbors with it.
MergeDone(t, s, x, newFull, otherEnd) ==
  LET c    == work.central
      next == temp.tpPred[x]
      s1   == ReplaceTPNeigh(SetFullNeigh(s, work, newFull), c, x, next, newFull, otherEnd)
  IN  /\ tree' = t
      /\ temp' = IF next = Nil THEN s1 ELSE ReplaceNeighbor(s1, next, x, c)
      /\ work' = [work EXCEPT !.tpNeigh = next, !.merged = @ + 1]
      /\ UNCHANGED <<pc, client>>

\* Mutant of Dissolve: a node with one child left stays.
Dissolve_OnlyChild(t, x) == IF t.kids[x] = <<>> THEN DestroyNode(Detach(t, x), x) ELSE t

\* What is left of a P-node goes if it has no children any more or only one.
Dissolve(t, x) ==
  LET left == t.kids[x]
  IN  IF left = <<>> THEN DestroyNode(Detach(t, x), x)
      ELSE IF Len(left) = 1
        THEN DestroyNode(ReplaceWith(Detach(t, left[1]), x, left[1]), x)
      ELSE t

\* A P-node on the path: its full neighbors and the rest of the path move out
\* between it and the full block; what is left of it stays as one empty
\* neighbor of the central node.
MergePNode ==
  LET x    == work.tpNeigh
      fn   == FullNeigh(temp, work)
      next == temp.tpPred[x]
      split == SplitOffFullPNode(tree, temp, x, FALSE)
      r1   == IF temp.label[x] = "Partial"
                THEN [split EXCEPT !.t = InsertBetween(@, split.node, x, fn)]
                ELSE [t |-> tree, s |-> temp, node |-> Nil]
      newFull == IF r1.node # Nil THEN r1.node ELSE fn
      t2   == IF next = Nil THEN r1.t
              ELSE InsertBetween(Detach(r1.t, next), next, newFull, x)
  IN  /\ pc = "merging"
      /\ x # Nil
      /\ tree.type[x] = "P"
      /\ MergeDone(Dissolve(t2, x), r1.s, x, newFull, r1.node)

\* A C-node on the path: it is turned so that its full end is next to the
\* full block of the central node, and its children replace it.
MergeCNode ==
  LET x   == work.tpNeigh
      fullFirst == Head(tree.kids[x]) \in {temp.fbEnd1[x], temp.fbEnd2[x]}
      t1  == IF fullFirst THEN [tree EXCEPT !.kids[x] = Reverse(@)] ELSE tree
      fullOuter == Last(t1.kids[x])
      s1  == IF fullOuter = temp.fbEnd2[x] THEN SwapEnds(temp, x) ELSE temp
      partial == temp.label[x] = "Partial"
      fn  == FullNeigh(temp, work)
  IN  /\ pc = "merging"
      /\ x # Nil
      /\ tree.type[x] = "C"
      /\ MergeDone(DestroyNode(MergeIntoParent(t1, x, fn), x), s1, x,
                   IF partial THEN s1.fbEnd2[x] ELSE fn,
                   IF partial THEN s1.fbEnd1[x] ELSE Nil)

StartSecondArm ==
  /\ pc = "merging"
  /\ work.tpNeigh = Nil
  /\ temp.apexTPPred2 # Nil
  /\ work' = StartArm(temp, work, work.central, temp.apexTPPred2)
  /\ UNCHANGED <<tree, temp, pc, client>>

ReturnUpdated ==
  /\ pc = "merging"
  /\ work.tpNeigh = Nil
  /\ temp.apexTPPred2 = Nil
  /\ Return(temp, TRUE)
  /\ UNCHANGED tree

(***************************************************************************)
(* The user between two calls.                                             *)
(***************************************************************************)
UserChangesRoot(x) ==
  /\ pc = "idle"
  /\ x # tree.root
  /\ tree.type[x] # "free"
  /\ \E mirrored \in SUBSET ((WayUp(tree, x) \ {x}) \cap Inner) :
       tree' = ChangeRoot(tree, x, mirrored)
  /\ UNCHANGED <<temp, pc, work, client>>

Marking == StartMarking \/ MarkLeafFull \/ MarkInnerFull \/ StartSearch
Searching == VisitPartial \/ FixApex
Updating == \/ UpdateSingletonTerminalPath \/ CreateCentralNode
            \/ MergePNode \/ MergeCNode \/ StartSecondArm

CallStep == ReturnTrivial \/ Marking \/ Searching \/ Updating \/ ReturnUpdated

Next ==
  \/ \E leaves \in Requests : MakeConsecutive(leaves)
  \/ CallStep
  \/ \E x \in NewRoots : UserChangesRoot(x)

Spec == Init /\ [][Next]_vars
=============================================================================
