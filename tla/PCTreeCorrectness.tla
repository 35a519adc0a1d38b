-------------------------- MODULE PCTreeCorrectness --------------------------
(***************************************************************************)
(* What makes PCTree::makeConsecutive correct: its labels, the path it     *)
(* finds, its merge points, and the tree it leaves.                        *)
(***************************************************************************)
EXTENDS PCTreeRestriction

\* The user starts with a tree that checkValid(false) accepts and that has all
\* the leaves; whatever is not in use is not linked.
ASSUME StartsAssumption ==
  \A t \in InitTrees :
    /\ t \in TreeType /\ CheckValid(t) /\ Leaves \subseteq InUse(t)
    /\ \A x \in Node \ InUse(t) : t.kids[x] = <<>> /\ t.parent[x] = Nil

ASSUME NewRootsAssumption == NewRoots \subseteq Node

\* newNode() never runs out of identities: a tree has fewer inner nodes than
\* leaves but one, and an update makes two before it destroys any.
ASSUME RoomAssumption == Cardinality(Leaves) < Cardinality(Inner)

(***************************************************************************)
(* Type correctness of the tree, the temporary data and the locals of the  *)
(* call.                                                                   *)
(***************************************************************************)
Ref == Node \cup {Nil}

TypeOK ==
  /\ tree \in TreeType
  /\ temp.label \in [Node -> {"Empty", "Partial", "Full"}]
  /\ temp.fullNeighbors \in [Node -> Seq(Node)]
  /\ \A f \in {temp.tpPred, temp.tpPartialPred, temp.tpSucc, temp.ebEnd1,
               temp.fbEnd1, temp.fbEnd2, temp.ebEnd2} : f \in [Node -> Ref]
  /\ temp.tpPartialHeight \in [Node -> Nat]
  /\ temp.partials \in Seq(Node)
  /\ {temp.apexCandidate, temp.apexTPPred2} \subseteq Ref
  /\ temp.terminalPathLength \in (IF pc \in {"found", "merging"} THEN Nat \ {0} ELSE Nat)
  /\ {temp.apexCandidateIsFix, temp.failed} \subseteq BOOLEAN
  /\ pc \in {"idle", "called", "marking", "searching", "found", "merging"}
  /\ work.todo \in Seq(Leaves)
  /\ {work.full, work.central, work.tpNeigh} \subseteq Ref
  /\ work.slot \in {1, 2} /\ work.merged \in Nat
  /\ client.answer \in BOOLEAN
  /\ IF pc = "idle" THEN client.request = Nil /\ client.before = Nil
     ELSE client.request \in SUBSET Leaves /\ client.before \in TreeType

(***************************************************************************)
(* Between two calls, and after every merge within one, the tree is one    *)
(* that checkValid(false) accepts: parents and child lists agree, every    *)
(* inner node has at least three neighbors, everything hangs below the     *)
(* root.                                                                   *)
(***************************************************************************)
ValidTree ==
  /\ TypeOK
  /\ pc \in {"idle", "merging"} => CheckValid(tree) /\ Leaves \subseteq InUse(tree)

(***************************************************************************)
(* Labelling.  Whatever the order in which the leaves are marked, and      *)
(* wherever the root is, the full neighbors of a node are at the end       *)
(* exactly those behind which all leaves are marked, a node is full iff    *)
(* this is so for all of its neighbors but one, and the list of partial    *)
(* nodes has every other node with a full neighbor once (markFull).        *)
(***************************************************************************)
Marked == client.request \ ToSet(work.todo)

LabelsExact ==
  pc = "marking" /\ work.full = Nil =>
    LET below == LeavesBelow(tree)
        FullAround(x) == {y \in ToSet(Neighbors(tree, x)) :
                            LeavesThrough(tree, below, x, y) \subseteq Marked}
    IN  \A x \in InUse(tree) :
          /\ x \in Leaves =>
               /\ IsFull(temp, x) <=> x \in Marked
               /\ temp.fullNeighbors[x] = <<>>
          /\ x \in Inner =>
               /\ ToSet(temp.fullNeighbors[x]) = FullAround(x)
               /\ IsInjective(temp.fullNeighbors[x])
               /\ temp.label[x] =
                    CASE FullAround(x) = {} -> "Empty"
                      [] Cardinality(FullAround(x)) = Degree(tree, x) - 1 -> "Full"
                      [] OTHER -> "Partial"
          /\ Cardinality({i \in DOMAIN temp.partials : temp.partials[i] = x}) =
               IF temp.label[x] = "Partial" THEN 1 ELSE 0

(***************************************************************************)
(* The terminal path.  An edge is terminal when it has marked and other    *)
(* leaves on both sides; if there is one, the path are the ends of such    *)
(* edges, otherwise it is the one partial node.  When the search succeeds  *)
(* the two chains of tpPred from the apex are this path, the rounds that   *)
(* went too far up forgotten, and the chains go up to the apex             *)
(* (findTerminalPath).                                                     *)
(***************************************************************************)
Chain(s, x) ==
  LET chain[k \in 0..Cardinality(Node)] ==
        IF k = 0 THEN <<x>>
        ELSE LET c == chain[k - 1]
             IN  IF Last(c) = Nil THEN c ELSE Append(c, s.tpPred[Last(c)])
  IN  Front(chain[Cardinality(Node)])

Terminal(x, S, below) ==
  /\ tree.parent[x] # Nil
  /\ S \cap below[x] # {} /\ below[x] \ S # {}
  /\ S \ below[x] # {} /\ Leaves \ (below[x] \cup S) # {}

TerminalPathExact ==
  pc = "found" =>
    LET S     == client.request
        below == LeavesBelow(tree)
        tops  == {x \in InUse(tree) : Terminal(x, S, below)}
        path  == Chain(temp, temp.apexCandidate) \o Chain(temp, temp.apexTPPred2)
    IN  /\ IsInjective(path)
        /\ IF tops = {}
             THEN path = <<temp.apexCandidate>> /\ temp.label[path[1]] = "Partial"
             ELSE ToSet(path) = tops \cup {tree.parent[x] : x \in tops}
        /\ \A x \in ToSet(path) :
             temp.tpPred[x] # Nil => tree.parent[temp.tpPred[x]] = x

(***************************************************************************)
(* m_terminalPathLength has been counted correctly in spite of the rounds  *)
(* that went too far up: it is the length of the two chains, as            *)
(* LoggingObserver::terminalPathFound asserts, and no node of the chains   *)
(* is lost or merged twice, as makeFullNodesConsecutive asserts.           *)
(***************************************************************************)
LengthCounted ==
  /\ pc = "found" =>
       temp.terminalPathLength =
         Len(Chain(temp, temp.apexCandidate)) + Len(Chain(temp, temp.apexTPPred2))
  /\ pc = "merging" =>
       temp.terminalPathLength =
         1 + work.merged + Len(Chain(temp, temp.tpPred[work.central]))
                         + Len(Chain(temp, temp.apexTPPred2))

(***************************************************************************)
(* The merges.  Until a path is used up, its first node is beside the full *)
(* block of the central node and hangs off the central node (the           *)
(* assertions of updateTerminalPath), and every neighbor of the central    *)
(* node but the first nodes of the paths has only marked or only other     *)
(* leaves behind it.                                                       *)
(***************************************************************************)
MergePointsExact ==
  pc = "merging" =>
    LET c     == work.central
        S     == client.request
        below == LeavesBelow(tree)
        Through(y) == LeavesThrough(tree, below, c, y)
        ring  == ToSet(Neighbors(tree, c))
        ends  == {temp.tpPred[c], temp.apexTPPred2} \ {Nil}
    IN  /\ work.tpNeigh # Nil =>
             /\ AreNeighborsAdjacent(tree, c, work.tpNeigh, FullNeigh(temp, work))
             /\ tree.parent[work.tpNeigh] = c
             /\ temp.tpSucc[work.tpNeigh] # Nil
        /\ \A y \in ring : Through(y) \subseteq S \/ Through(y) \cap S = {} \/ y \in ends

(***************************************************************************)
(* The update stays on the terminal path, which is what makes it linear in *)
(* the length of the path: the children of any other inner node stay as    *)
(* they are, but for one of them that may be exchanged for another.        *)
(***************************************************************************)
PathLeft ==
  ToSet(Chain(temp, temp.apexTPPred2)) \cup
    (IF pc = "found" THEN ToSet(Chain(temp, temp.apexCandidate))
     ELSE {work.central} \cup ToSet(Chain(temp, temp.tpPred[work.central])))

OffPathKept ==
  [][(pc \in {"found", "merging"}) =>
       \A x \in (InUse(tree) \cap Inner) \ PathLeft :
         \E a, b \in Node : tree'.kids[x] = ReplaceAll(tree.kids[x], a, b)]_vars
=============================================================================
