----------------------------- MODULE CNodeParents -----------------------------
(***************************************************************************)
(* How a PCNode knows its parent.  A child of a P-node or of a leaf that   *)
(* is the root has a pointer, m_parentPNode; a child of a C-node only has  *)
(* an index, m_parentCNodeId, which getParent() looks up in the forest's   *)
(* union-find structure m_parents and its table m_cNodes, so that merging  *)
(* a C-node into another one leaves the children alone.                    *)
(*                                                                         *)
(* Here are the operations of PCNode and PCTree that write to these        *)
(* fields, the counters of the tree and the list of reusable nodes, which  *)
(* is threaded through m_parentPNode.  Siblings are left out.  m_parents   *)
(* is seen through its find: DisjointSets has its pointers.                *)
(***************************************************************************)
EXTENDS Integers, FiniteSets

CONSTANTS
  Node,    \* the nodes that are ever allocated
  MaxIds,  \* bound: no more sets than this are made in m_parents
  Nil

ASSUME NodesAssumption == Nil \notin Node /\ IsFiniteSet(Node) /\ MaxIds \in Nat

VARIABLES
  status,         \* "fresh": not allocated, "used", "out": taken out by
                  \* intersect(), "free": on the list of reusable nodes
  type,           \* m_nodeType
  parentPNode,    \* m_parentPNode
  parentCNodeId,  \* m_parentCNodeId
  nodeListIndex,  \* m_nodeListIndex
  cNodes,         \* m_forest->m_cNodes
  find,           \* m_forest->m_parents: the representative of an index
  reusable,       \* m_forest->m_reusableNodes
  place,          \* history: the place of a node on that list, the latest last
  poolSize,       \* history: the length of the list
  leaves, pNodeCount, cNodeCount,  \* m_leaves, m_pNodeCount, m_cNodeCount
  root,           \* m_rootNode
  up              \* history: the parent of every node

table  == <<cNodes, find>>
refs   == <<parentPNode, parentCNodeId, up>>
pool   == <<reusable, place, poolSize>>
counts == <<leaves, pNodeCount, cNodeCount>>
vars   == <<status, type, refs, nodeListIndex, table, pool, counts, root>>

EmptyId == -1   \* UNIONFINDINDEX_EMPTY
NodeType == {"Leaf", "P", "C"}

Id     == DOMAIN find
NextId == Cardinality(Id)

Used == {x \in Node : status[x] = "used"}
Kids(x) == {c \in Node : up[c] = x}

\* What isValidNode() returns: of a C-node, that its index is a representative.
ValidNode(x) ==
  /\ status[x] = "used"
  /\ type[x] = "C" => find[nodeListIndex[x]] = nodeListIndex[x]

IsDetached(x) == parentPNode[x] = Nil /\ parentCNodeId[x] = EmptyId

\* getParent()
Parent(x) ==
  IF parentPNode[x] # Nil THEN parentPNode[x]
  ELSE IF parentCNodeId[x] # EmptyId THEN cNodes[find[parentCNodeId[x]]]
  ELSE Nil

\* The index that getParent() leaves in m_parentCNodeId.
CachedId(x) ==
  IF parentCNodeId[x] = EmptyId THEN EmptyId ELSE find[parentCNodeId[x]]

\* S is x and everything below it.
IsSubtree(S, x) == x \in S /\ \A y \in Node \ {x} : y \in S <=> up[y] \in S

\* W is x and everything above it.
IsWayUp(W, x) == x \in W /\ \A y \in Node \ {x} : y \in W <=> \E z \in W : up[z] = y

Init ==
  /\ status = [x \in Node |-> "fresh"]
  /\ type = [x \in Node |-> "Leaf"]
  /\ parentPNode = [x \in Node |-> Nil]
  /\ parentCNodeId = [x \in Node |-> EmptyId]
  /\ nodeListIndex = [x \in Node |-> EmptyId]
  /\ cNodes = [i \in {} |-> Nil] /\ find = [i \in {} |-> EmptyId]
  /\ reusable = Nil /\ place = [x \in Node |-> 0] /\ poolSize = 0
  /\ leaves = {} /\ pNodeCount = 0 /\ cNodeCount = 0
  /\ root = Nil
  /\ up = [x \in Node |-> Nil]

(***************************************************************************)
(* unregisterNode(x) of the type old, then registerNode(x) of the type     *)
(* new; "none" where only one of them is called.                           *)
(***************************************************************************)
Bit(b) == IF b THEN 1 ELSE 0

\* Mutant of Count: the type that a node had stays counted.
Count_KeepsOld(x, old, new) ==
  /\ leaves' = (leaves \ {x}) \cup {y \in {x} : new = "Leaf"}
  /\ pNodeCount' = pNodeCount + Bit(new = "P")
  /\ cNodeCount' = cNodeCount + Bit(new = "C")

Count(x, old, new) ==
  /\ leaves' = (leaves \ {x}) \cup {y \in {x} : new = "Leaf"}
  /\ pNodeCount' = pNodeCount - Bit(old = "P") + Bit(new = "P")
  /\ cNodeCount' = cNodeCount - Bit(old = "C") + Bit(new = "C")

\* m_cNodes without x.
Without(x, old) ==
  IF old = "C" THEN [cNodes EXCEPT ![nodeListIndex[x]] = Nil] ELSE cNodes

WithoutIndex(x, old) ==
  IF old = "C" THEN [nodeListIndex EXCEPT ![x] = EmptyId] ELSE nodeListIndex

Register(x, old, new) ==
  /\ Count(x, old, new)
  /\ IF new = "C"
       THEN /\ NextId < MaxIds
            /\ cNodes' = [i \in 0..NextId |-> IF i = NextId THEN x ELSE Without(x, old)[i]]
            /\ find' = [i \in 0..NextId |-> IF i = NextId THEN i ELSE find[i]]
            /\ nodeListIndex' = [nodeListIndex EXCEPT ![x] = NextId]
       ELSE /\ cNodes' = Without(x, old)
            /\ nodeListIndex' = WithoutIndex(x, old)
            /\ UNCHANGED find

(***************************************************************************)
(* setParent(p) on x: only one of the two fields is written.               *)
(***************************************************************************)
IsCNode(p) == p # Nil /\ type[p] = "C"
PRef(p) == IF IsCNode(p) THEN Nil ELSE p
CRef(p) == IF IsCNode(p) THEN nodeListIndex[p] ELSE EmptyId

SetParent(x, p) ==
  /\ IF IsCNode(p)
       THEN /\ parentCNodeId' = [parentCNodeId EXCEPT ![x] = nodeListIndex[p]]
            /\ UNCHANGED parentPNode
       ELSE /\ parentPNode' = [parentPNode EXCEPT ![x] = p]
            /\ UNCHANGED parentCNodeId
  /\ up' = [up EXCEPT ![x] = p]

\* A leaf has at most one neighbor.
MayHaveChild(p) ==
  /\ ValidNode(p)
  /\ type[p] = "Leaf" => IsDetached(p) /\ Kids(p) = {}

\* x is ready to be made a child of p.
MayBeChild(x, p) ==
  /\ ValidNode(x) /\ IsDetached(x) /\ x # root
  /\ type[x] = "Leaf" => Kids(x) = {}
  /\ \E S \in SUBSET Node : IsSubtree(S, x) /\ p \notin S

(***************************************************************************)
(* newNode(t, p), which takes a reusable node if there is one.             *)
(***************************************************************************)
NewNode(x, t, p) ==
  /\ IF reusable # Nil
       THEN /\ x = reusable
            /\ reusable' = parentPNode[x]
            /\ place' = [place EXCEPT ![x] = 0]
            /\ poolSize' = poolSize - 1
       ELSE status[x] = "fresh" /\ UNCHANGED pool
  /\ p # Nil => p # x /\ MayHaveChild(p)
  /\ status' = [status EXCEPT ![x] = "used"]
  /\ type' = [type EXCEPT ![x] = t]
  /\ Register(x, "none", t)
  /\ parentPNode' = [parentPNode EXCEPT ![x] = PRef(p)]
  /\ parentCNodeId' = [parentCNodeId EXCEPT ![x] = IF IsCNode(p) THEN CRef(p) ELSE @]
  /\ up' = [up EXCEPT ![x] = p]
  /\ root' = IF p = Nil /\ root = Nil THEN x ELSE root

AppendChild(p, x) ==
  /\ MayHaveChild(p)
  /\ MayBeChild(x, p)
  /\ SetParent(x, p)
  /\ UNCHANGED <<status, type, nodeListIndex, table, pool, counts, root>>

\* insertBetween() on x: it becomes a child of the parent of sib, which
\* getParent() resolves first.
InsertBetween(x, sib) ==
  LET p == Parent(sib)
      s == [parentCNodeId EXCEPT ![sib] = CachedId(sib)]
  IN  /\ ValidNode(sib)
      /\ p # Nil
      /\ type[p] # "Leaf"
      /\ MayBeChild(x, p)
      /\ parentPNode' = [parentPNode EXCEPT ![x] = IF IsCNode(p) THEN @ ELSE p]
      /\ parentCNodeId' = [s EXCEPT ![x] = IF IsCNode(p) THEN nodeListIndex[p] ELSE @]
      /\ up' = [up EXCEPT ![x] = p]
      /\ UNCHANGED <<status, type, nodeListIndex, table, pool, counts, root>>

\* Mutant of Unlinked: m_parentCNodeId is not cleared.
Unlinked_KeepsId(x, p, c) ==
  /\ parentPNode' = [p EXCEPT ![x] = Nil]
  /\ parentCNodeId' = c

\* The fields of x when it has no parent any more.
Unlinked(x, p, c) ==
  /\ parentPNode' = [p EXCEPT ![x] = Nil]
  /\ parentCNodeId' = [c EXCEPT ![x] = EmptyId]

Detach(x) ==
  /\ ValidNode(x)
  /\ Unlinked(x, parentPNode, parentCNodeId)
  /\ up' = [up EXCEPT ![x] = Nil]
  /\ UNCHANGED <<status, type, nodeListIndex, table, pool, counts, root>>

\* replaceWith(r) on x: r gets the fields of x, after getParent() on x.
ReplaceWith(x, r) ==
  /\ ValidNode(x)
  /\ r # x
  /\ ValidNode(r) /\ IsDetached(r)
  /\ Parent(x) # Nil => MayBeChild(r, x)
  /\ Unlinked(x, [parentPNode EXCEPT ![r] = parentPNode[x]],
                 [parentCNodeId EXCEPT ![r] = CachedId(x)])
  /\ up' = [up EXCEPT ![r] = up[x], ![x] = Nil]
  /\ UNCHANGED <<status, type, nodeListIndex, table, pool, counts, root>>

\* m_parents.link() of two representatives: the larger one wins.
Linked(i, j) ==
  LET winner == IF i < j THEN j ELSE i
  IN  [k \in Id |-> IF find[k] \in {i, j} THEN winner ELSE find[k]]

\* Mutants of Exchange: nothing is exchanged; only the entries are.
Exchange_Never(x, p) == UNCHANGED <<cNodes, nodeListIndex>>

Exchange_Entries(x, p) ==
  LET i == nodeListIndex[x]
      j == nodeListIndex[p]
  IN  /\ cNodes' = IF j < i THEN [cNodes EXCEPT ![i] = cNodes[j], ![j] = cNodes[i]] ELSE cNodes
      /\ UNCHANGED nodeListIndex

\* If the index of x wins, x and its parent p exchange entries and indices.
Exchange(x, p) ==
  LET i == nodeListIndex[x]
      j == nodeListIndex[p]
  IN  IF j < i
        THEN /\ cNodes' = [cNodes EXCEPT ![i] = cNodes[j], ![j] = cNodes[i]]
             /\ nodeListIndex' = [nodeListIndex EXCEPT ![x] = j, ![p] = i]
        ELSE UNCHANGED <<cNodes, nodeListIndex>>

\* mergeIntoParent() on x: the children of x keep the index that they have.
MergeIntoParent(x) ==
  LET p == Parent(x)
  IN  /\ ValidNode(x) /\ type[x] = "C" /\ Kids(x) # {}
      /\ IsCNode(p)
      /\ find' = Linked(nodeListIndex[x], nodeListIndex[p])
      /\ Exchange(x, p)
      /\ Unlinked(x, parentPNode, parentCNodeId)
      /\ up' = [y \in Node |-> IF y = x THEN Nil ELSE IF up[y] = x THEN p ELSE up[y]]
      /\ UNCHANGED <<status, type, pool, counts, root>>

\* Mutant of Push: the head of the list is overwritten before it is linked.
Push_SwappedOrder(x) ==
  /\ parentPNode' = [parentPNode EXCEPT ![x] = x]
  /\ reusable' = x
  /\ place' = [place EXCEPT ![x] = poolSize + 1]
  /\ poolSize' = poolSize + 1

\* x becomes the head of the list of reusable nodes.
Push(x) ==
  /\ parentPNode' = [parentPNode EXCEPT ![x] = reusable]
  /\ reusable' = x
  /\ place' = [place EXCEPT ![x] = poolSize + 1]
  /\ poolSize' = poolSize + 1

\* destroyNode(x)
DestroyNode(x) ==
  /\ status[x] = "used"
  /\ IsDetached(x) /\ Kids(x) = {}
  /\ x # root
  /\ Register(x, type[x], "none")
  /\ status' = [status EXCEPT ![x] = "free"]
  /\ Push(x)
  /\ UNCHANGED <<type, parentCNodeId, up, root>>

\* changeNodeType(x, t): if x was or becomes a C-node its children are told.
ChangeNodeType(x, t) ==
  /\ ValidNode(x)
  /\ type[x] # t
  /\ t = "Leaf" => Cardinality(Kids(x)) + Bit(~IsDetached(x)) <= 1
  /\ Register(x, type[x], t)
  /\ type' = [type EXCEPT ![x] = t]
  /\ IF "C" \in {type[x], t}
       THEN /\ parentPNode' = [y \in Node |-> IF up[y] # x THEN parentPNode[y]
                                               ELSE IF t = "C" THEN Nil ELSE x]
            /\ parentCNodeId' = [y \in Node |-> IF up[y] # x THEN parentCNodeId[y]
                                                 ELSE IF t = "C" THEN NextId ELSE EmptyId]
       ELSE UNCHANGED <<parentPNode, parentCNodeId>>
  /\ UNCHANGED <<status, up, pool, root>>

\* getParent() writes down the index that it has found.
GetParent(x) ==
  /\ status[x] = "used"
  /\ parentCNodeId' = [parentCNodeId EXCEPT ![x] = CachedId(x)]
  /\ UNCHANGED <<status, type, parentPNode, nodeListIndex, table, pool, counts, root, up>>

SetRoot(x) ==
  /\ ValidNode(x) /\ IsDetached(x)
  /\ root' = x
  /\ UNCHANGED <<status, type, refs, nodeListIndex, table, pool, counts>>

\* changeRoot(x): from the top down, every node on the way to x becomes the
\* child of the one below it.
ChangeRoot(x) ==
  \E way \in SUBSET Node :
    LET below(y) == CHOOSE z \in way : up[z] = y
    IN  /\ IsWayUp(way, x)
        /\ \A y \in way : ValidNode(y)
        /\ parentPNode' = [y \in Node |-> IF y \notin way THEN parentPNode[y]
                                           ELSE IF y = x THEN Nil ELSE PRef(below(y))]
        /\ parentCNodeId' = [y \in Node |-> IF y \notin way THEN parentCNodeId[y]
                                             ELSE IF y = x THEN EmptyId ELSE CRef(below(y))]
        /\ up' = [y \in Node |-> IF y \notin way THEN up[y]
                                  ELSE IF y = x THEN Nil ELSE below(y)]
        /\ root' = x
        /\ UNCHANGED <<status, type, nodeListIndex, table, pool, counts>>

(***************************************************************************)
(* intersect() takes the subtree of a detached node out of the tree and    *)
(* puts it back later, when it is to be attached again.  The C-nodes       *)
(* keep their indices, but not their entries in the table.                 *)
(***************************************************************************)
OfType(S, t) == {x \in S : type[x] = t}
Indices(S) == {nodeListIndex[x] : x \in OfType(S, "C")}

TakeOut(x) ==
  \E S \in SUBSET Node :
      /\ IsSubtree(S, x)
      /\ x \in Used /\ IsDetached(x) /\ x # root
      /\ \A y \in S : ValidNode(y)
      /\ status' = [y \in Node |-> IF y \in S THEN "out" ELSE status[y]]
      /\ leaves' = leaves \ S
      /\ pNodeCount' = pNodeCount - Cardinality(OfType(S, "P"))
      /\ cNodeCount' = cNodeCount - Cardinality(OfType(S, "C"))
      /\ cNodes' = [i \in Id |-> IF i \in Indices(S) THEN Nil ELSE cNodes[i]]
      /\ UNCHANGED <<type, refs, nodeListIndex, find, pool, root>>

PutBack(x) ==
  \E S \in SUBSET Node :
      /\ IsSubtree(S, x)
      /\ IsDetached(x)
      /\ \A y \in S : status[y] = "out"
      /\ status' = [y \in Node |-> IF y \in S THEN "used" ELSE status[y]]
      /\ leaves' = leaves \cup OfType(S, "Leaf")
      /\ pNodeCount' = pNodeCount + Cardinality(OfType(S, "P"))
      /\ cNodeCount' = cNodeCount + Cardinality(OfType(S, "C"))
      /\ cNodes' = [i \in Id |-> IF i \in Indices(S)
                                   THEN CHOOSE y \in OfType(S, "C") : nodeListIndex[y] = i
                                   ELSE cNodes[i]]
      /\ UNCHANGED <<type, refs, nodeListIndex, find, pool, root>>

(***************************************************************************)
(* PCTreeForest::clear(), which destroys the one tree, its nodes in some   *)
(* order, and empties the table.                                           *)
(***************************************************************************)
\* Every member of S is at one place.
Orders(S) ==
  {f \in [1..Cardinality(S) -> S] : \A x \in S : \E i \in DOMAIN f :
                                     \A j \in DOMAIN f : f[j] = x <=> j = i}

Clear ==
  /\ root # Nil
  /\ IsSubtree(Used, root)
  /\ \A x \in Node : status[x] # "out" /\ (status[x] = "used" => ValidNode(x))
  /\ \E order \in Orders(Used) :
       LET turn(x) == CHOOSE i \in DOMAIN order : order[i] = x
       IN  /\ place' = [x \in Node |-> IF x \in Used THEN poolSize + turn(x) ELSE place[x]]
           /\ parentPNode' = [x \in Node |->
                                IF x \notin Used THEN parentPNode[x]
                                ELSE IF turn(x) = 1 THEN reusable ELSE order[turn(x) - 1]]
           /\ reusable' = order[Cardinality(Used)]
           /\ poolSize' = poolSize + Cardinality(Used)
  /\ status' = [x \in Node |-> IF x \in Used THEN "free" ELSE status[x]]
  /\ parentCNodeId' = [x \in Node |-> IF x \in Used THEN EmptyId ELSE parentCNodeId[x]]
  /\ nodeListIndex' = [x \in Node |-> IF x \in OfType(Used, "C") THEN EmptyId
                                       ELSE nodeListIndex[x]]
  /\ up' = [x \in Node |-> IF x \in Used THEN Nil ELSE up[x]]
  /\ leaves' = {} /\ pNodeCount' = 0 /\ cNodeCount' = 0
  /\ cNodes' = [i \in {} |-> Nil] /\ find' = [i \in {} |-> EmptyId]
  /\ root' = Nil
  /\ UNCHANGED type

Next ==
  \/ \E x \in Node, t \in NodeType, p \in Node \cup {Nil} : NewNode(x, t, p)
  \/ \E x, y \in Node : AppendChild(x, y) \/ InsertBetween(x, y) \/ ReplaceWith(x, y)
  \/ \E x \in Node : \/ Detach(x) \/ MergeIntoParent(x) \/ DestroyNode(x)
                     \/ GetParent(x) \/ SetRoot(x) \/ ChangeRoot(x)
                     \/ TakeOut(x) \/ PutBack(x)
  \/ \E x \in Node, t \in NodeType : ChangeNodeType(x, t)
  \/ Clear

Spec == Init /\ [][Next]_vars

(***************************************************************************)
(* Type correctness.  No index is left from before a clear().              *)
(***************************************************************************)
TypeOK ==
  /\ status \in [Node -> {"fresh", "used", "out", "free"}]
  /\ type \in [Node -> NodeType]
  /\ parentPNode \in [Node -> Node \cup {Nil}]
  /\ Id = 0..(NextId - 1)
  /\ find \in [Id -> Id]
  /\ cNodes \in [Id -> Node \cup {Nil}]
  /\ parentCNodeId \in [Node -> Id \cup {EmptyId}]
  /\ nodeListIndex \in [Node -> Id \cup {EmptyId}]
  /\ reusable \in Node \cup {Nil}
  /\ place \in [Node -> Nat] /\ poolSize \in Nat
  /\ leaves \subseteq Node /\ pNodeCount \in Int /\ cNodeCount \in Int
  /\ root \in Node \cup {Nil}
  /\ up \in [Node -> Node \cup {Nil}]

(***************************************************************************)
(* getParent() is the parent, although neither mergeIntoParent nor an      *)
(* exchange of indices has touched the field of the child.                 *)
(***************************************************************************)
ParentExact == \A x \in Used : Parent(x) = up[x]

(***************************************************************************)
(* The table has an entry for exactly the C-nodes in use, so none leads to *)
(* a node that was destroyed or allocated anew; and a C-node whose index   *)
(* is no representative any more has lost its children.                    *)
(***************************************************************************)
TableExact ==
  /\ \A i \in Id : cNodes[i] # Nil =>
       /\ status[cNodes[i]] = "used"
       /\ type[cNodes[i]] = "C"
       /\ nodeListIndex[cNodes[i]] = i
  /\ \A x \in OfType(Used, "C") :
       /\ cNodes[nodeListIndex[x]] = x
       /\ Kids(x) # {} => ValidNode(x)

(***************************************************************************)
(* The entry of a C-node that was taken out is still free, and its index   *)
(* still a representative of its own, when restoreSubtrees() asserts so:   *)
(* merges in the rest of the tree have not involved it.                    *)
(***************************************************************************)
OutReserved ==
  \A x \in Node : status[x] = "out" /\ type[x] = "C" =>
    /\ cNodes[nodeListIndex[x]] = Nil
    /\ find[nodeListIndex[x]] = nodeListIndex[x]
    /\ \A y \in Used : parentCNodeId[y] # EmptyId => find[parentCNodeId[y]] # nodeListIndex[x]

(***************************************************************************)
(* The list of reusable nodes, threaded through the parent pointers, has   *)
(* every destroyed node once, the latest first.                            *)
(***************************************************************************)
PoolLinked ==
  LET free == {x \in Node : status[x] = "free"}
  IN  /\ \A x \in free : place[x] \in 1..poolSize
      /\ \A x, y \in free : place[x] = place[y] => x = y
      /\ IF poolSize = 0 THEN reusable = Nil
         ELSE reusable \in free /\ place[reusable] = poolSize
      /\ \A x \in free : IF place[x] = 1 THEN parentPNode[x] = Nil
                         ELSE /\ parentPNode[x] \in free
                              /\ place[parentPNode[x]] = place[x] - 1

(***************************************************************************)
(* The counters of the tree, which checkValid() compares with a traversal. *)
(***************************************************************************)
CountsExact ==
  /\ leaves = OfType(Used, "Leaf")
  /\ pNodeCount = Cardinality(OfType(Used, "P"))
  /\ cNodeCount = Cardinality(OfType(Used, "C"))
=============================================================================
