------------------------------ MODULE NodeRings ------------------------------
(***************************************************************************)
(* What the methods of PCNode that restructure a tree promise: each edits  *)
(* the list of children of a node, as the operators of PCTreeShape say.    *)
(* PCNodeLinks is the code behind it, which has pointers to siblings that  *)
(* do not know left from right.                                            *)
(*                                                                         *)
(* Here a direction is a choice: which end of a merged node comes first,   *)
(* and in which direction the nodes on the way to a new root are read.     *)
(***************************************************************************)
EXTENDS PCTreeShape

VARIABLE tree  \* [parent, kids] of every node

Detached(x) == tree.parent[x] = Nil
\* c, with what is below it, may be attached to p.
Attachable(p, c) == Detached(c) /\ c \notin WayUp(tree, p)

Init == tree = [parent |-> [x \in Node |-> Nil], kids |-> [x \in Node |-> <<>>]]

Append_ == \E p, c \in Node, begin \in BOOLEAN :
  Attachable(p, c) /\ tree' = AppendChild(tree, p, c, begin)

Insert == \E x, p \in Node : \E a, b \in ToSet(Neighbors(tree, p)) :
  /\ Attachable(p, x)
  /\ AreNeighborsAdjacent(tree, p, a, b)
  /\ tree' = InsertBetween(tree, x, a, b)

InsertAtEnd == \E x, p \in Node : \E c \in ToSet(tree.kids[p]) :
  /\ Attachable(p, x) /\ IsChildOuter(tree, p, c)
  /\ tree' = AppendBeside(tree, p, x, c)

TakeOut == \E x \in Node : ~Detached(x) /\ tree' = Detach(tree, x)

Replace == \E x, r \in Node :
  x # r /\ Attachable(x, r) /\ tree' = ReplaceWith(tree, x, r)

Merge == \E x, next \in Node :
  /\ ~Detached(x) /\ tree.kids[x] # <<>> /\ Degree(tree, tree.parent[x]) >= 3
  /\ AreNeighborsAdjacent(tree, tree.parent[x], x, next)
  /\ tree' = MergeIntoParent(tree, x, next)

Reorder == \E p \in Node : \E order \in SetToSeqs(ToSet(tree.kids[p])) :
  tree' = [tree EXCEPT !.kids[p] = order]

Reroot == \E x \in Node : \E mirrored \in SUBSET (WayUp(tree, x) \ {x}) :
  LET t == ChangeRoot(tree @@ [root |-> x], x, mirrored)
  IN  tree' = [parent |-> t.parent, kids |-> t.kids]

Next == Append_ \/ Insert \/ InsertAtEnd \/ TakeOut \/ Replace \/ Merge \/ Reorder \/ Reroot

Spec == Init /\ [][Next]_tree
=============================================================================
