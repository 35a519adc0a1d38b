---------------------------- MODULE IntrusiveLists -----------------------------
(***************************************************************************)
(* IntrusiveList: lists whose links are fields of the nodes themselves, so *)
(* that a node is in at most one of them.  PCTree keeps its leaves in one; *)
(* insertTree() appends the list of the inserted tree, and the destructor  *)
(* of PCTree uses the list as its stack of nodes to be destroyed.          *)
(*                                                                         *)
(* An erased or forgotten node keeps its old links.                        *)
(***************************************************************************)
EXTENDS Integers, FiniteSets, Sequences

CONSTANTS Node, List, Null

VARIABLES
  following, prev,     \* m_next and m_prev of the nodes
  first, last, count,  \* m_first, m_last and m_count of the lists
  content              \* history: what the lists should hold

links == <<following, prev, first, last, count, content>>

Members(l) == {content[l][i] : i \in DOMAIN content[l]}
InNoList(x) == \A l \in List : x \notin Members(l)

ListsInit ==
  /\ following = [x \in Node |-> Null]
  /\ prev = [x \in Node |-> Null]
  /\ first = [l \in List |-> Null]
  /\ last = [l \in List |-> Null]
  /\ count = [l \in List |-> 0]
  /\ content = [l \in List |-> <<>>]

\* The field f after f[x] := y, if x is a node.
Linked(f, x, y) == [z \in Node |-> IF z = x THEN y ELSE f[z]]

PushFront(l, x) ==
  /\ InNoList(x)
  /\ following' = Linked(following, x, first[l])
  /\ prev' = Linked(Linked(prev, first[l], x), x, Null)
  /\ first' = [first EXCEPT ![l] = x]
  /\ last' = [last EXCEPT ![l] = IF first[l] = Null THEN x ELSE @]
  /\ count' = [count EXCEPT ![l] = @ + 1]
  /\ content' = [content EXCEPT ![l] = <<x>> \o @]

\* The m_next of a new last node.
EndLink(x) == Null

PushBack(l, x) ==
  /\ InNoList(x)
  /\ prev' = Linked(prev, x, last[l])
  /\ following' = Linked(Linked(following, last[l], x), x, EndLink(x))
  /\ first' = [first EXCEPT ![l] = IF last[l] = Null THEN x ELSE @]
  /\ last' = [last EXCEPT ![l] = x]
  /\ count' = [count EXCEPT ![l] = @ + 1]
  /\ content' = [content EXCEPT ![l] = Append(@, x)]

\* The sequence s without its i-th element.
WithoutAt(s, i) == [j \in 1..Len(s) - 1 |-> IF j < i THEN s[j] ELSE s[j + 1]]

Erase(l, x) ==
  /\ x \in Members(l)
  /\ first' = [first EXCEPT ![l] = IF x = @ THEN following[x] ELSE @]
  /\ last' = [last EXCEPT ![l] = IF x = @ THEN prev[x] ELSE @]
  /\ following' = Linked(following, prev[x], following[x])
  /\ prev' = Linked(prev, following[x], prev[x])
  /\ count' = [count EXCEPT ![l] = @ - 1]
  /\ \E i \in DOMAIN content[l] :
       /\ content[l][i] = x
       /\ content' = [content EXCEPT ![l] = WithoutAt(@, i)]

PopFront(l) == count[l] > 0 /\ Erase(l, first[l])
PopBack(l)  == count[l] > 0 /\ Erase(l, last[l])

\* The list o has the value none in its field f.
Emptied(f, o, none) == [f EXCEPT ![o] = none]

\* splice(at, other): an empty list other has no node to be linked to the
\* nodes of l.
MaySplice(l, other) == l # other /\ (count[l] > 0 => count[other] > 0)

\* Mutant of Join: the nodes are linked in one direction only.
Join_OneWay(x, y) == following' = Linked(following, x, y) /\ UNCHANGED prev

\* y comes after x.
Join(x, y) ==
  IF Null \in {x, y} THEN UNCHANGED <<following, prev>>
  ELSE following' = Linked(following, x, y) /\ prev' = Linked(prev, y, x)

SpliceAtEnd(l, other) ==
  /\ MaySplice(l, other)
  /\ Join(last[l], first[other])
  /\ first' = Emptied([first EXCEPT ![l] = IF last[l] = Null THEN first[other] ELSE @], other, Null)
  /\ last' = Emptied([last EXCEPT ![l] = last[other]], other, Null)
  /\ count' = Emptied([count EXCEPT ![l] = @ + count[other]], other, 0)
  /\ content' = [content EXCEPT ![l] = @ \o content[other], ![other] = <<>>]

\* In an empty list begin() is end().
SpliceAtBegin(l, other) ==
  /\ MaySplice(l, other)
  /\ first[l] # Null
  /\ Join(last[other], first[l])
  /\ first' = Emptied([first EXCEPT ![l] = first[other]], other, Null)
  /\ last' = Emptied(last, other, Null)
  /\ count' = Emptied([count EXCEPT ![l] = @ + count[other]], other, 0)
  /\ content' = [content EXCEPT ![l] = content[other] \o @, ![other] = <<>>]

ClearList(l) ==
  /\ first' = [first EXCEPT ![l] = Null]
  /\ last' = [last EXCEPT ![l] = Null]
  /\ count' = [count EXCEPT ![l] = 0]
  /\ content' = [content EXCEPT ![l] = <<>>]
  /\ UNCHANGED <<following, prev>>

ListsNext ==
  \/ \E l \in List, x \in Node : PushFront(l, x) \/ PushBack(l, x) \/ Erase(l, x)
  \/ \E l, other \in List : SpliceAtEnd(l, other) \/ SpliceAtBegin(l, other)
  \/ \E l \in List : PopFront(l) \/ PopBack(l) \/ ClearList(l)

ListsSpec == ListsInit /\ [][ListsNext]_links

ListsTypeOK ==
  /\ following \in [Node -> Node \cup {Null}] /\ prev \in [Node -> Node \cup {Null}]
  /\ first \in [List -> Node \cup {Null}] /\ last \in [List -> Node \cup {Null}]
  /\ count \in [List -> 0..Cardinality(Node)]
  /\ content \in [List -> Seq(Node)]

(***************************************************************************)
(* check(): from m_first, an iterator sees the nodes of the list in order  *)
(* and ends after m_count of them, whatever links are left in nodes that   *)
(* have been in other lists before.                                        *)
(***************************************************************************)
ForwardExact ==
  \A l \in List :
    LET c == content[l]
    IN  /\ count[l] = Len(c)
        /\ first[l] = IF c = <<>> THEN Null ELSE c[1]
        /\ \A i \in DOMAIN c : following[c[i]] = IF i = Len(c) THEN Null ELSE c[i + 1]

(***************************************************************************)
(* The other direction, which only erase() and back() use, ends at the     *)
(* first node and is that of the same list.                                *)
(***************************************************************************)
BackwardExact ==
  \A l \in List :
    LET c == content[l]
    IN  /\ last[l] = IF c = <<>> THEN Null ELSE c[Len(c)]
        /\ \A i \in DOMAIN c : prev[c[i]] = IF i = 1 THEN Null ELSE c[i - 1]

(***************************************************************************)
(* The links are those of lists with the content there should be, in both  *)
(* directions, after any pushes, erasures and splices.                     *)
(***************************************************************************)
ListsLinked == ListsTypeOK /\ ForwardExact /\ BackwardExact
=============================================================================
