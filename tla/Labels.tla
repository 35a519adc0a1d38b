-------------------------------- MODULE Labels --------------------------------
(***************************************************************************)
(* The label and the temporary data of a node count only if the node has   *)
(* the timestamp of its forest: resetTempData() just takes the next        *)
(* timestamp, and checkTimestamp() clears a node when it is first used     *)
(* again.  A leaf has user data in the place of the temporary data.        *)
(*                                                                         *)
(* Nodes are destroyed, used again with what was left in them, and the     *)
(* forest's clear() starts the timestamps from 0.                          *)
(***************************************************************************)
EXTENDS Integers

CONSTANTS
  Node, Data, Cleared, Junk,
  MaxTimestamp  \* bound of the timestamps

ASSUME LabelsAssumption == Cleared \notin Data /\ Junk \notin Data /\ Junk # Cleared

VARIABLES
  status,     \* "fresh": not allocated, "used", "free": to be used again
  isLeaf,     \* m_nodeType = Leaf
  stamp,      \* m_timestamp of every node
  label,      \* m_label
  store,      \* the union of m_temp and m_userData
  timestamp,  \* m_forest->m_timestamp
  call        \* the latest call, with what it was given or has returned

vars == <<status, isLeaf, stamp, label, store, timestamp, call>>

Label    == {"Unknown", "Partial", "Full"}   \* Empty is the same as Unknown
TempData == Data \cup {Cleared}
UserData == Data \cup {Junk}

Init ==
  /\ status = [x \in Node |-> "fresh"]
  /\ isLeaf = [x \in Node |-> FALSE]
  /\ stamp = [x \in Node |-> 0]
  /\ label = [x \in Node |-> "Unknown"]
  /\ store = [x \in Node |-> Cleared]
  /\ timestamp = 0
  /\ call = <<"none">>

\* resetTempData(): no node is touched.
ResetTempData ==
  /\ timestamp < MaxTimestamp
  /\ timestamp' = timestamp + 1
  /\ call' = <<"reset">>
  /\ UNCHANGED <<status, isLeaf, stamp, label, store>>

\* Labels and temporary data are used in a call that has reset them.
InCall(x) == timestamp > 0 /\ status[x] = "used"

CheckedLabel(x) == IF stamp[x] = timestamp THEN label[x] ELSE "Unknown"

\* Mutant of CheckedStore: the temporary data are not cleared.
CheckedStore_Kept(x) == store[x]

CheckedStore(x) == IF stamp[x] = timestamp \/ isLeaf[x] THEN store[x] ELSE Cleared

\* checkTimestamp() on x, after which its label is l and its data are d.
Use(x, l, d) ==
  /\ InCall(x)
  /\ stamp' = [stamp EXCEPT ![x] = timestamp]
  /\ label' = [label EXCEPT ![x] = l]
  /\ store' = [store EXCEPT ![x] = d]
  /\ UNCHANGED <<status, isLeaf, timestamp>>

\* getLabel() clears nothing.
GetLabel(x) ==
  /\ InCall(x)
  /\ call' = <<"getLabel", x, CheckedLabel(x)>>
  /\ UNCHANGED <<status, isLeaf, stamp, label, store, timestamp>>

SetLabel(x, l) ==
  /\ Use(x, l, CheckedStore(x))
  /\ call' = <<"setLabel", x, l>>

\* tempInfo() and constTempInfo(), to read
ReadTempInfo(x) ==
  /\ ~isLeaf[x]
  /\ Use(x, CheckedLabel(x), CheckedStore(x))
  /\ call' = <<"read", x, CheckedStore(x)>>

\* tempInfo() and addFullNeighbor(), to write
WriteTempInfo(x, d) ==
  /\ ~isLeaf[x]
  /\ Use(x, CheckedLabel(x), d)
  /\ call' = <<"write", x, d>>

\* leafUserData() does not look at the timestamp.
ReadUserData(x) ==
  /\ status[x] = "used" /\ isLeaf[x]
  /\ call' = <<"read", x, store[x]>>
  /\ UNCHANGED <<status, isLeaf, stamp, label, store, timestamp>>

WriteUserData(x, d) ==
  /\ status[x] = "used" /\ isLeaf[x]
  /\ store' = [store EXCEPT ![x] = d]
  /\ call' = <<"write", x, d>>
  /\ UNCHANGED <<status, isLeaf, stamp, label, timestamp>>

\* newNode() with new memory
AllocateNode(x, leaf) ==
  /\ status[x] = "fresh"
  /\ status' = [status EXCEPT ![x] = "used"]
  /\ isLeaf' = [isLeaf EXCEPT ![x] = leaf]
  /\ store' = [store EXCEPT ![x] = IF leaf THEN Junk ELSE Cleared]
  /\ call' = <<"new", x, leaf>>
  /\ UNCHANGED <<stamp, label, timestamp>>

\* m_temp or m_userData of x after changeType().
Retyped(x, leaf) ==
  IF isLeaf[x] = leaf THEN store[x] ELSE IF leaf THEN Junk ELSE Cleared

\* Mutant of ReusedStamp: the timestamp is left in the node.
ReusedStamp_Kept(x) == stamp[x]

ReusedStamp(x) == 0

\* newNode() with a node from m_reusableNodes: the label is left in it.
ReuseNode(x, leaf) ==
  /\ status[x] = "free"
  /\ status' = [status EXCEPT ![x] = "used"]
  /\ isLeaf' = [isLeaf EXCEPT ![x] = leaf]
  /\ stamp' = [stamp EXCEPT ![x] = ReusedStamp(x)]
  /\ store' = [store EXCEPT ![x] = Retyped(x, leaf)]
  /\ call' = <<"new", x, leaf>>
  /\ UNCHANGED <<label, timestamp>>

DestroyNode(x) ==
  /\ status[x] = "used"
  /\ status' = [status EXCEPT ![x] = "free"]
  /\ call' = <<"destroy", x>>
  /\ UNCHANGED <<isLeaf, stamp, label, store, timestamp>>

\* changeNodeType() from or to a leaf
ChangeNodeType(x) ==
  /\ status[x] = "used"
  /\ isLeaf' = [isLeaf EXCEPT ![x] = ~@]
  /\ store' = [store EXCEPT ![x] = Retyped(x, ~isLeaf[x])]
  /\ call' = <<"changeType", x>>
  /\ UNCHANGED <<status, stamp, label, timestamp>>

\* PCTreeForest::clear(), which destroys the nodes of all trees
Clear ==
  /\ status' = [x \in Node |-> IF status[x] = "used" THEN "free" ELSE status[x]]
  /\ timestamp' = 0
  /\ call' = <<"clear">>
  /\ UNCHANGED <<isLeaf, stamp, label, store>>

Next ==
  \/ ResetTempData \/ Clear
  \/ \E x \in Node, l \in Label : SetLabel(x, l)
  \/ \E x \in Node, d \in Data : WriteTempInfo(x, d) \/ WriteUserData(x, d)
  \/ \E x \in Node : \/ GetLabel(x) \/ ReadTempInfo(x) \/ ReadUserData(x)
                     \/ DestroyNode(x) \/ ChangeNodeType(x)
  \/ \E x \in Node, leaf \in BOOLEAN : AllocateNode(x, leaf) \/ ReuseNode(x, leaf)

Spec == Init /\ [][Next]_vars

(***************************************************************************)
(* Types: TempInfo is never read from the bytes of user data, or user data *)
(* from those of a TempInfo.                                               *)
(***************************************************************************)
TypeOK ==
  /\ status \in [Node -> {"fresh", "used", "free"}]
  /\ isLeaf \in [Node -> BOOLEAN]
  /\ stamp \in [Node -> Nat]
  /\ label \in [Node -> Label]
  /\ timestamp \in Nat
  /\ DOMAIN store = Node
  /\ \A x \in Node : store[x] \in IF isLeaf[x] THEN UserData ELSE TempData

(***************************************************************************)
(* checkTimestamp() asserts that no node is ahead of its forest, although  *)
(* clear() sets the forest's timestamp back.                               *)
(***************************************************************************)
StampsBehind == \A x \in Node : status[x] = "used" => stamp[x] <= timestamp

(***************************************************************************)
(* Labels (getLabel()), temporary data (tempInfo()) and user data read as  *)
(* if resetTempData() cleared every node at once.  Before the first reset  *)
(* of a forest, or after clear(), nothing is shown: the timestamp of the   *)
(* forest is then 0, which a reused node has too, with its old label.      *)
(***************************************************************************)
Current(x) == InCall(x) /\ stamp[x] = timestamp

ShownIsLeaf == [x \in Node |-> status[x] = "used" /\ isLeaf[x]]
ShownLabel  == [x \in Node |-> IF Current(x) THEN label[x] ELSE "Unknown"]
ShownStore  == [x \in Node |-> IF ShownIsLeaf[x] \/ Current(x) THEN store[x] ELSE Cleared]

Eager == INSTANCE EagerLabels WITH isLeaf <- ShownIsLeaf, label <- ShownLabel,
                                   store <- ShownStore

ClearsEagerly == Eager!Spec
=============================================================================
