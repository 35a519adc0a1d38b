------------------------------ MODULE EagerLabels ------------------------------
(***************************************************************************)
(* What the algorithms rely on when they use labels and temporary data:    *)
(* resetTempData() has cleared them, of every node, at once, and has left  *)
(* the data that users keep in leaves alone.                               *)
(***************************************************************************)
CONSTANTS
  Node, Data,
  Cleared,  \* a TempInfo after clear()
  Junk      \* user data that were never written

VARIABLES
  isLeaf,   \* of every node
  label,    \* its label
  store,    \* its TempInfo or, of a leaf, its user data
  call      \* the latest call, with what it was given or has returned

vars == <<isLeaf, label, store, call>>

Label    == {"Unknown", "Partial", "Full"}
UserData == Data \cup {Junk}

Init ==
  /\ isLeaf = [x \in Node |-> FALSE]
  /\ label = [x \in Node |-> "Unknown"]
  /\ store = [x \in Node |-> Cleared]
  /\ call = <<"none">>

ResetTempData ==
  /\ call' = <<"reset">>
  /\ label' = [x \in Node |-> "Unknown"]
  /\ store' = [x \in Node |-> IF isLeaf[x] THEN store[x] ELSE Cleared]
  /\ UNCHANGED isLeaf

GetLabel(x) ==
  /\ call' = <<"getLabel", x, label[x]>>
  /\ UNCHANGED <<isLeaf, label, store>>

SetLabel(x, l) ==
  /\ call' = <<"setLabel", x, l>>
  /\ label' = [label EXCEPT ![x] = l]
  /\ UNCHANGED <<isLeaf, store>>

Read(x) ==
  /\ call' = <<"read", x, store[x]>>
  /\ UNCHANGED <<isLeaf, label, store>>

Write(x, d) ==
  /\ call' = <<"write", x, d>>
  /\ store' = [store EXCEPT ![x] = d]
  /\ UNCHANGED <<isLeaf, label>>

\* A new leaf may have the user data of an earlier one.
NewNode(x, leaf) ==
  /\ call' = <<"new", x, leaf>>
  /\ isLeaf' = [isLeaf EXCEPT ![x] = leaf]
  /\ label' = [label EXCEPT ![x] = "Unknown"]
  /\ \E v \in UserData : store' = [store EXCEPT ![x] = IF leaf THEN v ELSE Cleared]

DestroyNode(x) ==
  /\ call' = <<"destroy", x>>
  /\ isLeaf' = [isLeaf EXCEPT ![x] = FALSE]
  /\ label' = [label EXCEPT ![x] = "Unknown"]
  /\ store' = [store EXCEPT ![x] = Cleared]

\* A leaf becomes an inner node or the other way round; the label stays.
ChangeNodeType(x) ==
  /\ call' = <<"changeType", x>>
  /\ isLeaf' = [isLeaf EXCEPT ![x] = ~@]
  /\ store' = [store EXCEPT ![x] = IF isLeaf[x] THEN Cleared ELSE Junk]
  /\ UNCHANGED label

Clear ==
  /\ call' = <<"clear">>
  /\ isLeaf' = [x \in Node |-> FALSE]
  /\ label' = [x \in Node |-> "Unknown"]
  /\ store' = [x \in Node |-> Cleared]

Next ==
  \/ ResetTempData \/ Clear
  \/ \E x \in Node, l \in Label : SetLabel(x, l)
  \/ \E x \in Node, d \in Data : Write(x, d)
  \/ \E x \in Node, leaf \in BOOLEAN : NewNode(x, leaf)
  \/ \E x \in Node : GetLabel(x) \/ Read(x) \/ DestroyNode(x) \/ ChangeNodeType(x)

Spec == Init /\ [][Next]_vars
=============================================================================
