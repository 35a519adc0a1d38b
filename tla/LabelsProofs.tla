----------------------------- MODULE LabelsProofs ------------------------------
(***************************************************************************)
(* Clearing by timestamps is as good as clearing every node: the proof.    *)
(***************************************************************************)
EXTENDS Labels, TLAPS

\* New memory has the timestamp 0.
FreshStamps == \A x \in Node : status[x] = "fresh" => stamp[x] = 0

IInv == TypeOK /\ StampsBehind /\ FreshStamps

LEMMA InitIInv == Init => IInv
BY LabelsAssumption DEF Init, IInv, TypeOK, StampsBehind, FreshStamps, TempData, UserData, Label

\* Types and timestamps are kept by every step.
LEMMA NextIInv == IInv /\ [Next]_vars => IInv'
<1> SUFFICES ASSUME IInv, [Next]_vars PROVE IInv'
  OBVIOUS
<1> USE DEF IInv, TypeOK, StampsBehind, FreshStamps, TempData, UserData, Label
<1>1. CASE ResetTempData
  BY <1>1 DEF ResetTempData
<1>2. CASE Clear
  BY <1>2 DEF Clear
<1>3. ASSUME NEW x \in Node, NEW l \in Label, SetLabel(x, l) PROVE IInv'
  BY <1>3 DEF SetLabel, Use, InCall, CheckedStore
<1>4. ASSUME NEW x \in Node, NEW d \in Data, WriteTempInfo(x, d) PROVE IInv'
  BY <1>4 DEF WriteTempInfo, Use, InCall, CheckedLabel
<1>5. ASSUME NEW x \in Node, NEW d \in Data, WriteUserData(x, d) PROVE IInv'
  BY <1>5 DEF WriteUserData
<1>6. ASSUME NEW x \in Node, GetLabel(x) PROVE IInv'
  BY <1>6 DEF GetLabel
<1>7. ASSUME NEW x \in Node, ReadTempInfo(x) PROVE IInv'
  BY <1>7 DEF ReadTempInfo, Use, InCall, CheckedLabel, CheckedStore
<1>8. ASSUME NEW x \in Node, ReadUserData(x) PROVE IInv'
  BY <1>8 DEF ReadUserData
<1>9. ASSUME NEW x \in Node, DestroyNode(x) PROVE IInv'
  BY <1>9 DEF DestroyNode
<1>10. ASSUME NEW x \in Node, ChangeNodeType(x) PROVE IInv'
  BY <1>10 DEF ChangeNodeType, Retyped
<1>11. ASSUME NEW x \in Node, NEW leaf \in BOOLEAN, AllocateNode(x, leaf) PROVE IInv'
  BY <1>11 DEF AllocateNode
<1>12. ASSUME NEW x \in Node, NEW leaf \in BOOLEAN, ReuseNode(x, leaf) PROVE IInv'
  BY <1>12 DEF ReuseNode, Retyped, ReusedStamp
<1>13. CASE UNCHANGED vars
  BY <1>13 DEF vars
<1> QED
  BY <1>1, <1>2, <1>3, <1>4, <1>5, <1>6, <1>7, <1>8, <1>9, <1>10, <1>11, <1>12, <1>13 DEF Next

THEOREM IInvHolds == Spec => []IInv
BY InitIInv, NextIInv, PTL DEF Spec

(***************************************************************************)
(* Types are right: no TempInfo is read from the bytes of user data.       *)
(***************************************************************************)
THEOREM TypeCorrect == Spec => []TypeOK
<1>1. IInv => TypeOK
  BY DEF IInv
<1> QED
  BY <1>1, IInvHolds, PTL

(***************************************************************************)
(* No node in use is ahead of its forest, also after clear().              *)
(***************************************************************************)
THEOREM StampsCorrect == Spec => []StampsBehind
<1>1. IInv => StampsBehind
  BY DEF IInv
<1> QED
  BY <1>1, IInvHolds, PTL

-----------------------------------------------------------------------------

(***************************************************************************)
(* The refinement: every step is the step of the same call.                *)
(***************************************************************************)
LEMMA InitEager == Init => Eager!Init
BY DEF Init, Eager!Init, ShownIsLeaf, ShownLabel, ShownStore, Current, InCall

LEMMA ResetEager == ASSUME IInv, ResetTempData PROVE Eager!ResetTempData
<1> USE DEF IInv, TypeOK, StampsBehind, ResetTempData
<1>1. \A x \in Node : ~Current(x)'
  BY DEF Current, InCall
<1>2. UNCHANGED ShownIsLeaf
  BY DEF ShownIsLeaf
<1>3. ShownLabel' = [x \in Node |-> "Unknown"]
  BY <1>1 DEF ShownLabel
<1>4. ShownStore' = [x \in Node |-> IF ShownIsLeaf[x] THEN ShownStore[x] ELSE Cleared]
  BY <1>1, <1>2 DEF ShownStore, ShownIsLeaf
<1> QED
  BY <1>2, <1>3, <1>4 DEF Eager!ResetTempData

LEMMA ClearEager == ASSUME IInv, Clear PROVE Eager!Clear
<1>1. \A x \in Node : ~Current(x)' /\ status'[x] # "used"
  BY DEF Clear, Current, InCall, IInv, TypeOK
<1> QED
  BY <1>1 DEF Clear, Eager!Clear, ShownIsLeaf, ShownLabel, ShownStore

\* checkTimestamp() on x changes nothing that is shown but what is written.
LEMMA UseEager ==
  ASSUME IInv, NEW x \in Node, NEW l, NEW d, Use(x, l, d)
  PROVE  /\ UNCHANGED ShownIsLeaf
         /\ ShownLabel' = [ShownLabel EXCEPT ![x] = l]
         /\ ShownStore' = [ShownStore EXCEPT ![x] = d]
<1> USE DEF IInv, TypeOK, Use, InCall, Current
<1>1. UNCHANGED ShownIsLeaf
  BY DEF ShownIsLeaf
<1>2. \A y \in Node : Current(y)' <=> y = x \/ Current(y)
  OBVIOUS
<1>3. ShownLabel' = [ShownLabel EXCEPT ![x] = l]
  BY <1>2 DEF ShownLabel
<1>4. ShownStore' = [ShownStore EXCEPT ![x] = d]
  BY <1>1, <1>2 DEF ShownStore, ShownIsLeaf
<1> QED
  BY <1>1, <1>3, <1>4

\* What checkTimestamp() leaves in a node is what was shown of it.
LEMMA CheckedShown ==
  ASSUME IInv, NEW x \in Node, InCall(x)
  PROVE  CheckedLabel(x) = ShownLabel[x] /\ CheckedStore(x) = ShownStore[x]
BY DEF IInv, TypeOK, InCall, Current, CheckedLabel, CheckedStore, ShownLabel, ShownStore,
       ShownIsLeaf

\* Writing back what is shown changes nothing.
LEMMA SameShown ==
  ASSUME NEW x \in Node
  PROVE  /\ [ShownLabel EXCEPT ![x] = ShownLabel[x]] = ShownLabel
         /\ [ShownStore EXCEPT ![x] = ShownStore[x]] = ShownStore
BY DEF ShownLabel, ShownStore

LEMMA SetLabelEager ==
  ASSUME IInv, NEW x \in Node, NEW l \in Label, SetLabel(x, l)
  PROVE  Eager!SetLabel(x, l)
<1>1. Use(x, l, CheckedStore(x)) /\ InCall(x)
  BY DEF SetLabel, Use
<1>2. CheckedStore(x) = ShownStore[x]
  BY <1>1, CheckedShown
<1> QED
  BY <1>1, <1>2, UseEager, SameShown DEF SetLabel, Eager!SetLabel

LEMMA GetLabelEager ==
  ASSUME IInv, NEW x \in Node, GetLabel(x)
  PROVE  Eager!GetLabel(x)
<1>1. CheckedLabel(x) = ShownLabel[x]
  BY CheckedShown DEF GetLabel
<1> QED
  BY <1>1 DEF GetLabel, Eager!GetLabel, ShownIsLeaf, ShownLabel, ShownStore, Current, InCall

LEMMA ReadEager ==
  ASSUME IInv, NEW x \in Node, ReadTempInfo(x) \/ ReadUserData(x)
  PROVE  Eager!Read(x)
<1>1. CASE ReadTempInfo(x)
  <2>1. Use(x, CheckedLabel(x), CheckedStore(x)) /\ InCall(x)
    BY <1>1 DEF ReadTempInfo, Use
  <2>2. CheckedLabel(x) = ShownLabel[x] /\ CheckedStore(x) = ShownStore[x]
    BY <2>1, CheckedShown
  <2> QED
    BY <1>1, <2>1, <2>2, UseEager, SameShown DEF ReadTempInfo, Eager!Read
<1>2. CASE ReadUserData(x)
  <2>1. ShownStore[x] = store[x]
    BY <1>2 DEF ReadUserData, ShownStore, ShownIsLeaf
  <2> QED
    BY <1>2, <2>1 DEF ReadUserData, Eager!Read, ShownIsLeaf, ShownLabel, ShownStore, Current,
                      InCall
<1> QED
  BY <1>1, <1>2

LEMMA WriteEager ==
  ASSUME IInv, NEW x \in Node, NEW d \in Data, WriteTempInfo(x, d) \/ WriteUserData(x, d)
  PROVE  Eager!Write(x, d)
<1>1. CASE WriteTempInfo(x, d)
  <2>1. Use(x, CheckedLabel(x), d) /\ InCall(x)
    BY <1>1 DEF WriteTempInfo, Use
  <2>2. CheckedLabel(x) = ShownLabel[x]
    BY <2>1, CheckedShown
  <2> QED
    BY <1>1, <2>1, <2>2, UseEager, SameShown DEF WriteTempInfo, Eager!Write
<1>2. CASE WriteUserData(x, d)
  <2>1. UNCHANGED <<ShownIsLeaf, ShownLabel>>
    BY <1>2 DEF WriteUserData, ShownIsLeaf, ShownLabel, Current, InCall
  <2>2. ShownStore' = [ShownStore EXCEPT ![x] = d]
    BY <1>2 DEF WriteUserData, ShownStore, ShownIsLeaf, Current, InCall, IInv, TypeOK
  <2> QED
    BY <1>2, <2>1, <2>2 DEF WriteUserData, Eager!Write
<1> QED
  BY <1>1, <1>2

\* A node that is made has the timestamp 0, which is not that of a call.
LEMMA NewNodeEager ==
  ASSUME IInv, NEW x \in Node, NEW leaf \in BOOLEAN,
         AllocateNode(x, leaf) \/ ReuseNode(x, leaf)
  PROVE  Eager!NewNode(x, leaf)
<1> USE DEF IInv, TypeOK, FreshStamps, AllocateNode, ReuseNode, ReusedStamp, Retyped
<1>1. /\ isLeaf' = [isLeaf EXCEPT ![x] = leaf]
      /\ status' = [status EXCEPT ![x] = "used"]
      /\ status[x] # "used"
      /\ call' = <<"new", x, leaf>>
      /\ UNCHANGED <<label, timestamp>>
      /\ stamp'[x] = 0 /\ \A y \in Node \ {x} : stamp'[y] = stamp[y]
      /\ \A y \in Node \ {x} : store'[y] = store[y]
  OBVIOUS
<1>2. leaf => store'[x] \in UserData
  BY DEF UserData
<1>3. ~Current(x)' /\ \A y \in Node \ {x} : Current(y)' <=> Current(y)
  BY <1>1 DEF Current, InCall
<1>4. ShownIsLeaf' = [ShownIsLeaf EXCEPT ![x] = leaf]
  BY <1>1 DEF ShownIsLeaf
<1>5. ShownLabel' = [ShownLabel EXCEPT ![x] = "Unknown"]
  BY ZenonT(40), <1>1, <1>3 DEF ShownLabel
<1>6. ShownStore' = [ShownStore EXCEPT ![x] = IF leaf THEN store'[x] ELSE Cleared]
  <2>1. \A y \in Node : ShownStore'[y] = IF y = x THEN IF leaf THEN store'[x] ELSE Cleared
                                          ELSE ShownStore[y]
    BY <1>1, <1>3, <1>4 DEF ShownStore, ShownIsLeaf
  <2> QED
    BY <2>1 DEF ShownStore
<1>7. \E v \in Eager!UserData :
         ShownStore' = [ShownStore EXCEPT ![x] = IF leaf THEN v ELSE Cleared]
  <2>1. CASE leaf
    BY <1>2, <1>6, <2>1 DEF UserData, Eager!UserData
  <2>2. CASE ~leaf
    BY <1>6, <2>2 DEF Eager!UserData
  <2> QED
    BY <2>1, <2>2
<1> QED
  BY <1>1, <1>4, <1>5, <1>7 DEF Eager!NewNode

LEMMA DestroyNodeEager ==
  ASSUME IInv, NEW x \in Node, DestroyNode(x)
  PROVE  Eager!DestroyNode(x)
BY DEF DestroyNode, Eager!DestroyNode, ShownIsLeaf, ShownLabel, ShownStore, Current, InCall,
       IInv, TypeOK

LEMMA ChangeNodeTypeEager ==
  ASSUME IInv, NEW x \in Node, ChangeNodeType(x)
  PROVE  Eager!ChangeNodeType(x)
<1> USE DEF ChangeNodeType, Retyped, IInv, TypeOK
<1>1. ShownIsLeaf' = [ShownIsLeaf EXCEPT ![x] = ~@]
  BY DEF ShownIsLeaf
<1>2. UNCHANGED ShownLabel
  BY DEF ShownLabel, Current, InCall
<1>3. ShownStore' = [ShownStore EXCEPT ![x] = IF ShownIsLeaf[x] THEN Cleared ELSE Junk]
  BY DEF ShownStore, ShownIsLeaf, Current, InCall
<1> QED
  BY <1>1, <1>2, <1>3 DEF Eager!ChangeNodeType

LEMMA NextEager == IInv /\ [Next]_vars => [Eager!Next]_(Eager!vars)
<1> SUFFICES ASSUME IInv, [Next]_vars PROVE Eager!Next \/ UNCHANGED Eager!vars
  OBVIOUS
<1>1. CASE ResetTempData \/ Clear
  BY <1>1, ResetEager, ClearEager DEF Eager!Next
<1>2. ASSUME NEW x \in Node, NEW l \in Label, SetLabel(x, l) PROVE Eager!Next
  BY <1>2, SetLabelEager DEF Eager!Next, Eager!Label, Label
<1>3. ASSUME NEW x \in Node, NEW d \in Data, WriteTempInfo(x, d) \/ WriteUserData(x, d)
      PROVE  Eager!Next
  BY <1>3, WriteEager DEF Eager!Next
<1>4. ASSUME NEW x \in Node,
             GetLabel(x) \/ ReadTempInfo(x) \/ ReadUserData(x) \/ DestroyNode(x)
               \/ ChangeNodeType(x)
      PROVE  Eager!Next
  BY <1>4, GetLabelEager, ReadEager, DestroyNodeEager, ChangeNodeTypeEager DEF Eager!Next
<1>5. ASSUME NEW x \in Node, NEW leaf \in BOOLEAN, AllocateNode(x, leaf) \/ ReuseNode(x, leaf)
      PROVE  Eager!Next
  BY <1>5, NewNodeEager DEF Eager!Next
<1>6. CASE UNCHANGED vars
  BY <1>6 DEF vars, Eager!vars, ShownIsLeaf, ShownLabel, ShownStore, Current, InCall
<1> QED
  BY <1>1, <1>2, <1>3, <1>4, <1>5, <1>6 DEF Next

(***************************************************************************)
(* Clearing by timestamps implements clearing every node at once, for any  *)
(* number of nodes, calls and timestamps.                                  *)
(***************************************************************************)
THEOREM EagerImplemented == Spec => ClearsEagerly
BY InitEager, NextEager, IInvHolds, PTL DEF Spec, ClearsEagerly, Eager!Spec
=============================================================================
