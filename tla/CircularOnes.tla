----------------------------- MODULE CircularOnes ----------------------------
(***************************************************************************)
(* What a PCTree promises to its user, without a tree: it stands for a set *)
(* of cyclic orders of the leaves, and makeConsecutive(S) either keeps     *)
(* exactly those in which S is consecutive and answers true or, when there *)
(* is none, answers false and leaves the set as it was                     *)
(* (src/include/pctree/PCTree.h, makeConsecutive).                         *)
(***************************************************************************)
CONSTANTS
  Orders,             \* all cyclic orders of the leaves
  Requests,           \* the leaf sets that may be asked for
  Consecutive(_, _),  \* whether a leaf set is consecutive in an order
  NoRequest           \* no call is being carried out

VARIABLES
  orders,   \* the cyclic orders represented
  request,  \* the leaf set of the call being carried out, or NoRequest
  answer    \* what the latest call has returned

vars == <<orders, request, answer>>

Init ==
  /\ orders \in (SUBSET Orders) \ {{}}
  /\ request = NoRequest
  /\ answer = TRUE

Call(S) ==
  /\ request = NoRequest
  /\ request' = S
  /\ UNCHANGED <<orders, answer>>

Satisfying(S) == {order \in orders : Consecutive(order, S)}

Accept ==
  /\ request # NoRequest
  /\ request' = NoRequest
  /\ Satisfying(request) # {}
  /\ orders' = Satisfying(request)
  /\ answer' = TRUE

Reject ==
  /\ request # NoRequest
  /\ request' = NoRequest
  /\ Satisfying(request) = {}
  /\ answer' = FALSE
  /\ UNCHANGED orders

Next == (\E S \in Requests : Call(S)) \/ Accept \/ Reject

Spec == Init /\ [][Next]_vars
=============================================================================
