---------------------------- MODULE PCTreePromise ---------------------------
(***************************************************************************)
(* What makeConsecutive does to the orders that the tree stands for, and   *)
(* that the tree with its calls implements CircularOnes.                   *)
(***************************************************************************)
EXTENDS PCTreeCorrectness, PCTreeOrders

\* The orders that a tree of all leaves stands for.
AllOrders == CyclicOrders(Leaves)
OrdersOf(t) == Allowed(AllOrders, Leaves, t)

(***************************************************************************)
(* At no point of the update is an order lost that satisfies the request,  *)
(* and none comes in that was not represented before the call.             *)
(***************************************************************************)
Satisfying(S) == {order \in OrdersOf(client.before) : Consecutive(order, S)}

NoOrderLostOrAdded ==
  pc = "merging" =>
    /\ Satisfying(client.request) \subseteq OrdersOf(tree)
    /\ OrdersOf(tree) \subseteq OrdersOf(client.before)

(***************************************************************************)
(* The answer.  makeConsecutive returns true exactly if one of the orders  *)
(* represented before has the leaves consecutive, and then the tree stands *)
(* for all of these and no other; if it returns false the tree stands for  *)
(* what it stood for before.                                               *)
(***************************************************************************)
AnswerExact ==
  [][pc # "idle" /\ pc' = "idle" =>
       /\ client'.answer <=> Satisfying(client.request) # {}
       /\ OrdersOf(tree') = IF client'.answer THEN Satisfying(client.request)
                            ELSE OrdersOf(client.before)]_vars

(***************************************************************************)
(* The abstract specification: a set of cyclic orders that calls of        *)
(* makeConsecutive filter, and that changeRoot leaves alone.               *)
(***************************************************************************)
RequestedSets == {ToSet(leaves) : leaves \in Requests}

Promise == INSTANCE CircularOnes WITH
  Orders    <- AllOrders,
  Requests  <- RequestedSets,
  NoRequest <- Nil,
  orders    <- OrdersOf(IF pc = "idle" THEN tree ELSE client.before),
  request   <- client.request,
  answer    <- client.answer

PromiseKept == Promise!Spec
=============================================================================
