--------------------------- MODULE OrderEnumeration ---------------------------
(***************************************************************************)
(* What firstEmbedding() and nextEmbedding() promise to the loop that the  *)
(* documentation shows (src/include/pctree/PCTree.h): every admissible     *)
(* order comes once, and then the loop ends.                               *)
(***************************************************************************)
EXTENDS Sequences

VARIABLES
  admissible,  \* the cyclic orders that the tree stands for
  shown,       \* those that the loop has had, in turn
  ended        \* nextEmbedding() has returned false

vars == <<admissible, shown, ended>>

Seen == {shown[i] : i \in DOMAIN shown}

Init == shown = <<>> /\ ended = FALSE

Show == \E order \in admissible \ Seen :
  /\ ~ended
  /\ shown' = Append(shown, order)
  /\ UNCHANGED <<admissible, ended>>

End ==
  /\ Seen = admissible
  /\ ended' = TRUE
  /\ UNCHANGED <<admissible, shown>>

Next == Show \/ End

Spec == Init /\ [][Next]_vars
=============================================================================
