--------------------------- MODULE MCTaskDelivery ---------------------------
(* Instances of TaskDelivery for TLC. *)
EXTENDS TaskDeliveryRefinement, TLC

CONSTANT NForks     \* bound: copies of one task and attempt that exist at once

MCForks == 1..NForks

Symmetry == Permutations(Workers)
=============================================================================
