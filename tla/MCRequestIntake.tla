--------------------------- MODULE MCRequestIntake --------------------------
(* Instances of RequestIntake for TLC. *)
EXTENDS RequestIntake, TLC

Symmetry == Permutations(Calls)
=============================================================================
