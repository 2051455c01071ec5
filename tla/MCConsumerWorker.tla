-------------------------- MODULE MCConsumerWorker --------------------------
(***************************************************************************)
(* Instances of ConsumerWorker for TLC: tasks and workers are model values *)
(* given by the configurations; the identities of copies are numbers.      *)
(***************************************************************************)
EXTENDS ConsumerWorkerRefinement, TLC

CONSTANT NForks     \* bound: copies of one task and attempt that exist at once

MCForks == 1..NForks

TaskSymmetry == Permutations(Tasks)
Symmetry == TaskSymmetry \cup Permutations(Workers)
=============================================================================
