---------------------------- MODULE MCTokenBucket ---------------------------
(* Instances of TokenBucket for TLC. *)
EXTENDS TokenBucket

CONSTANT Fast    \* the workers whose clock is ahead; the others' are behind

MCSkew == [w \in Workers |-> IF w \in Fast THEN MaxSkew ELSE -MaxSkew]
=============================================================================
