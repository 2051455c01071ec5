--------------------------- MODULE MCProjectAccess --------------------------
(* Instances of ProjectAccess for TLC. *)
EXTENDS ProjectAccess, TLC

Symmetry == Permutations(Projects) \cup Permutations(Tokens)
                \cup Permutations(Credentials) \cup Permutations(Calls)
=============================================================================
