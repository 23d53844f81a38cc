------------------------- MODULE MCWriteOnlySecrets -------------------------
(* Secrets on a small instance: two values of everything, three versions, so   *)
(* that a version can grow, stay, go back and be skipped.                      *)
EXTENDS WriteOnlySecrets, TLC

Symmetry == Permutations(Names) \cup Permutations(Bodies) \cup Permutations(Secrets)
=============================================================================
