------------------------------ MODULE MCGrants ------------------------------
(* Grants on a small instance: two addresses, of one inode or of one above the *)
(* other, and room for grants of other people next to theirs.                  *)
EXTENDS Grants, TLC

Symmetry == Permutations(Addresses) \cup Permutations(Ids)
=============================================================================
