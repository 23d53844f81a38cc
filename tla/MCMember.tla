------------------------------ MODULE MCMember ------------------------------
(* Member has no parameters that matter: this is the whole of it. *)
EXTENDS Member
=============================================================================
