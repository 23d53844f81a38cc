---------------------------- MODULE MCSigmaAuth ----------------------------
(* SigmaAuth on a small instance. *)
EXTENDS SigmaAuth, TLC

Symmetry == Permutations(Callers) \cup Permutations(Tokens)

\* No header, a short and a long one, one that overflows, a date just past.
SomeRetryAfters ==
    {[unit |-> "none", value |-> 0], [unit |-> "date", value |-> -1]}
    \cup [unit : {"seconds"}, value : {1, 2, 4}]
=============================================================================
