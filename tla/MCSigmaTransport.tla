-------------------------- MODULE MCSigmaTransport --------------------------
(* SigmaTransport on a small instance. *)
EXTENDS SigmaTransport, TLC

NoRetryAfter == {[unit |-> "none", value |-> 0]}

Symmetry == Permutations(Callers) \cup Permutations(Tokens)

\* For the liveness run: every caller makes one request, at most one of them
\* idempotent, and lost requests have no effect (no step depends on the effects).
OneRequestEach ==
    /\ \A c \in Callers : at[c] = "done" => at'[c] = "done"
    /\ \A c, d \in Callers : isIdempotent(method'[c]) /\ isIdempotent(method'[d]) => c = d
    /\ \A c \in Callers : applied'[c] > applied[c] => result'[c] = "ok"
OneRequestSpec ==
    /\ AuthInit /\ DoInit /\ method = [c \in Callers |-> "POST"]
    /\ [][DoNext /\ OneRequestEach]_vars
    /\ DoFairness
=============================================================================
