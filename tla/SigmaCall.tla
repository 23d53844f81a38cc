----------------------------- MODULE SigmaCall ------------------------------
(***************************************************************************)
(* What apiTransport.Do and doAPI promise a handler that makes one call of *)
(* the API, whatever becomes of tokens, attempts and answers in between.   *)
(*                                                                         *)
(* Only while the handler waits is the call carried out, and again only if *)
(* it may be repeated.  Then the handler is told, once, one of the Answers *)
(* that the modules of the resources assume.                               *)
(***************************************************************************)
EXTENDS Naturals, SigmaReplies

CONSTANTS Callers

VARIABLES
    waits,      \* whether this caller waits for the answer of a call
    repeated,   \* whether the call may be repeated
    done,       \* how often it was carried out
    told        \* what the caller may be told of it

callVars == <<waits, repeated, done, told>>

CallInit ==
    /\ waits = [c \in Callers |-> FALSE]
    /\ repeated \in [Callers -> BOOLEAN]
    /\ done = [c \in Callers |-> 0]
    /\ told = [c \in Callers |-> {}]

Call(c) ==
    /\ ~waits[c]
    /\ waits' = [waits EXCEPT ![c] = TRUE]
    /\ \E b \in BOOLEAN : repeated' = [repeated EXCEPT ![c] = b]
    /\ done' = [done EXCEPT ![c] = 0]
    /\ told' = [told EXCEPT ![c] = {}]

\* The call is carried out, or is not.
Attempt(c) ==
    /\ waits[c]
    /\ \/ UNCHANGED done
       \/ /\ repeated[c] \/ done[c] = 0
          /\ done' = [done EXCEPT ![c] = @ + 1]
    /\ UNCHANGED repeated

Work(c) == Attempt(c) /\ UNCHANGED <<waits, told>>

\* An answer that SigmaReplies allows of an object, there or not.
Assumed(reply, work, again) ==
    \E live \in BOOLEAN : <<reply, work>> \in Answers(live, again)

\* The last attempt and its answer may come in one.
Answer(c) ==
    /\ Attempt(c)
    /\ waits' = [waits EXCEPT ![c] = FALSE]
    /\ \E replies \in (SUBSET Replies) \ {{}} :
          /\ \A r \in replies : Assumed(r, done'[c] > 0, repeated[c])
          /\ told' = [told EXCEPT ![c] = replies]

CallNext == \E c \in Callers : Call(c) \/ Work(c) \/ Answer(c)

CallSpec == CallInit /\ [][CallNext]_callVars
=============================================================================
