---------------------------- MODULE SingleFlight ----------------------------
(***************************************************************************)
(* What accessToken promises its callers: a memoised single flight.        *)
(*                                                                         *)
(* A call that is not served from the memo either leads the one flight in  *)
(* progress or joins it; when the flight lands, its outcome reaches the    *)
(* leader and everybody who joined, at once, and a token becomes the memo. *)
(* How the flight is flown (gaps, retries, clocks) is nobody's business.   *)
(***************************************************************************)
CONSTANTS Callers, Tokens, Errors, Nothing

VARIABLES role, answer, memo

flightVars == <<role, answer, memo>>

Roles == {"out", "leads", "joined", "landed"}

FlightInit ==
    /\ role = [c \in Callers |-> "out"]
    /\ answer = [c \in Callers |-> Nothing]
    /\ memo = Nothing

\* A new call forgets the answer of the previous one.
Ask(c) ==
    /\ role[c] = "out"
    /\ answer' = [answer EXCEPT ![c] = Nothing]
    /\ UNCHANGED <<role, memo>>

Recall(c) ==
    /\ role[c] = "out" /\ memo # Nothing
    /\ answer' = [answer EXCEPT ![c] = memo]
    /\ UNCHANGED <<role, memo>>

Lead(c) ==
    /\ \A d \in Callers : role[d] # "leads"
    /\ role[c] = "out"
    /\ role' = [role EXCEPT ![c] = "leads"]
    /\ UNCHANGED <<answer, memo>>

Join(c) ==
    /\ \E d \in Callers : role[d] = "leads"
    /\ role[c] = "out"
    /\ role' = [role EXCEPT ![c] = "joined"]
    /\ UNCHANGED <<answer, memo>>

\* The leader brings home a token or an error, for all who are on the flight.
Land(c) ==
    /\ role[c] = "leads"
    /\ \E o \in Tokens \cup Errors :
          /\ answer' = [d \in Callers |->
                IF d = c \/ role[d] = "joined" THEN o ELSE answer[d]]
          /\ memo' = IF o \in Tokens THEN o ELSE memo
    /\ role' = [d \in Callers |->
          IF d = c THEN "out" ELSE IF role[d] = "joined" THEN "landed" ELSE role[d]]

Leave(c) ==
    /\ role[c] = "landed"
    /\ role' = [role EXCEPT ![c] = "out"]
    /\ UNCHANGED <<answer, memo>>

\* A waiting caller may give up, with an error of its own.
Abandon(c) ==
    /\ role[c] \in {"joined", "landed"}
    /\ role' = [role EXCEPT ![c] = "out"]
    /\ \E e \in Errors : answer' = [answer EXCEPT ![c] = e]
    /\ UNCHANGED memo

Forget ==
    /\ memo' = Nothing
    /\ UNCHANGED <<role, answer>>

FlightNext ==
    \/ \E c \in Callers :
          \/ Ask(c) \/ Recall(c) \/ Lead(c) \/ Join(c)
          \/ Land(c) \/ Leave(c) \/ Abandon(c)
    \/ Forget

FlightSpec == FlightInit /\ [][FlightNext]_flightVars
============================================================================
