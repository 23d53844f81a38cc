------------------------------- MODULE Delays -------------------------------
(***************************************************************************)
(* How long the client sleeps before it repeats a request: retryDelay of   *)
(* internal/sigma/transport.go and parseRetryAfter of client.go.           *)
(*                                                                         *)
(* A time.Duration is an int64 of nanoseconds, here an integer of the      *)
(* range -(MaxDuration + 1)..MaxDuration.  A Retry-After header is absent, *)
(* a number of seconds, or a date, given by its distance from now.         *)
(***************************************************************************)
EXTENDS Integers

CONSTANTS
    Base,          \* client.backoff
    Minimum429,    \* the two seconds a 429 waits at least, before jitter
    MaxSleep,      \* maxRetrySleep
    Second,        \* time.Second
    MaxDuration,   \* the largest time.Duration
    RetryAfters    \* Retry-After headers the server may send

Headers ==
    [unit : {"none"}, value : {0}] \cup [unit : {"seconds"}, value : Int]
    \cup [unit : {"date"}, value : -(MaxDuration + 1)..MaxDuration]

ASSUME DelaysAssumption ==
    /\ Base \in Nat /\ MaxSleep \in Nat /\ MaxDuration \in Nat
    /\ Minimum429 \in Nat /\ Second \in Nat \ {0}
    /\ RetryAfters \subseteq Headers /\ RetryAfters # {}

\* What an int64 holds of an integer.
Wrap(n) == ((n + MaxDuration + 1) % (2 * (MaxDuration + 1))) - (MaxDuration + 1)

\* Capped at maxRetrySleep, and a negative delay is none.
Clamp(d) == IF d > MaxSleep THEN MaxSleep ELSE IF d < 0 THEN 0 ELSE d

\* Its false result is 0 here: retryDelay treats both alike.
parseRetryAfter(h) ==
    IF h.unit = "seconds" /\ h.value >= 0 THEN Wrap(h.value * Second)
    ELSE IF h.unit = "date" /\ h.value >= 0 THEN h.value ELSE 0

\* Within a time.Duration, its jitter included: BackoffsFit of SigmaAuth.
Backoff(attempt) == Base * 2 ^ attempt

\* delay * (0.5 + rand.Float64()), truncated.
Jittered(d) == (d \div 2) .. ((3 * d) \div 2)

\* Variant: the server's delay is jittered as well.
retryDelayJittersAll(throttled, header, attempt) ==
    LET asked   == IF throttled THEN parseRetryAfter(header) ELSE 0
        backoff == IF throttled /\ Backoff(attempt) < Minimum429
                   THEN Minimum429 ELSE Backoff(attempt)
    IN {Clamp(d) : d \in Jittered(IF asked > 0 THEN asked ELSE backoff)}

\* The delays it may answer to a 429 (throttled) or a 5xx with this header.
retryDelay(throttled, header, attempt) ==
    LET asked   == IF throttled THEN parseRetryAfter(header) ELSE 0
        backoff == IF throttled /\ Backoff(attempt) < Minimum429
                   THEN Minimum429 ELSE Backoff(attempt)
    IN {Clamp(d) : d \in IF asked # 0 THEN {asked} ELSE Jittered(backoff)}

\* What the answer to a request asks for: the silence a 429 names, capped, or
\* without one half the minimum.  A Retry-After of more seconds than an int64
\* of nanoseconds can hold is left out: it wraps, possibly to no sleep at all.
AskedSilence(throttled, header) ==
    IF ~throttled \/ (header.unit = "seconds" /\ header.value * Second > MaxDuration) THEN 0
    ELSE IF header.unit # "none" /\ header.value > 0
         THEN Clamp(header.value * (IF header.unit = "seconds" THEN Second ELSE 1))
         ELSE Clamp(Minimum429 \div 2)
=============================================================================
