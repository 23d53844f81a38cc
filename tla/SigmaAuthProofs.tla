-------------------------- MODULE SigmaAuthProofs --------------------------
(* The bounds of the delays, the invariants of SigmaAuth and its           *)
(* refinement of SingleFlight, for every set of callers and tokens, every  *)
(* gap, delay, Retry-After header and lifetime.                            *)
EXTENDS SigmaAuth, TLAPS

----------------------------------------------------------------------------
(* The delays of the client, for every base, minimum, cap and width of     *)
(* time.Duration, every attempt, and every Retry-After header.             *)

\* An integer of the range of time.Duration is its own value; any other one is
\* brought into the range.
LEMMA WrapFits ==
    ASSUME NEW n \in Int
    PROVE  /\ Wrap(n) \in -(MaxDuration + 1)..MaxDuration
           /\ n \in 0..MaxDuration => Wrap(n) = n
<1> USE DelaysAssumption DEF DelaysAssumption
<1> DEFINE M == MaxDuration + 1
           r == (n + M) % (2 * M)
<1>1. M \in Nat \ {0} /\ 2 * M \in Nat \ {0} /\ n + M \in Int
  OBVIOUS
<1>2. r \in 0..(2 * M - 1)
  <2> HIDE DEF M
  <2>1. QED
    BY <1>1
<1>3. Wrap(n) = r - M
  BY DEF Wrap
<1>4. ASSUME n \in 0..MaxDuration PROVE r = n + M
  <2>1. 0 <= n + M /\ n + M < 2 * M
    BY <1>4
  <2> HIDE DEF M
  <2>2. QED
    BY <1>1, <2>1
<1>5. QED
  BY <1>2, <1>3, <1>4

\* A capped delay is neither negative nor longer than maxRetrySleep.
LEMMA ClampFits ==
    ASSUME NEW d \in Int
    PROVE  Clamp(d) \in 0..MaxSleep
  BY DelaysAssumption DEF DelaysAssumption, Clamp

LEMMA ClampGrows ==
    ASSUME NEW d \in Int, NEW e \in Int, d <= e
    PROVE  Clamp(d) <= Clamp(e)
  BY DelaysAssumption DEF DelaysAssumption, Clamp

LEMMA HeaderDelay ==
    ASSUME NEW h \in RetryAfters PROVE parseRetryAfter(h) \in Int
<1> USE DelaysAssumption DEF DelaysAssumption, Headers, parseRetryAfter
<1>1. CASE h.unit = "seconds"
  <2>1. h.value \in Int /\ h.value * Second \in Int
    BY <1>1
  <2>2. Wrap(h.value * Second) \in Int
    BY <2>1, WrapFits
  <2>3. QED
    BY <1>1, <2>2
<1>2. CASE h.unit # "seconds"
  BY <1>2
<1>3. QED
  BY <1>1, <1>2

LEMMA BackoffNatural ==
    ASSUME NEW n \in Nat PROVE Backoff(n) \in Int
<1>1. 2 ^ n \in Int
  BY SMT
<1>2. QED
  BY <1>1, DelaysAssumption DEF DelaysAssumption, Backoff

\* The number that retryDelay clamps: what the header says, or a jittered backoff.
LEMMA DelayIsClamped ==
    ASSUME NEW throttled \in BOOLEAN, NEW h \in RetryAfters, NEW n \in Nat,
           NEW d \in retryDelay(throttled, h, n)
    PROVE  \E e \in Int :
              /\ d = Clamp(e)
              /\ throttled /\ parseRetryAfter(h) # 0 => e = parseRetryAfter(h)
              /\ throttled /\ parseRetryAfter(h) = 0 => e >= Minimum429 \div 2
<1> USE DelaysAssumption DEF DelaysAssumption
<1> DEFINE asked == IF throttled THEN parseRetryAfter(h) ELSE 0
           backoff == IF throttled /\ Backoff(n) < Minimum429 THEN Minimum429 ELSE Backoff(n)
<1>1. asked \in Int /\ backoff \in Int
  BY HeaderDelay, BackoffNatural
<1>2. PICK e \in IF asked # 0 THEN {asked} ELSE Jittered(backoff) : d = Clamp(e)
  BY DEF retryDelay
<1>3. CASE asked # 0
  BY <1>1, <1>2, <1>3
<1>4. CASE asked = 0
  <2>1. e \in Int /\ e >= backoff \div 2
    <3> HIDE DEF backoff
    <3>1. QED
      BY <1>1, <1>2, <1>4 DEF Jittered
  <2>2. throttled => backoff >= Minimum429
    BY <1>1, BackoffNatural
  <2>3. throttled => backoff \div 2 >= Minimum429 \div 2
    <3> HIDE DEF backoff
    <3>1. QED
      BY <1>1, <2>2
  <2>4. QED
    <3>1. e >= Minimum429 \div 2 \/ ~throttled
      <4> HIDE DEF backoff
      <4>1. QED
        BY <1>1, <2>1, <2>3
    <3>2. QED
      BY <1>2, <1>4, <2>1, <3>1
<1>5. QED
  BY <1>3, <1>4

\* However the backoff grows and whatever the header says, a negative or an
\* overflowing number included, the client sleeps at most maxRetrySleep.
THEOREM DelayBounded ==
    ASSUME NEW throttled \in BOOLEAN, NEW h \in RetryAfters, NEW n \in Nat
    PROVE  retryDelay(throttled, h, n) \subseteq 0..MaxSleep
  BY DelayIsClamped, ClampFits

\* Every delay is at least the silence the answer asked for.
THEOREM DelayHonoursHeader ==
    ASSUME NEW throttled \in BOOLEAN, NEW h \in RetryAfters, NEW n \in Nat,
           NEW d \in retryDelay(throttled, h, n)
    PROVE  AskedSilence(throttled, h) \in Nat /\ AskedSilence(throttled, h) <= d
<1> USE DelaysAssumption DEF DelaysAssumption, Headers
<1>0. d \in 0..MaxSleep
  BY DelayBounded
<1>1. PICK e \in Int :
        /\ d = Clamp(e)
        /\ throttled /\ parseRetryAfter(h) # 0 => e = parseRetryAfter(h)
        /\ throttled /\ parseRetryAfter(h) = 0 => e >= Minimum429 \div 2
  BY DelayIsClamped
<1>2. CASE ~throttled \/ (h.unit = "seconds" /\ h.value * Second > MaxDuration)
  BY <1>0, <1>2 DEF AskedSilence
<1>3. CASE throttled /\ h.unit = "seconds" /\ h.value > 0 /\ ~(h.value * Second > MaxDuration)
  <2>1. h.value \in Int /\ h.value * Second \in 1..MaxDuration
    BY <1>3
  <2>2. parseRetryAfter(h) = h.value * Second
    BY <1>3, <2>1, WrapFits DEF parseRetryAfter
  <2>3. d = Clamp(h.value * Second)
    BY <1>1, <1>3, <2>1, <2>2
  <2>4. AskedSilence(throttled, h) = Clamp(h.value * Second)
    BY <1>3 DEF AskedSilence
  <2>5. QED
    BY <1>0, <2>3, <2>4
<1>4. CASE throttled /\ h.unit = "date" /\ h.value > 0
  <2>1. parseRetryAfter(h) = h.value /\ h.value \in Int
    BY <1>4 DEF parseRetryAfter
  <2>2. h.value * 1 = h.value
    BY <2>1
  <2>3. AskedSilence(throttled, h) = Clamp(h.value)
    BY <1>4, <2>2 DEF AskedSilence
  <2>4. d = Clamp(h.value)
    BY <1>1, <1>4, <2>1
  <2>5. QED
    BY <1>0, <2>3, <2>4
<1>5. CASE /\ throttled /\ ~(h.unit = "seconds" /\ h.value * Second > MaxDuration)
           /\ ~(h.unit # "none" /\ h.value > 0)
  <2>1. parseRetryAfter(h) = 0
    <3>1. h.unit = "seconds" /\ h.value >= 0 => h.value = 0
      BY <1>5
    <3>2. Wrap(0 * Second) = 0
      BY WrapFits
    <3>3. h.unit = "date" /\ h.value >= 0 => h.value = 0
      BY <1>5
    <3>4. QED
      BY <3>1, <3>2, <3>3 DEF parseRetryAfter
  <2>2. AskedSilence(throttled, h) = Clamp(Minimum429 \div 2)
    BY <1>5 DEF AskedSilence
  <2>3. Minimum429 \div 2 \in Int /\ e >= Minimum429 \div 2
    BY <1>1, <1>5, <2>1
  <2>4. QED
    BY <1>1, <2>2, <2>3, ClampFits, ClampGrows
<1>6. QED
  BY <1>2, <1>3, <1>4, <1>5

----------------------------------------------------------------------------
(* The token cache.                                                        *)

\* Before a retry the leader sleeps for at least the silence it was asked for.
LEMMA SleepIsLongEnough ==
    ASSUME NEW c \in Callers, TypeOK, SleepBeforeRetry(c)
    PROVE  \E d \in Sleeps, q \in Nat :
              /\ sleepFor' = [sleepFor EXCEPT ![c] = d]
              /\ quiet' = [quiet EXCEPT ![c] = q]
              /\ q <= d
<1>1. PICK throttled \in BOOLEAN, header \in RetryAfters :
         /\ \E d \in retryDelay(throttled, header, tries[c]) :
               sleepFor' = [sleepFor EXCEPT ![c] = d]
         /\ quiet' = [quiet EXCEPT ![c] = AskedSilence(throttled, header)]
  BY DEF SleepBeforeRetry
<1>2. PICK d \in retryDelay(throttled, header, tries[c]) :
         sleepFor' = [sleepFor EXCEPT ![c] = d]
  BY <1>1
<1>3. tries[c] \in Nat
  BY AuthAssumption DEF AuthAssumption, TypeOK
<1>4. d \in Sleeps
  BY <1>2, <1>3, DelayBounded DEF Sleeps
<1>5. AskedSilence(throttled, header) \in Nat /\ AskedSilence(throttled, header) <= d
  BY <1>2, <1>3, DelayHonoursHeader
<1>6. QED
  BY <1>1, <1>2, <1>4, <1>5

\* A step of the goroutine of one caller, or of the environment, keeps the types.
LEMMA TypeStep == TypeOK /\ [Next]_authVars => TypeOK'
<1> SUFFICES ASSUME TypeOK, [Next]_authVars PROVE TypeOK'
  OBVIOUS
<1> USE AuthAssumption, DelaysAssumption DEF AuthAssumption, DelaysAssumption, TypeOK, Phases,
    Fetching, Outcomes, Errors, Goto, Sleeps
<1>1. ASSUME NEW c \in Callers, CallAccessToken(c) PROVE TypeOK'
  BY <1>1 DEF CallAccessToken
<1>2. ASSUME NEW c \in Callers, UseCachedToken(c) PROVE TypeOK'
  BY <1>2 DEF UseCachedToken
<1>3. ASSUME NEW c \in Callers, JoinRefresh(c) PROVE TypeOK'
  BY <1>3 DEF JoinRefresh
<1>4. ASSUME NEW c \in Callers, LeadRefresh(c) PROVE TypeOK'
  BY <1>4 DEF LeadRefresh
<1>5. ASSUME NEW c \in Callers, WaitDone(c) \/ WaitCanceled(c) PROVE TypeOK'
  BY <1>5 DEF WaitDone, WaitCanceled
<1>6. ASSUME NEW c \in Callers, FetchStart(c) PROVE TypeOK'
  BY <1>6 DEF FetchStart
<1>7. ASSUME NEW c \in Callers, SleepElapsed(c) \/ SleepCanceled(c) PROVE TypeOK'
  BY <1>7 DEF SleepElapsed, SleepCanceled
<1>8. ASSUME NEW c \in Callers, SendTokenRequest(c) PROVE TypeOK'
  BY <1>8 DEF SendTokenRequest
<1>9. ASSUME NEW c \in Callers, NEW t \in Tokens, TokenIssued(c, t) PROVE TypeOK'
  BY <1>9 DEF TokenIssued
<1>10. ASSUME NEW c \in Callers, TokenRefused(c) PROVE TypeOK'
  BY <1>10 DEF TokenRefused
<1>11. ASSUME NEW c \in Callers, TokenThrottled(c) PROVE TypeOK'
  <2>1. CASE tries[c] < MaxRetries
    <3>1. PICK d \in Sleeps, q \in Nat :
             /\ sleepFor' = [sleepFor EXCEPT ![c] = d]
             /\ quiet' = [quiet EXCEPT ![c] = q]
      BY <1>11, <2>1, SleepIsLongEnough DEF TokenThrottled
    <3>2. sleepFor' \in [Callers -> Sleeps] /\ quiet' \in [Callers -> Nat]
      BY <3>1
    <3>3. QED
      BY <1>11, <2>1, <3>2 DEF TokenThrottled
  <2>2. CASE tries[c] >= MaxRetries
    BY <1>11, <2>2 DEF TokenThrottled
  <2>3. QED
    BY <2>1, <2>2
<1>12. ASSUME NEW c \in Callers, Publish(c) PROVE TypeOK'
  <2>1. outcome' \in [Callers -> Outcomes]
    BY <1>12 DEF Publish
  <2>2. cachedToken' \in Tokens \cup {NoToken} /\ validFor' \in Nat
    BY <1>12 DEF Publish
  <2>3. phase' \in [Callers -> Phases] /\ tries' \in [Callers -> 0..MaxRetries]
    BY <1>12 DEF Publish
  <2>4. QED
    BY <1>12, <2>1, <2>2, <2>3 DEF Publish
<1>13. ASSUME NEW c \in Callers, Invalidate(c) \/ CtxDone(c) \/ NewCtx(c) PROVE TypeOK'
  BY <1>13 DEF Invalidate, ClearToken, CtxDone, NewCtx
<1>14. CASE Tick
  BY <1>14 DEF Tick, Decrement
<1>15. CASE UNCHANGED authVars
  BY <1>15 DEF authVars
<1>16. QED
  BY <1>1, <1>2, <1>3, <1>4, <1>5, <1>6, <1>7, <1>8, <1>9, <1>10, <1>11,
     <1>12, <1>13, <1>14, <1>15 DEF Next, AuthStep

\* The markers that stand for "no token yet", "still waiting" and errors differ.
LEMMA Distinct ==
    /\ {Canceled, Failed, NoToken} \cap {Pending} = {}
    /\ {Canceled, Failed} \cap {NoToken} = {}
    /\ Tokens \cap {Canceled, Failed, Pending, NoToken} = {}
  BY AuthAssumption DEF AuthAssumption, Canceled, Failed, Pending, NoToken

Guarded ==
    /\ OneRefresh /\ NoAbandonedWaiter /\ NoRedundantRefresh /\ GapBetweenRefreshes
    /\ PendingOnlyInWait /\ NoAnswerYet /\ GapSleepIsEnough /\ BackoffIsRetry

\* A caller that leaves accessToken's lock and wait with a result disturbs nobody.
LEMMA LeftLock ==
    ASSUME TypeOK, PendingOnlyInWait, NoAnswerYet,
           NEW c \in Callers, NEW p \in Phases \ {"lock"}, NEW v \in Outcomes \ {Pending},
           phase' = [phase EXCEPT ![c] = p], outcome' = [outcome EXCEPT ![c] = v]
    PROVE  PendingOnlyInWait' /\ NoAnswerYet'
<1>1. ASSUME NEW d \in Callers
      PROVE  /\ outcome'[d] = Pending => phase'[d] = "wait"
             /\ phase'[d] = "lock" => outcome'[d] = NoToken
  <2>0. phase \in [Callers -> Phases] /\ outcome \in [Callers -> Outcomes]
    BY DEF TypeOK
  <2>1. CASE d = c
    <3>1. phase'[d] = p /\ outcome'[d] = v
      BY <2>0, <2>1
    <3>2. QED
      BY <3>1
  <2>2. CASE d # c
    <3>1. phase'[d] = phase[d] /\ outcome'[d] = outcome[d]
      BY <2>0, <2>2
    <3>2. QED
      BY <3>1 DEF PendingOnlyInWait, NoAnswerYet
  <2>3. QED
    BY <2>1, <2>2
<1>2. QED
  BY <1>1 DEF PendingOnlyInWait, NoAnswerYet

LEMMA ErrorsAreOutcomes == Errors \subseteq Outcomes \ {Pending}
  BY DEF Errors, Outcomes, Canceled, Failed, Pending

\* Every step keeps the invariants about the cache, the refresh and the gap.
LEMMA GuardedStep == AuthInv /\ [Next]_authVars => Guarded'
<1> SUFFICES ASSUME AuthInv, [Next]_authVars PROVE Guarded'
  OBVIOUS
<1>0. TypeOK /\ TypeOK'
  BY TypeStep DEF AuthInv
<1> USE AuthAssumption, Distinct, <1>0 DEF AuthAssumption, AuthInv, Guarded, TypeOK, Phases, Fetching,
    Outcomes, Errors, Goto, OneRefresh, NoAbandonedWaiter, Waiting, NoRedundantRefresh, Fresh,
    GapBetweenRefreshes, PendingOnlyInWait, NoAnswerYet, GapSleepIsEnough, BackoffIsRetry
<1>1. ASSUME NEW c \in Callers, CallAccessToken(c) PROVE Guarded'
  <2>1. OneRefresh' /\ NoAbandonedWaiter'
    BY <1>1 DEF CallAccessToken
  <2>2. NoRedundantRefresh' /\ GapBetweenRefreshes'
    BY <1>1 DEF CallAccessToken
  <2>3. PendingOnlyInWait' /\ NoAnswerYet'
    BY <1>1 DEF CallAccessToken
  <2>4. GapSleepIsEnough' /\ BackoffIsRetry'
    BY <1>1 DEF CallAccessToken
  <2>5. QED
    BY <2>1, <2>2, <2>3, <2>4
<1>2. ASSUME NEW c \in Callers, UseCachedToken(c) PROVE Guarded'
  BY <1>2 DEF UseCachedToken
<1>3. ASSUME NEW c \in Callers, JoinRefresh(c) PROVE Guarded'
  BY <1>3 DEF JoinRefresh
<1>4. ASSUME NEW c \in Callers, LeadRefresh(c) PROVE Guarded'
  BY <1>4 DEF LeadRefresh
<1>5. ASSUME NEW c \in Callers, WaitDone(c) PROVE Guarded'
  BY <1>5 DEF WaitDone
<1>6. ASSUME NEW c \in Callers, WaitCanceled(c) PROVE Guarded'
  <2>1. OneRefresh' /\ NoAbandonedWaiter'
    BY <1>6 DEF WaitCanceled
  <2>2. NoRedundantRefresh' /\ GapBetweenRefreshes'
    BY <1>6 DEF WaitCanceled
  <2>3. PendingOnlyInWait' /\ NoAnswerYet'
    <3>1. phase' = [phase EXCEPT ![c] = "idle"] /\ outcome' = [outcome EXCEPT ![c] = Canceled]
      BY <1>6 DEF WaitCanceled
    <3>2. QED
      BY <3>1, LeftLock, ErrorsAreOutcomes
  <2>4. GapSleepIsEnough' /\ BackoffIsRetry'
    BY <1>6 DEF WaitCanceled
  <2>5. QED
    BY <2>1, <2>2, <2>3, <2>4
<1>7. ASSUME NEW c \in Callers, FetchStart(c) PROVE Guarded'
  BY <1>7 DEF FetchStart
<1>8. ASSUME NEW c \in Callers, SleepElapsed(c) PROVE Guarded'
  BY <1>8 DEF SleepElapsed
<1>9. ASSUME NEW c \in Callers, SleepCanceled(c) PROVE Guarded'
  <2>1. OneRefresh' /\ NoAbandonedWaiter'
    BY <1>9 DEF SleepCanceled
  <2>2. NoRedundantRefresh' /\ GapBetweenRefreshes'
    BY <1>9 DEF SleepCanceled
  <2>3. PendingOnlyInWait' /\ NoAnswerYet'
    <3>1. phase' = [phase EXCEPT ![c] = "publish"] /\ outcome' = [outcome EXCEPT ![c] = Canceled]
      BY <1>9 DEF SleepCanceled
    <3>2. QED
      BY <3>1, LeftLock, ErrorsAreOutcomes
  <2>4. GapSleepIsEnough' /\ BackoffIsRetry'
    BY <1>9 DEF SleepCanceled
  <2>5. QED
    BY <2>1, <2>2, <2>3, <2>4
<1>10. ASSUME NEW c \in Callers, SendTokenRequest(c) PROVE Guarded'
  BY <1>10 DEF SendTokenRequest
<1>11. ASSUME NEW c \in Callers, NEW t \in Tokens, TokenIssued(c, t) PROVE Guarded'
  BY <1>11 DEF TokenIssued
<1>12. ASSUME NEW c \in Callers, TokenRefused(c) PROVE Guarded'
  <2>1. OneRefresh' /\ NoAbandonedWaiter'
    BY <1>12 DEF TokenRefused
  <2>2. NoRedundantRefresh' /\ GapBetweenRefreshes'
    BY <1>12 DEF TokenRefused
  <2>3. PendingOnlyInWait' /\ NoAnswerYet'
    <3>1. phase' = [phase EXCEPT ![c] = "publish"]
      BY <1>12 DEF TokenRefused
    <3>2. outcome' = [outcome EXCEPT ![c] = Failed] /\ Failed \in Errors
      BY <1>12 DEF TokenRefused, Errors
    <3>3. QED
      BY <3>1, <3>2, LeftLock, ErrorsAreOutcomes
  <2>4. GapSleepIsEnough' /\ BackoffIsRetry'
    BY <1>12 DEF TokenRefused
  <2>5. QED
    BY <2>1, <2>2, <2>3, <2>4
<1>13. ASSUME NEW c \in Callers, TokenThrottled(c) PROVE Guarded'
  <2>1. OneRefresh' /\ NoAbandonedWaiter'
    BY <1>13 DEF TokenThrottled
  <2>2. NoRedundantRefresh' /\ GapBetweenRefreshes'
    BY <1>13 DEF TokenThrottled
  <2>3. PendingOnlyInWait' /\ NoAnswerYet'
    <3>1. CASE tries[c] < MaxRetries
      <4>1. phase' = [phase EXCEPT ![c] = "backoff"] /\ phase[c] = "reply"
        BY <1>13, <3>1 DEF TokenThrottled
      <4>2. UNCHANGED outcome /\ outcome[c] # Pending
        BY <1>13, <3>1 DEF TokenThrottled
      <4>3. QED
        BY <4>1, <4>2
    <3>2. CASE tries[c] >= MaxRetries
      <4>1. phase' = [phase EXCEPT ![c] = "publish"] /\ phase[c] = "reply"
        BY <1>13, <3>2 DEF TokenThrottled
      <4>2. outcome' = [outcome EXCEPT ![c] = Failed]
        BY <1>13, <3>2 DEF TokenThrottled
      <4>3. QED
        BY <4>1, <4>2, LeftLock, ErrorsAreOutcomes
    <3>3. QED
      BY <3>1, <3>2
  <2>4. GapSleepIsEnough' /\ BackoffIsRetry'
    <3>1. CASE tries[c] < MaxRetries
      <4>1. phase' = [phase EXCEPT ![c] = "backoff"] /\ UNCHANGED sinceRequest
        BY <1>13, <3>1 DEF TokenThrottled
      <4>2. tries' = [tries EXCEPT ![c] = tries[c] + 1] /\ tries[c] + 1 > 0
        BY <1>13, <3>1 DEF TokenThrottled
      <4>3. \A d \in Callers \ {c} : sleepFor'[d] = sleepFor[d]
        BY <1>13, <3>1, SleepIsLongEnough DEF TokenThrottled
      <4>4. QED
        BY <4>1, <4>2, <4>3
    <3>2. CASE tries[c] >= MaxRetries
      BY <1>13, <3>2 DEF TokenThrottled
    <3>3. QED
      BY <3>1, <3>2
  <2>5. QED
    BY <2>1, <2>2, <2>3, <2>4
<1>14. ASSUME NEW c \in Callers, Publish(c) PROVE Guarded'
  BY <1>14 DEF Publish
<1>15. ASSUME NEW c \in Callers, Invalidate(c) PROVE Guarded'
  BY <1>15 DEF Invalidate, ClearToken
<1>16. ASSUME NEW c \in Callers, CtxDone(c) \/ NewCtx(c) PROVE Guarded'
  BY <1>16 DEF CtxDone, NewCtx
<1>17. CASE Tick
  <2>1. \A c \in Callers : sleepFor[c] \in Nat
    BY DelaysAssumption DEF DelaysAssumption, Sleeps
  <2>2. QED
    BY <1>17, <2>1 DEF Tick, Decrement
<1>18. CASE UNCHANGED authVars
  BY <1>18 DEF authVars
<1>19. QED
  BY <1>1, <1>2, <1>3, <1>4, <1>5, <1>6, <1>7, <1>8, <1>9, <1>10, <1>11, <1>12,
     <1>13, <1>14, <1>15, <1>16, <1>17, <1>18 DEF Next, AuthStep

Silent == HonoursRetryAfter /\ QuietOnlyInBackoff

\* Every step keeps the invariants about the silence asked for.
LEMMA SilentStep == AuthInv /\ [Next]_authVars => Silent'
<1> SUFFICES ASSUME AuthInv, [Next]_authVars PROVE Silent'
  OBVIOUS
<1>0. TypeOK /\ TypeOK'
  BY TypeStep DEF AuthInv
<1> USE AuthAssumption, Distinct, <1>0 DEF AuthInv, TypeOK, Fetching, Phases, Goto, Silent,
    HonoursRetryAfter, QuietOnlyInBackoff, Sleeps, PendingOnlyInWait
<1>1. ASSUME NEW c \in Callers, CallAccessToken(c) PROVE Silent'
  BY <1>1 DEF CallAccessToken
<1>2. ASSUME NEW c \in Callers, UseCachedToken(c) \/ JoinRefresh(c) \/ LeadRefresh(c) PROVE Silent'
  BY <1>2 DEF UseCachedToken, JoinRefresh, LeadRefresh
<1>3. ASSUME NEW c \in Callers, WaitDone(c) \/ WaitCanceled(c) PROVE Silent'
  BY <1>3 DEF WaitDone, WaitCanceled
<1>4. ASSUME NEW c \in Callers, FetchStart(c) PROVE Silent'
  BY <1>4 DEF FetchStart
<1>5. ASSUME NEW c \in Callers, SleepElapsed(c) PROVE Silent'
  BY <1>5 DEF SleepElapsed
<1>6. ASSUME NEW c \in Callers, SleepCanceled(c) PROVE Silent'
  BY <1>6 DEF SleepCanceled
<1>7. ASSUME NEW c \in Callers, SendTokenRequest(c) PROVE Silent'
  BY <1>7 DEF SendTokenRequest
<1>8. ASSUME NEW c \in Callers, NEW t \in Tokens, TokenIssued(c, t) PROVE Silent'
  BY <1>8 DEF TokenIssued, Canceled
<1>9. ASSUME NEW c \in Callers, TokenRefused(c) PROVE Silent'
  BY <1>9 DEF TokenRefused
<1>10. ASSUME NEW c \in Callers, TokenThrottled(c) PROVE Silent'
  <2>1. CASE tries[c] < MaxRetries
    <3>1. PICK d \in Sleeps, q \in Nat :
             /\ sleepFor' = [sleepFor EXCEPT ![c] = d]
             /\ quiet' = [quiet EXCEPT ![c] = q]
             /\ q <= d
      BY <1>10, <2>1, SleepIsLongEnough DEF TokenThrottled
    <3>2. phase' = [phase EXCEPT ![c] = "backoff"] /\ UNCHANGED <<outcome, canceled>>
      BY <1>10, <2>1 DEF TokenThrottled
    <3>3. QED
      BY <3>1, <3>2
  <2>2. CASE tries[c] >= MaxRetries
    BY <1>10, <2>2 DEF TokenThrottled, Canceled, Failed
  <2>3. QED
    BY <2>1, <2>2
<1>11. ASSUME NEW c \in Callers, Publish(c) PROVE Silent'
  <2>1. \A d \in Callers : phase[d] = "publish" => outcome[d] # Pending
    OBVIOUS
  <2>2. QED
    BY <1>11, <2>1 DEF Publish
<1>12. ASSUME NEW c \in Callers, Invalidate(c) PROVE Silent'
  BY <1>12 DEF Invalidate, ClearToken
<1>13. ASSUME NEW c \in Callers, CtxDone(c) \/ NewCtx(c) PROVE Silent'
  BY <1>13 DEF CtxDone, NewCtx
<1>14. CASE Tick
  BY <1>14 DEF Tick, Decrement
<1>15. CASE UNCHANGED authVars
  BY <1>15 DEF authVars
<1>16. QED
  BY <1>1, <1>2, <1>3, <1>4, <1>5, <1>6, <1>7, <1>8, <1>9, <1>10, <1>11, <1>12,
     <1>13, <1>14, <1>15 DEF Next, AuthStep

\* Every step keeps the inductive invariant of the token cache.
LEMMA InvStep == AuthInv /\ [Next]_authVars => AuthInv'
<1>1. ASSUME AuthInv, [Next]_authVars PROVE TypeOK' /\ Guarded' /\ Silent'
  BY <1>1, TypeStep, GuardedStep, SilentStep DEF AuthInv
<1>2. QED
  BY <1>1 DEF AuthInv, Guarded, Silent

LEMMA InvInit == AuthInit => AuthInv
<1> SUFFICES ASSUME AuthInit PROVE AuthInv
  OBVIOUS
<1>1. TypeOK
  BY AuthAssumption, DelaysAssumption
     DEF AuthAssumption, DelaysAssumption, AuthInit, TypeOK, Phases, Fetching, Outcomes, Sleeps
<1>2. OneRefresh /\ NoRedundantRefresh
  BY AuthAssumption DEF AuthAssumption, AuthInit, OneRefresh, Fetching, NoRedundantRefresh
<1>3. NoAbandonedWaiter /\ PendingOnlyInWait
  BY Distinct DEF AuthInit, NoAbandonedWaiter, Waiting, PendingOnlyInWait
<1>4. GapBetweenRefreshes /\ NoAnswerYet /\ GapSleepIsEnough /\ BackoffIsRetry
  BY DEF AuthInit, GapBetweenRefreshes, NoAnswerYet, GapSleepIsEnough, BackoffIsRetry
<1>5. HonoursRetryAfter /\ QuietOnlyInBackoff
  BY DEF AuthInit, HonoursRetryAfter, QuietOnlyInBackoff
<1>6. QED
  BY <1>1, <1>2, <1>3, <1>4, <1>5 DEF AuthInv

\* AuthInv is an inductive invariant of the token cache.
THEOREM AuthInvariant == Spec => []AuthInv
<1>1. QED
  BY InvInit, InvStep, PTL DEF Spec

\* One goroutine at a time is inside fetchAccessToken, for any number of callers.
THEOREM OneRefreshHolds == Spec => []OneRefresh
<1>1. AuthInv => OneRefresh
  BY DEF AuthInv
<1>2. QED
  BY AuthInvariant, <1>1, PTL

\* No caller waits on a tokenRefresh that nobody will close.
THEOREM NoAbandonedWaiterHolds == Spec => []NoAbandonedWaiter
<1>1. AuthInv => NoAbandonedWaiter
  BY DEF AuthInv
<1>2. QED
  BY AuthInvariant, <1>1, PTL

\* No token is requested while a usable one is cached.
THEOREM NoRedundantRefreshHolds == Spec => []NoRedundantRefresh
<1>1. AuthInv => NoRedundantRefresh
  BY DEF AuthInv
<1>2. QED
  BY AuthInvariant, <1>1, PTL

\* Fetches are at least tokenRequestGap apart.
THEOREM GapBetweenRefreshesHolds == Spec => []GapBetweenRefreshes
<1>1. AuthInv => GapBetweenRefreshes
  BY DEF AuthInv
<1>2. QED
  BY AuthInvariant, <1>1, PTL

\* A token request is not repeated within the silence the server asked for,
\* whatever Retry-After it sends and however often it answers 429.
THEOREM HonoursRetryAfterHolds == Spec => []HonoursRetryAfter
<1>1. AuthInv => HonoursRetryAfter
  BY DEF AuthInv
<1>2. QED
  BY AuthInvariant, <1>1, PTL

----------------------------------------------------------------------------
Forward(c) ==
    IF phase'[c] = phase[c] THEN StepsLeft(c)' = StepsLeft(c)
                           ELSE StepsLeft(c)' \in 0..(StepsLeft(c) - 1)

\* The steps of a goroutine inside accessToken.
LEMMA ForwardOwnStep ==
    ASSUME AuthInv, NEW c \in Callers,
           \/ UseCachedToken(c) \/ JoinRefresh(c) \/ LeadRefresh(c)
           \/ WaitDone(c) \/ WaitCanceled(c)
           \/ FetchStart(c) \/ SleepElapsed(c) \/ SleepCanceled(c)
           \/ SendTokenRequest(c) \/ \E t \in Tokens : TokenIssued(c, t)
           \/ TokenRefused(c) \/ TokenThrottled(c)
           \/ Publish(c)
    PROVE  /\ Forward(c)
           /\ \A d \in Callers \ {c} : phase'[d] = phase[d] /\ tries'[d] = tries[d]
<1>1. MaxRetries \in Nat /\ phase \in [Callers -> Phases] /\ tries \in [Callers -> 0..MaxRetries]
  BY AuthAssumption DEF AuthAssumption, AuthInv, TypeOK
<1> USE <1>1 DEF Goto, Forward, StepsLeft, RetriesLeft
<1>2. CASE UseCachedToken(c) \/ JoinRefresh(c) \/ LeadRefresh(c)
  BY <1>2 DEF UseCachedToken, JoinRefresh, LeadRefresh
<1>3. CASE WaitDone(c) \/ WaitCanceled(c)
  BY <1>3 DEF WaitDone, WaitCanceled
<1>4. CASE FetchStart(c)
  BY <1>4 DEF FetchStart
<1>5. CASE SleepElapsed(c) \/ SleepCanceled(c)
  BY <1>5 DEF SleepElapsed, SleepCanceled
<1>6. CASE SendTokenRequest(c) \/ (\E t \in Tokens : TokenIssued(c, t)) \/ TokenRefused(c)
  BY <1>6 DEF SendTokenRequest, TokenIssued, TokenRefused
<1>7. CASE TokenThrottled(c)
  <2>1. CASE tries[c] < MaxRetries
    BY <1>7, <2>1 DEF TokenThrottled
  <2>2. CASE ~(tries[c] < MaxRetries)
    BY <1>7, <2>2 DEF TokenThrottled
  <2>3. QED
    BY <2>1, <2>2
<1>8. CASE Publish(c)
  BY <1>8 DEF Publish
<1>9. QED
  BY <1>2, <1>3, <1>4, <1>5, <1>6, <1>7, <1>8

LEMMA ForwardStep ==
    ASSUME AuthInv, [Next]_authVars, NEW d \in Callers, phase[d] # "idle"
    PROVE  Forward(d)
<1>1. ASSUME phase'[d] = phase[d], tries'[d] = tries[d] PROVE Forward(d)
  BY <1>1 DEF Forward, StepsLeft, RetriesLeft
<1>2. ASSUME NEW c \in Callers, CallAccessToken(c) PROVE Forward(d)
  BY <1>1, <1>2 DEF CallAccessToken, Goto, AuthInv, TypeOK
<1>3. ASSUME NEW c \in Callers, AuthStep(c, Tokens \ AuthTokens) PROVE Forward(d)
  <2>1. \/ UseCachedToken(c) \/ JoinRefresh(c) \/ LeadRefresh(c)
        \/ WaitDone(c) \/ WaitCanceled(c)
        \/ FetchStart(c) \/ SleepElapsed(c) \/ SleepCanceled(c)
        \/ SendTokenRequest(c) \/ \E t \in Tokens : TokenIssued(c, t)
        \/ TokenRefused(c) \/ TokenThrottled(c)
        \/ Publish(c)
    BY <1>3 DEF AuthStep
  <2>2. Forward(c) /\ (d # c => phase'[d] = phase[d] /\ tries'[d] = tries[d])
    BY <2>1, ForwardOwnStep
  <2>3. QED
    BY <1>1, <2>2
<1>4. ASSUME NEW c \in Callers, Invalidate(c) \/ CtxDone(c) \/ NewCtx(c) PROVE Forward(d)
  BY <1>1, <1>4 DEF Invalidate, CtxDone, NewCtx
<1>5. CASE Tick \/ UNCHANGED authVars
  BY <1>1, <1>5 DEF Tick, authVars
<1>6. QED
  BY <1>2, <1>3, <1>4, <1>5 DEF Next

\* Every call of accessToken goes through at most 3 * MaxRetries + 6 phases,
\* whatever the token server answers and the other callers do.
THEOREM CallsOnlyGoForwardHolds == Spec => CallsOnlyGoForward
<1>1. AuthInv /\ [Next]_authVars =>
         [\A c \in Callers : phase[c] # "idle" =>
             IF phase'[c] = phase[c] THEN StepsLeft(c)' = StepsLeft(c)
                                    ELSE StepsLeft(c)' \in 0..(StepsLeft(c) - 1)]_authVars
  BY ForwardStep DEF Forward
<1>2. QED
  BY AuthInvariant, <1>1, PTL DEF Spec, CallsOnlyGoForward

----------------------------------------------------------------------------
LEMMA FlightStep ==
    AuthInv /\ [Next]_authVars => [Flight!FlightNext]_(Flight!flightVars)
<1> SUFFICES ASSUME AuthInv, [Next]_authVars
             PROVE  [Flight!FlightNext]_(Flight!flightVars)
  OBVIOUS
<1> USE AuthAssumption, Distinct DEF AuthAssumption, AuthInv, TypeOK, OneRefresh,
    NoAbandonedWaiter, Waiting, PendingOnlyInWait, NoAnswerYet, RoleOf, AnswerOf, Fetching,
    Errors, Goto, Flight!flightVars
<1>1. ASSUME NEW c \in Callers, CallAccessToken(c) PROVE Flight!Ask(c)
  BY <1>1 DEF CallAccessToken, Flight!Ask
<1>2. ASSUME NEW c \in Callers, UseCachedToken(c) PROVE Flight!Recall(c)
  BY <1>2 DEF UseCachedToken, Fresh, Flight!Recall
<1>3. ASSUME NEW c \in Callers, JoinRefresh(c) PROVE Flight!Join(c)
  <2>1. refresh \in Callers /\ RoleOf(refresh) = "leads"
    BY <1>3 DEF JoinRefresh
  <2>2. RoleOf(c) = "out" /\ cachedToken' = cachedToken
    BY <1>3 DEF JoinRefresh
  <2>3. \A d \in Callers : RoleOf(d)' = IF d = c THEN "joined" ELSE RoleOf(d)
    BY <1>3 DEF JoinRefresh
  <2>4. \A d \in Callers : AnswerOf(d)' = AnswerOf(d)
    BY <1>3 DEF JoinRefresh
  <2> HIDE DEF AuthInv, RoleOf, AnswerOf
  <2>5. QED
    BY <2>1, <2>2, <2>3, <2>4 DEF Flight!Join
<1>4. ASSUME NEW c \in Callers, LeadRefresh(c) PROVE Flight!Lead(c)
  BY <1>4 DEF LeadRefresh, Flight!Lead
<1>5. ASSUME NEW c \in Callers, WaitDone(c) PROVE Flight!Leave(c)
  BY <1>5 DEF WaitDone, Flight!Leave
<1>6. ASSUME NEW c \in Callers, WaitCanceled(c) PROVE Flight!Abandon(c)
  BY <1>6 DEF WaitCanceled, Flight!Abandon
<1>7. ASSUME NEW c \in Callers, FetchStart(c) PROVE UNCHANGED Flight!flightVars
  BY <1>7 DEF FetchStart
<1>8. ASSUME NEW c \in Callers, SleepElapsed(c) \/ SleepCanceled(c) PROVE UNCHANGED Flight!flightVars
  <2>1. CASE SleepElapsed(c)
    BY <2>1 DEF SleepElapsed
  <2>2. CASE SleepCanceled(c)
    BY <2>2 DEF SleepCanceled
  <2>3. QED
    BY <1>8, <2>1, <2>2
<1>9. ASSUME NEW c \in Callers, SendTokenRequest(c) PROVE UNCHANGED Flight!flightVars
  BY <1>9 DEF SendTokenRequest
<1>10. ASSUME NEW c \in Callers, NEW t \in Tokens, TokenIssued(c, t) PROVE UNCHANGED Flight!flightVars
  BY <1>10 DEF TokenIssued
<1>11. ASSUME NEW c \in Callers, TokenRefused(c) PROVE UNCHANGED Flight!flightVars
  BY <1>11 DEF TokenRefused
<1>12. ASSUME NEW c \in Callers, TokenThrottled(c) PROVE UNCHANGED Flight!flightVars
  BY <1>12 DEF TokenThrottled
<1>13. ASSUME NEW c \in Callers, Publish(c) PROVE Flight!Land(c)
  BY <1>13 DEF Publish, Flight!Land
<1>14. ASSUME NEW c \in Callers, Invalidate(c) PROVE Flight!Forget
  BY <1>14 DEF Invalidate, ClearToken, Flight!Forget
<1>15. ASSUME NEW c \in Callers, CtxDone(c) \/ NewCtx(c)
       PROVE  UNCHANGED Flight!flightVars
  BY <1>15 DEF CtxDone, NewCtx
<1>16. CASE Tick
  BY <1>16 DEF Tick
<1>17. CASE UNCHANGED authVars
  BY <1>17 DEF authVars
<1>18. QED
  BY <1>1, <1>2, <1>3, <1>4, <1>5, <1>6, <1>7, <1>8, <1>9, <1>10, <1>11, <1>12,
     <1>13, <1>14, <1>15, <1>16, <1>17 DEF Next, AuthStep, Flight!FlightNext

\* The token cache implements the memoised single flight: what a caller is
\* handed is the memo, or the outcome of the one flight it led or joined.
THEOREM ImplementsSingleFlightHolds == Spec => ImplementsSingleFlight
<1>1. AuthInit => Flight!FlightInit
  BY Distinct DEF AuthInit, Flight!FlightInit, RoleOf, AnswerOf, Fetching
<1>2. QED
  BY AuthInvariant, FlightStep, <1>1, PTL DEF Spec, ImplementsSingleFlight, Flight!FlightSpec
============================================================================
