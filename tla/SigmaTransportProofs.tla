------------------------ MODULE SigmaTransportProofs ------------------------
(* What SigmaTransport shows of one request, for every number of callers,  *)
(* tokens and retries, and that Do uses the token cache as specified.      *)
EXTENDS SigmaTransport, SigmaAuthProofs

\* A step of Do, or of time, is a step of the token cache or leaves it alone.
LEMMA AuthStepOfDo == [DoNext]_vars => [Next]_authVars
<1> SUFFICES ASSUME [DoNext]_vars PROVE [Next]_authVars
  OBVIOUS
<1>1. ASSUME NEW c \in Callers, Begin(c) PROVE Next
  BY <1>1 DEF Begin, Next
<1>2. ASSUME NEW c \in Callers, Iterate(c) PROVE [Next]_authVars
  BY <1>2 DEF Iterate, Next
<1>3. ASSUME NEW c \in Callers, ForceRefresh(c) PROVE Next
  BY <1>3 DEF ForceRefresh, Next
<1>4. ASSUME NEW c \in Callers,
             \/ NotSendable(c) \/ NoAccessToken(c) \/ Send(c)
             \/ ReplyLost(c) \/ PauseElapsed(c) \/ PauseCanceled(c)
      PROVE  UNCHANGED authVars
  BY <1>4 DEF NotSendable, NoAccessToken, Send, ReplyLost, PauseElapsed, PauseCanceled
<1>5. ASSUME NEW c \in Callers, NEW s \in Statuses, Reply(c, s) PROVE UNCHANGED authVars
  BY <1>5 DEF Reply
<1>6. ASSUME NEW c \in Callers, TokenStep(c) PROVE Next
  <2>1. AuthStep(c, Tokens \ LiveTokens)
    BY <1>6 DEF TokenStep
  <2>2. Tokens \ LiveTokens \subseteq Tokens \ AuthTokens
    BY DEF LiveTokens
  <2>3. AuthStep(c, Tokens \ AuthTokens)
    BY <2>1, <2>2 DEF AuthStep
  <2>4. QED
    BY <2>3 DEF Next
<1>7. ASSUME NEW c \in Callers, DoCtxDone(c) PROVE Next
  BY <1>7 DEF DoCtxDone, Next
<1>8. CASE DoTick
  BY <1>8 DEF DoTick, Next
<1>9. CASE UNCHANGED vars
  BY <1>9 DEF vars
<1>10. QED
  BY <1>1, <1>2, <1>3, <1>4, <1>5, <1>6, <1>7, <1>8, <1>9 DEF DoNext, DoStep

\* Whatever the requests do, the token cache goes through the steps of
\* SigmaAuth only: every theorem about Spec is one about DoSpec.
THEOREM UsesAuthAsSpecifiedHolds == DoSpec => UsesAuthAsSpecified
<1>1. QED
  BY AuthStepOfDo, PTL DEF DoSpec, UsesAuthAsSpecified, Spec

----------------------------------------------------------------------------
\* Every step of Do keeps the types.
LEMMA DoTypeStep == TypeOK /\ DoTypeOK /\ [DoNext]_vars => DoTypeOK'
<1> SUFFICES ASSUME TypeOK, DoTypeOK, [DoNext]_vars PROVE DoTypeOK'
  OBVIOUS
<1> USE DEF DoTypeOK, Step, Return, Statuses, Errors
<1>1. ASSUME NEW c \in Callers, Begin(c) PROVE DoTypeOK'
  BY <1>1 DEF Begin
<1>2. ASSUME NEW c \in Callers, Iterate(c) PROVE DoTypeOK'
  BY <1>2 DEF Iterate
<1>3. ASSUME NEW c \in Callers, NotSendable(c) \/ NoAccessToken(c) PROVE DoTypeOK'
  BY <1>3 DEF NotSendable, NoAccessToken
<1>4. ASSUME NEW c \in Callers, Send(c) PROVE DoTypeOK'
  BY <1>4 DEF Send
<1>5. ASSUME NEW c \in Callers, ReplyLost(c) PROVE DoTypeOK'
  BY <1>5 DEF ReplyLost
<1>6. ASSUME NEW c \in Callers, ForceRefresh(c) PROVE DoTypeOK'
  BY <1>6 DEF ForceRefresh
<1>7. ASSUME NEW c \in Callers, NEW s \in Statuses, Reply(c, s) PROVE DoTypeOK'
  <2>1. applied' \in [Callers -> Nat]
    BY <1>7 DEF Reply, Effects
  <2>2. CASE ~shouldRetry(s) \/ attempt[c] = Attempts(method[c]) - 1
    BY <1>7, <2>1, <2>2 DEF Reply
  <2>3. CASE shouldRetry(s) /\ attempt[c] # Attempts(method[c]) - 1
    <3>1. PICK throttled \in BOOLEAN, header \in RetryAfters :
             \E d \in retryDelay(throttled, header, attempt[c]) :
                pause' = [pause EXCEPT ![c] = d]
      BY <1>7, <2>3 DEF Reply
    <3>2. PICK d \in retryDelay(throttled, header, attempt[c]) : pause' = [pause EXCEPT ![c] = d]
      BY <3>1
    <3>3. d \in Nat
      BY <3>2, DelayBounded, DelaysAssumption DEF DelaysAssumption
    <3>4. pause' \in [Callers -> Nat]
      BY <3>2, <3>3
    <3>5. QED
      BY <1>7, <2>1, <2>3, <3>4 DEF Reply
  <2>4. QED
    BY <2>2, <2>3
<1>8. ASSUME NEW c \in Callers, PauseElapsed(c) \/ PauseCanceled(c) PROVE DoTypeOK'
  BY <1>8 DEF PauseElapsed, PauseCanceled
<1>9. ASSUME NEW c \in Callers, TokenStep(c) \/ DoCtxDone(c) PROVE DoTypeOK'
  BY <1>9 DEF TokenStep, DoCtxDone, doVars
<1>10. CASE DoTick
  BY <1>10 DEF DoTick, Decrement
<1>11. CASE UNCHANGED vars
  BY <1>11 DEF vars, doVars
<1>12. QED
  BY <1>1, <1>2, <1>3, <1>4, <1>5, <1>6, <1>7, <1>8, <1>9, <1>10, <1>11 DEF DoNext, DoStep

\* The attempts of a method are at least one.
LEMMA AttemptsPositive == \A m : Attempts(m) \in Nat /\ Attempts(m) >= 1
  BY AuthAssumption DEF AuthAssumption, Attempts

LEMMA EffectsOf ==
    /\ \A s : Effects(s) \subseteq {0, 1}
    /\ Effects("ok") = {1} /\ Effects("unauthorized") = {0} /\ Effects("refused") = {0}
  BY DEF Effects

Counted == InAccessToken /\ NoResultYet /\ RetriedRejected /\ BearerSent /\ SendsCounted

\* Every step keeps the account of the requests sent.
LEMMA CountedStep == AuthInv /\ DoInv /\ [DoNext]_vars => Counted'
<1> SUFFICES ASSUME AuthInv, DoInv, [DoNext]_vars PROVE Counted'
  OBVIOUS
<1>0. Tokens \cap {NoToken} = {}
  BY Distinct
<1> USE AttemptsPositive, <1>0 DEF DoInv, DoTypeOK, Counted, InAccessToken, NoResultYet,
    RetriedRejected, BearerSent, SendsCounted, Retries, Step, Return, AuthInv, TypeOK
<1>1. ASSUME NEW c \in Callers, Begin(c) PROVE Counted'
  BY <1>1 DEF Begin, NewCtx
<1>2. ASSUME NEW c \in Callers, Iterate(c) PROVE Counted'
  BY <1>2 DEF Iterate, CallAccessToken, Goto
<1>3. ASSUME NEW c \in Callers, NotSendable(c) \/ NoAccessToken(c) PROVE Counted'
  <2>1. CASE NotSendable(c)
    BY <2>1 DEF NotSendable, authVars
  <2>2. CASE NoAccessToken(c)
    BY <2>2 DEF NoAccessToken, authVars
  <2>3. QED
    BY <1>3, <2>1, <2>2
<1>4. ASSUME NEW c \in Callers, Send(c) PROVE Counted'
  BY <1>4 DEF Send, authVars
<1>5. ASSUME NEW c \in Callers, ReplyLost(c) PROVE Counted'
  BY <1>5 DEF ReplyLost, authVars
<1>6. ASSUME NEW c \in Callers, ForceRefresh(c) PROVE Counted'
  BY <1>6 DEF ForceRefresh, Invalidate
<1>7. ASSUME NEW c \in Callers, NEW s \in Statuses, Reply(c, s) PROVE Counted'
  <2>1. CASE ~shouldRetry(s) \/ attempt[c] = Attempts(method[c]) - 1
    BY <1>7, <2>1 DEF Reply, authVars
  <2>2. CASE shouldRetry(s) /\ attempt[c] # Attempts(method[c]) - 1
    <3>1. /\ at[c] = "sent" /\ at' = [at EXCEPT ![c] = "sleep"]
          /\ UNCHANGED <<phase, method, attempt, retried, bearer, result, sends, rejected>>
      BY <1>7, <2>2 DEF Reply, authVars
    <3>2. attempt[c] + 1 < Attempts(method[c])
      BY <2>2, <3>1
    <3>3. QED
      BY <3>1, <3>2
  <2>3. QED
    BY <2>1, <2>2
<1>8. ASSUME NEW c \in Callers, PauseElapsed(c) \/ PauseCanceled(c) PROVE Counted'
  <2>1. CASE PauseElapsed(c)
    BY <2>1 DEF PauseElapsed, authVars
  <2>2. CASE PauseCanceled(c)
    BY <2>2 DEF PauseCanceled, authVars
  <2>3. QED
    BY <1>8, <2>1, <2>2
<1>9. ASSUME NEW c \in Callers, TokenStep(c) PROVE Counted'
  <2>1. PICK p : phase' = [phase EXCEPT ![c] = p]
    BY <1>9 DEF TokenStep, AuthStep, UseCachedToken, JoinRefresh, LeadRefresh, WaitDone,
       WaitCanceled, FetchStart, SleepElapsed, SleepCanceled, SendTokenRequest, TokenIssued,
       TokenRefused, TokenThrottled, Publish, Goto
  <2>2. QED
    BY <1>9, <2>1 DEF TokenStep, doVars
<1>10. ASSUME NEW c \in Callers, DoCtxDone(c) PROVE Counted'
  BY <1>10 DEF DoCtxDone, CtxDone, doVars
<1>11. CASE DoTick
  BY <1>11 DEF DoTick, Tick
<1>12. CASE UNCHANGED vars
  BY <1>12 DEF vars, doVars, authVars
<1>13. QED
  BY <1>1, <1>2, <1>3, <1>4, <1>5, <1>6, <1>7, <1>8, <1>9, <1>10, <1>11, <1>12
     DEF DoNext, DoStep

Carried == EffectsCounted /\ NonIdempotentAtMostOnce

\* Every step keeps the account of what the server carried out.
LEMMA CarriedStep == DoInv /\ [DoNext]_vars => Carried'
<1> SUFFICES ASSUME DoInv, [DoNext]_vars PROVE Carried'
  OBVIOUS
<1> USE EffectsOf DEF DoInv, DoTypeOK, NoResultYet, Carried, EffectsCounted,
    NonIdempotentAtMostOnce, SendsCounted, Step, Return, Errors, Canceled, Failed, Pending
<1>1. ASSUME NEW c \in Callers, Begin(c) PROVE Carried'
  BY <1>1 DEF Begin
<1>2. ASSUME NEW c \in Callers, Iterate(c) PROVE Carried'
  BY <1>2 DEF Iterate
<1>3. ASSUME NEW c \in Callers, NotSendable(c) \/ NoAccessToken(c) PROVE Carried'
  BY <1>3 DEF NotSendable, NoAccessToken
<1>4. ASSUME NEW c \in Callers, Send(c) PROVE Carried'
  BY <1>4 DEF Send
<1>5. ASSUME NEW c \in Callers, ReplyLost(c) PROVE Carried'
  BY <1>5 DEF ReplyLost
<1>6. ASSUME NEW c \in Callers, ForceRefresh(c) PROVE Carried'
  BY <1>6 DEF ForceRefresh
<1>7. ASSUME NEW c \in Callers, NEW s \in Statuses, Reply(c, s) PROVE Carried'
  <2>1. PICK n \in Effects(s) : applied' = [applied EXCEPT ![c] = applied[c] + n]
    BY <1>7 DEF Reply
  <2>2. CASE ~shouldRetry(s) \/ attempt[c] = Attempts(method[c]) - 1
    BY <1>7, <2>1, <2>2 DEF Reply
  <2>3. CASE shouldRetry(s) /\ attempt[c] # Attempts(method[c]) - 1
    <3>1. isIdempotent(method[c])
      BY <1>7, <2>3, AuthAssumption DEF Reply, Attempts
    <3>2. QED
      BY <1>7, <2>1, <2>3, <3>1 DEF Reply
  <2>4. QED
    BY <2>2, <2>3
<1>8. ASSUME NEW c \in Callers, PauseElapsed(c) \/ PauseCanceled(c) PROVE Carried'
  BY <1>8, AuthAssumption DEF PauseElapsed, PauseCanceled, Attempts
<1>9. ASSUME NEW c \in Callers, TokenStep(c) \/ DoCtxDone(c) PROVE Carried'
  BY <1>9 DEF TokenStep, DoCtxDone, doVars
<1>10. CASE DoTick
  BY <1>10 DEF DoTick
<1>11. CASE UNCHANGED vars
  BY <1>11 DEF vars, doVars
<1>12. QED
  BY <1>1, <1>2, <1>3, <1>4, <1>5, <1>6, <1>7, <1>8, <1>9, <1>10, <1>11 DEF DoNext, DoStep

Apart ==
    RefusedNotCached /\ PublishesNew /\ NewTokenAfterRefusal /\ UnauthorizedOnlyAfterRefresh

\* What happens inside accessToken keeps refused tokens out of the cache.
LEMMA ApartTokenStep ==
    ASSUME AuthInv, DoInv, NEW c \in Callers, TokenStep(c) PROVE Apart'
<1>0. Tokens \cap {NoToken, Pending, Canceled, Failed} = {} /\ Pending # NoToken
  BY Distinct
<1> USE <1>0 DEF AuthInv, TypeOK, DoInv, DoTypeOK, Apart, RefusedNotCached, PublishesNew,
    NewTokenAfterRefusal, UnauthorizedOnlyAfterRefresh, Goto, TokenStep, doVars
<1>1. CASE UseCachedToken(c)
  BY <1>1 DEF UseCachedToken
<1>2. CASE JoinRefresh(c)
  BY <1>2 DEF JoinRefresh
<1>3. CASE LeadRefresh(c)
  BY <1>3 DEF LeadRefresh
<1>4. CASE WaitDone(c)
  BY <1>4 DEF WaitDone
<1>5. CASE WaitCanceled(c) \/ SleepCanceled(c)
  BY <1>5 DEF WaitCanceled, SleepCanceled
<1>6. CASE FetchStart(c) \/ SleepElapsed(c) \/ SendTokenRequest(c)
  BY <1>6 DEF FetchStart, SleepElapsed, SendTokenRequest
<1>7. ASSUME NEW t \in Tokens \ LiveTokens, TokenIssued(c, t) PROVE Apart'
  <2>1. t # cachedToken /\ \A d \in Callers : t \notin {outcome[d], bearer[d], rejected[d]}
    BY DEF LiveTokens, AuthTokens
  <2>2. QED
    BY <1>7, <2>1 DEF TokenIssued
<1>8. CASE TokenRefused(c)
  BY <1>8, <1>0 DEF TokenRefused
<1>9. CASE TokenThrottled(c)
  <2>1. outcome' = outcome \/ outcome' = [outcome EXCEPT ![c] = Failed]
    BY <1>9 DEF TokenThrottled
  <2>2. QED
    BY <1>9, <2>1 DEF TokenThrottled
<1>10. CASE Publish(c)
  BY <1>10 DEF Publish, OneRefresh, Fetching
<1>11. QED
  BY <1>1, <1>2, <1>3, <1>4, <1>5, <1>6, <1>7, <1>8, <1>9, <1>10 DEF AuthStep

\* Every step keeps refused tokens apart from those still in use.
LEMMA ApartStep == AuthInv /\ DoInv /\ [DoNext]_vars => Apart'
<1> SUFFICES ASSUME AuthInv, DoInv, [DoNext]_vars PROVE Apart'
  OBVIOUS
<1>0. Tokens \cap {NoToken, Pending, Canceled, Failed} = {}
  BY Distinct
<1> USE <1>0 DEF AuthInv, TypeOK, DoInv, DoTypeOK, Apart, InAccessToken, NoResultYet,
    RetriedRejected, BearerSent, RefusedNotCached, PublishesNew, NewTokenAfterRefusal,
    UnauthorizedOnlyAfterRefresh, Step, Return
<1>1. ASSUME NEW c \in Callers, Begin(c) PROVE Apart'
  BY <1>1 DEF Begin, NewCtx, Pending
<1>2. ASSUME NEW c \in Callers, Iterate(c) PROVE Apart'
  BY <1>2 DEF Iterate, CallAccessToken, Goto, authVars
<1>3. ASSUME NEW c \in Callers, NotSendable(c) \/ NoAccessToken(c) PROVE Apart'
  BY <1>3 DEF NotSendable, NoAccessToken, authVars, Failed
<1>4. ASSUME NEW c \in Callers, Send(c) PROVE Apart'
  BY <1>4 DEF Send, authVars, Pending
<1>5. ASSUME NEW c \in Callers, ReplyLost(c) PROVE Apart'
  BY <1>5 DEF ReplyLost, authVars, Failed
<1>6. ASSUME NEW c \in Callers, ForceRefresh(c) PROVE Apart'
  BY <1>6 DEF ForceRefresh, Invalidate, ClearToken, Pending
<1>7. ASSUME NEW c \in Callers, NEW s \in Statuses, Reply(c, s) PROVE Apart'
  BY <1>7 DEF Reply, authVars
<1>8. ASSUME NEW c \in Callers, PauseElapsed(c) \/ PauseCanceled(c) PROVE Apart'
  BY <1>8 DEF PauseElapsed, PauseCanceled, authVars, Failed
<1>9. ASSUME NEW c \in Callers, TokenStep(c) PROVE Apart'
  BY <1>9, ApartTokenStep
<1>10. ASSUME NEW c \in Callers, DoCtxDone(c) PROVE Apart'
  BY <1>10 DEF DoCtxDone, CtxDone, doVars
<1>11. CASE DoTick
  BY <1>11 DEF DoTick, Tick
<1>12. CASE UNCHANGED vars
  BY <1>12 DEF vars, doVars, authVars
<1>13. QED
  BY <1>1, <1>2, <1>3, <1>4, <1>5, <1>6, <1>7, <1>8, <1>9, <1>10, <1>11, <1>12
     DEF DoNext, DoStep

LEMMA DoInvInit == AuthInit /\ DoInit => DoInv
<1> SUFFICES ASSUME AuthInit, DoInit PROVE DoInv
  OBVIOUS
<1>0. Tokens \cap {NoToken} = {}
  BY Distinct
<1>1. DoTypeOK
  BY DEF DoInit, DoTypeOK
<1>2. InAccessToken /\ NoResultYet /\ RetriedRejected /\ BearerSent /\ SendsCounted
  BY DEF AuthInit, DoInit, InAccessToken, NoResultYet, RetriedRejected, BearerSent, SendsCounted
<1>3. EffectsCounted /\ NonIdempotentAtMostOnce
  BY DEF DoInit, EffectsCounted, NonIdempotentAtMostOnce, Pending
<1>4. RefusedNotCached /\ PublishesNew /\ NewTokenAfterRefusal /\ UnauthorizedOnlyAfterRefresh
  BY DEF AuthInit, DoInit, RefusedNotCached, PublishesNew, NewTokenAfterRefusal,
     UnauthorizedOnlyAfterRefresh, Pending
<1>5. QED
  BY <1>1, <1>2, <1>3, <1>4 DEF DoInv

\* DoInv is an inductive invariant of the request loop over the token cache.
THEOREM DoInvariant == DoSpec => []DoInv
<1>1. AuthInv /\ DoInv /\ [DoNext]_vars => DoInv'
  BY DoTypeStep, CountedStep, CarriedStep, ApartStep DEF DoInv, AuthInv, Counted, Carried, Apart
<1>2. DoSpec => []AuthInv
  BY UsesAuthAsSpecifiedHolds, AuthInvariant, PTL DEF UsesAuthAsSpecified
<1>3. QED
  BY DoInvInit, <1>1, <1>2, PTL DEF DoSpec

\* Every variable of every Do stays within its type.
THEOREM DoTypeOKHolds == DoSpec => []DoTypeOK
<1>1. DoInv => DoTypeOK
  BY DEF DoInv
<1>2. QED
  BY DoInvariant, <1>1, PTL

\* Do never sends more requests than its method is entitled to plus the one
\* after a 401, and never gets to its panic.
THEOREM SendBudgetHolds == DoSpec => []SendBudget
<1>1. DoInv => SendBudget
  BY AttemptsPositive
     DEF DoInv, DoTypeOK, SendBudget, SendsCounted, RetriedRejected, Retries
<1>2. QED
  BY DoInvariant, <1>1, PTL

\* A POST or PATCH is carried out at most once.
THEOREM NonIdempotentAtMostOnceHolds == DoSpec => []NonIdempotentAtMostOnce
<1>1. DoInv => NonIdempotentAtMostOnce
  BY DEF DoInv
<1>2. QED
  BY DoInvariant, <1>1, PTL

\* A request is not repeated with the token that was refused.
THEOREM RetryUsesNewTokenHolds == DoSpec => []RetryUsesNewToken
<1>1. DoInv => RetryUsesNewToken
  BY DEF DoInv, NewTokenAfterRefusal, RetryUsesNewToken
<1>2. QED
  BY DoInvariant, <1>1, PTL

\* A 401 is returned only after a second, different token was tried.
THEOREM UnauthorizedOnlyAfterRefreshHolds == DoSpec => []UnauthorizedOnlyAfterRefresh
<1>1. DoInv => UnauthorizedOnlyAfterRefresh
  BY DEF DoInv
<1>2. QED
  BY DoInvariant, <1>1, PTL

----------------------------------------------------------------------------
(* Do implements SigmaCall: one step of a call, or a stutter, per step.     *)

\* What Do does for other callers, or between two attempts, no call notices.
LEMMA Unnoticed ==
    ASSUME DoInv, NEW c \in Callers, Waits(c),
           \/ UNCHANGED at \/ \E p : p \notin {"idle", "done"} /\ at' = [at EXCEPT ![c] = p],
           UNCHANGED <<method, applied, result>>
    PROVE  UNCHANGED Call!callVars
<1>1. at \in [Callers -> {"idle", "loop", "token", "sent", "sleep", "done", "panic"}]
  BY DEF DoInv, DoTypeOK
<1>2. \A d \in Callers : /\ at'[d] \in {"idle", "done"} <=> at[d] \in {"idle", "done"}
                         /\ at'[d] = "done" <=> at[d] = "done"
  BY <1>1 DEF Waits
<1>3. UNCHANGED [d \in Callers |-> Waits(d)]
  BY <1>2 DEF Waits
<1>4. UNCHANGED [d \in Callers |-> isIdempotent(method[d])]
  BY DEF isIdempotent
<1>5. UNCHANGED [d \in Callers |-> IF at[d] = "done" THEN Told(result[d]) ELSE {}]
  BY <1>2 DEF Told
<1>6. QED
  BY <1>3, <1>4, <1>5 DEF Call!callVars

\* An attempt is carried out, or not: never again if it may not be repeated.
LEMMA Attempted ==
    ASSUME DoInv, NEW c \in Callers, at[c] = "sent", NEW n \in {0, 1},
           applied' = [applied EXCEPT ![c] = @ + n], UNCHANGED method
    PROVE  Call!Attempt(c) /\ (~isIdempotent(method[c]) => applied'[c] = n)
<1>1. applied \in [Callers -> Nat] /\ (~isIdempotent(method[c]) => applied[c] = 0)
  BY DEF DoInv, DoTypeOK, EffectsCounted
<1>2. n = 0 => UNCHANGED applied
  BY <1>1
<1>3. UNCHANGED [d \in Callers |-> isIdempotent(method[d])]
  BY DEF isIdempotent
<1>4. Waits(c) /\ \/ UNCHANGED applied
                  \/ /\ isIdempotent(method[c]) \/ applied[c] = 0
                     /\ applied' = [applied EXCEPT ![c] = applied[c] + 1]
  BY <1>1, <1>2 DEF Waits
<1>5. Call!Attempt(c)
  BY <1>3, <1>4, Zenon DEF Call!Attempt
<1>6. ~isIdempotent(method[c]) => applied'[c] = n
  BY <1>1
<1>7. QED
  BY <1>5, <1>6

\* What a result of Do is told as is an answer that the resources assume.
LEMMA AnswersAssumed ==
    ASSUME NEW work \in BOOLEAN, NEW again \in BOOLEAN, NEW r,
           r = "ok" => work, r = "refused" /\ work => again
    PROVE  /\ Told(r) \in (SUBSET Call!Replies) \ {{}}
           /\ \A reply \in Told(r) : Call!Assumed(reply, work, again)
<1>1. Told(r) \in (SUBSET Call!Replies) \ {{}}
  <2>1. "error" \in Told(r) /\ Told(r) \subseteq {"ok", "404", "bare404", "proxy404", "error"}
    BY DEF Told
  <2>2. QED
    BY <2>1 DEF Call!Replies
<1>2. ASSUME NEW reply \in Told(r) PROVE <<reply, work>> \in Call!Answers(work, again)
  <2>1. reply = "ok" => work
    BY <1>2 DEF Told
  <2>2. reply \in {"404", "bare404", "proxy404"} /\ work => again
    BY <1>2 DEF Told
  <2>3. QED
    BY <1>1, <1>2, <2>1, <2>2 DEF Call!Answers
<1>3. QED
  BY <1>1, <1>2 DEF Call!Assumed

\* Do returns an answer.
LEMMA Answered ==
    ASSUME DoInv, NEW c \in Callers, NEW r, Return(c, r), Call!Attempt(c), UNCHANGED method,
           r = "ok" => applied'[c] > 0,
           r = "refused" /\ applied'[c] > 0 => isIdempotent(method[c])
    PROVE  Call!Answer(c)
<1>1. at \in [Callers -> {"idle", "loop", "token", "sent", "sleep", "done", "panic"}]
      /\ result \in [Callers -> Statuses \cup {Failed, Pending}]
  BY DEF DoInv, DoTypeOK
<1>2. [d \in Callers |-> Waits(d)]' = [[d \in Callers |-> Waits(d)] EXCEPT ![c] = FALSE]
  BY <1>1 DEF Waits, Return
<1>3. [d \in Callers |-> IF at[d] = "done" THEN Told(result[d]) ELSE {}]'
        = [[d \in Callers |-> IF at[d] = "done" THEN Told(result[d]) ELSE {}] EXCEPT ![c] = Told(r)]
  <2>1. at'[c] = "done" /\ result'[c] = r
    BY <1>1 DEF Return
  <2>2. \A d \in Callers \ {c} : at'[d] = at[d] /\ result'[d] = result[d]
    BY <1>1 DEF Return
  <2>3. QED
    BY <2>1, <2>2 DEF Told
<1>4. isIdempotent(method[c]) \in BOOLEAN /\ (applied'[c] > 0) \in BOOLEAN
  BY DEF isIdempotent
<1>5. /\ Told(r) \in (SUBSET Call!Replies) \ {{}}
      /\ \A reply \in Told(r) : Call!Assumed(reply, applied'[c] > 0, isIdempotent(method[c]))
  BY <1>4, AnswersAssumed
<1>6. QED
  BY <1>2, <1>3, <1>5 DEF Call!Answer

LEMMA CallStep ==
    ASSUME DoInv, [DoNext]_vars
    PROVE  [Call!CallNext]_(Call!callVars)
<1> USE DEF Step
<1>0. at \in [Callers -> {"idle", "loop", "token", "sent", "sleep", "done", "panic"}]
  BY DEF DoInv, DoTypeOK
<1>1. ASSUME NEW c \in Callers, Begin(c) PROVE Call!Call(c)
  <2>1. PICK m \in Methods : method' = [method EXCEPT ![c] = m]
    BY <1>1 DEF Begin
  <2>2. [d \in Callers |-> Waits(d)]' = [[d \in Callers |-> Waits(d)] EXCEPT ![c] = TRUE]
    BY <1>0, <1>1 DEF Begin, Waits
  <2>3. [d \in Callers |-> isIdempotent(method[d])]'
          = [[d \in Callers |-> isIdempotent(method[d])] EXCEPT ![c] = isIdempotent(m)]
    BY <2>1 DEF isIdempotent, DoInv, DoTypeOK
  <2>4. [d \in Callers |-> IF at[d] = "done" THEN Told(result[d]) ELSE {}]'
          = [[d \in Callers |-> IF at[d] = "done" THEN Told(result[d]) ELSE {}] EXCEPT ![c] = {}]
    <3>1. at'[c] # "done"
      BY <1>0, <1>1 DEF Begin
    <3>2. \A d \in Callers \ {c} : at'[d] = at[d] /\ result'[d] = result[d]
      BY <1>0, <1>1 DEF Begin, DoInv, DoTypeOK
    <3>3. QED
      BY <3>1, <3>2 DEF Told
  <2>5. isIdempotent(m) \in BOOLEAN /\ ~Waits(c)
    BY <1>1 DEF isIdempotent, Begin, Waits
  <2>6. QED
    BY <1>1, <2>2, <2>3, <2>4, <2>5 DEF Call!Call, Begin
<1>2. ASSUME NEW c \in Callers,
             Iterate(c) \/ Send(c) \/ ForceRefresh(c) \/ PauseElapsed(c) \/ TokenStep(c) \/ DoCtxDone(c)
      PROVE  UNCHANGED Call!callVars
  <2>1. Waits(c) /\ UNCHANGED <<method, applied, result>>
    BY <1>2 DEF Waits, Iterate, Send, ForceRefresh, PauseElapsed, TokenStep, DoCtxDone, doVars
  <2>2. UNCHANGED at \/ \E p : p \notin {"idle", "done"} /\ at' = [at EXCEPT ![c] = p]
    BY <1>2 DEF Iterate, Send, ForceRefresh, PauseElapsed, TokenStep, DoCtxDone, doVars
  <2>3. QED
    BY <2>1, <2>2, Unnoticed
<1>3. ASSUME NEW c \in Callers, NotSendable(c) \/ NoAccessToken(c) \/ PauseCanceled(c) PROVE Call!Answer(c)
  <2>1. Return(c, Failed)
    BY <1>3 DEF NotSendable, NoAccessToken, PauseCanceled
  <2>2. UNCHANGED <<method, applied>> /\ Waits(c)
    BY <1>3 DEF NotSendable, NoAccessToken, PauseCanceled, Waits
  <2>3. UNCHANGED [d \in Callers |-> isIdempotent(method[d])]
    BY <2>2 DEF isIdempotent
  <2>4. Call!Attempt(c)
    BY <2>2, <2>3 DEF Call!Attempt
  <2>5. Failed \notin {"ok", "refused"}
    BY DEF Failed
  <2>6. QED
    BY <2>1, <2>2, <2>4, <2>5, Answered
<1>4. ASSUME NEW c \in Callers, ReplyLost(c) PROVE Call!Answer(c)
  <2>1. Return(c, Failed)
    BY <1>4 DEF ReplyLost
  <2>2. PICK n \in {0, 1} : applied' = [applied EXCEPT ![c] = applied[c] + n]
    BY <1>4 DEF ReplyLost
  <2>3. at[c] = "sent" /\ UNCHANGED method
    BY <1>4 DEF ReplyLost
  <2>4. Failed \notin {"ok", "refused"}
    BY DEF Failed
  <2>5. QED
    BY <2>1, <2>2, <2>3, <2>4, Attempted, Answered
<1>5. ASSUME NEW c \in Callers, NEW s \in Statuses, Reply(c, s) PROVE Call!CallNext
  <2>1. PICK n \in Effects(s) : applied' = [applied EXCEPT ![c] = applied[c] + n]
    BY <1>5 DEF Reply
  <2>2. at[c] = "sent" /\ UNCHANGED method /\ n \in {0, 1}
    BY <1>5, <2>1, EffectsOf DEF Reply
  <2>3. Call!Attempt(c) /\ (~isIdempotent(method[c]) => applied'[c] = n)
    BY <2>1, <2>2, Attempted
  <2>4. CASE Return(c, s)
    <3>1. s = "ok" => applied'[c] > 0
      BY <2>1, EffectsOf DEF DoInv, DoTypeOK
    <3>2. s = "refused" => n = 0
      BY <2>1, EffectsOf
    <3>3. Call!Answer(c)
      BY <2>2, <2>3, <2>4, <3>1, <3>2, Answered
    <3>4. QED
      BY <3>3 DEF Call!CallNext
  <2>5. CASE at' = [at EXCEPT ![c] = "sleep"] /\ UNCHANGED result
    <3>1. \A d \in Callers : /\ at'[d] \in {"idle", "done"} <=> at[d] \in {"idle", "done"}
                             /\ at'[d] = "done" <=> at[d] = "done"
      BY <1>0, <2>2, <2>5
    <3>2. UNCHANGED [d \in Callers |-> Waits(d)]
      BY <3>1 DEF Waits
    <3>3. UNCHANGED [d \in Callers |-> IF at[d] = "done" THEN Told(result[d]) ELSE {}]
      BY <2>5, <3>1 DEF Told
    <3>4. QED
      BY <2>3, <3>2, <3>3 DEF Call!Work, Call!CallNext
  <2>6. QED
    BY <1>5, <2>4, <2>5 DEF Reply
<1>6. CASE DoTick \/ UNCHANGED vars
  <2>1. UNCHANGED <<at, method, applied, result>>
    BY <1>6 DEF DoTick, vars, doVars
  <2>2. QED
    BY <2>1 DEF Call!callVars, Waits, isIdempotent, Told
<1>7. QED
  BY <1>1, <1>2, <1>3, <1>4, <1>5, <1>6 DEF DoNext, DoStep, Call!CallNext

\* A handler may take its call for one that is carried out while it waits, again
\* only if it may be repeated, and told one of the answers of SigmaReplies, for
\* all that Do does with tokens, attempts and sleeps.
THEOREM ImplementsCallHolds == DoSpec => ImplementsCall
<1>1. ASSUME DoInit PROVE Call!CallInit
  <2>1. \A c \in Callers : at[c] = "idle"
    BY <1>1 DEF DoInit
  <2>2. [c \in Callers |-> Waits(c)] = [c \in Callers |-> FALSE]
    BY <2>1 DEF Waits
  <2>3. [c \in Callers |-> isIdempotent(method[c])] \in [Callers -> BOOLEAN]
    BY DEF isIdempotent
  <2>4. [c \in Callers |-> IF at[c] = "done" THEN Told(result[c]) ELSE {}] = [c \in Callers |-> {}]
    BY <2>1
  <2>5. QED
    BY <1>1, <2>2, <2>3, <2>4 DEF DoInit, Call!CallInit
<1>2. QED
  BY DoInvariant, CallStep, <1>1, PTL DEF DoSpec, ImplementsCall, Call!CallSpec

----------------------------------------------------------------------------
(* Do comes only closer to its end.                                        *)

DoForward(c) ==
    IF at'[c] = at[c] THEN DoStepsLeft(c)' = DoStepsLeft(c)
                     ELSE DoStepsLeft(c)' \in 0..(DoStepsLeft(c) - 1)

\* A Do that is under way has an iteration left.
LEMMA IterationsCounted ==
    ASSUME DoInv, NEW c \in Callers
    PROVE  /\ IterationsLeft(c) \in Int
           /\ at[c] \in {"loop", "token", "sent", "sleep"} => IterationsLeft(c) >= 1
           /\ at[c] = "sleep" => IterationsLeft(c) >= 2
<1>1. attempt[c] \in Nat /\ Attempts(method[c]) \in Nat
  BY AttemptsPositive DEF DoInv, DoTypeOK
<1>2. /\ at[c] # "idle" => attempt[c] < Attempts(method[c])
      /\ at[c] = "sleep" => attempt[c] + 1 < Attempts(method[c])
  BY DEF DoInv, SendsCounted
<1>3. QED
  BY <1>1, <1>2 DEF IterationsLeft

\* A step of a Do of its own.
LEMMA DoForwardOwnStep ==
    ASSUME DoInv, NEW c \in Callers, DoStep(c)
    PROVE  /\ DoForward(c)
           /\ UNCHANGED method
           /\ \A d \in Callers \ {c} :
                 at'[d] = at[d] /\ attempt'[d] = attempt[d] /\ retried'[d] = retried[d]
<1>1. /\ at \in [Callers -> {"idle", "loop", "token", "sent", "sleep", "done", "panic"}]
      /\ attempt \in [Callers -> Nat] /\ retried \in [Callers -> BOOLEAN]
      /\ Attempts(method[c]) \in Nat
  BY AttemptsPositive DEF DoInv, DoTypeOK
<1>2. UNCHANGED method => UNCHANGED Attempts(method[c])
  OBVIOUS
<1>3. at[c] \in {"loop", "token", "sent", "sleep"} => IterationsLeft(c) \in Int /\ IterationsLeft(c) >= 1
  BY IterationsCounted
<1> USE <1>1, <1>2, <1>3 DEF Step, Return, DoForward, DoStepsLeft, IterationsLeft
<1>4. CASE Iterate(c)
  BY <1>4 DEF Iterate
<1>5. CASE NotSendable(c) \/ NoAccessToken(c) \/ Send(c)
  BY <1>5 DEF NotSendable, NoAccessToken, Send
<1>6. CASE ReplyLost(c) \/ \E s \in Statuses : Reply(c, s)
  BY <1>6 DEF ReplyLost, Reply
<1>7. CASE ForceRefresh(c)
  BY <1>7 DEF ForceRefresh
<1>8. CASE PauseElapsed(c)
  <2>1. IterationsLeft(c) >= 2
    BY <1>8, IterationsCounted DEF PauseElapsed
  <2>2. QED
    BY <1>8, <2>1 DEF PauseElapsed
<1>9. CASE PauseCanceled(c)
  BY <1>9 DEF PauseCanceled
<1>10. QED
  BY <1>4, <1>5, <1>6, <1>7, <1>8, <1>9 DEF DoStep

LEMMA DoForwardStep ==
    ASSUME DoInv, [DoNext]_vars, NEW d \in Callers, Waits(d)
    PROVE  DoForward(d)
<1>1. ASSUME at'[d] = at[d], attempt'[d] = attempt[d], retried'[d] = retried[d], method'[d] = method[d]
      PROVE  DoForward(d)
  BY <1>1 DEF DoForward, DoStepsLeft, IterationsLeft
<1>2. ASSUME NEW c \in Callers, Begin(c) PROVE DoForward(d)
  <2>1. d # c
    BY <1>2 DEF Begin, Waits
  <2>2. QED
    BY <1>1, <1>2, <2>1 DEF Begin, DoInv, DoTypeOK
<1>3. ASSUME NEW c \in Callers, DoStep(c) PROVE DoForward(d)
  BY <1>1, <1>3, DoForwardOwnStep
<1>4. ASSUME NEW c \in Callers, TokenStep(c) \/ DoCtxDone(c) PROVE DoForward(d)
  BY <1>1, <1>4 DEF TokenStep, DoCtxDone, doVars
<1>5. CASE DoTick \/ UNCHANGED vars
  BY <1>1, <1>5 DEF DoTick, vars, doVars
<1>6. QED
  BY <1>2, <1>3, <1>4, <1>5 DEF DoNext

\* Do makes at most 4 * (Attempts + 1) + 3 steps of its own, the one after a 401
\* included: it cannot loop for ever, however it is answered.
THEOREM DoOnlyGoesForwardHolds == DoSpec => DoOnlyGoesForward
<1>1. DoInv /\ [DoNext]_vars =>
         [\A c \in Callers : Waits(c) =>
             IF at'[c] = at[c] THEN DoStepsLeft(c)' = DoStepsLeft(c)
                              ELSE DoStepsLeft(c)' \in 0..(DoStepsLeft(c) - 1)]_vars
  BY DoForwardStep DEF DoForward
<1>2. QED
  BY DoInvariant, <1>1, PTL DEF DoSpec, DoOnlyGoesForward
=============================================================================
