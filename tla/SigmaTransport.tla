--------------------------- MODULE SigmaTransport ---------------------------
(***************************************************************************)
(* apiTransport.Do (internal/sigma/transport.go) over the token cache of   *)
(* SigmaAuth: what every API request of the provider goes through.         *)
(*                                                                         *)
(* Do sends a request with a bearer token, answers the first 401 with a    *)
(* forced token refresh that does not use up an attempt, and repeats       *)
(* idempotent methods after 429 and 5xx with a sleep in between.           *)
(* The server is external: it applies a request or not, and answers with   *)
(* any status, or the answer is lost.                                      *)
(***************************************************************************)
EXTENDS SigmaAuth, SigmaReplies

CONSTANT Methods   \* the HTTP methods the callers use

ASSUME TransportAssumption ==
    Methods \subseteq {"GET", "HEAD", "PUT", "DELETE", "OPTIONS", "POST", "PATCH"}

VARIABLES
    at,            \* where each caller is in Do
    method,        \* request.Method
    attempt,       \* the loop variable of Do
    retried,       \* unauthorizedRetried
    bearer,        \* the token of the request last sent
    pause,         \* ticks left of client.sleep
    result,        \* what Do returned
    sends,         \* history: requests this Do put on the wire
    applied,       \* history: how many of them the server carried out
    rejected       \* history: the token of the 401 that was retried

doVars == <<at, method, attempt, retried, bearer, pause, result, sends, applied, rejected>>
vars == <<authVars, doVars>>

isIdempotent(m) == m \in {"GET", "HEAD", "PUT", "DELETE", "OPTIONS"}

\* Variant: every method is repeated.
AttemptsOfAny(m) == 1 + MaxRetries
Attempts(m) == IF isIdempotent(m) THEN 1 + MaxRetries ELSE 1

\* Classes of status codes, as Do and its callers tell them apart.
Statuses == {"ok", "unauthorized", "retryable", "refused"}
shouldRetry(status) == status = "retryable"   \* 429 and 5xx

\* How often the request may have been carried out when this status comes back.
Effects(status) == CASE status = "ok" -> {1}
                     [] status = "retryable" -> {0, 1}
                     [] OTHER -> {0}

DoInit ==
    /\ at = [c \in Callers |-> "idle"]
    /\ method \in [Callers -> Methods]
    /\ attempt = [c \in Callers |-> 0]
    /\ retried = [c \in Callers |-> FALSE]
    /\ bearer = [c \in Callers |-> NoToken]
    /\ pause = [c \in Callers |-> 0]
    /\ result = [c \in Callers |-> Pending]
    /\ sends = [c \in Callers |-> 0]
    /\ applied = [c \in Callers |-> 0]
    /\ rejected = [c \in Callers |-> NoToken]

Step(c, from, to) == at[c] = from /\ at' = [at EXCEPT ![c] = to]

Begin(c) ==
    /\ at[c] \in {"idle", "done"}
    /\ at' = [at EXCEPT ![c] = "loop"]
    /\ \E m \in Methods : method' = [method EXCEPT ![c] = m]
    /\ attempt' = [attempt EXCEPT ![c] = 0]
    /\ retried' = [retried EXCEPT ![c] = FALSE]
    /\ bearer' = [bearer EXCEPT ![c] = NoToken]
    /\ result' = [result EXCEPT ![c] = Pending]
    /\ sends' = [sends EXCEPT ![c] = 0]
    /\ applied' = [applied EXCEPT ![c] = 0]
    /\ rejected' = [rejected EXCEPT ![c] = NoToken]
    /\ NewCtx(c)
    /\ UNCHANGED pause

\* The loop condition, then accessToken; past the loop there is only a panic.
Iterate(c) ==
    /\ \/ /\ attempt[c] < Attempts(method[c])
          /\ Step(c, "loop", "token")
          /\ CallAccessToken(c)
       \/ /\ attempt[c] >= Attempts(method[c])
          /\ Step(c, "loop", "panic")
          /\ UNCHANGED authVars
    /\ UNCHANGED <<method, attempt, retried, bearer, pause, result, sends, applied, rejected>>

\* Failed stands for every error, that of a done ctx included: doAPI treats all alike.
Return(c, r) ==
    /\ at' = [at EXCEPT ![c] = "done"]
    /\ result' = [result EXCEPT ![c] = r]

\* validateRequestURL or snapshotBody fails before the loop: nothing is sent.
NotSendable(c) ==
    /\ at[c] = "loop" /\ sends[c] = 0
    /\ Return(c, Failed)
    /\ UNCHANGED <<authVars, method, attempt, retried, bearer, pause, sends, applied, rejected>>

\* Variant: a failed token refresh is tried again, whatever the error.
NoAccessTokenAgain(c) ==
    /\ phase[c] = "idle" /\ outcome[c] \in Errors
    /\ Step(c, "token", "loop")
    /\ UNCHANGED <<authVars, method, attempt, retried, bearer, pause, result, sends, applied, rejected>>

NoAccessToken(c) ==
    /\ at[c] = "token" /\ phase[c] = "idle"
    /\ outcome[c] \in Errors
    /\ Return(c, Failed)
    /\ UNCHANGED <<authVars, method, attempt, retried, bearer, pause, sends, applied, rejected>>

Send(c) ==
    /\ phase[c] = "idle" /\ outcome[c] \in Tokens
    /\ Step(c, "token", "sent")
    /\ bearer' = [bearer EXCEPT ![c] = outcome[c]]
    /\ sends' = [sends EXCEPT ![c] = @ + 1]
    /\ UNCHANGED <<authVars, method, attempt, retried, pause, result, applied, rejected>>

\* httpClient.Do failed: the request may or may not have been carried out.
ReplyLost(c) ==
    /\ at[c] = "sent"
    /\ Return(c, Failed)
    /\ \E n \in {0, 1} : applied' = [applied EXCEPT ![c] = @ + n]
    /\ UNCHANGED <<authVars, method, attempt, retried, bearer, pause, sends, rejected>>

\* Variant: the 401 branch forgets to note that it ran.
ForceRefreshAgain(c) ==
    /\ Step(c, "sent", "loop")
    /\ rejected' = [rejected EXCEPT ![c] = bearer[c]]
    /\ Invalidate(c)
    /\ UNCHANGED <<method, attempt, retried, bearer, pause, result, sends, applied>>

\* Variant: attempt-- without the attempt++ of continue.
ForceRefreshTwiceBack(c) ==
    /\ ~retried[c]
    /\ Step(c, "sent", "loop")
    /\ retried' = [retried EXCEPT ![c] = TRUE]
    /\ rejected' = [rejected EXCEPT ![c] = bearer[c]]
    /\ attempt' = [attempt EXCEPT ![c] = @ - 1]
    /\ Invalidate(c)
    /\ UNCHANGED <<method, bearer, pause, result, sends, applied>>

\* Variant: the refused token stays cached.
ForceRefreshKeepsToken(c) ==
    /\ ~retried[c]
    /\ Step(c, "sent", "loop")
    /\ retried' = [retried EXCEPT ![c] = TRUE]
    /\ rejected' = [rejected EXCEPT ![c] = bearer[c]]
    /\ UNCHANGED <<authVars, method, attempt, bearer, pause, result, sends, applied>>

\* Variant: the whole authState is reset, a refresh under way included.
ForceRefreshResetsAll(c) ==
    /\ ~retried[c]
    /\ Step(c, "sent", "loop")
    /\ retried' = [retried EXCEPT ![c] = TRUE]
    /\ rejected' = [rejected EXCEPT ![c] = bearer[c]]
    /\ ClearToken
    /\ refresh' = None
    /\ UNCHANGED <<sinceRequest, phase, refreshOf, outcome, tries, sleepFor, quiet, canceled,
                   method, attempt, bearer, pause, result, sends, applied>>

\* attempt-- undoes the attempt++ of the continue that follows.
ForceRefresh(c) ==
    /\ ~retried[c]
    /\ Step(c, "sent", "loop")
    /\ retried' = [retried EXCEPT ![c] = TRUE]
    /\ rejected' = [rejected EXCEPT ![c] = bearer[c]]
    /\ Invalidate(c)
    /\ UNCHANGED <<method, attempt, bearer, pause, result, sends, applied>>

\* Variant: a first 401 may be returned like any other refusal.
ReplyUnauthorized(c, status) ==
    /\ at[c] = "sent"
    /\ ~shouldRetry(status)
    /\ \E n \in Effects(status) : applied' = [applied EXCEPT ![c] = @ + n]
    /\ Return(c, status)
    /\ UNCHANGED <<authVars, method, attempt, retried, bearer, pause, sends, rejected>>

Reply(c, status) ==
    /\ at[c] = "sent"
    /\ status = "unauthorized" => retried[c]
    /\ \E n \in Effects(status) : applied' = [applied EXCEPT ![c] = @ + n]
    /\ \/ /\ ~shouldRetry(status) \/ attempt[c] = Attempts(method[c]) - 1
          /\ Return(c, status)
          /\ UNCHANGED pause
       \/ /\ shouldRetry(status) /\ attempt[c] # Attempts(method[c]) - 1
          /\ at' = [at EXCEPT ![c] = "sleep"]
          /\ \E throttled \in BOOLEAN, header \in RetryAfters :
                \E d \in retryDelay(throttled, header, attempt[c]) :
                   pause' = [pause EXCEPT ![c] = d]
          /\ UNCHANGED result
    /\ UNCHANGED <<authVars, method, attempt, retried, bearer, sends, rejected>>

PauseElapsed(c) ==
    /\ pause[c] = 0
    /\ Step(c, "sleep", "loop")
    /\ attempt' = [attempt EXCEPT ![c] = @ + 1]
    /\ UNCHANGED <<authVars, method, retried, bearer, pause, result, sends, applied, rejected>>

PauseCanceled(c) ==
    /\ at[c] = "sleep" /\ c \in canceled
    /\ Return(c, Failed)
    /\ pause' = [pause EXCEPT ![c] = 0]
    /\ UNCHANGED <<authVars, method, attempt, retried, bearer, sends, applied, rejected>>

----------------------------------------------------------------------------
(* doAPI, doDecode and apiErrorFrom: what becomes of a result of Do.  A 2xx     *)
(* whose body does not decode is an error, a refusal may be a 404.             *)
Told(r) ==
    CASE r = "ok"      -> {"ok", "error"}
      [] r = "refused" -> {"404", "bare404", "proxy404", "error"}
      [] OTHER         -> {"error"}

LiveTokens == AuthTokens \cup {bearer[c] : c \in Callers} \cup {rejected[c] : c \in Callers}

TokenStep(c) ==
    /\ at[c] = "token"
    /\ AuthStep(c, Tokens \ LiveTokens)
    /\ UNCHANGED doVars

DoStep(c) ==
    \/ NotSendable(c) \/ Iterate(c) \/ NoAccessToken(c) \/ Send(c)
    \/ ReplyLost(c) \/ ForceRefresh(c) \/ \E s \in Statuses : Reply(c, s)
    \/ PauseElapsed(c) \/ PauseCanceled(c)

DoCtxDone(c) == at[c] \notin {"idle", "done"} /\ CtxDone(c) /\ UNCHANGED doVars

DoTick ==
    /\ Tick
    /\ pause' = [c \in Callers |-> Decrement(pause[c])]
    /\ UNCHANGED <<at, method, attempt, retried, bearer, result, sends, applied, rejected>>

DoNext ==
    \/ \E c \in Callers : Begin(c) \/ DoStep(c) \/ TokenStep(c) \/ DoCtxDone(c)
    \/ DoTick

DoSpec == AuthInit /\ DoInit /\ [][DoNext]_vars

\* As in SigmaAuth: goroutines run, requests time out, time passes.  Nobody is
\* obliged to begin a request or to cancel one.
DoFairness ==
    /\ WF_vars(DoTick)
    /\ \A c \in Callers : WF_vars(DoStep(c)) /\ WF_vars(TokenStep(c))

FairDoSpec == DoSpec /\ DoFairness

----------------------------------------------------------------------------
(* Properties.                                                              *)

DoTypeOK ==
    /\ at \in [Callers -> {"idle", "loop", "token", "sent", "sleep", "done", "panic"}]
    /\ method \in [Callers -> Methods]
    /\ attempt \in [Callers -> Nat]
    /\ retried \in [Callers -> BOOLEAN]
    /\ bearer \in [Callers -> Tokens \cup {NoToken}]
    /\ pause \in [Callers -> Nat]
    /\ result \in [Callers -> Statuses \cup {Failed, Pending}]
    /\ sends \in [Callers -> Nat]
    /\ applied \in [Callers -> Nat]
    /\ rejected \in [Callers -> Tokens \cup {NoToken}]

\* A request is sent at most once per attempt its method is entitled to, plus
\* one extra time, and that only after a 401 on the very first token.  So the
\* panic("unreachable") behind the loop of Do is unreachable, although the 401
\* branch moves the loop variable backwards.
SendBudget ==
    \A c \in Callers :
        /\ sends[c] <= Attempts(method[c]) + (IF rejected[c] = NoToken THEN 0 ELSE 1)
        /\ at[c] # "panic"

\* A POST or PATCH is carried out at most once however the answers are lost,
\* throttled or unauthorized (TestClientDoesNotRetryPOST).
NonIdempotentAtMostOnce ==
    \A c \in Callers : ~isIdempotent(method[c]) => applied[c] <= 1

\* After a 401 the request is never repeated with the token that was refused,
\* even when other callers refresh and invalidate the shared cache meanwhile.
RetryUsesNewToken ==
    \A c \in Callers :
        at[c] \in {"sent", "sleep"} /\ rejected[c] # NoToken /\ sends[c] > 1
            => bearer[c] # rejected[c]

\* The client's caller sees a 401 only after a second, different token was tried
\* (TestClientRetriesOnceAfterUnauthorized).
UnauthorizedOnlyAfterRefresh ==
    \A c \in Callers : result[c] = "unauthorized" => rejected[c] \notin {NoToken, bearer[c]}

\* What handlers rely on: Do carries a call out only while its caller waits, and
\* more than once only if its method is idempotent; it gives one answer, which is
\* one of those that every module of the resources assumes; and no call has a
\* part in the answer to another one.
Waits(c) == at[c] \notin {"idle", "done"}

Call == INSTANCE SigmaCall WITH
    waits <- [c \in Callers |-> Waits(c)],
    repeated <- [c \in Callers |-> isIdempotent(method[c])],
    done <- applied,
    told <- [c \in Callers |-> IF at[c] = "done" THEN Told(result[c]) ELSE {}]

ImplementsCall == Call!CallSpec

\* From Begin until its result Do comes only closer to its end, whatever it is
\* answered, although its 401 branch moves the loop variable backwards: the
\* number of steps it may still make, accessToken apart, is a natural number that
\* nothing makes grow, however many retries there are.
IterationsLeft(c) == Attempts(method[c]) - attempt[c] + (IF retried[c] THEN 0 ELSE 1)
DoStepsLeft(c) ==
    CASE at[c] = "loop"  -> 4 * IterationsLeft(c) + 3
      [] at[c] = "token" -> 4 * IterationsLeft(c) + 2
      [] at[c] = "sent"  -> 4 * IterationsLeft(c) + 1
      [] at[c] = "sleep" -> 4 * IterationsLeft(c)
      [] OTHER           -> 0
DoOnlyGoesForward ==
    [][\A c \in Callers : Waits(c) =>
          IF at'[c] = at[c] THEN DoStepsLeft(c)' = DoStepsLeft(c)
                           ELSE DoStepsLeft(c)' \in 0..(DoStepsLeft(c) - 1)]_vars

\* Whatever the requests do, the token cache goes through the steps of SigmaAuth
\* only: its invariants and theorems hold under every use Do makes of it.
UsesAuthAsSpecified == Spec

\* The strengthening of the invariants above that every step preserves.
InAccessToken == \A c \in Callers : phase[c] # "idle" => at[c] = "token"
NoResultYet == \A c \in Callers : at[c] # "done" => result[c] = Pending
RetriedRejected == \A c \in Callers : retried[c] <=> rejected[c] # NoToken
BearerSent == \A c \in Callers : at[c] \in {"sent", "sleep"} => bearer[c] \in Tokens

Retries(c) == IF retried[c] THEN 1 ELSE 0
SendsCounted ==
    \A c \in Callers :
        /\ at[c] = "idle" => sends[c] = 0
        /\ at[c] \in {"loop", "token"} => sends[c] = attempt[c] + Retries(c)
        /\ at[c] \in {"sent", "sleep"} => sends[c] = attempt[c] + 1 + Retries(c)
        /\ at[c] = "done" => sends[c] <= attempt[c] + 1 + Retries(c)
        /\ at[c] # "idle" => attempt[c] < Attempts(method[c])
        /\ at[c] = "sleep" => attempt[c] + 1 < Attempts(method[c])
        /\ at[c] # "panic"

EffectsCounted ==
    \A c \in Callers :
        /\ at[c] = "idle" => applied[c] = 0
        /\ ~isIdempotent(method[c]) /\ at[c] \in {"loop", "token", "sent"} => applied[c] = 0
        /\ result[c] = "ok" => applied[c] > 0
        /\ ~isIdempotent(method[c]) /\ result[c] = "refused" => applied[c] = 0

\* A refused token is not cached, and the token about to be cached is a new one.
RefusedNotCached == \A c \in Callers : rejected[c] # NoToken => cachedToken # rejected[c]
PublishesNew ==
    \A d \in Callers : phase[d] = "publish" /\ outcome[d] \in Tokens =>
        /\ outcome[d] # cachedToken
        /\ \A c \in Callers : outcome[d] \notin {bearer[c], rejected[c]}
        /\ \A c \in Callers \ {d} : outcome[d] # outcome[c]
NewTokenAfterRefusal ==
    \A c \in Callers : rejected[c] # NoToken =>
        /\ at[c] = "token" => outcome[c] # rejected[c]
        /\ at[c] \in {"sent", "sleep"} => bearer[c] # rejected[c]

DoInv ==
    /\ DoTypeOK
    /\ InAccessToken /\ NoResultYet /\ RetriedRejected /\ BearerSent
    /\ SendsCounted /\ EffectsCounted /\ NonIdempotentAtMostOnce
    /\ RefusedNotCached /\ PublishesNew /\ NewTokenAfterRefusal
    /\ UnauthorizedOnlyAfterRefresh

\* Every request ends, with a response or an error, whatever the server answers
\* and although sleeps, gaps and other callers' refreshes are in the way.
EveryRequestEnds == \A c \in Callers : at[c] = "loop" ~> at[c] = "done"

=============================================================================
