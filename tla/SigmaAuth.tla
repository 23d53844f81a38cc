----------------------------- MODULE SigmaAuth -----------------------------
(***************************************************************************)
(* The access-token cache of the Sigma API client                          *)
(* (internal/sigma/auth.go, and invalidateAccessToken of client.go).       *)
(*                                                                         *)
(* Every concurrent resource operation of one provider process shares one  *)
(* authState.  accessToken(ctx) returns the cached token while it is more  *)
(* than tokenRefreshWindow away from its expiry; otherwise one caller      *)
(* installs a tokenRefresh and fetches ("leads"), the others that find it  *)
(* installed wait for its done channel ("join").                           *)
(*                                                                         *)
(* Each critical section of auth.mu is one step; so is each send, reply    *)
(* and wake-up.  Clock values appear only as the differences the code      *)
(* tests: validFor is expiresAt - tokenRefreshWindow - now, sinceRequest   *)
(* is now - lastRequest saturated at tokenRequestGap.                      *)
(***************************************************************************)
EXTENDS Delays

CONSTANTS
    Callers,      \* goroutines that use the shared client
    Tokens,       \* access tokens the server can issue
    None,         \* nil *tokenRefresh
    MaxRetries,   \* client.maxRetries
    RequestGap,   \* tokenRequestGap, in ticks
    Lifetimes     \* expires_in minus tokenRefreshWindow, floored at 0, in ticks

Canceled == "canceled"    \* ctx.Err(), out of a wait or a sleep
Failed   == "failed"      \* any other error, whatever it wraps
Pending  == "pending"     \* refresh.done is still open
NoToken  == ""

ASSUME AuthAssumption ==
    /\ None \notin Callers
    /\ Tokens \cap {Canceled, Failed, Pending, NoToken} = {}
    /\ MaxRetries \in Nat
    /\ RequestGap \in Nat \ {0}
    /\ Lifetimes \subseteq Nat /\ Lifetimes # {}

\* With the few retries there are, a backoff and its jitter fit a time.Duration.
ASSUME BackoffsFit == \A n \in 0..MaxRetries : 3 * Backoff(n) <= 2 * MaxDuration

VARIABLES
    cachedToken,   \* authState.accessToken
    validFor,      \* ticks until the cached token enters the refresh window
    sinceRequest,  \* ticks since authState.lastRequest, saturated
    refresh,       \* authState.refresh: the caller leading it, or None
    phase,         \* where each caller is in accessToken
    refreshOf,     \* the tokenRefresh a waiting caller holds
    outcome,       \* what accessToken returned or, while waiting, refresh.token/err
    tries,         \* attempt of the loop in fetchAccessToken
    sleepFor,      \* ticks left of the caller's client.sleep
    quiet,         \* history: ticks left of the silence the last answer asked for
    canceled       \* callers whose ctx is done

authVars == <<cachedToken, validFor, sinceRequest, refresh, phase, refreshOf,
              outcome, tries, sleepFor, quiet, canceled>>

Fetching == {"fetch", "gap", "request", "reply", "backoff", "publish"}
Phases   == {"idle", "lock", "wait"} \cup Fetching
Errors   == {Canceled, Failed}
Outcomes == Tokens \cup Errors \cup {Pending, NoToken}
Sleeps   == 0..MaxSleep \cup 0..RequestGap

Fresh == cachedToken # NoToken /\ validFor > 0

\* Tokens some variable still holds: the server issues a new one each time.
AuthTokens == {cachedToken} \cup {outcome[c] : c \in Callers}

AuthInit ==
    /\ cachedToken = NoToken
    /\ validFor = 0
    /\ sinceRequest = RequestGap
    /\ refresh = None
    /\ phase = [c \in Callers |-> "idle"]
    /\ refreshOf = [c \in Callers |-> None]
    /\ outcome = [c \in Callers |-> NoToken]
    /\ tries = [c \in Callers |-> 0]
    /\ sleepFor = [c \in Callers |-> 0]
    /\ quiet = [c \in Callers |-> 0]
    /\ canceled = {}

Goto(c, from, to) == phase[c] = from /\ phase' = [phase EXCEPT ![c] = to]

----------------------------------------------------------------------------
(* accessToken: the first critical section takes one of three ways out.    *)

CallAccessToken(c) ==
    /\ Goto(c, "idle", "lock")
    /\ outcome' = [outcome EXCEPT ![c] = NoToken]
    /\ UNCHANGED <<cachedToken, validFor, sinceRequest, refresh, refreshOf,
                   tries, sleepFor, quiet, canceled>>

UseCachedToken(c) ==
    /\ Goto(c, "lock", "idle")
    /\ Fresh
    /\ outcome' = [outcome EXCEPT ![c] = cachedToken]
    /\ UNCHANGED <<cachedToken, validFor, sinceRequest, refresh, refreshOf,
                   tries, sleepFor, quiet, canceled>>

JoinRefresh(c) ==
    /\ Goto(c, "lock", "wait")
    /\ ~Fresh
    /\ refresh # None
    /\ refreshOf' = [refreshOf EXCEPT ![c] = refresh]
    /\ outcome' = [outcome EXCEPT ![c] = Pending]
    /\ UNCHANGED <<cachedToken, validFor, sinceRequest, refresh, tries,
                   sleepFor, quiet, canceled>>

\* Variant: a second leader while a refresh is under way.
LeadAnyway(c) ==
    /\ Goto(c, "lock", "fetch")
    /\ ~Fresh
    /\ refresh' = c
    /\ UNCHANGED <<cachedToken, validFor, sinceRequest, refreshOf, outcome,
                   tries, sleepFor, quiet, canceled>>

\* Variant: lead whenever nobody does, without a look at the cached token.
LeadUnasked(c) ==
    /\ Goto(c, "lock", "fetch")
    /\ refresh = None
    /\ refresh' = c
    /\ UNCHANGED <<cachedToken, validFor, sinceRequest, refreshOf, outcome,
                   tries, sleepFor, quiet, canceled>>

LeadRefresh(c) ==
    /\ Goto(c, "lock", "fetch")
    /\ ~Fresh
    /\ refresh = None
    /\ refresh' = c
    /\ UNCHANGED <<cachedToken, validFor, sinceRequest, refreshOf, outcome,
                   tries, sleepFor, quiet, canceled>>

(* waitForRefresh: select picks either ready case.                          *)

\* Variant: a waiter goes back to see what the refresh has left in the cache.
WaitDoneLooksAgain(c) ==
    /\ Goto(c, "wait", "lock")
    /\ outcome[c] # Pending
    /\ refreshOf' = [refreshOf EXCEPT ![c] = None]
    /\ outcome' = [outcome EXCEPT ![c] = NoToken]
    /\ UNCHANGED <<cachedToken, validFor, sinceRequest, refresh,
                   tries, sleepFor, quiet, canceled>>

WaitDone(c) ==
    /\ Goto(c, "wait", "idle")
    /\ outcome[c] # Pending
    /\ refreshOf' = [refreshOf EXCEPT ![c] = None]
    /\ UNCHANGED <<cachedToken, validFor, sinceRequest, refresh, outcome,
                   tries, sleepFor, quiet, canceled>>

WaitCanceled(c) ==
    /\ Goto(c, "wait", "idle")
    /\ c \in canceled
    /\ refreshOf' = [refreshOf EXCEPT ![c] = None]
    /\ outcome' = [outcome EXCEPT ![c] = Canceled]
    /\ UNCHANGED <<cachedToken, validFor, sinceRequest, refresh, tries,
                   sleepFor, quiet, canceled>>

----------------------------------------------------------------------------
(* fetchAccessToken, run by the leader with the leader's ctx.               *)

\* Variant: sleep as long as the last request is ago.
FetchStartTooSoon(c) ==
    /\ phase[c] = "fetch"
    /\ \/ /\ sinceRequest < RequestGap
          /\ phase' = [phase EXCEPT ![c] = "gap"]
          /\ sleepFor' = [sleepFor EXCEPT ![c] = sinceRequest]
       \/ /\ sinceRequest = RequestGap
          /\ phase' = [phase EXCEPT ![c] = "request"]
          /\ UNCHANGED sleepFor
    /\ UNCHANGED <<cachedToken, validFor, sinceRequest, refresh, refreshOf,
                   outcome, tries, quiet, canceled>>

FetchStart(c) ==
    /\ phase[c] = "fetch"
    /\ \/ /\ sinceRequest < RequestGap
          /\ phase' = [phase EXCEPT ![c] = "gap"]
          /\ sleepFor' = [sleepFor EXCEPT ![c] = RequestGap - sinceRequest]
       \/ /\ sinceRequest = RequestGap
          /\ phase' = [phase EXCEPT ![c] = "request"]
          /\ UNCHANGED sleepFor
    /\ UNCHANGED <<cachedToken, validFor, sinceRequest, refresh, refreshOf,
                   outcome, tries, quiet, canceled>>

SleepElapsed(c) ==
    /\ phase[c] \in {"gap", "backoff"}
    /\ sleepFor[c] = 0
    /\ phase' = [phase EXCEPT ![c] = "request"]
    /\ UNCHANGED <<cachedToken, validFor, sinceRequest, refresh, refreshOf,
                   outcome, tries, sleepFor, quiet, canceled>>

SleepCanceled(c) ==
    /\ phase[c] \in {"gap", "backoff"}
    /\ c \in canceled
    /\ phase' = [phase EXCEPT ![c] = "publish"]
    /\ outcome' = [outcome EXCEPT ![c] = Canceled]
    /\ sleepFor' = [sleepFor EXCEPT ![c] = 0]
    /\ quiet' = [quiet EXCEPT ![c] = 0]
    /\ UNCHANGED <<cachedToken, validFor, sinceRequest, refresh, refreshOf,
                   tries, canceled>>

SendTokenRequest(c) ==
    /\ Goto(c, "request", "reply")
    /\ sinceRequest' = 0
    /\ UNCHANGED <<cachedToken, validFor, refresh, refreshOf, outcome, tries,
                   sleepFor, quiet, canceled>>

TokenIssued(c, t) ==
    /\ Goto(c, "reply", "publish")
    /\ outcome' = [outcome EXCEPT ![c] = t]
    /\ UNCHANGED <<cachedToken, validFor, sinceRequest, refresh, refreshOf,
                   tries, sleepFor, quiet, canceled>>

\* A transport error, a status that is neither 2xx nor retryable, a body that does
\* not decode or lacks access_token or expires_in.  The error of a request may wrap
\* that of a done ctx, or of the HTTP client's timeout; nothing in the code asks.
TokenRefused(c) ==
    /\ Goto(c, "reply", "publish")
    /\ outcome' = [outcome EXCEPT ![c] = Failed]
    /\ UNCHANGED <<cachedToken, validFor, sinceRequest, refresh, refreshOf,
                   tries, sleepFor, quiet, canceled>>

\* client.sleep(ctx, retryDelay(...)).
SleepBeforeRetry(c) ==
    \E throttled \in BOOLEAN, header \in RetryAfters :
       /\ \E d \in retryDelay(throttled, header, tries[c]) :
             sleepFor' = [sleepFor EXCEPT ![c] = d]
       /\ quiet' = [quiet EXCEPT ![c] = AskedSilence(throttled, header)]

\* 429 or 5xx: sleep and try again, or give up on the last attempt.
TokenThrottled(c) ==
    /\ phase[c] = "reply"
    /\ \/ /\ tries[c] < MaxRetries
          /\ phase' = [phase EXCEPT ![c] = "backoff"]
          /\ tries' = [tries EXCEPT ![c] = @ + 1]
          /\ SleepBeforeRetry(c)
          /\ UNCHANGED outcome
       \/ /\ tries[c] >= MaxRetries
          /\ phase' = [phase EXCEPT ![c] = "publish"]
          /\ outcome' = [outcome EXCEPT ![c] = Failed]
          /\ UNCHANGED <<tries, sleepFor, quiet>>
    /\ UNCHANGED <<cachedToken, validFor, sinceRequest, refresh, refreshOf,
                   canceled>>

\* Variant: an error clears the refresh but leaves done open.
PublishTokensOnly(c) ==
    /\ Goto(c, "publish", "idle")
    /\ IF outcome[c] \in Tokens
          THEN /\ cachedToken' = outcome[c]
               /\ validFor' \in Lifetimes
               /\ outcome' = [d \in Callers |->
                     IF refreshOf[d] = c /\ outcome[d] = Pending THEN outcome[c] ELSE outcome[d]]
          ELSE UNCHANGED <<cachedToken, validFor, outcome>>
    /\ refresh' = None
    /\ tries' = [tries EXCEPT ![c] = 0]
    /\ UNCHANGED <<sinceRequest, refreshOf, sleepFor, quiet, canceled>>

\* Variant: waiters read authState.accessToken instead of refresh.token.
PublishCachedToken(c) ==
    /\ Goto(c, "publish", "idle")
    /\ IF outcome[c] \in Tokens
          THEN cachedToken' = outcome[c] /\ validFor' \in Lifetimes
          ELSE UNCHANGED <<cachedToken, validFor>>
    /\ refresh' = None
    /\ outcome' = [d \in Callers |->
          IF refreshOf[d] = c /\ outcome[d] = Pending THEN cachedToken' ELSE outcome[d]]
    /\ tries' = [tries EXCEPT ![c] = 0]
    /\ UNCHANGED <<sinceRequest, refreshOf, sleepFor, quiet, canceled>>

\* The last critical section of accessToken: store the result in the
\* tokenRefresh, cache a token, clear authState.refresh and close done, which
\* hands refresh.token and refresh.err to everyone that holds this refresh.
Publish(c) ==
    /\ Goto(c, "publish", "idle")
    /\ \/ /\ outcome[c] \in Tokens
          /\ cachedToken' = outcome[c]
          /\ validFor' \in Lifetimes
       \/ /\ outcome[c] \in Errors
          /\ UNCHANGED <<cachedToken, validFor>>
    /\ refresh' = None
    /\ outcome' = [d \in Callers |->
          IF refreshOf[d] = c /\ outcome[d] = Pending THEN outcome[c] ELSE outcome[d]]
    /\ tries' = [tries EXCEPT ![c] = 0]
    /\ UNCHANGED <<sinceRequest, refreshOf, sleepFor, quiet, canceled>>

----------------------------------------------------------------------------
(* invalidateAccessToken: clears whatever token is cached, without looking  *)
(* at which token the 401 was about.                                        *)

ClearToken ==
    /\ cachedToken' = NoToken
    /\ validFor' = 0

Invalidate(c) ==
    /\ phase[c] = "idle"
    /\ outcome[c] \in Tokens
    /\ ClearToken
    /\ UNCHANGED <<sinceRequest, refresh, phase, refreshOf, outcome, tries,
                   sleepFor, quiet, canceled>>

(* The environment: a call's ctx ends, or time passes.                      *)

CtxDone(c) ==
    /\ c \notin canceled
    /\ canceled' = canceled \cup {c}
    /\ UNCHANGED <<cachedToken, validFor, sinceRequest, refresh, phase,
                   refreshOf, outcome, tries, sleepFor, quiet>>

Decrement(n) == IF n > 0 THEN n - 1 ELSE 0

Tick ==
    /\ validFor' = Decrement(validFor)
    /\ sinceRequest' = IF sinceRequest < RequestGap THEN sinceRequest + 1 ELSE RequestGap
    /\ sleepFor' = [c \in Callers |-> Decrement(sleepFor[c])]
    /\ quiet' = [c \in Callers |-> Decrement(quiet[c])]
    /\ UNCHANGED <<cachedToken, refresh, phase, refreshOf, outcome, tries, canceled>>

\* Between two calls a goroutine may move on to an operation with its own ctx.
NewCtx(c) ==
    /\ phase[c] = "idle"
    /\ canceled' = canceled \ {c}
    /\ UNCHANGED <<cachedToken, validFor, sinceRequest, refresh, phase,
                   refreshOf, outcome, tries, sleepFor, quiet>>

\* What the goroutine of c does inside accessToken, with a server that may
\* issue the tokens of issuable.
AuthStep(c, issuable) ==
    \/ UseCachedToken(c) \/ JoinRefresh(c) \/ LeadRefresh(c)
    \/ WaitDone(c) \/ WaitCanceled(c)
    \/ FetchStart(c) \/ SleepElapsed(c) \/ SleepCanceled(c)
    \/ SendTokenRequest(c)
    \/ \E t \in issuable : TokenIssued(c, t)
    \/ TokenRefused(c) \/ TokenThrottled(c)
    \/ Publish(c)

Next ==
    \/ \E c \in Callers :
          \/ CallAccessToken(c) \/ AuthStep(c, Tokens \ AuthTokens)
          \/ Invalidate(c) \/ CtxDone(c) \/ NewCtx(c)
    \/ Tick

Spec == AuthInit /\ [][Next]_authVars

\* The Go scheduler runs every runnable goroutine, the HTTP client times each
\* request out (wholeRequestTimeout), and time passes.
Fairness ==
    /\ WF_authVars(Tick)
    /\ \A c \in Callers : WF_authVars(AuthStep(c, Tokens \ AuthTokens))

FairSpec == Spec /\ Fairness

----------------------------------------------------------------------------
(* Properties.                                                              *)

TypeOK ==
    /\ cachedToken \in Tokens \cup {NoToken}
    /\ validFor \in Nat
    /\ sinceRequest \in 0..RequestGap
    /\ refresh \in Callers \cup {None}
    /\ phase \in [Callers -> Phases]
    /\ refreshOf \in [Callers -> Callers \cup {None}]
    /\ outcome \in [Callers -> Outcomes]
    /\ tries \in [Callers -> 0..MaxRetries]
    /\ sleepFor \in [Callers -> Sleeps]
    /\ quiet \in [Callers -> Nat]
    /\ canceled \subseteq Callers

Waiting(c) == phase[c] = "wait" /\ outcome[c] = Pending

\* At most one goroutine is inside fetchAccessToken, and authState.refresh is
\* exactly that goroutine's tokenRefresh (TestClientSerializesConcurrentTokenRequests).
OneRefresh == \A c \in Callers : phase[c] \in Fetching <=> refresh = c

\* Nobody blocks on the done channel of a tokenRefresh that no goroutine will
\* close: a waiter whose refresh is open holds the one in authState.refresh.
NoAbandonedWaiter ==
    \A c \in Callers : Waiting(c) => refreshOf[c] = refresh /\ refresh # None

\* While a token is being fetched no usable one is cached, whatever 401s,
\* expiries and earlier refreshes did meanwhile: no token request is wasted.
NoRedundantRefresh == refresh # None => ~Fresh

\* The first attempt of every fetch comes at least tokenRequestGap after the
\* previous token request, whoever sent that one, although lastRequest is read
\* in a critical section of its own before the sleep.
GapBetweenRefreshes ==
    \A c \in Callers : phase[c] = "request" /\ tries[c] = 0 => sinceRequest = RequestGap

\* A token request is repeated only when the silence is over that the answer to
\* the last one asked for with a 429, with or without a Retry-After (seconds or
\* a date), at most maxRetrySleep of it (TestClientCapsRetryAfter,
\* TestRetryDelay429WithoutRetryAfterUsesMinimum).
HonoursRetryAfter == \A c \in Callers : phase[c] = "request" => quiet[c] = 0

\* From its call until it returns accessToken comes only closer to its end: the
\* number of phases a goroutine may still go through, which starts at
\* 3 * MaxRetries + 6, is a natural number that nothing makes grow.  A leader is
\* not throttled for ever, and a waiter whose refresh ends is not sent back to
\* the lock, to wait for the next one.
RetriesLeft(c) == MaxRetries - tries[c]
StepsLeft(c) ==
    CASE phase[c] = "lock"             -> 3 * MaxRetries + 6
      [] phase[c] = "fetch"            -> 3 * RetriesLeft(c) + 5
      [] phase[c] \in {"gap", "backoff"} -> 3 * RetriesLeft(c) + 4
      [] phase[c] = "request"          -> 3 * RetriesLeft(c) + 3
      [] phase[c] = "reply"            -> 3 * RetriesLeft(c) + 2
      [] phase[c] \in {"wait", "publish"} -> 1
      [] OTHER                         -> 0
CallsOnlyGoForward ==
    [][\A c \in Callers : phase[c] # "idle" =>
          IF phase'[c] = phase[c] THEN StepsLeft(c)' = StepsLeft(c)
                                 ELSE StepsLeft(c)' \in 0..(StepsLeft(c) - 1)]_authVars

\* The strengthening of the invariants above that every step preserves.
PendingOnlyInWait == \A c \in Callers : outcome[c] = Pending => phase[c] = "wait"
NoAnswerYet == \A c \in Callers : phase[c] = "lock" => outcome[c] = NoToken
GapSleepIsEnough ==
    \A c \in Callers : phase[c] = "gap" => sinceRequest + sleepFor[c] >= RequestGap
BackoffIsRetry == \A c \in Callers : phase[c] = "backoff" => tries[c] > 0
QuietOnlyInBackoff ==
    \A c \in Callers : IF phase[c] = "backoff" THEN quiet[c] <= sleepFor[c] ELSE quiet[c] = 0

AuthInv ==
    /\ TypeOK
    /\ OneRefresh
    /\ NoAbandonedWaiter
    /\ NoRedundantRefresh
    /\ GapBetweenRefreshes
    /\ HonoursRetryAfter
    /\ PendingOnlyInWait /\ NoAnswerYet /\ GapSleepIsEnough /\ BackoffIsRetry
    /\ QuietOnlyInBackoff

\* The token cache implements a memoised single flight.
RoleOf(c) ==
    IF phase[c] \in Fetching THEN "leads"
    ELSE IF phase[c] # "wait" THEN "out"
    ELSE IF outcome[c] = Pending THEN "joined" ELSE "landed"

AnswerOf(c) ==
    IF outcome[c] = Pending \/ phase[c] \in Fetching THEN NoToken ELSE outcome[c]

Flight == INSTANCE SingleFlight WITH
    Nothing <- NoToken,
    role <- [c \in Callers |-> RoleOf(c)],
    answer <- [c \in Callers |-> AnswerOf(c)],
    memo <- cachedToken

ImplementsSingleFlight == Flight!FlightSpec

\* Every call of accessToken returns: a failing, throttled or canceled leader
\* still releases its waiters, and a waiter never waits for a refresh that ended.
EveryCallReturns == \A c \in Callers : phase[c] # "idle" ~> phase[c] = "idle"
============================================================================
