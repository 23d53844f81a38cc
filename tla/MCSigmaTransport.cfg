SPECIFICATION DoSpec
CONSTANTS
    Callers = {c1, c2}
    Tokens = {t1, t2, t3, t4}
    None = None
    MaxRetries = 1
    RequestGap = 1
    Lifetimes = {1}
    Base = 2
    Minimum429 = 0
    MaxSleep = 1
    Second = 1
    MaxDuration = 7
    RetryAfters <- NoRetryAfter
    Methods = {"DELETE", "POST"}
SYMMETRY Symmetry
INVARIANTS SendBudget NonIdempotentAtMostOnce RetryUsesNewToken UnauthorizedOnlyAfterRefresh
PROPERTIES UsesAuthAsSpecified ImplementsCall DoOnlyGoesForward
