SPECIFICATION Spec
CONSTANTS
    Callers = {c1, c2, c3}
    Tokens = {t1, t2, t3, t4}
    None = None
    MaxRetries = 1
    RequestGap = 2
    Lifetimes = {0, 2}
    Base = 1
    Minimum429 = 2
    MaxSleep = 3
    Second = 2
    MaxDuration = 7
    RetryAfters <- SomeRetryAfters
SYMMETRY Symmetry
INVARIANTS OneRefresh NoAbandonedWaiter NoRedundantRefresh GapBetweenRefreshes HonoursRetryAfter
PROPERTIES ImplementsSingleFlight CallsOnlyGoForward
