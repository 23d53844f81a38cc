SPECIFICATION OneRequestSpec
CONSTANTS
    Callers = {c1, c2}
    Tokens = {t1, t2}
    None = None
    MaxRetries = 1
    RequestGap = 1
    Lifetimes = {1}
    Base = 2
    Minimum429 = 0
    MaxSleep = 1
    Second = 1
    MaxDuration = 7
    RetryAfters <- NoRetryAfter
    Methods = {"POST", "PUT"}
PROPERTIES EveryRequestEnds EveryCallReturns
