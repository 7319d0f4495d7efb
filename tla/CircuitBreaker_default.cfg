SPECIFICATION BreakerFairSpec
CONSTANTS
    Clients = {t1, t2}
    FailureThreshold = 5
    HalfOpenMaxCalls = 1
    SuccessThreshold = 2
    CounterCap = 5
    CallsCancelled = FALSE
PROPERTY Recovers
