SPECIFICATION WaitingSpec
CONSTANTS
    Callers = {t1, t2, t3, t4}
    MaxConcurrent = 2
    Cancellation = TRUE
    WaitingCap = 5
    Clients = {b1, b2, b3}
    FailureThreshold = 2
    HalfOpenMaxCalls = 2
    SuccessThreshold = 2
    CounterCap = 3
    CallsCancelled = TRUE
    workflow = workflow
    completed = completed
    created = created
    Order <- OneDecision
    Workflows <- ItsWorkflow
    Attempts = 2
\* A decision ends when its jobs have.
CHECK_DEADLOCK FALSE
INVARIANT SlotsConserved
INVARIANT ProbesBounded
INVARIANT ArrivalsInOrder
PROPERTY Fifo
PROPERTY WaitersServed
PROPERTY TurnsOnConsecutiveResults
PROPERTY Recovers
PROPERTY SendingImplemented
PROPERTY EveryDeliveryEnds
