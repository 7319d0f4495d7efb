SPECIFICATION Spec
CHECK_DEADLOCK FALSE

CONSTANTS
    c1 = c1
    c2 = c2
    c3 = c3
    clean = clean
    tainted = tainted
    NoCall = NoCall
    Chunks <- Packs
    Tainted <- TaintedChunks
    Bucket <- Buckets
    BaseThreshold = 6500
    HighRiskBump = 501
    MaxAutoEscalation = 55
    AbstainEscalation = 80
    LowerBound = 500
    UpperBound = 9800
    ForceHandoffOnFallback = TRUE
    Calls <- TwoCalls
    LookupAnswers = TRUE
    Requests <- OneRequest
    EvidenceScores <- Score80
    Primary <- OneOfEach
    Challenger <- GoodPrediction
    ShadowEnabled = FALSE
    CanaryPercents <- NoCanary
    UseOpa = FALSE
    GenerationFailOpen = TRUE
    MaxInFlight = 2
    MaxCrashes = 0
    Faults <- NoFaults
INVARIANT AtMostOneHandoff
