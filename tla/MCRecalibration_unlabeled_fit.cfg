SPECIFICATION RecalibrationSpec
\* Calendar, jobs and runs are bounded: the system comes to an end.
CHECK_DEADLOCK FALSE
CONSTANTS
    r1 = r1
    NoResult = NoResult
    NoTruth = NoTruth
    NoMetrics = NoMetrics
    Requests <- OneRequest
    j1 = j1
    j2 = j2
    refund = refund
    NoRoute = NoRoute
    Routes <- OneRoute
    Predictions <- Escalation
    LastDay = 2
    Truths <- Escalation
    MaxShadows = 0
    Jobs <- OneJob
    MaxJobs = 2
    BaselineDays = 1
    LookbackDays = 1
    MaxRuns = 1
PROPERTY FitsOnLabelledTraffic
