SPECIFICATION RecalibrationSpec
\* Calendar, jobs and runs are bounded: the system comes to an end.
CHECK_DEADLOCK FALSE
CONSTANTS
    r1 = r1
    NoResult = NoResult
    NoTruth = NoTruth
    NoMetrics = NoMetrics
    Requests <- OneRequest
    j1 = j1
    j2 = j2
    refund = refund
    NoRoute = NoRoute
    Routes <- OneRoute
    Predictions <- Escalation
    LastDay = 2
    Truths <- Escalation
    MaxShadows = 1
    Jobs <- TwoJobs
    MaxJobs = 2
    BaselineDays = 1
    LookbackDays = 1
    MaxRuns = 2
SYMMETRY JobSymmetry
INVARIANT DaysEvaluated
INVARIANT AnswersCountOnce
INVARIANT ReportsDescribeDataset
INVARIANT RecordedCalibrationInstalled
