SPECIFICATION ReleaseSpec
CONSTANTS
    r1 = r1
    Runs <- OneRun
    MaxEvents = 6
    Windows <- SomeWindows
    RollbackOnFail = TRUE
    Lookups <- NoLookups
    Pods <- NoPods
    PodOf <- NoPodOf
    TTL = 0
    DefaultPercent = 0
    DbFails = FALSE
    MaxDays = 5
    DayKinds <- SomeDays
    WindowDays = 2
    BaselineDays = 1
    QualityDays = 2
    HistoryDays = 3
    LookbackDays = 1
    WeekDays = 2
    MinGroundTruth = 1
    CONTROL_MAX_AGE_DAYS <- ControlAges
    CalibrationMaxAge = 3
CHECK_DEADLOCK FALSE
INVARIANT ReleaseEarned
INVARIANT ReleasedRolloutStood
INVARIANT ReleaseNeedsPrimary
PROPERTY StageByStage
