SPECIFICATION Spec
CONSTANTS
    r1 = r1
    r2 = r2
    l1 = l1
    l2 = l2
    pod1 = pod1
    Runs <- TwoRuns
    MaxEvents = 3
    Windows <- TwoWindows
    RollbackOnFail = TRUE
    Lookups <- TwoLookups
    Pods <- OnePod
    PodOf <- SamePod
    TTL = 2
    DefaultPercent = 10
    DbFails = TRUE
SYMMETRY RunSymmetry
INVARIANT BoundedStaleness
INVARIANT LogMatchesRow
