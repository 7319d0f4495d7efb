SPECIFICATION ServicesSpec
CONSTANTS
    c1 = c1
    c2 = c2
    tA = tA
    decide = decide
    Calls <- TwoCalls
    Tokens <- SomeTokens
    Permissions <- OnePermission
    TenantIds <- OneTenant
    AuthEnabled = TRUE
    TenantLimit = 2
    UserLimit = 1
    WindowTicks = 4
    Second = 2
    RedisFails = TRUE
    Skew = 0
    MaxDelay = 1
    MaxTime = 6
    MaxCharges = 4
    s0 = s0
    s1 = s1
    w1 = w1
    w2 = w2
    rt1 = rt1
    anySection = anySection
    AnySection <- anySection
    Chunks <- SomeChunks
    Versions <- TwoVersions
    Reloaders <- TwoReloaders
    Retrievers <- OneRetriever
    Queries <- SomeQueries
    MaxReloads = 3
    h1 = h1
    h2 = h2
    h3 = h3
    q1 = q1
    q2 = q2
    Handoffs <- SomeHandoffs
    Tenants <- SomeTenants
    Requests <- SomeRequests
    RequestOf <- SomeRequestOf
    TenantOf <- SomeTenantOf
    UuidRequests <- FirstIsUuid
    Unreadable <- SecondUnreadable
    Decisions <- TwoDecisions
    None = None
    Patchers = {u1, u2}
    MaxEvents = 3
    m1 = m1
    m2 = m2
    m3 = m3
    Migrators <- ThreeMigrators
    Files <- SomeFiles
    MaxRuns = 1
    a1 = a1
    a2 = a2
    a3 = a3
    Artifacts <- ThreeArtifacts
    Types <- TwoTypes
    TypeOf <- TheirTypes
    Stages <- SomeStages
    MaxLineage = 5
    p1 = p1
    p2 = p2
    r1 = r1
    r2 = r2
    r3 = r3
    Pods <- TwoPods
    Readers <- ThreeReaders
    PodOf <- TheirPods
    CacheTtl = 2
    FetchTime = 1
    MaxRotations = 1
    MaxTicks = 4
    Backends <- TwoBackends
    Enabled <- DatabaseOnly
    ModelFiles <- FourArtifacts
    Replaced <- OneCalibration
    MaxStarts = 2
SYMMETRY Alike
\* The clocks, the runs and the lineage are bounded.
CHECK_DEADLOCK FALSE
INVARIANT AdmissionBounded
INVARIANT StalenessBounded
INVARIANT WholeVersions
INVARIANT EmptyOnlyIfDisturbed
INVARIANT LedgerIsSchema
INVARIANT OneInProduction
INVARIANT LineageExplains
INVARIANT ClosedHasGroundTruth
INVARIANT OutcomesMirrored
INVARIANT FlagTellsTruth
INVARIANT FallbackFollowsFailure
PROPERTY RefusalsJustified
PROPERTY LatestPatchDecides
