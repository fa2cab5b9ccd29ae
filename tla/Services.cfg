SPECIFICATION Spec
CONSTANTS
    s1 = s1
    q1 = q1
    q2 = q2
    q3 = q3
    k1 = k1
    k2 = k2
    b1 = b1
    b2 = b2
    Slots = {s1}
    SlotRuns = {q1, q2, q3}
    NoSlot = NoSlot
    NoOwner = NoOwner
    LongRuns = FALSE
    SlotCancels = 1
    SlotCrashes = 1
    WatchedRuns = {q1, q2, q3}
    FirstRuns = {q1}
    NoWatched = NoWatched
    MaxAutoRetries = 1
    MaxRetriesPerDay = 2
    MaxResets = 1
    MaxExpiries = 2
    EventKeys = {k1, k2}
    Homeless = {k2}
    Batches = {b1, b2}
    NoKey = NoKey
    MaxPending = 2
    MaxDeferred = 1
    MaxDaily = 1
    MaxArrivals = 3
    MaxMishaps = 1
    MaxWorkflow = 3
    PollerCrashes = 1
    FixRounds = 2
    InnerRounds = 3
    LocalTest = TRUE
    BailEnabled = TRUE
    WarnOnExhausted = FALSE
    AgentCommits = 1
    Pipelines <- MCPipelines
    MaxGotos = 1
    MaxRounds = 2
    DockerFaults = 1
    a1 = a1
    a2 = a2
    Calls = {a1, a2}
    MaxRows = 2
    MaxAsked = 2
    MaxBehind = 0
    MergeLimit = 2
    PushLimit = 2
INVARIANTS
    ServicesTypeOK
    
    RetryDepth
    BudgetKept
    ActsOncePerBatch
    ReportedOnce
    VerdictOnLastPush
    FailureReported
    NoStrayContainer
    CiSeesPush
    WaitsForSomebody
    DeliveryIsFinal
PROPERTIES
    SlotsComeBack
    NoUngatedPush
    PushesKeepChanges
    CurrentRoundReviewed
    CiLoopEnds
    EngineEnds
CHECK_DEADLOCK FALSE
