SPECIFICATION Spec
CONSTANTS
    w1 = w1
    a1 = a1
    c1 = c1
    k1 = k1
    k2 = k2
    t1 = t1
    NoTurnaround = NoTurnaround
    NoJob = NoJob
    Turnarounds = {t1}
    Jobs <- OneJob
    Workers = {w1}
    RunThreads = {a1}
    CancelThreads = {c1}
    TurnaroundOf <- SharedTurnaround
    FramesOf <- TwoFrames
    AlertKeys = {k1, k2}
    MilestoneTypes <- OnBlockOnly
    Tracks = {1}
    SampleEvery = 1
    ReportEvery = 2
    RunsQueuedJobs = FALSE
    VideosExpire = TRUE
    MaxAbandoned = 1
    MaxCrashes = 2
    MaxStops = 0
INVARIANTS
    OneResultSet
PROPERTIES
    ImplementsLifecycle
    CancelIsFinal
CHECK_DEADLOCK FALSE
