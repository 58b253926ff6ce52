SPECIFICATION Spec
CONSTANTS
    w1 = w1
    a1 = a1
    c1 = c1
    k1 = k1
    k2 = k2
    t1 = t1
    NoTurnaround = NoTurnaround
    NoJob = NoJob
    Turnarounds = {t1}
    Jobs <- OneJob
    Workers = {w1}
    RunThreads = {a1}
    CancelThreads = {c1}
    TurnaroundOf <- SharedTurnaround
    FramesOf <- OneFrame
    AlertKeys = {k1}
    MilestoneTypes <- AnyType
    Tracks = {1}
    SampleEvery = 1
    ReportEvery = 1
    RunsQueuedJobs = TRUE
    VideosExpire = FALSE
    MaxAbandoned = 0
    MaxCrashes = 1
    MaxStops = 0
INVARIANTS
    CompletedHasResults
    NoPartialResults
    OnStandIffAircraftOnBlock
PROPERTIES
    FlagIsNeverLost
CHECK_DEADLOCK FALSE
