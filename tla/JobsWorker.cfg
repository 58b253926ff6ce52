SPECIFICATION FairSpec
CONSTANTS
    w1 = w1
    a1 = a1
    c1 = c1
    k1 = k1
    k2 = k2
    t1 = t1
    NoTurnaround = NoTurnaround
    NoJob = NoJob
    Turnarounds = {t1}
    Jobs <- TwoJobs
    Workers = {w1}
    RunThreads = {}
    CancelThreads = {c1}
    TurnaroundOf <- SharedTurnaround
    FramesOf <- TwoThenOne
    AlertKeys = {}
    MilestoneTypes <- OnBlockOnly
    Tracks = {1, 2}
    SampleEvery = 2
    ReportEvery = 1
    RunsQueuedJobs = FALSE
    VideosExpire = FALSE
    MaxAbandoned = 1
    MaxCrashes = 0
    MaxStops = 1
INVARIANTS
    MilestonesFromOneRun
PROPERTIES
    JobsEnd
    EarlyCancelWins
CHECK_DEADLOCK FALSE
