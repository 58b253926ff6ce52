SPECIFICATION Spec
CONSTANTS
    Classes <- MCClasses
    Places <- MCPlaces
    MaxDistance = 2
    MaxMissed = 1
    Rules <- MCRules
    MetricScale = TRUE
    MilestoneRules <- MCMilestoneRules
    Scenes <- MCScenes
    FrameTime = 1
    MaxFrames = 6
    BucketWidth = 5
    EvidenceBefore = 3
    EvidenceAfter = 2
    EventNames <- MCEventNames
    GroundTruths <- MCGroundTruths
    Tolerance = 1
INVARIANTS
    TracksPartitionDetections
    TracksSurviveOcclusion
    AlertsAreDebounced
    LastingPresenceIsReported
    AlertsKeepCooldown
    MilestonesMatchTracks
    DroppedAlertIsExplained
    EvidenceIsExplained
    EvaluationIsSound
CHECK_DEADLOCK FALSE
