SPECIFICATION Spec
CONSTANTS
    r1 = r1
    r2 = r2
    Reviewers = {r1, r2}
    Types <- AllTypes
    Times = {1, 2}
    NoType = NoType
    Findings <- SomeFindings
    Corrections <- SomeCorrections
    MaxJobs = 2
    MaxAlerts = 1
    MaxCorrections = 2
SYMMETRY Symmetry
CHECK_DEADLOCK FALSE
INVARIANTS
    OriginalIsKept
    RowsOfOneTypeAreExplained
    OnStandIsExplained
    ReadinessNeedsReviewers
    ReportIsOfWholeJobs
