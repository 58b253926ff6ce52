SPECIFICATION Spec
CONSTANTS
    r1 = r1
    r2 = r2
    Runners = {r1, r2}
    Jobs = {1}
    Keys = {1, 2}
    PrefixOf <- MCPrefixOf
    RawDays = 0
    EvidenceDays = 0
    MaxRuns = 2
    MaxDays = 1
SYMMETRY Symmetry
INVARIANTS
    TypeOK
    SerialEvidenceIsIntact
    RowsGoWithFiles
CHECK_DEADLOCK FALSE
