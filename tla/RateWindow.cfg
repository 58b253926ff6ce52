SPECIFICATION LimiterSpec
CONSTANTS
    c1 = c1
    c2 = c2
    Clients = {c1, c2}
    Limit = 2
    Window = 2
    MaxTime = 6
    MaxCalls = 4
SYMMETRY Symmetry
CHECK_DEADLOCK FALSE
INVARIANTS
    LimitIsExact
