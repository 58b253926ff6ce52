SPECIFICATION FairSpec
CONSTANTS
    a1 = a1
    s1 = s1
    s2 = s2
    Events = {1, 2, 3}
    Foreign = {2}
    Malformed = {3}
    Agents = {a1}
    Slots = {s1, s2}
    NoAgent = NoAgent
    Limit = 2
    MaxAttempts = 2
    MaxFaults = 3
INVARIANTS
    NothingLost
    EventStoredOnce
PROPERTIES
    ImplementsStoreAndForward
    Drains
CHECK_DEADLOCK FALSE
