SPECIFICATION Spec
CONSTANTS
    c1 = c1
    c2 = c2
    k1 = k1
    Clients = {c1, c2}
    Alerts = {k1}
    ReviewStatuses = {"under_review", "resolved"}
    IncidentStatuses = {"under_review", "resolved"}
    NoStatus = NoStatus
    MaxRequests = 6
    MaxIncidents = 3
    MaxNotes = 1
SYMMETRY Symmetry
CHECK_DEADLOCK FALSE
INVARIANTS
    SecondIncidentIsExplained
    SerialAuditReplays
