SPECIFICATION Spec
CONSTANTS
    a1 = a1
    a2 = a2
    t1 = t1
    t2 = t2
    Admins = {a1, a2}
    Targets = {t1, t2}
    NoDeployment = NoDeployment
    MaxModels = 2
    MaxDeployments = 5
SYMMETRY Symmetry
CHECK_DEADLOCK FALSE
INVARIANTS
    NewestIsActive
    SecondActiveIsExplained
    RollbackIsShown
