SPECIFICATION Spec
CONSTANTS
    a1 = a1
    a2 = a2
    z1 = z1
    NoZone = NoZone
    Admins = {a1, a2}
    Zones = {z1}
    MaxCalibrations = 3
    MaxRules = 1
SYMMETRY Symmetry
INVARIANTS
    LatestCalibrationIsActive
    SerialCalibrationsAgree
    RunIsNotOlderThanItsRules
