SPECIFICATION ServiceSpec
CONSTANTS
    d1 = d1
    d2 = d2
    k1 = k1
    k2 = k2
    None = None
    Devices = {d1, d2}
    Keys = {k1, k2}
    Builds = {1, 2}
    MaxRollouts = 2
    MaxPauses = 2
SYMMETRY RolloutSymmetry
INVARIANTS OneOwner ReportsMatch OverTogether
PROPERTIES CancelsWhatWasRead
CHECK_DEADLOCK FALSE
