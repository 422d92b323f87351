SPECIFICATION FairSpec
CONSTANTS
    h = h
    None = None
    Devices = {h}
    Host = h
    Builds = {1, 2}
    Installed = 1
    MaxRollouts = 2
    MaxPauses = 1
    Canaries = {1}
    Pausable = {1}
    MaxFaults = 2
INVARIANTS ProvenOrRestorable AuthorityKept
PROPERTIES RequestReported
CHECK_DEADLOCK FALSE
