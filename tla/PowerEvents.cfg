SPECIFICATION FairSpec
CONSTANTS
    None = None
    MaxRecords = 2
    MaxLogs = 1
    MaxExpired = 1
    PageSize = 2
    MaxQueue = 1
    BatchSize = 2
    MaxFaults = 1
    MaxFrames = 2
    MaxReports = 2
    MayBeMisdated = {1}
CHECK_DEADLOCK FALSE
INVARIANTS
    NothingSkipped
    PowerAccounted
PROPERTIES
    QueueDrains
