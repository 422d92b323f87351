SPECIFICATION FairSpec
CONSTANTS
    None = None
    MaxVersion = 2
    MaxChanges = 3
    MaxFaults = 1
    MaxQueue = 2
    MaxTime = 2
    Feature = {TRUE, FALSE}
    AckError = {"SENSOR_NOT_READY", "APPLY_FAILED"}
    Audited = {}
    TelemetryResults = {TRUE}
    MaxEvents = 0
    MayBeDelayed = {1}
    MayBeAhead = {2}
    MayBeLarge = {1}
    MaxSpool = 1
    BatchSize = 1
    MaxSends = 0
CHECK_DEADLOCK FALSE
INVARIANTS
    QuietMeansCurrent
PROPERTIES
    PolicyAnswered
