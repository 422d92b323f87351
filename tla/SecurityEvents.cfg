SPECIFICATION Spec
CONSTANTS
    None = None
    MaxVersion = 2
    MaxChanges = 2
    MaxFaults = 1
    MaxQueue = 2
    MaxTime = 3
    Feature = {TRUE}
    AckError = {}
    Audited = {1, 2}
    TelemetryResults = {TRUE, FALSE}
    MaxEvents = 2
    MayBeDelayed = {1}
    MayBeAhead = {2}
    MayBeLarge = {1}
    MaxSpool = 1
    BatchSize = 2
    MaxSends = 2
CHECK_DEADLOCK FALSE
INVARIANTS
    Accounted
PROPERTIES
    RotationKeepsEvents
    NotStoredAgain
