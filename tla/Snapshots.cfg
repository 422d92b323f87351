SPECIFICATION FairRetention
CONSTANTS
    k1 = k1
    k2 = k2
    k3 = k3
    k4 = k4
    x = x
    y = y
    None = None
    Key = {k1, k2, k3, k4}
    Result = {1, 2, 3, 4, 5, 6, 7}
    Body = {x, y}
    ProfileOf <- EveryKind
    KeyOf <- KindOf
    Carries <- Observations
    Scheduled = {1}
    MayEnd = {1}
    MayPin = {1}
    Limit = 1
    Window = 1
    TTL = 0
    Skew = 1
    MaxTime = 1
INVARIANTS
    PinnedStored
    CurrentNewest
PROPERTIES
    PreviousKept
    PointerOnlyForNewer
    HotHistoryDrains
