SPECIFICATION Spec
CONSTANTS
    p1 = p1
    None = None
    Profile = {p1}
    WorkerRules <- OneRule
    RefreshRules <- OneRule
    Server = {"gateway"}
    Handler = {h1, h2}
    ManualKey = {m1}
    Interval = 1
    Window = 1
    Freshness = 1
    MaxTime = 1
CHECK_DEADLOCK FALSE
SYMMETRY HandlerSymmetry
INVARIANTS
    OneRefresh
    InsertsUnique
