SPECIFICATION FairWorker
CONSTANTS
    p1 = p1
    None = None
    Profile = {p1}
    WorkerRules <- OneRule
    RefreshRules <- NoRules
    Server = {"worker", "gateway"}
    Handler = {}
    ManualKey = {}
    Interval = 1
    Window = 1
    Freshness = 1
    MaxTime = 2
CHECK_DEADLOCK FALSE
PROPERTIES
    TransactionsEnd
    ScheduledExpire
