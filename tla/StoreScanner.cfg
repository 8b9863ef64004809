SPECIFICATION FairSpec
CONSTANTS
    IPs = {x}
    NoRow = NoRow
    Requests = {r1}
    Retention = 2
    Window = 1
    OnDemand = {}
    Slow = FALSE
    MaxTime = 6
    MaxRetries = 1
    MaxZombies = 0
    MaxDrops = 0
    MaxPTR = 0
INVARIANTS
    TypeOK
    StatusIsNewest
    CountCovers
    PruneComplete
PROPERTIES
    SuccessLands
CHECK_DEADLOCK FALSE
