SPECIFICATION Spec
CONSTANTS
    IPs = {x}
    NoRow = NoRow
    Requests = {r1, r2}
    Retention = 1
    Window = 1
    OnDemand = {x}
    Slow = TRUE
    MaxTime = 3
    MaxRetries = 0
    MaxZombies = 1
    MaxDrops = 1
    MaxPTR = 1
SYMMETRY Symmetry
INVARIANTS
    SuccessInPool
PROPERTIES
    EvictsOnlyDead
    Revisions
CHECK_DEADLOCK FALSE
