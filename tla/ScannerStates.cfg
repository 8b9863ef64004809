SPECIFICATION Spec
CONSTANTS
    IPs = {x}
    Healthy = {}
    OnDemand = {}
    Workers = {w1, w2}
    FlushSize = 2
    Heartbeat = 3
    MaxTime = 4
    MaxFaults = 3
    MayStop = TRUE
    None = None
SYMMETRY Symmetry
INVARIANTS
    TypeOK
    
    HeartbeatFresh
    PruneRemembered
    FullBufferWakes
    StopsEmpty
CHECK_DEADLOCK FALSE
