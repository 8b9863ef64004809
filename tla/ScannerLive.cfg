SPECIFICATION FairSpec
CONSTANTS
    IPs = {x}
    Healthy = {}
    OnDemand = {x}
    Workers = {w1}
    FlushSize = 2
    Heartbeat = 2
    MaxTime = 3
    MaxFaults = 1
    MayStop = TRUE
    None = None
PROPERTIES
    SuccessDelivered
    PruneHappens
    Stops
CHECK_DEADLOCK FALSE
