SPECIFICATION Spec
CONSTANTS
    IPs = {x}
    Healthy = {x}
    OnDemand = {}
    Workers = {w1}
    FlushSize = 2
    Heartbeat = 2
    MaxTime = 3
    MaxFaults = 0
    MayStop = TRUE
    None = None
PROPERTIES
    HealthyStaysUp
CHECK_DEADLOCK FALSE
