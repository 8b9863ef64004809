SPECIFICATION Spec
CONSTANTS
    g = g
    f = f
    h = h
    s = s
    IPs = {g, f}
    Hosts = {h, s}
    Sibling <- MCSibling
    Families <- MCFamilies
    Routes <- MCRoutes
    n = n
    Records <- MCRecords
    Visitors <- MCVisitors
    None = None
    NoEntry = NoEntry
    Requests = {r1, r2}
    Limit = 1
    Window = 2
    TTL = 0
    MinTTL = 1
    Timeout = 1
    MaxTime = 3
    MaxRenames = 1
    MaxFaults = 1
SYMMETRY Symmetry
INVARIANTS
    TypeOK
    LimitExcess
    
    ServedRecent
    HostComplete
