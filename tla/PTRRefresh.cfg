SPECIFICATION FairSpec
CONSTANTS
    IPs = {x, a, b}
    Named = {a}
    Refused = {x}
    NoEntry = NoEntry
    Refreshes = {r1, r2}
    Limit = 2
    Chunk = 1
    IdSpace = 4
    MaxAdds = 3
    MaxFaults = 1
INVARIANTS
    TypeOK
    CacheTrue
    CheckedCached
PROPERTIES
    EveryoneChecked
