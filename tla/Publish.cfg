SPECIFICATION FairSpec
CONSTANTS
    a = a
    b = b
    c = c
    d = d
    V4 = {d}
    V6 = {a, b, c}
    Pools <- MCPools
    NoRTT = NoRTT
    Isolates = {i1, i2}
    Limit = 2
    Flaky = {4}
    MaxFaults = 1
INVARIANTS
    TypeOK
PROPERTIES
    NeverBare
    Converges
