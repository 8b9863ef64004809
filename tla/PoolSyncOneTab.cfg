SPECIFICATION FairSpec
CONSTANTS
    IPs = {x, y}
    Vals = {a, b}
    NoRow = NoRow
    Tabs = {t1}
    MaxVersion = 3
    MaxFailures = 1
INVARIANTS
    SnapshotExact
PROPERTIES
    CatchesUp
