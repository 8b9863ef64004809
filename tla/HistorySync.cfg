SPECIFICATION Spec
CONSTANTS
    Tabs = {t1}
    Slots = {s1, s2}
    None = None
    Retention = 2
    Late = FALSE
    MaxTime = 3
    MaxId = 3
    Early = FALSE
SYMMETRY Symmetry
INVARIANTS
    TypeOK
    
    HistoryExact
PROPERTIES
    SyncShowsProbe
    NeverBack
CHECK_DEADLOCK FALSE
