SPECIFICATION Spec
CONSTANTS
    IPs = {x, y}
    Vals = {a}
    NoRow = NoRow
    Tabs = {t1, t2}
    MaxVersion = 3
    MaxFailures = 1
SYMMETRY Symmetry
INVARIANTS
    TypeOK
    ResponsesExact
    AtWorstDeleted
PROPERTIES
    NeverBack
