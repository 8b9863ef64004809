SPECIFICATION FairSpec
CONSTANTS
    IPs = {x}
    Vals = {a}
    NoRow = NoRow
    Tabs = {t1, t2}
    MaxVersion = 3
    MaxFailures = 0
PROPERTIES
    DeletedRowsGo
