SPECIFICATION FairSpec
CONSTANTS
    Master = m
    Context = {m, t1, t2}
    x = x
    y = y
    Datum = {x, y}
    None = none
    MaxThefts = 3
    Programs <- SafePrograms
CHECK_DEADLOCK FALSE
INVARIANTS
    NothingLeft
    ListIsAlive
    ReportsAreExact
PROPERTIES
    ImplementsTaskGraph
    GraphEnds
