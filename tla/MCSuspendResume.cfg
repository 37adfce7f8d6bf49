SPECIFICATION FairSpec
CONSTANTS
    Worker = {w1, w2}
    Main = main
    MaxRegions = 2
    MaxSpurious = 1
CHECK_DEADLOCK FALSE
INVARIANTS
    MutexIsExclusive
    NoLostWakeUp
    CountIsExact
    FreedIsUnused
PROPERTIES
    ImplementsRounds
    WaitsEnd
