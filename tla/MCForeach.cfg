SPECIFICATION FairSpec
CONSTANTS
    NProc = 3
    Starter = 0
    MaxIter = 4
    ParGrain = 1
    SeqGrain = 1
    MaxPosts = 1
CHECK_DEADLOCK FALSE
INVARIANTS
    NothingLost
    RemainIsExact
    FrameIsUnused
PROPERTIES
    ImplementsParallelLoop
    LoopEnds
