SPECIFICATION FairSpec
CONSTANTS
    NProc = 3
    Starter = 1
    MaxIter = 3
    ParGrain = 1
    SeqGrain = 1
    MaxPosts = 1
CHECK_DEADLOCK FALSE
PROPERTIES
    RepliesOwnSlice
