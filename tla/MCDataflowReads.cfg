SPECIFICATION Spec
CONSTANTS
    NTask = 3
    Datum = {x}
    Program <- AllFrames
    NWorker = 1
    x = x
    y = y
INVARIANTS
    ReadsLastWrite
CHECK_DEADLOCK FALSE
