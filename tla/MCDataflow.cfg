SPECIFICATION Spec
CONSTANTS
    NTask = 4
    Datum = {x, y}
    Program <- FramesReadOnce
    NWorker = 2
    x = x
    y = y
INVARIANTS
    ReadsLastWrite
    PrefixIsSequential
CHECK_DEADLOCK FALSE
SYMMETRY Symmetry
