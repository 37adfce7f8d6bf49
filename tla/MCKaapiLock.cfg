SPECIFICATION LockFairSpec
CONSTANTS
    Process = {p1, p2, p3, w}
    Waiter = {w}
    None = None
INVARIANTS
    LockTypeOK
    MutualExclusion
PROPERTIES
    WaitCoversHolder
    ImplementsLock
    CallsReturn
