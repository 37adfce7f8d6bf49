SPECIFICATION FairSpec
CONSTANTS
    NTask = 2
    Thief = {t1, t2}
    MaxRound = 2
    None = None
    Owner = Owner
INVARIANTS
    BodyAtMostOnce
    PassedTaskIsComplete
    ThiefTaskIsExclusive
PROPERTIES
    NoStaleClaim
    ImplementsTaskOnce
    FrameIsEmptied
CHECK_DEADLOCK FALSE
