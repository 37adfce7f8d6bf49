SPECIFICATION FairSpec
CONSTANTS
    Thief = {t1}
    MaxFrame = 3
    NSlot = 3
    MaxTask = 3
    BufferSize = 2
    None = None
INVARIANTS
    NoStaleScanIfOrdered
PROPERTIES
    HistoryIsCompleteAbove
    NoTaskIsOverwritten
    EveryTaskIsExecuted
CHECK_DEADLOCK FALSE
