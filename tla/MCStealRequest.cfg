SPECIFICATION FairSpec
CONSTANTS
    Proc = {p1, p2, p3}
    Victim = {p1}
    Task = {a, b}
    None = None
INVARIANTS
    ReplyFindsRequest
    OwnRequestIsAnswered
    EachTaskOnePlace
PROPERTIES
    ImplementsTaskPlace
    RequestIsAnswered
CHECK_DEADLOCK FALSE
