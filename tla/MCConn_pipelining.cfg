SPECIFICATION Spec
CONSTANTS
    Conns = {c1, c2}
    MaxMsgs = 3
    Pipelining = TRUE
SYMMETRY ConnSymmetry
INVARIANTS
    TypeOK
    CloseOnce
    RequestAlive
    LastRequestReclaimed
    ResponseOwned
    ReuseNeedsPipelining
    ClosesAfterLastAnswer
CHECK_DEADLOCK FALSE
