SPECIFICATION FairSpec
CONSTANTS
    Conns = {c1, c2}
    MaxMsgs = 2
    Pipelining = FALSE
PROPERTIES
    ImplementsServing
    LastAnswerCloses
CHECK_DEADLOCK FALSE
