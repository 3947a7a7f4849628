SPECIFICATION Spec
CONSTANTS
    Sends <- Messages
    MaxMsgs = 2
    HOST <- Ha
    COOKIE <- Co
    CONTENT_TYPE <- Ct
    FORM <- Form
INVARIANTS
    HeadersTruncatedAtWorst
    FaultNeedsCut
    BodyAsWhole
    UncutExact
CHECK_DEADLOCK FALSE
