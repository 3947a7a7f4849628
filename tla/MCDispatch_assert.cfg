SPECIFICATION Spec
CONSTANTS
    BufferSize = 7
    Pool <- AllRouters
    MaxRouters = 3
    Requests <- AllRequests
    UserHandlers <- Handlers
    MaxEffects = 1
    MaxCalls = 2
    Headers <- SomeHeaders
    Statuses = {65740}
INVARIANTS
    HandlerAsserted
CHECK_DEADLOCK FALSE
