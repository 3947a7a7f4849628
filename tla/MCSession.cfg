SPECIFICATION Spec
CONSTANTS
    Stores = {s}
    Routers = {r, q}
    NoStore = NoStore
    Stray = Stray
    NoRouter = NoRouter
    Clients = {a, b}
    Ids = {i, j, k, x}
    Strange = {x}
    Contents = {Empty, changed, odd}
    Odd = {odd}
    Empty = Empty
    Dicts = {1, 2, 3, 4, 5}
    NoClient = NoClient
    NoId = NoId
    NoDict = NoDict
    NoFile = NoFile
    Unreadable = Unreadable
SYMMETRY Symmetric
CONSTRAINT Bound
INVARIANTS
    ListedStoreLives
    AddedRoutersLive
    UndefinedNeedsDeadRouter
    
    SavedWhereNobodyLooks
    InnocentFailureNeedsDamage
CHECK_DEADLOCK FALSE
