SPECIFICATION Spec
CONSTANTS
    BufferSize = 8
    Alphabet = {47, 97, 98}
    MaxLen = 5
    MountPoints <- Points
    Lists <- SomeLists
INVARIANTS
    RESTTable
CHECK_DEADLOCK FALSE
