SPECIFICATION Spec
CONSTANTS
    BufferSize = 8
    Alphabet = {47, 63, 97, 98}
    MaxLen = 8
    MountPoints <- Points
    Lists <- SomeLists
INVARIANTS
    LongestMount
    HandlerSpellsPath
    SecondRouting
CHECK_DEADLOCK FALSE
