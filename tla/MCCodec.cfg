SPECIFICATION Spec
CONSTANTS
    Alphabet = {32, 37, 38, 43, 53, 59, 61, 97}
    MaxLen = 5
INVARIANTS
    PairsOfFields
    OverrunExactly
    NegativeExactly
    QueryOfFields
    DecodeInvertsEncode
    CookieComesBack
CHECK_DEADLOCK FALSE
