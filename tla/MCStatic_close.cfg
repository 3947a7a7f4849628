SPECIFICATION Spec
CONSTANTS
    Conns = {c1, c2}
    Fds = {7, 8, 9, 10, 11}
    MaxMsgs = 2
SYMMETRY ConnSymmetry
INVARIANTS
    ServedBeforeClose
CHECK_DEADLOCK FALSE
