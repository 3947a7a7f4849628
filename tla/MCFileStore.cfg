SPECIFICATION Spec
CONSTANTS
    Procs = {p1, p2}
    Sids = {s1, s2}
    Contents = {c1, c2, c3}
    Odd = {c3}
    Inodes = {i1, i2, i3, i4}
PROPERTIES
    ImplementsSessionKV
CHECK_DEADLOCK FALSE
SYMMETRY StoreSymmetry
