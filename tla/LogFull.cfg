SPECIFICATION Spec
CONSTANTS
    Block = {b1, b2, b3}
    Value = {v1}
    Proc = {p1, p2, p3}
    NotCached = none
    MAXOPBLOCKS = 1
    LOGSIZE = 3
    NLog = 3
SYMMETRY Symmetry
INVARIANTS
    NoPanic
