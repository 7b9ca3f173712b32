SPECIFICATION Spec
CONSTANTS
    Proc = {p1, p2}
    Byte = {b1, b2}
    PIPESIZE = 2
    UintMax = 4
    MaxN = 3
    None = None
    Eof = Eof
SYMMETRY Symmetry
INVARIANTS
    TypeOK
    ReaderAsleepEmpty
    WriterAsleepFull
    FreedUnused
PROPERTIES
    ImplementsChannel
CHECK_DEADLOCK FALSE
