SPECIFICATION FairSpec
CONSTANTS
    Block = {b1, b2}
    Value = {v1, v2}
    Proc = {p1, p2}
    NotCached = none
    MAXOPBLOCKS = 2
    LOGSIZE = 4
    NLog = 4
INVARIANTS
    TypeOK
    SleeperHasWaker
    LoggedPinned
PROPERTIES
    ImplementsTransDisk
    EndOpDurable
    SleepersWake
