SPECIFICATION FairSpec
CONSTANTS
    NProc = 2
    Waiters = 1
    Cpu = {c1, c2}
    None = None
INVARIANTS
    TypeOK
    OnOneCpu
    NoMissedWakeup
    NoPanic
PROPERTIES
    WakeupServed
    KilledExitsOrSleeps
