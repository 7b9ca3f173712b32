SPECIFICATION FairSpec
CONSTANTS
    Levels = 3
    Pages = 7
    CharSigned = FALSE
    Shl <- MCShl
INVARIANTS TypeOK NoOverlap  StateTableExact Check StatExact
PROPERTIES ClientMemoryUntouched OperationsReturn ImplementsPageAlloc
