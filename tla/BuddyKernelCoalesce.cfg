SPECIFICATION Spec
CONSTANTS
    Levels = 2
    Pages = 4
    CharSigned = FALSE
    Shl <- MCShl
INVARIANTS Coalesced
