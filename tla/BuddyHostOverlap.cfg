SPECIFICATION Spec
CONSTANTS
    Levels = 3
    Pages = 4
    CharSigned = TRUE
    Shl <- MCShl
INVARIANTS NoOverlap
