SPECIFICATION Spec
CONSTANTS
    Pages = 2
    Cells = 2
    MaxLive = 1
    SMP = TRUE
INVARIANTS
    AssertsHold
