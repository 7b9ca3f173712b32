SPECIFICATION Spec
CONSTANTS
    Pages = 3
    Cells = 3
    MaxLive = 3
    SMP = FALSE
PROPERTIES
    OthersUntouched
