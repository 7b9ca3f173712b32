SPECIFICATION Spec
CONSTANTS
    Pages = 3
    Cells = 4
    MaxLive = 5
    SMP = FALSE
INVARIANTS
    TypeOK
    BitmapExact
    ListsExact
    NoEmptyPages
    NoFault
PROPERTIES
    OnePageOthersUntouched
