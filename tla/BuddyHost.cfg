SPECIFICATION FairSpec
CONSTANTS
    Levels = 2
    Pages = 4
    CharSigned = TRUE
    Shl <- MCShl
 
PROPERTIES OperationsReturn
