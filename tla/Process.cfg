SPECIFICATION FairSpec
CONSTANTS
    NPROC = 4
    MaxPid = 5
    KillPids = {1, 2, 3}
INVARIANTS
    TypeOK
    ParentLive
    PidsUnique
    SleeperHasLiveChild
    
PROPERTIES
    OrphansReaped
CHECK_DEADLOCK FALSE
