SPECIFICATION FairSpec
CONSTANTS
    AutoRestart = TRUE
    MaxPid = 3
    MaxSaves = 2
    MaxCrashes = 1
INVARIANTS
    TypeOK
    ChildrenAccounted
    CleanExit
    MarkersTrue
PROPERTIES
    ShutdownExits
CHECK_DEADLOCK FALSE
