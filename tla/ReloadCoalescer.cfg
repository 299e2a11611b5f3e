SPECIFICATION FairSpec
CONSTANTS
    Main = Main
    Loops = {l1, l2}
    MaxSaves = 4
    EarlyChange = FALSE
INVARIANTS
    SerialAndComplete
PROPERTIES
    EverySaveReloaded
    QueueSpec
CHECK_DEADLOCK FALSE
