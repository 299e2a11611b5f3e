SPECIFICATION FairSpec
CONSTANTS
    Callers = {c1, c2}
    NoCaller = NoCaller
    SocketCap = 1
INVARIANTS
    OwnAnswer
    PendingTableSound
PROPERTIES
    CallReturns
CHECK_DEADLOCK FALSE
