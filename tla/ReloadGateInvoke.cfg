SPECIFICATION Spec
CONSTANTS
    i1 = i1
    i2 = i2
    s1 = s1
    d1 = d1
    d2 = d2
    Invokes <- Requests
    Streams <- StreamRequests
    Drains <- TwoReloads
INVARIANT NoInvokeWhileRegenerating
CHECK_DEADLOCK FALSE
