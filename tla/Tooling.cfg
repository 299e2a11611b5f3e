SPECIFICATION Spec
CONSTANTS
    MaxHosts = 2
    MaxClients = 3
    MaxChildren = 3
    MaxFlows = 3
    MaxRequests = 2
    MaxInvokes = 3
    MaxInstallers = 2
INVARIANTS
    BridgeHostSound
    SidecarSound
    InvokeServerSound
    
    ClientSound
CHECK_DEADLOCK FALSE
