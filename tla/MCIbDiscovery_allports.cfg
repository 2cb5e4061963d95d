SPECIFICATION Spec
CONSTANTS
    h1 = h1
    h2 = h2
    s1 = s1
    s2 = s2
    s3 = s3
    Node <- MCNode
    Switches <- MCSwitches
    NPorts <- MCNPorts
    PortLid <- MCPortLid
    UpState = "Active"
    RootPorts <- SwitchPort
    PathLen = 4
    Cablings <- AllFabrics
    FaultKinds = {}
    MaxFaults = 0
    MaxCuts = 0
    MaxRuns = 1
INVARIANTS
    AllSwitchPortsUsed
CHECK_DEADLOCK FALSE
