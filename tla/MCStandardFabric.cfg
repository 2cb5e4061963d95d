SPECIFICATION Spec
CONSTANTS
    Spines = 2
    Leaves = 4
    Hosts = 4
    Node <- MCNode
    Switches <- MCSwitches
    NPorts <- MCNPorts
    RootPorts <- MCRootPorts
    PortLid <- MCPortLid
    UpState = "Active"
    PathLen = 5
    Cablings <- MCCablings
    FaultKinds = {"TimedOut", "InvalidInput", "Other"}
    MaxFaults = 1
    MaxCuts = 0
    MaxRuns = 1
INVARIANTS
    LinksAsConnected
    EveryNodeFound
CHECK_DEADLOCK FALSE
