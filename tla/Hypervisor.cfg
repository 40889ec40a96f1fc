SPECIFICATION HypervisorSpec
CONSTANTS
    m1 = m1
    m2 = m2
    w1 = w1
    x1 = x1
    s1 = s1
    s2 = s2
    Procs = {p1, p2, p3}
    Inodes = {1, 2, 3, 4}
    NoInode = NoInode
    CanTimeOut = TRUE
    NatSessions = {s1, s2}
    NatIndex <- MCNatIndex
    NatOutputs = {o1, o2}
    MaxNatEvents = 1
    Updaters = {"p1", "p2", "d2"}
    Locked = {"p1", "p2"}
    NamesOf <- MCNamesOf
    Occurs <- MCOccurs
    OldLines <- MCOldLines
    MaxHostsCrashes = 1
    Servers = {v1, v2, t1}
    ProxyServers = {v1, v2}
    FirstPort = 3128
    Step = 1
    MaxServerFaults = 2
    TargetDisks = {d1, d2}
    MaxIscsiFaults = 2
    Letters = {1, 2}
    TestNetworks = {n1}
    MaxDisks = 2
    MaxStarts = 2
    OciClusters = {c1, c2}
    MaxOciFaults = 1
    Machines <- MCMachines
    MaxRedfishFaults = 2
    Guests <- MCGuests
    Others <- MCOthers
    TfVms <- MCMachines
    MaxTfFaults = 2
CHECK_DEADLOCK FALSE
INVARIANTS
    HypervisorTypeOK SessionsKeepTheirShare HostsUpdatesKept TeardownIsExplained
    DevicesAreExplained NodesAreReady
PROPERTIES ImplementsMutex WaitEnds HostsUpdatesSerial
