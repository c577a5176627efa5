SPECIFICATION FairSpec
CONSTANTS
    VFs = {}
    Macs = {m1, m2}
    Vlans = {100}
    ReservedVlan = 4095
    Netdevs = {pf}
    PF = pf
    Threads <- MCThreads
    Faults <- NoFaults
    NoCall = NoCall
    CniVlans = {}
    LinkUpdates = {"down"}
    MaxHostapdQ = 1
    MaxIfEvents = 1
    MaxStarts = 1
PROPERTIES
    RequestsResolved
    StopCompletes
