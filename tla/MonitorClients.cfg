SPECIFICATION Spec
CONSTANTS
    VFs = {v1}
    Macs = {m1, m2}
    Vlans = {100}
    ReservedVlan = 4095
    Netdevs = {pf}
    PF = pf
    Threads <- MCThreads
    Faults <- NoFaults
    NoCall = NoCall
    CniVlans = {}
    LinkUpdates = {"down", "up"}
    MaxHostapdQ = 2
    MaxIfEvents = 1
    MaxStarts = 1
SYMMETRY Symmetric
INVARIANTS
    TypeOK
    PortFollowsClients
    FilterFollowsClients
    ClientsAreStations
    RequestsAreOfClients
    CutOffOnlyWhenDue
