SPECIFICATION Spec
CONSTANTS
    VFs = {v1, v2}
    Macs = {m1}
    Vlans = {100, 200}
    ReservedVlan = 4095
    Netdevs = {pf}
    PF = pf
    Threads <- MCThreads
    Faults <- LinkFaults
    NoCall = NoCall
    CniVlans = {200}
    LinkUpdates = {"unknown"}
    MaxHostapdQ = 1
    MaxIfEvents = 1
    MaxStarts = 1
SYMMETRY Symmetric
INVARIANTS
    VfStateFollowsPort
    VfVlanFollowsPort
