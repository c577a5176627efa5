SPECIFICATION Spec
CONSTANTS
    VFs = {1}
    Macs = {m1}
    Vlans = {100}
    ReservedVlan = 4095
    Netdevs = {pf}
    PF = pf
    Threads <- MCThreads
    Faults <- AllFaults
    NoCall = NoCall
    CniVlans = {}
    LinkUpdates = {"down"}
    MaxHostapdQ = 1
    MaxIfEvents = 1
    MaxStarts = 2
INVARIANTS
    IInv
PROPERTIES
    ImplementsControlledPort
