SPECIFICATION FairLinkSpec
CONSTANTS
    Ifaces = {eth1, eth2}
    NoIface = NoIface
    NetFaults <- AllNetFaults
    MaxUpdates = 2
PROPERTIES
    HandlerReturns
    ShutdownEnds
CHECK_DEADLOCK FALSE
INVARIANTS
    LinkTypeOK
    NoUpdateAfterUnsubscribe
    ClosedWhileSubscribed
    ListedAreRunning
    OneOrphan
    WaitsAreServed
