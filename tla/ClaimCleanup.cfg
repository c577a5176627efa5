SPECIFICATION LinkSpec
CONSTANTS
    Ifaces = {eth1, eth2}
    NoIface = NoIface
    NetFaults <- NoNetFaults
    MaxUpdates = 1
INVARIANT
    CleanupBeforeExit
CHECK_DEADLOCK FALSE
