CONSTANTS
    Names = {eth0, eth1}
    IfName = eth0
    NoEntry = NoEntry
    States = {enabled}
    Unset = Unset
    Torn = Torn
    Clients = {c1}
    ReportFaults <- AllReportFaults
    MaxTries = 2
SPECIFICATION FairSpec
INVARIANTS
    TypeOK
    StatusCurrent
PROPERTIES
    OwnEntryOnly
    AttachReturns
    MutexReleased
    StopReturns
CHECK_DEADLOCK FALSE
