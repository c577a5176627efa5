SPECIFICATION FairRecSpec
CONSTANTS
    ns1 = ns1
    Auths = {A}
    Namespaces = {ns1}
    NsOf <- OneNamespace
    Specs = {s1, s2}
    None = None
    NumKinds = 1
    RecFaults <- AllRecFaults
    MaxLives = 2
    MaxLag = 1
    MaxDisturbances = 2
CHECK_DEADLOCK FALSE
INVARIANTS
    RecTypeOK
    NoLostWakeup
PROPERTIES
    Converges
    SettledStays
