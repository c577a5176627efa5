SPECIFICATION RecSpec
CONSTANTS
    ns1 = ns1
    Auths = {A}
    Namespaces = {ns1}
    NsOf <- OneNamespace
    Specs = {s1, s2}
    None = None
    NumKinds = 2
    RecFaults <- NoRecFaults
    MaxLives = 2
    MaxLag = 1
    MaxDisturbances = 1
CHECK_DEADLOCK FALSE
INVARIANTS
    DeletedIsCollected
