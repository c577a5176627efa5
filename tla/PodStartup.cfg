SPECIFICATION StartSpec
CONSTANTS
    PFs = {"pf"}
    Plain = {"eth"}
    VFsOf <- MCVFsOf
    Ports = {p319, p320}
    NoPort = NoPort
    AuthNamespace = "ns"
    AuthName = "auth"
    SecretFiles = {"1x-ca.pem", "hostapd.eap_user"}
    Keys = {"key"}
    MaxList = 2
    StartFaults <- AllStartFaults
CHECK_DEADLOCK FALSE
INVARIANTS
    ArgsRoundTrip
    OnlyUnprotectedPass
    UnprotectedPass
PROPERTIES
    HostapdFindsFiles
