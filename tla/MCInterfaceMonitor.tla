------------------------- MODULE MCInterfaceMonitor -------------------------
(* Small instances of InterfaceMonitor for TLC.                            *)
EXTENDS InterfaceMonitor, TLC

MCThreads == {"main", "reply", "ifEvents", "timeout"}

Symmetric == Permutations(Macs) \cup Permutations(VFs)

NoFaults == {}
Crashes == {"crash"}
LinkFaults == {"link"}
AllFaults == {"link", "tc", "start", "attach", "read", "hostapd", "crash"}
=============================================================================
