---------------------------- MODULE MCPodStartup ----------------------------
(* A small instance of PodStartup for TLC: a PF with one VF netdev and a   *)
(* plain interface.                                                        *)
EXTENDS PodStartup

MCVFsOf == [i \in Interfaces |-> IF i \in PFs THEN <<"vf0">> ELSE <<>>]
AllStartFaults == {"tc", "k8s"}
NoStartFaults == {}
=============================================================================
