--------------------------- MODULE ControlledPort ---------------------------
(***************************************************************************)
(* What the monitor promises of an interface, without its threads, queues, *)
(* mutex or failing calls: a port under 802.1X control. From the moment    *)
(* the port is controlled, frames of a MAC are let through only after it   *)
(* was admitted and blocked only after it was evicted, and the links of    *)
(* the VFs are raised only while there is a client and lowered only while  *)
(* there is none. InterfaceMonitor implements it.                          *)
(***************************************************************************)
CONSTANTS Macs, VFs

VARIABLES
    mode,     \* "off", "engaging", "controlled" or "released"
    clients,  \* MACs admitted
    passing,  \* MACs whose frames the interface lets through
    up        \* VFs whose link is up

portVars == <<mode, clients, passing, up>>

PortInit ==
    /\ mode = "off"
    /\ clients = {}
    /\ passing = {}
    /\ up = VFs

(* A process starts: the filters begin empty.                              *)
Engage ==
    /\ mode = "off"
    /\ mode' = "engaging"
    /\ passing' = {}
    /\ UNCHANGED <<clients, up>>

(* A process that could not start may have removed the filters left over.  *)
Clear ==
    /\ mode = "off"
    /\ passing' = {}
    /\ UNCHANGED <<mode, clients, up>>

(* The port is under control only when every VF has been shut.             *)
Control ==
    /\ mode = "engaging"
    /\ up = {}
    /\ mode' = "controlled"
    /\ UNCHANGED <<clients, passing, up>>

(* The interface is given up: on a signal, or when it could not be engaged. *)
Release ==
    /\ mode \in {"engaging", "controlled"}
    /\ mode' = "released"
    /\ UNCHANGED <<clients, passing, up>>

(* The process ends, having removed its filters or, in a crash, not.       *)
Vanish ==
    /\ mode # "off"
    /\ mode' = "off"
    /\ clients' = {}
    /\ passing' \in {{}, passing}
    /\ UNCHANGED up

Admit(a) ==
    /\ mode \in {"controlled", "released"}
    /\ clients' = clients \cup {a}
    /\ UNCHANGED <<mode, passing, up>>

Evict(a) ==
    /\ mode \in {"controlled", "released"}
    /\ clients' = clients \ {a}
    /\ UNCHANGED <<mode, passing, up>>

Pass(a) ==
    /\ a \in clients
    /\ passing' = passing \cup {a}
    /\ UNCHANGED <<mode, clients, up>>

Block(a) ==
    /\ a \notin clients
    /\ passing' = passing \ {a}
    /\ UNCHANGED <<mode, clients, up>>

Raise(v) ==
    /\ mode = "released" \/ (mode = "controlled" /\ clients # {})
    /\ up' = up \cup {v}
    /\ UNCHANGED <<mode, clients, passing>>

Lower(v) ==
    /\ mode \in {"engaging", "released"} \/ (mode = "controlled" /\ clients = {})
    /\ up' = up \ {v}
    /\ UNCHANGED <<mode, clients, passing>>

PortNext ==
    \/ Engage \/ Clear \/ Control \/ Release \/ Vanish
    \/ \E a \in Macs : Admit(a) \/ Evict(a) \/ Pass(a) \/ Block(a)
    \/ \E v \in VFs : Raise(v) \/ Lower(v)

PortSpec == PortInit /\ [][PortNext]_portVars
=============================================================================
