--------------------------- MODULE TrafficControl ---------------------------
(***************************************************************************)
(* internal/trafficcontrol: what the monitor does to a physical function   *)
(* (PF), to its virtual functions (VFs) and to the tc filters.             *)
(*                                                                         *)
(* The operations are written per calling thread: a walk over the VFs is   *)
(* several netlink calls, and StopMonitor walks them without the mutex     *)
(* the event handlers hold, so two walks can interleave.                   *)
(***************************************************************************)
EXTENDS FiniteSets

CONSTANTS
    VFs,           \* indices of the PF's virtual functions
    Macs,          \* addresses of the supplicants
    Vlans,         \* VLANs a VF may be given by its user
    ReservedVlan,  \* 4095, the VLAN that isolates a VF
    Netdevs,       \* the PF and the VF netdevs present in the host's namespace
    PF,            \* the PF's own netdev
    Threads,       \* the goroutines that operate on the PF
    Faults,        \* the operations that may fail: "link", "tc", ...
    NoCall         \* no netlink call in progress

LinkStates == {"auto", "disable"}

AllVlans == Vlans \cup {ReservedVlan}

(* A ConfigureVlanState in progress: LinkSetVfVlan, then LinkSetVfState.   *)
Calls == [vf: VFs, vlan: AllVlans, state: LinkStates, step: {"vlan", "state"}]

VfCall(v, vlan, state, step) == [vf |-> v, vlan |-> vlan, state |-> state, step |-> step]

ASSUME VlanAssumption == ReservedVlan \notin Vlans
ASSUME NetdevAssumption == PF \in Netdevs
ASSUME NoCallAssumption == NoCall \notin Calls

VARIABLES
    hwVlan, hwState,     \* the kernel's VLAN and link state of every VF
    okFilter,            \* netdevs on which tc accepts frames from a MAC
    Authenticated,       \* PFInfo.Authenticated
    AuthenticatedAddrs,  \* PFInfo.AuthenticatedAddrs
    vfVlan,              \* VFInfo.Vlan of every VF
    todo,                \* VFs the thread's walk still has to visit
    call,                \* the thread's ConfigureVlanState in progress
    cut                  \* ghost: a walk failed and none has completed since

kernel == <<hwVlan, hwState, okFilter>>
pfInfo == <<Authenticated, AuthenticatedAddrs, vfVlan>>
walk == <<todo, call, cut>>
tcVars == <<kernel, pfInfo, walk>>

StateFor(auth) == IF auth THEN "auto" ELSE "disable"

WalkDone(t) == todo[t] = {} /\ call[t] = NoCall

NewPfInfo ==
    /\ Authenticated' = FALSE
    /\ AuthenticatedAddrs' = {}

(* Faulty: the VLAN is not copied and stays 0, Go's zero value, which says *)
(* that the VF has no VLAN.                                                *)
GetSriovPFInfoNoVlan(t) ==
    /\ NewPfInfo
    /\ vfVlan' = [v \in VFs |-> 0]
    /\ todo' = [todo EXCEPT ![t] = VFs]

(* GetSriovPFInfo takes whatever VLAN the VF has now for its own.          *)
GetSriovPFInfo(t) ==
    /\ NewPfInfo
    /\ vfVlan' = hwVlan
    /\ todo' = [todo EXCEPT ![t] = VFs]

(* Faulty: the new VLAN is not remembered.                                 *)
BeginVfForgetsVlan(t, v, vlan) ==
    /\ call[t] = NoCall
    /\ v \in todo[t]
    /\ todo' = [todo EXCEPT ![t] = @ \ {v}]
    /\ call' = [call EXCEPT ![t] =
                  VfCall(v, IF Authenticated THEN vlan ELSE ReservedVlan,
                         StateFor(Authenticated), "vlan")]
    /\ UNCHANGED <<kernel, pfInfo, cut>>

(* One VF of ConfigureVlanStateForVFs or of HandlePfEventForVlanChange:    *)
(* the target is computed from the Authenticated flag of this moment.      *)
BeginVf(t, v, vlan) ==
    /\ call[t] = NoCall
    /\ v \in todo[t]
    /\ todo' = [todo EXCEPT ![t] = @ \ {v}]
    /\ vfVlan' = [vfVlan EXCEPT ![v] = vlan]
    /\ call' = [call EXCEPT ![t] =
                  VfCall(v, IF Authenticated THEN vlan ELSE ReservedVlan,
                         StateFor(Authenticated), "vlan")]
    /\ UNCHANGED <<kernel, Authenticated, AuthenticatedAddrs, cut>>

LinkSetVfVlan(t) ==
    /\ call[t] # NoCall
    /\ call[t].step = "vlan"
    /\ hwVlan' = [hwVlan EXCEPT ![call[t].vf] = call[t].vlan]
    /\ call' = [call EXCEPT ![t] = VfCall(@.vf, @.vlan, @.state, "state")]
    /\ UNCHANGED <<hwState, okFilter, pfInfo, todo, cut>>

LinkSetVfState(t, full) ==
    /\ call[t] # NoCall
    /\ call[t].step = "state"
    /\ hwState' = [hwState EXCEPT ![call[t].vf] = call[t].state]
    /\ call' = [call EXCEPT ![t] = NoCall]
    /\ cut' = (cut /\ ~(full /\ todo[t] = {}))
    /\ UNCHANGED <<hwVlan, okFilter, pfInfo, todo>>

(* A netlink error of LinkByName, LinkSetVfVlan or LinkSetVfState ends the *)
(* walk; the VFs not visited stay as they are.                             *)
WalkFails(t) ==
    /\ "link" \in Faults
    /\ call[t] # NoCall
    /\ todo' = [todo EXCEPT ![t] = {}]
    /\ call' = [call EXCEPT ![t] = NoCall]
    /\ cut' = TRUE
    /\ UNCHANGED <<hwVlan, hwState, pfInfo>>

SetPort(t, auth) ==
    /\ Authenticated' = auth
    /\ todo' = [todo EXCEPT ![t] = VFs]

(* Faulty: the first client opens the port but not the VFs.                *)
AddClientNoWalk(t, a) ==
    /\ AuthenticatedAddrs' = AuthenticatedAddrs \cup {a}
    /\ Authenticated' = TRUE
    /\ UNCHANGED <<kernel, vfVlan, walk>>

(* AllowTrafficFromMac and DenyTrafficFromMac up to their VF walk, with    *)
(* the update of AuthenticatedAddrs their callers make under the mutex:    *)
(* only the first client in and the last client out touch the VFs.         *)
AddClient(t, a) ==
    /\ AuthenticatedAddrs' = AuthenticatedAddrs \cup {a}
    /\ IF AuthenticatedAddrs \cup {a} = {a}
       THEN SetPort(t, TRUE)
       ELSE UNCHANGED <<Authenticated, todo>>
    /\ UNCHANGED <<kernel, vfVlan, call, cut>>

(* Faulty: the clients are counted before the one that leaves is removed.  *)
DropClientCountsFirst(t, a) ==
    /\ AuthenticatedAddrs' = AuthenticatedAddrs \ {a}
    /\ IF AuthenticatedAddrs = {}
       THEN SetPort(t, FALSE)
       ELSE UNCHANGED <<Authenticated, todo>>
    /\ UNCHANGED <<kernel, vfVlan, call, cut>>

(* Faulty: the client is denied but stays in AuthenticatedAddrs.           *)
DropClientKeepsAddr(t, a) == UNCHANGED tcVars

DropClient(t, a) ==
    /\ AuthenticatedAddrs' = AuthenticatedAddrs \ {a}
    /\ IF AuthenticatedAddrs \ {a} = {}
       THEN SetPort(t, FALSE)
       ELSE UNCHANGED <<Authenticated, todo>>
    /\ UNCHANGED <<kernel, vfVlan, call, cut>>

(* The filter loop stops at the first tc that fails; it starts with the PF *)
(* and LookPath or GetAssociatedInterfaces may fail before it.             *)
TcOutcomes ==
    IF "tc" \in Faults
    THEN {{}} \cup {S \in SUBSET Netdevs : PF \in S}
    ELSE {Netdevs}

TcFilterOk(a) ==
    \E S \in TcOutcomes : okFilter' = [okFilter EXCEPT ![a] = @ \cup S]

(* Faulty: the filters of the VFs are replaced, that of the PF is not.     *)
TcFilterDropSkipsPf(a) ==
    \E S \in TcOutcomes : okFilter' = [okFilter EXCEPT ![a] = @ \ (S \ {PF})]

TcFilterDrop(a) ==
    \E S \in TcOutcomes : okFilter' = [okFilter EXCEPT ![a] = @ \ S]

(* InitInterfaceForEAPTraffic and ResetInterface delete the qdisc of a     *)
(* netdev and with it every per-MAC filter; S are the netdevs they reached. *)
ResetInterfaces(S) == okFilter' = [a \in Macs |-> okFilter[a] \ S]

TcTypeOK ==
    /\ hwVlan \in [VFs -> AllVlans]
    /\ hwState \in [VFs -> LinkStates]
    /\ okFilter \in [Macs -> SUBSET Netdevs]
    /\ Authenticated \in BOOLEAN
    /\ AuthenticatedAddrs \in SUBSET Macs
    /\ vfVlan \in [VFs -> AllVlans]
    /\ todo \in [Threads -> SUBSET VFs]
    /\ call \in [Threads -> Calls \cup {NoCall}]
    /\ cut \in BOOLEAN
=============================================================================
