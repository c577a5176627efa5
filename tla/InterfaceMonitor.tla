-------------------------- MODULE InterfaceMonitor --------------------------
(***************************************************************************)
(* pkg/hostap/monitor.go: the monitor of one interface, from the start of  *)
(* its process to its end, with hostapd, the kernel and the other users of *)
(* the VFs around it.                                                      *)
(*                                                                         *)
(*   main      StartMonitor, StopMonitor, monitor/main.go around them      *)
(*   reply     handleHostapdReply: events of hostapd's control socket      *)
(*   ifEvents  handleIfEvents: link updates of the PF                      *)
(*   timeout   handleRequestsTimeout: deauthentications not confirmed      *)
(*                                                                         *)
(* A section the code runs under addrMutex is several steps here when it   *)
(* touches the kernel: StopMonitor and the environment do not take the     *)
(* mutex. The fourth goroutine, sendKeepAlive, is modelled in StatusReport.*)
(***************************************************************************)
EXTENDS TrafficControl, Sequences, Naturals

CONSTANTS
    CniVlans,       \* VLANs another program may set on a VF meanwhile
    LinkUpdates,    \* operational states the PF's link updates may carry
    MaxHostapdQ,    \* bound: events queued on the hostapd socket
    MaxIfEvents,    \* bound: link updates queued for the interface
    MaxStarts       \* bound: starts of the monitor process

ASSUME ThreadsAssumption == Threads = {"main", "reply", "ifEvents", "timeout"}
ASSUME BoundsAssumption ==
    MaxHostapdQ \in Nat /\ MaxIfEvents \in Nat /\ MaxStarts \in Nat
ASSUME CniAssumption == CniVlans \subseteq Vlans
ASSUME LinkAssumption == LinkUpdates \subseteq {"unknown", "down", "up"}

VARIABLES
    pc,              \* where each thread is
    addrMutex,       \* the thread that holds addrMutex, or "free"
    event,           \* the hostapd event the reply thread handles
    deauthRequests,  \* addresses with a deauthentication request pending
    timedOut,        \* those at least requestTimeout old
    expired,         \* those timed out when handleRequestsTimeout read "now"
    sweep,           \* requests its loop has not visited yet
    expiring,        \* the address whose request it acts on, if any
    operState,       \* InterfaceMonitor.operState
    seenVlan,        \* the PF's VF list HandlePfEventForVlanChange fetched
    stop,            \* the stop channel is closed
    started,         \* StartMonitor returned nil
    stations,        \* hostapd: stations it has authorised
    attached,        \* hostapd: the monitor's socket is attached
    hostapdQ,        \* datagrams queued on that socket
    ifEventQ,        \* link updates on their way to the interface's channel
    unheard,         \* ghost: stations no client of the monitor stands for
    missed,          \* ghost: a VLAN changed after GetSriovPFInfo, before Subscribe
    starts           \* times the process was started

reqVars == <<deauthRequests, timedOut, expired>>
sweepVars == <<sweep, expiring>>
hostapdVars == <<stations, attached, hostapdQ>>
lifeVars == <<stop, started, starts>>
ghostVars == <<missed, unheard>>
linkVars == <<operState, seenVlan, ifEventQ>>
handlerVars == <<event, reqVars, sweepVars>>
outsideVars == <<hostapdVars, ghostVars>>
vars == <<tcVars, pc, addrMutex, event, reqVars, sweepVars, linkVars, lifeVars,
          hostapdVars, ghostVars>>

OperStates == {"unknown", "down", "up"}

(* What hostapd sends: a station came or left. Events whose handling only  *)
(* rewrites the status (EAP-SUCCESS, EAP-FAILURE, replies) change nothing  *)
(* here; StatusReport has them.                                            *)
Events == [kind: {"connected", "disconnected"}, addr: Macs]

NoEvent == [kind |-> "none"]

NoVlans == [v \in VFs |-> ReservedVlan]

Goto(t, label) == pc' = [pc EXCEPT ![t] = label]

(* Faulty: the mutex is taken without waiting for its holder.              *)
LockBarges(t) == addrMutex' = t

Lock(t) == addrMutex = "free" /\ addrMutex' = t
Unlock == addrMutex' = "free"

(* From the moment the goroutines run until StopMonitor begins.            *)
Running == pc["main"] \in {"attach", "report", "running"}

Subscribed == Running \/ pc["main"] \in {"setAuth", "restore", "closeStop", "closeConn"}

Init ==
    /\ hwVlan \in [VFs -> Vlans]
    /\ hwState = [v \in VFs |-> "auto"]
    /\ okFilter = [a \in Macs |-> {}]
    /\ Authenticated = FALSE
    /\ AuthenticatedAddrs = {}
    /\ vfVlan = NoVlans
    /\ todo = [t \in Threads |-> {}]
    /\ call = [t \in Threads |-> NoCall]
    /\ cut = FALSE
    /\ pc = [t \in Threads |-> "off"]
    /\ addrMutex = "free"
    /\ event = NoEvent
    /\ deauthRequests = {}
    /\ timedOut = {}
    /\ expired = {}
    /\ sweep = {}
    /\ expiring = {}
    /\ operState = "unknown"
    /\ seenVlan = NoVlans
    /\ stop = FALSE
    /\ started = FALSE
    /\ stations = {}
    /\ attached = FALSE
    /\ hostapdQ = <<>>
    /\ ifEventQ = <<>>
    /\ missed = FALSE
    /\ unheard = {}
    /\ starts = 0

-----------------------------------------------------------------------------
(* The walk over the VFs, by whichever thread is in one.                   *)

(* The restore of StopMonitor and the walks of AllowTrafficFromMac and     *)
(* DenyTrafficFromMac visit every VF; a link update only the changed ones. *)
FullWalk(t) == t # "ifEvents"

InWalk(t) == pc[t] \in {"config", "restore"}

NextVf(t) ==
    /\ InWalk(t)
    /\ \E v \in VFs :
         BeginVf(t, v, IF FullWalk(t) THEN vfVlan[v] ELSE seenVlan[v])
    /\ UNCHANGED <<pc, addrMutex, handlerVars, linkVars, lifeVars, outsideVars>>

ConfigureVf(t) ==
    /\ InWalk(t)
    /\ LinkSetVfVlan(t) \/ LinkSetVfState(t, FullWalk(t))
    /\ UNCHANGED <<pc, addrMutex, handlerVars, linkVars, lifeVars, outsideVars>>

-----------------------------------------------------------------------------
(* reply: handleHostapdReply                                               *)

(* The read deadline brings the thread back to the select, and a closed    *)
(* connection or any other read error ends it.                             *)
ReplyExit ==
    /\ pc["reply"] = "read"
    /\ stop \/ "read" \in Faults
    /\ Goto("reply", "exited")
    /\ UNCHANGED <<tcVars, addrMutex, handlerVars, linkVars, lifeVars, outsideVars>>

ReadEvent ==
    /\ pc["reply"] = "read"
    /\ hostapdQ # <<>>
    /\ event' = Head(hostapdQ)
    /\ hostapdQ' = Tail(hostapdQ)
    /\ Goto("reply", "lock")
    /\ UNCHANGED <<tcVars, addrMutex, reqVars, sweepVars, linkVars, lifeVars, stations,
                   attached, ghostVars>>

(* Faulty: the request is not deleted.                                     *)
ForgetRequestNever(a) == UNCHANGED reqVars

ForgetRequest(a) ==
    /\ deauthRequests' = deauthRequests \ {a}
    /\ timedOut' = timedOut \ {a}
    /\ UNCHANGED expired

HandleAuthenticateEvent ==
    /\ pc["reply"] = "lock"
    /\ event.kind = "connected"
    /\ Lock("reply")
    /\ ForgetRequest(event.addr)
    /\ AddClient("reply", event.addr)
    /\ Goto("reply", "config")
    /\ UNCHANGED <<event, sweepVars, linkVars, lifeVars, outsideVars>>

HandleDeAuthenticateEvent ==
    /\ pc["reply"] = "lock"
    /\ event.kind = "disconnected"
    /\ Lock("reply")
    /\ ForgetRequest(event.addr)
    /\ DropClient("reply", event.addr)
    /\ Goto("reply", "config")
    /\ UNCHANGED <<event, sweepVars, linkVars, lifeVars, outsideVars>>

(* The tc filters of the address, after the VFs; none if the VFs failed.   *)
ReplyDone ==
    /\ pc["reply"] = "config"
    /\ \/ /\ WalkDone("reply")
          /\ \/ event.kind = "connected" /\ TcFilterOk(event.addr)
             \/ event.kind = "disconnected" /\ TcFilterDrop(event.addr)
          /\ UNCHANGED <<hwVlan, hwState, pfInfo, walk>>
       \/ WalkFails("reply") /\ UNCHANGED okFilter
    /\ Unlock
    /\ Goto("reply", "report")
    /\ UNCHANGED <<handlerVars, linkVars, lifeVars, outsideVars>>

(* updateInterfaceStatus waits for the mutex and touches nothing else of   *)
(* the monitor; StatusReport models what it writes.                        *)
UpdateInterfaceStatus == addrMutex = "free"

ReplyReport ==
    /\ pc["reply"] = "report"
    /\ UpdateInterfaceStatus
    /\ event' = NoEvent
    /\ Goto("reply", IF stop THEN "exited" ELSE "read")
    /\ UNCHANGED <<tcVars, addrMutex, reqVars, sweepVars, linkVars, lifeVars, hostapdVars,
                   ghostVars>>

-----------------------------------------------------------------------------
(* ifEvents: handleIfEvents                                                *)

(* Faulty: the stop channel is looked at only when an update is there.     *)
IfEventsExitAfterUpdate ==
    /\ pc["ifEvents"] = "select"
    /\ stop /\ ifEventQ # <<>>
    /\ Goto("ifEvents", "exited")
    /\ UNCHANGED <<tcVars, addrMutex, handlerVars, linkVars, lifeVars, outsideVars>>

IfEventsExit ==
    /\ pc["ifEvents"] = "select"
    /\ stop
    /\ Goto("ifEvents", "exited")
    /\ UNCHANGED <<tcVars, addrMutex, handlerVars, linkVars, lifeVars, outsideVars>>

ReceiveLinkUpdate ==
    /\ pc["ifEvents"] = "select"
    /\ ifEventQ # <<>>
    /\ operState' = Head(ifEventQ)
    /\ ifEventQ' = Tail(ifEventQ)
    /\ Goto("ifEvents", IF Head(ifEventQ) # operState THEN "oper" ELSE "vlan")
    /\ UNCHANGED <<tcVars, addrMutex, handlerVars, seenVlan, lifeVars, outsideVars>>

(* handlePfEventForOpStateChange: a link that goes down asks hostapd to    *)
(* deauthenticate every client and stamps the requests; a link that comes  *)
(* up withdraws the requests of the clients there are now.                 *)
HandlePfEventForOpStateChange ==
    /\ pc["ifEvents"] = "oper"
    /\ addrMutex = "free"
    /\ deauthRequests' = CASE operState = "down" -> deauthRequests \cup AuthenticatedAddrs
                           [] operState = "up" -> deauthRequests \ AuthenticatedAddrs
                           [] OTHER -> deauthRequests
    /\ timedOut' = IF operState = "unknown" THEN timedOut ELSE timedOut \ AuthenticatedAddrs
    /\ expired' = IF operState = "down" THEN expired \ AuthenticatedAddrs ELSE expired
    /\ Goto("ifEvents", "vlan")
    /\ UNCHANGED <<tcVars, addrMutex, event, sweepVars, linkVars, lifeVars, outsideVars>>

ChangedVfs == {v \in VFs : hwVlan[v] # ReservedVlan /\ hwVlan[v] # vfVlan[v]}

(* HandlePfEventForVlanChange: fetch the VFs, then visit those that have a *)
(* VLAN that is neither the reserved nor the remembered one.               *)
HandlePfEventForVlanChange ==
    /\ pc["ifEvents"] = "vlan"
    /\ addrMutex = "free"
    /\ missed' = FALSE
    /\ todo' = [todo EXCEPT !["ifEvents"] = ChangedVfs]
    /\ IF ChangedVfs = {}
       THEN Goto("ifEvents", "select") /\ UNCHANGED <<addrMutex, seenVlan>>
       ELSE Goto("ifEvents", "config") /\ addrMutex' = "ifEvents" /\ seenVlan' = hwVlan
    /\ UNCHANGED <<kernel, pfInfo, call, cut, handlerVars, operState, ifEventQ, lifeVars,
                   hostapdVars, unheard>>

LinkByNameFails ==
    /\ "link" \in Faults
    /\ pc["ifEvents"] = "vlan"
    /\ addrMutex = "free"
    /\ cut' = TRUE
    /\ Goto("ifEvents", "select")
    /\ UNCHANGED <<kernel, pfInfo, todo, call, addrMutex, handlerVars, linkVars, lifeVars,
                   outsideVars>>

IfEventsDone ==
    /\ pc["ifEvents"] = "config"
    /\ \/ WalkDone("ifEvents") /\ UNCHANGED tcVars
       \/ WalkFails("ifEvents") /\ UNCHANGED okFilter
    /\ Unlock
    /\ seenVlan' = NoVlans
    /\ Goto("ifEvents", "select")
    /\ UNCHANGED <<handlerVars, operState, ifEventQ, lifeVars, outsideVars>>

-----------------------------------------------------------------------------
(* What the monitor will hold of an address once it has handled all that   *)
(* hostapd has sent about it.                                              *)
QueuedAbout(a) == {i \in DOMAIN hostapdQ : hostapdQ[i].addr = a}
InHand(a) == pc["reply"] = "lock" /\ event.addr = a
WillBeClient(a) ==
    \/ \E i \in QueuedAbout(a) :
          /\ hostapdQ[i].kind = "connected"
          /\ \A j \in QueuedAbout(a) : j <= i
    \/ QueuedAbout(a) = {} /\ InHand(a) /\ event.kind = "connected"
    \/ QueuedAbout(a) = {} /\ ~InHand(a) /\ a \in AuthenticatedAddrs

-----------------------------------------------------------------------------
(* timeout: handleRequestsTimeout                                          *)

TimeoutExit ==
    /\ pc["timeout"] = "idle"
    /\ stop
    /\ Goto("timeout", "exited")
    /\ UNCHANGED <<tcVars, addrMutex, handlerVars, linkVars, lifeVars, outsideVars>>

(* "now" is read before the mutex is taken. A reading at which no request  *)
(* is due is left out: the loop it leads to changes nothing.               *)
ReadClock ==
    /\ pc["timeout"] = "idle"
    /\ ~stop
    /\ timedOut # {}
    /\ expired' = timedOut
    /\ Goto("timeout", "lock")
    /\ UNCHANGED <<tcVars, addrMutex, event, deauthRequests, timedOut, sweepVars, linkVars,
                   lifeVars, outsideVars>>

(* Faulty: the requests to act on are picked out before the mutex is taken *)
(* and not looked up again.                                                *)
BeginSweepPicked ==
    /\ pc["timeout"] = "lock"
    /\ addrMutex = "free"
    /\ sweep' = expired
    /\ Goto("timeout", "sweep")
    /\ addrMutex' = "timeout"
    /\ UNCHANGED <<tcVars, event, reqVars, expiring, linkVars, lifeVars, outsideVars>>

BeginSweep ==
    /\ pc["timeout"] = "lock"
    /\ addrMutex = "free"
    /\ sweep' = deauthRequests
    /\ IF deauthRequests = {}
       THEN Goto("timeout", "idle") /\ expired' = {} /\ UNCHANGED addrMutex
       ELSE Goto("timeout", "sweep") /\ addrMutex' = "timeout" /\ UNCHANGED expired
    /\ UNCHANGED <<tcVars, event, deauthRequests, timedOut, expiring, linkVars, lifeVars,
                   outsideVars>>

(* The map is visited in no particular order, and the first request that   *)
(* has not timed out ends the loop.                                        *)
EndSweep ==
    /\ pc["timeout"] = "sweep"
    /\ sweep = {} \/ \E a \in sweep : a \notin expired
    /\ Unlock
    /\ sweep' = {}
    /\ expired' = {}
    /\ Goto("timeout", "idle")
    /\ UNCHANGED <<tcVars, event, deauthRequests, timedOut, expiring, linkVars, lifeVars,
                   outsideVars>>

ExpireRequest ==
    /\ pc["timeout"] = "sweep"
    /\ \E a \in sweep \cap expired :
         /\ sweep' = sweep \ {a}
         /\ expiring' = {a}
         /\ DropClient("timeout", a)
         /\ unheard' = IF QueuedAbout(a) = {} /\ ~InHand(a)
                       THEN unheard \cup ({a} \cap stations) ELSE unheard
    /\ Goto("timeout", "config")
    /\ UNCHANGED <<addrMutex, event, reqVars, linkVars, lifeVars, hostapdVars, missed>>

ExpireDone ==
    /\ pc["timeout"] = "config"
    /\ \E a \in expiring :
         /\ \/ /\ WalkDone("timeout")
               /\ TcFilterDrop(a)
               /\ UNCHANGED <<hwVlan, hwState, pfInfo, walk>>
            \/ WalkFails("timeout") /\ UNCHANGED okFilter
         /\ ForgetRequest(a)
    /\ expiring' = {}
    /\ Goto("timeout", "sweep")
    /\ UNCHANGED <<addrMutex, event, sweep, linkVars, lifeVars, outsideVars>>

-----------------------------------------------------------------------------
(* main: the process around StartMonitor and StopMonitor                   *)

(* Faulty: the filters of an earlier process are left in place.            *)
BootKeepsFilters ==
    /\ pc["main"] = "off"
    /\ starts < MaxStarts
    /\ starts' = starts + 1
    /\ Goto("main", "start")
    /\ UNCHANGED <<tcVars, addrMutex, handlerVars, linkVars, stop, started, outsideVars>>

(* initInterfaces                                                          *)
Boot ==
    /\ pc["main"] = "off"
    /\ starts < MaxStarts
    /\ starts' = starts + 1
    /\ ResetInterfaces(Netdevs)
    /\ Goto("main", "start")
    /\ UNCHANGED <<hwVlan, hwState, pfInfo, walk, addrMutex, handlerVars, linkVars, stop,
                   started, outsideVars>>

(* initInterfaces fails part way and main calls os.Exit(1).                *)
BootFails ==
    /\ pc["main"] = "off"
    /\ "tc" \in Faults
    /\ starts < MaxStarts
    /\ starts' = starts + 1
    /\ \E S \in TcOutcomes : ResetInterfaces(S)
    /\ UNCHANGED <<hwVlan, hwState, pfInfo, walk, pc, addrMutex, handlerVars, linkVars, stop,
                   started, outsideVars>>

(* The socket cannot be dialled (hostapd is not up yet), or the PF cannot  *)
(* be read: main goes on without this interface.                           *)
StartFails ==
    /\ pc["main"] = "start"
    /\ "start" \in Faults
    /\ Goto("main", "unmonitored")
    /\ UNCHANGED <<tcVars, addrMutex, handlerVars, linkVars, lifeVars, outsideVars>>

StartMonitor ==
    /\ pc["main"] = "start"
    /\ GetSriovPFInfo("main")
    /\ Goto("main", "config")
    /\ UNCHANGED <<kernel, call, cut, addrMutex, handlerVars, linkVars, lifeVars, outsideVars>>

StartWalkFails ==
    /\ pc["main"] = "config"
    /\ WalkFails("main")
    /\ Goto("main", "unmonitored")
    /\ UNCHANGED <<okFilter, addrMutex, handlerVars, linkVars, lifeVars, outsideVars>>

FirstLabel(t) ==
    CASE t = "reply" -> "read"
      [] t = "ifEvents" -> "select"
      [] t = "timeout" -> "idle"
      [] OTHER -> "attach"

(* Subscribe and the go statements.                                        *)
StartThreads ==
    /\ pc["main"] = "config"
    /\ WalkDone("main")
    /\ pc' = [t \in Threads |-> FirstLabel(t)]
    /\ UNCHANGED <<tcVars, addrMutex, handlerVars, linkVars, lifeVars, outsideVars>>

AttachHostapd ==
    /\ pc["main"] = "attach"
    /\ attached' = TRUE
    /\ unheard' = stations
    /\ Goto("main", "report")
    /\ UNCHANGED <<tcVars, addrMutex, handlerVars, linkVars, lifeVars, stations, hostapdQ, missed>>

StartReport ==
    /\ pc["main"] = "report"
    /\ UpdateInterfaceStatus
    /\ started' = TRUE
    /\ Goto("main", "running")
    /\ UNCHANGED <<tcVars, addrMutex, handlerVars, linkVars, stop, starts, hostapdVars, ghostVars>>

(* StopMonitor, on a signal or when ATTACH failed. It reads and sets       *)
(* Authenticated and walks the VFs without the mutex.                      *)
StopMonitor ==
    /\ \/ pc["main"] = "running"
       \/ pc["main"] = "attach" /\ "attach" \in Faults
    /\ Goto("main", IF Authenticated THEN "closeStop" ELSE "setAuth")
    /\ UNCHANGED <<tcVars, addrMutex, handlerVars, linkVars, lifeVars, outsideVars>>

StopSetAuth ==
    /\ pc["main"] = "setAuth"
    /\ SetPort("main", TRUE)
    /\ Goto("main", "restore")
    /\ UNCHANGED <<kernel, AuthenticatedAddrs, vfVlan, call, cut, addrMutex, handlerVars,
                   linkVars, lifeVars, outsideVars>>

RestoreDone ==
    /\ pc["main"] = "restore"
    /\ \/ WalkDone("main") /\ UNCHANGED tcVars
       \/ WalkFails("main") /\ UNCHANGED okFilter
    /\ Goto("main", "closeStop")
    /\ UNCHANGED <<addrMutex, handlerVars, linkVars, lifeVars, outsideVars>>

CloseStop ==
    /\ pc["main"] = "closeStop"
    /\ stop' = TRUE
    /\ Goto("main", "closeConn")
    /\ UNCHANGED <<tcVars, addrMutex, handlerVars, linkVars, started, starts, outsideVars>>

(* Unsubscribe and hostApdConn.Close().                                    *)
CloseConn ==
    /\ pc["main"] = "closeConn"
    /\ ifEventQ' = <<>>
    /\ attached' = FALSE
    /\ hostapdQ' = <<>>
    /\ Goto("main", "wait")
    /\ UNCHANGED <<tcVars, addrMutex, handlerVars, operState, seenVlan, lifeVars, stations, ghostVars>>

(* stopWg.Wait()                                                           *)
StopDone ==
    /\ pc["main"] = "wait"
    /\ \A t \in Threads \ {"main"} : pc[t] = "exited"
    /\ Goto("main", IF started THEN "stopped" ELSE "unmonitored")
    /\ UNCHANGED <<tcVars, addrMutex, handlerVars, linkVars, lifeVars, outsideVars>>

(* The process is gone: what it kept in memory, and its socket.            *)
ProcessEnds ==
    /\ pc' = [t \in Threads |-> "off"]
    /\ NewPfInfo
    /\ vfVlan' = NoVlans
    /\ todo' = [t \in Threads |-> {}]
    /\ call' = [t \in Threads |-> NoCall]
    /\ cut' = FALSE
    /\ addrMutex' = "free"
    /\ event' = NoEvent
    /\ deauthRequests' = {}
    /\ timedOut' = {}
    /\ expired' = {}
    /\ sweep' = {}
    /\ expiring' = {}
    /\ operState' = "unknown"
    /\ seenVlan' = NoVlans
    /\ stop' = FALSE
    /\ started' = FALSE
    /\ attached' = FALSE
    /\ hostapdQ' = <<>>
    /\ ifEventQ' = <<>>
    /\ missed' = FALSE
    /\ unheard' = {}
    /\ UNCHANGED <<hwVlan, hwState, starts, stations>>

(* resetInterfaces, whose error is only logged, then main returns.         *)
Exit ==
    /\ pc["main"] \in {"stopped", "unmonitored"}
    /\ \E S \in TcOutcomes : ResetInterfaces(S)
    /\ ProcessEnds

(* A panic (logEvent hands the recorder a nil object when the Authenticator *)
(* cannot be read) or a SIGKILL: no cleanup at all.                        *)
Crash ==
    /\ "crash" \in Faults
    /\ pc["main"] # "off"
    /\ ProcessEnds
    /\ UNCHANGED okFilter

-----------------------------------------------------------------------------
(* The environment                                                         *)

(* hostapd sends an event to an attached monitor.                          *)
Notify(e) ==
    IF attached
    THEN Len(hostapdQ) < MaxHostapdQ /\ hostapdQ' = Append(hostapdQ, e)
    ELSE UNCHANGED hostapdQ

StationConnects(a) ==
    /\ a \notin stations
    /\ stations' = stations \cup {a}
    /\ Notify([kind |-> "connected", addr |-> a])
    /\ UNCHANGED <<tcVars, pc, addrMutex, handlerVars, linkVars, lifeVars, attached,
                   ghostVars>>

(* The station leaves, or hostapd obeys a DEAUTHENTICATE of the monitor.   *)
StationDisconnects(a) ==
    /\ a \in stations
    /\ stations' = stations \ {a}
    /\ unheard' = unheard \ {a}
    /\ Notify([kind |-> "disconnected", addr |-> a])
    /\ UNCHANGED <<tcVars, pc, addrMutex, handlerVars, linkVars, lifeVars, attached,
                   missed>>

(* hostapd restarts: its stations and its attached monitors are forgotten. *)
HostapdRestarts ==
    /\ "hostapd" \in Faults
    /\ attached
    /\ stations' = {}
    /\ attached' = FALSE
    /\ unheard' = {}
    /\ UNCHANGED <<tcVars, pc, addrMutex, handlerVars, linkVars, lifeVars, hostapdQ, missed>>

Publish(s) ==
    IF Subscribed
    THEN Len(ifEventQ) < MaxIfEvents /\ ifEventQ' = Append(ifEventQ, s)
    ELSE UNCHANGED ifEventQ

LinkUpdate(s) ==
    /\ Subscribed
    /\ Publish(s)
    /\ UNCHANGED <<tcVars, pc, addrMutex, handlerVars, operState, seenVlan, lifeVars, outsideVars>>

(* A CNI plugin or an administrator sets a VF's VLAN; the kernel says so.  *)
CniSetVlan(v, x) ==
    /\ hwVlan' = [hwVlan EXCEPT ![v] = x]
    /\ missed' = (missed \/ pc["main"] = "config")
    /\ \E s \in LinkUpdates : Publish(s)
    /\ UNCHANGED <<hwState, okFilter, pfInfo, walk, pc, addrMutex, handlerVars, operState,
                   seenVlan, lifeVars, hostapdVars, unheard>>

(* requestTimeout has passed since the request was stamped.                *)
RequestAges(a) ==
    /\ a \in deauthRequests \ timedOut
    /\ timedOut' = timedOut \cup {a}
    /\ UNCHANGED <<tcVars, pc, addrMutex, event, deauthRequests, expired, sweepVars, linkVars,
                   lifeVars, outsideVars>>

-----------------------------------------------------------------------------
Walk == \E t \in Threads : NextVf(t) \/ ConfigureVf(t)

Reply == ReplyExit \/ ReadEvent \/ HandleAuthenticateEvent \/ HandleDeAuthenticateEvent
             \/ ReplyDone \/ ReplyReport

IfEvents == IfEventsExit \/ ReceiveLinkUpdate \/ HandlePfEventForOpStateChange
                \/ HandlePfEventForVlanChange \/ LinkByNameFails \/ IfEventsDone

Timeout == TimeoutExit \/ ReadClock \/ BeginSweep \/ EndSweep \/ ExpireRequest \/ ExpireDone

Main == Boot \/ BootFails \/ StartFails \/ StartMonitor \/ StartWalkFails \/ StartThreads \/ AttachHostapd
            \/ StartReport \/ StopMonitor \/ StopSetAuth \/ RestoreDone \/ CloseStop
            \/ CloseConn \/ StopDone \/ Exit

Environment ==
    \/ Crash \/ HostapdRestarts
    \/ \E a \in Macs : StationConnects(a) \/ StationDisconnects(a) \/ RequestAges(a)
    \/ \E s \in LinkUpdates : LinkUpdate(s)
    \/ \E v \in VFs, x \in CniVlans : CniSetVlan(v, x)

Next == Walk \/ Reply \/ IfEvents \/ Timeout \/ Main \/ Environment

Spec == Init /\ [][Next]_vars

(* The goroutines keep running and the Go mutex does not starve a waiter:  *)
(* strong fairness of each thread. The signal, a start of the process and  *)
(* everything outside it may happen or not; only time is sure to pass.     *)
ReplyThread == Reply \/ NextVf("reply") \/ ConfigureVf("reply")
IfEventsThread == IfEvents \/ NextVf("ifEvents") \/ ConfigureVf("ifEvents")
TimeoutThread == Timeout \/ NextVf("timeout") \/ ConfigureVf("timeout")
MainThread ==
    /\ Main \/ NextVf("main") \/ ConfigureVf("main")
    /\ pc["main"] \notin {"off", "running"}

Fairness ==
    /\ SF_vars(ReplyThread) /\ SF_vars(IfEventsThread) /\ SF_vars(TimeoutThread)
    /\ SF_vars(MainThread)
    /\ \A a \in Macs : WF_vars(RequestAges(a))

FairSpec == Spec /\ Fairness

-----------------------------------------------------------------------------
MainLabels == {"off", "start", "config", "attach", "report", "running", "setAuth", "restore",
               "closeStop", "closeConn", "wait", "stopped", "unmonitored"}
ReplyLabels == {"off", "read", "lock", "config", "report", "exited"}
IfEventsLabels == {"off", "select", "oper", "vlan", "config", "exited"}
TimeoutLabels == {"off", "idle", "lock", "sweep", "config", "exited"}

LabelsOK ==
    /\ pc \in [Threads -> MainLabels \cup ReplyLabels \cup IfEventsLabels \cup TimeoutLabels]
    /\ pc["main"] \in MainLabels
    /\ pc["reply"] \in ReplyLabels
    /\ pc["ifEvents"] \in IfEventsLabels
    /\ pc["timeout"] \in TimeoutLabels

(* Every variable has its type; in particular no VF is, or is remembered,  *)
(* on a VLAN that nobody gave it.                                          *)
TypeOK ==
    /\ TcTypeOK
    /\ LabelsOK
    /\ addrMutex \in (Threads \ {"main"}) \cup {"free"}
    /\ event \in Events \cup {NoEvent}
    /\ deauthRequests \in SUBSET Macs
    /\ timedOut \in SUBSET deauthRequests
    /\ expired \in SUBSET Macs
    /\ sweep \in SUBSET Macs
    /\ expiring \in SUBSET Macs
    /\ operState \in OperStates
    /\ seenVlan \in [VFs -> AllVlans]
    /\ stop \in BOOLEAN
    /\ started \in BOOLEAN
    /\ stations \in SUBSET Macs
    /\ attached \in BOOLEAN
    /\ hostapdQ \in Seq(Events)
    /\ ifEventQ \in Seq(OperStates)
    /\ missed \in BOOLEAN
    /\ unheard \in SUBSET Macs
    /\ starts \in 0 .. MaxStarts

(* The port is open exactly while some client is authenticated: the flag   *)
(* PFInfo.Authenticated, which the three handlers derive from the size of  *)
(* AuthenticatedAddrs, never drifts from it while the monitor runs.        *)
PortFollowsClients == Running => (Authenticated <=> AuthenticatedAddrs # {})

(* Whenever no handler is at work and the last walk over the VFs did not   *)
(* fail, every VF's link is up for its user if the port is open and        *)
(* disabled if it is not, whatever order events, link updates and timeouts *)
(* came in.                                                                *)
VfStateFollowsPort ==
    Running /\ addrMutex = "free" /\ ~cut =>
        \A v \in VFs : hwState[v] = StateFor(Authenticated)

(* A VLAN change the interface's goroutine has yet to look at, or made     *)
(* when nobody listened yet.                                               *)
LinkUpdatePending == missed \/ ifEventQ # <<>> \/ pc["ifEvents"] \in {"oper", "vlan", "config"}

(* With the port open every VF is on the VLAN the monitor remembers for it; *)
(* with the port closed it is on the reserved one, or on that remembered   *)
(* one. A change by someone else lasts only until its update is handled.   *)
VfVlanFollowsPort ==
    Running /\ addrMutex = "free" /\ ~cut /\ ~LinkUpdatePending =>
        \A v \in VFs : hwVlan[v] \in {vfVlan[v]} \cup (IF Authenticated THEN {} ELSE {ReservedVlan})

(* tc.go, AllowTrafficFromMac: "Restore the original vlan and state on the *)
(* VF when first client gets authenticated." With an open port, nothing in *)
(* progress and no failed walk, no VF is left on the VLAN that isolates it. *)
OriginalVlanRestored ==
    Running /\ addrMutex = "free" /\ ~cut /\ ~LinkUpdatePending /\ Authenticated =>
        \A v \in VFs : hwVlan[v] # ReservedVlan

(* While no handler is at work, the filters accept frames from a MAC, on   *)
(* all netdevs, exactly when it is an authenticated client.                *)
FilterFollowsClients ==
    addrMutex = "free" /\ pc["main"] # "off" =>
        \A a \in Macs : okFilter[a] = IF a \in AuthenticatedAddrs THEN Netdevs ELSE {}

(* Once it has handled what is queued, an attached monitor's clients are   *)
(* exactly the stations hostapd has authorised, but for those authorised   *)
(* before ATTACH and those hostapd kept although the monitor's request to  *)
(* deauthenticate them timed out: neither a timeout racing a late event    *)
(* nor a reconnection leaves a client behind or cuts a station off.        *)
ClientsAreStations ==
    attached => \A a \in Macs : WillBeClient(a) <=> a \in stations \ unheard

(* A deauthentication request is for a current client (but for the one     *)
(* being expired): a link that comes up withdraws every request, and a     *)
(* client that reconnects is never cut off by a request of its past.       *)
RequestsAreOfClients == deauthRequests \subseteq AuthenticatedAddrs \cup expiring

(* The timeout cuts a client off only for a request that is still pending  *)
(* and requestTimeout old when it does so, although handleRequestsTimeout  *)
(* reads the clock before it waits for the mutex: not for one that was     *)
(* confirmed, withdrawn, or stamped again meanwhile.                       *)
CutOffOnlyWhenDue == expiring \subseteq timedOut

(* The controlled port the interface is, seen from outside.               *)
PortMode ==
    IF pc["main"] = "off" THEN "off"
    ELSE IF pc["main"] \in {"start", "config"} THEN "engaging"
    ELSE IF Running THEN "controlled"
    ELSE "released"

Port == INSTANCE ControlledPort WITH
            mode    <- PortMode,
            clients <- AuthenticatedAddrs,
            passing <- {a \in Macs : PF \in okFilter[a]},
            up      <- {v \in VFs : hwState[v] = "auto"}

(* Every step of the monitor, with any of its calls failing, is a step of  *)
(* the controlled port: a filter of the PF opens only for a client and     *)
(* closes only for a non-client, a VF is raised only while there is a      *)
(* client, and the port is not controlled before all VFs are shut.         *)
ImplementsControlledPort == Port!PortSpec

(* Every deauthentication request is resolved, by hostapd's event, by the  *)
(* link coming up or by its timeout, once the link stops flapping.         *)
LinkQuiet == ifEventQ = <<>> /\ pc["ifEvents"] = "select"
RequestsResolved ==
    <>[](LinkQuiet /\ pc["main"] = "running") => <>[](deauthRequests = {})

(* StopMonitor returns: every goroutine finishes the event, update or sweep *)
(* it is at, gets the mutex it waits for, and sees the closed stop channel. *)
StopCompletes ==
    pc["main"] = "closeStop" ~> pc["main"] \in {"stopped", "unmonitored", "off"}

-----------------------------------------------------------------------------
(* The inductive invariant behind PortFollowsClients, VfStateFollowsPort   *)
(* and RequestsAreOfClients.                                               *)

Handlers == {"reply", "ifEvents", "timeout"}

(* A handler holds the mutex exactly in its critical section.              *)
MutexInv == \A t \in Handlers : addrMutex = t <=> pc[t] \in {"config", "sweep"}

(* No walk is left unfinished outside a walk.                              *)
WalkInv == \A t \in Threads : ~InWalk(t) => WalkDone(t)

(* Goroutines and clients exist only after the first walk of StartMonitor. *)
QuietInv ==
    pc["main"] \in {"off", "start", "config"} =>
        AuthenticatedAddrs = {} /\ \A t \in Handlers : pc[t] = "off"

Visiting(t, v) == v \in todo[t] \/ (call[t] # NoCall /\ call[t].vf = v)

(* StartMonitor shuts the VFs one by one.                                  *)
StartInv ==
    pc["main"] = "config" =>
        /\ ~Authenticated
        /\ AuthenticatedAddrs = {}
        /\ call["main"] # NoCall => call["main"].state = "disable"
        /\ \A v \in VFs : hwState[v] = "disable" \/ Visiting("main", v)

(* Under the mutex the flag cannot change below a call in progress.        *)
CallInv ==
    Running => \A t \in Handlers : call[t] # NoCall => call[t].state = StateFor(Authenticated)

(* A VF not in the state the port asks for is still to be visited by the   *)
(* walk in progress, or was skipped by one that failed.                    *)
VfInv ==
    Running => \A v \in VFs :
        \/ hwState[v] = StateFor(Authenticated)
        \/ Visiting("reply", v)
        \/ Visiting("timeout", v)
        \/ cut /\ WalkDone("reply") /\ WalkDone("timeout")

(* A request is acted on one at a time, under the mutex.                   *)
ExpiringInv ==
    /\ pc["timeout"] # "config" => expiring = {}
    /\ \A a, b \in expiring : a = b

IInv ==
    /\ MutexInv /\ WalkInv /\ QuietInv /\ StartInv /\ CallInv /\ VfInv /\ ExpiringInv
    /\ PortFollowsClients /\ RequestsAreOfClients
=============================================================================
