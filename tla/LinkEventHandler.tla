-------------------------- MODULE LinkEventHandler --------------------------
(***************************************************************************)
(* pkg/netlink/eventhandle.go and its users: the goroutine that hands the  *)
(* kernel's link updates to the interface monitors of the process, over    *)
(* unbuffered channels and with its mutex held, while main starts the      *)
(* monitors one by one and, on a signal, stops them one by one.            *)
(*                                                                         *)
(* Of a monitor only the goroutine that receives the updates is here;      *)
(* InterfaceMonitor has the others.                                        *)
(***************************************************************************)
EXTENDS Naturals, Sequences, FiniteSets

CONSTANTS
    Ifaces,       \* the interfaces main was given
    NoIface,      \* no interface
    NetFaults,    \* "subscribe": LinkSubscribe fails; "closed": its channel
                  \* closes; "start", "attach": StartMonitor or its ATTACH fails;
                  \* "init": initInterfaces fails; "metrics": the server ends
    MaxUpdates    \* bound: updates the kernel holds for the socket

ASSUME NoIfaceAssumption == NoIface \notin Ifaces
ASSUME MaxUpdatesAssumption == MaxUpdates \in Nat

VARIABLES
    mutex,          \* who holds LinkEventHandler.mutex across a step
    ifaceChannels,  \* interfaces with a subscribed channel
    hstop,          \* LinkEventHandler.stop is closed
    hpc,            \* where handleEvents is
    update,         \* the interface of the update it handles
    kernelQ,        \* updates on their way to it
    mpc,            \* where main is
    cur,            \* the monitor main is starting or stopping
    phase,          \* main's loop: "start" or "stop"
    unstarted,      \* interfaces the start loop has yet to come to
    monitors,       \* main's list of running monitors
    err,            \* main's err is not nil, a variable that ...
    metrics,        \* ... the goroutine of the metrics server assigns, too
    ipc,            \* where each monitor's handleIfEvents is
    istop,          \* monitors whose stop channel is closed
    closed          \* monitors whose ifEventCh is closed

handlerVars == <<mutex, ifaceChannels, hstop, hpc, update, kernelQ>>
errVars == <<err, metrics>>
mainVars == <<mpc, cur, phase, unstarted, monitors, errVars>>
monitorVars == <<ipc, istop, closed>>
linkVars == <<handlerVars, mainVars, monitorVars>>

Alive == mpc \notin {"failed", "done", "dead"}

LinkInit ==
    /\ mutex = "free"
    /\ ifaceChannels = {}
    /\ hstop = FALSE
    /\ hpc = "subscribe"
    /\ update = NoIface
    /\ kernelQ = <<>>
    /\ mpc = "init"
    /\ cur = NoIface
    /\ phase = "start"
    /\ unstarted = Ifaces
    /\ monitors = {}
    /\ err = FALSE
    /\ metrics = "listening"
    /\ ipc = [i \in Ifaces |-> "off"]
    /\ istop = {}
    /\ closed = {}

-----------------------------------------------------------------------------
(* handleEvents                                                            *)

LinkSubscribe ==
    /\ Alive /\ hpc = "subscribe" /\ mpc \notin {"init", "initCheck"}
    /\ \/ hpc' = "select"
       \/ "subscribe" \in NetFaults /\ hpc' = "exited"
    /\ UNCHANGED <<mutex, ifaceChannels, hstop, update, kernelQ, mainVars, monitorVars>>

ReceiveUpdate ==
    /\ Alive /\ hpc = "select"
    /\ kernelQ # <<>>
    /\ update' = Head(kernelQ)
    /\ kernelQ' = Tail(kernelQ)
    /\ hpc' = "lock"
    /\ UNCHANGED <<mutex, ifaceChannels, hstop, mainVars, monitorVars>>

(* The stop channel, or an update channel that was closed: for good.       *)
HandleEventsExit ==
    /\ Alive /\ hpc = "select"
    /\ hstop \/ "closed" \in NetFaults
    /\ hpc' = "exited"
    /\ UNCHANGED <<mutex, ifaceChannels, hstop, update, kernelQ, mainVars, monitorVars>>

(* Faulty: the channel is looked up under the mutex, but not sent to.      *)
LookupChannelUnlocks ==
    /\ Alive /\ hpc = "lock"
    /\ mutex = "free"
    /\ IF update \in ifaceChannels
       THEN hpc' = "send" /\ UNCHANGED update
       ELSE hpc' = "select" /\ update' = NoIface
    /\ UNCHANGED <<mutex, ifaceChannels, hstop, kernelQ, mainVars, monitorVars>>

(* The mutex is kept while the update is sent.                             *)
LookupChannel ==
    /\ Alive /\ hpc = "lock"
    /\ mutex = "free"
    /\ IF update \in ifaceChannels
       THEN hpc' = "send" /\ mutex' = "handler" /\ UNCHANGED update
       ELSE hpc' = "select" /\ update' = NoIface /\ UNCHANGED mutex
    /\ UNCHANGED <<ifaceChannels, hstop, kernelQ, mainVars, monitorVars>>

(* An unbuffered channel: sender and receiver step together.               *)
Deliver ==
    /\ Alive /\ hpc = "send"
    /\ update \notin closed
    /\ ipc[update] = "select"
    /\ ipc' = [ipc EXCEPT ![update] = "busy"]
    /\ hpc' = "select"
    /\ mutex' = "free"
    /\ update' = NoIface
    /\ UNCHANGED <<ifaceChannels, hstop, kernelQ, mainVars, istop, closed>>

(* A send on a closed channel panics, and with it the process ends.        *)
Panic ==
    /\ Alive /\ hpc = "send"
    /\ update \in closed
    /\ mpc' = "dead"
    /\ hpc' = "exited"
    /\ UNCHANGED <<mutex, ifaceChannels, hstop, update, kernelQ, cur, phase, unstarted,
                   monitors, errVars, monitorVars>>

-----------------------------------------------------------------------------
(* handleIfEvents of monitor i                                             *)

(* Faulty: the handlers wait for an answer that a stopped monitor no       *)
(* longer gets.                                                            *)
IfEventHandledWaits(i) ==
    /\ Alive /\ ipc[i] = "busy"
    /\ i \notin istop
    /\ ipc' = [ipc EXCEPT ![i] = "select"]
    /\ UNCHANGED <<handlerVars, mainVars, istop, closed>>

(* Both handlers of the update ran: they wait for addrMutex, which other   *)
(* goroutines hold while they talk to the kernel and to the API server.    *)
IfEventHandled(i) ==
    /\ Alive /\ ipc[i] = "busy"
    /\ ipc' = [ipc EXCEPT ![i] = "select"]
    /\ UNCHANGED <<handlerVars, mainVars, istop, closed>>

(* Faulty: the goroutine ends without closing ifEventCh.                   *)
IfEventsStopOpen(i) ==
    /\ Alive /\ ipc[i] = "select"
    /\ i \in istop
    /\ ipc' = [ipc EXCEPT ![i] = "exited"]
    /\ UNCHANGED <<handlerVars, mainVars, istop, closed>>

IfEventsStop(i) ==
    /\ Alive /\ ipc[i] = "select"
    /\ i \in istop
    /\ ipc' = [ipc EXCEPT ![i] = "exited"]
    /\ closed' = closed \cup {i}
    /\ UNCHANGED <<handlerVars, mainVars, istop>>

-----------------------------------------------------------------------------
(* main                                                                    *)

InitInterfaces ==
    /\ mpc = "init"
    /\ err' \in BOOLEAN
    /\ err' => "init" \in NetFaults
    /\ mpc' = "initCheck"
    /\ UNCHANGED <<handlerVars, cur, phase, unstarted, monitors, metrics, monitorVars>>

(* os.Exit(1), or ifEventHandler.Start().                                  *)
InitChecked ==
    /\ mpc = "initCheck"
    /\ mpc' = IF err THEN "failed" ELSE "loop"
    /\ UNCHANGED <<handlerVars, cur, phase, unstarted, monitors, errVars, monitorVars>>

(* StartMonitor fails before it subscribes.                                *)
StartFails(i) ==
    /\ mpc = "loop" /\ phase = "start"
    /\ i \in unstarted
    /\ "start" \in NetFaults
    /\ unstarted' = unstarted \ {i}
    /\ cur' = i
    /\ err' = TRUE
    /\ mpc' = "check"
    /\ UNCHANGED <<handlerVars, phase, monitors, metrics, monitorVars>>

Subscribe(i) ==
    /\ mpc = "loop" /\ phase = "start"
    /\ i \in unstarted
    /\ mutex = "free"
    /\ ifaceChannels' = ifaceChannels \cup {i}
    /\ ipc' = [ipc EXCEPT ![i] = "select"]
    /\ unstarted' = unstarted \ {i}
    /\ cur' = i
    /\ mpc' = "attach"
    /\ UNCHANGED <<mutex, hstop, hpc, update, kernelQ, phase, monitors, errVars, istop, closed>>

(* Faulty: the failed monitor is dropped before StopMonitor undoes it.     *)
AttachForgets ==
    /\ mpc = "attach"
    /\ \/ err' = FALSE /\ mpc' = "check" /\ UNCHANGED cur
       \/ "attach" \in NetFaults /\ mpc' = "close" /\ cur' = NoIface /\ UNCHANGED err
    /\ UNCHANGED <<handlerVars, phase, unstarted, monitors, metrics, monitorVars>>

(* ATTACH was written and StartMonitor returns nil, or StopMonitor undoes  *)
(* the start.                                                              *)
Attach ==
    /\ mpc = "attach"
    /\ \/ err' = FALSE /\ mpc' = "check"
       \/ "attach" \in NetFaults /\ mpc' = "close" /\ UNCHANGED err
    /\ UNCHANGED <<handlerVars, cur, phase, unstarted, monitors, metrics, monitorVars>>

(* if err != nil { continue }, a statement after the assignment.           *)
StartChecked ==
    /\ mpc = "check"
    /\ monitors' = IF err THEN monitors ELSE monitors \cup {cur}
    /\ cur' = NoIface
    /\ mpc' = "loop"
    /\ UNCHANGED <<handlerVars, phase, unstarted, errVars, monitorVars>>

(* Faulty: a server that was shut down in order leaves err nil.            *)
MetricsReturnsNil ==
    /\ Alive /\ metrics = "listening"
    /\ "metrics" \in NetFaults
    /\ metrics' = "returned"
    /\ err' = FALSE
    /\ UNCHANGED <<handlerVars, mpc, cur, phase, unstarted, monitors, monitorVars>>

(* Faulty: the server is started again after an error.                     *)
MetricsRestarts ==
    /\ Alive /\ metrics = "listening"
    /\ "metrics" \in NetFaults
    /\ err' = TRUE
    /\ UNCHANGED <<handlerVars, mpc, cur, phase, unstarted, monitors, metrics, monitorVars>>

(* registerPromHandler returns, always with an error, to its goroutine,    *)
(* which assigns it to main's variable.                                    *)
MetricsReturns ==
    /\ Alive /\ metrics = "listening"
    /\ "metrics" \in NetFaults
    /\ metrics' = "returned"
    /\ err' = TRUE
    /\ UNCHANGED <<handlerVars, mpc, cur, phase, unstarted, monitors, monitorVars>>

(* All interfaces were tried, and a signal arrives.                        *)
Signal ==
    /\ mpc = "loop" /\ phase = "start"
    /\ unstarted = {}
    /\ phase' = "stop"
    /\ UNCHANGED <<handlerVars, mpc, cur, unstarted, monitors, errVars, monitorVars>>

(* StopMonitor of the next monitor: close(m.stop), ...                     *)
StopNext(i) ==
    /\ mpc = "loop" /\ phase = "stop"
    /\ i \in monitors
    /\ monitors' = monitors \ {i}
    /\ cur' = i
    /\ mpc' = "close"
    /\ UNCHANGED <<handlerVars, phase, unstarted, monitorVars, errVars>>

CloseStop ==
    /\ mpc = "close"
    /\ istop' = istop \cup {cur}
    /\ mpc' = "unsubscribe"
    /\ UNCHANGED <<handlerVars, cur, phase, unstarted, monitors, errVars, ipc, closed>>

(* Faulty: the channel stays in ifaceChannels.                             *)
UnsubscribeKeeps ==
    /\ mpc = "unsubscribe"
    /\ mutex = "free"
    /\ mpc' = "wait"
    /\ UNCHANGED <<handlerVars, cur, phase, unstarted, monitors, errVars, monitorVars>>

(* ... Unsubscribe, ...                                                    *)
Unsubscribe ==
    /\ mpc = "unsubscribe"
    /\ mutex = "free"
    /\ ifaceChannels' = ifaceChannels \ {cur}
    /\ mpc' = "wait"
    /\ UNCHANGED <<mutex, hstop, hpc, update, kernelQ, cur, phase, unstarted, monitors, errVars,
                   monitorVars>>

(* ... stopWg.Wait(). In the start loop, StartMonitor returns the error.   *)
StopReturns ==
    /\ mpc = "wait"
    /\ ipc[cur] = "exited"
    /\ IF phase = "start"
       THEN mpc' = "check" /\ err' = TRUE /\ UNCHANGED cur
       ELSE mpc' = "loop" /\ cur' = NoIface /\ UNCHANGED err
    /\ UNCHANGED <<handlerVars, phase, unstarted, monitors, metrics, monitorVars>>

StopHandler ==
    /\ mpc = "loop" /\ phase = "stop"
    /\ monitors = {}
    /\ hstop' = TRUE
    /\ mpc' = "join"
    /\ UNCHANGED <<mutex, ifaceChannels, hpc, update, kernelQ, cur, phase, unstarted, monitors, errVars,
                   monitorVars>>

(* l.stopWg.Wait(); then resetInterfaces, and main returns.                *)
Cleanup ==
    /\ mpc = "join"
    /\ hpc = "exited"
    /\ mpc' = "done"
    /\ UNCHANGED <<handlerVars, cur, phase, unstarted, monitors, errVars, monitorVars>>

(* The kernel has an update for the netlink socket.                        *)
KernelUpdate(i) ==
    /\ Alive /\ hpc # "exited"
    /\ Len(kernelQ) < MaxUpdates
    /\ kernelQ' = Append(kernelQ, i)
    /\ UNCHANGED <<mutex, ifaceChannels, hstop, hpc, update, mainVars, monitorVars>>

-----------------------------------------------------------------------------
HandleEvents == LinkSubscribe \/ ReceiveUpdate \/ HandleEventsExit \/ LookupChannel \/ Deliver
                    \/ Panic

HandleIfEvents(i) == IfEventHandled(i) \/ IfEventsStop(i)

Shutdown == (\E i \in Ifaces : StopNext(i)) \/ CloseStop \/ Unsubscribe \/ StopReturns
                \/ StopHandler \/ Cleanup

Startup == InitInterfaces \/ InitChecked \/ (\E i \in Ifaces : StartFails(i) \/ Subscribe(i))
               \/ Attach \/ StartChecked \/ Signal

LinkNext ==
    \/ HandleEvents \/ Startup \/ Shutdown \/ MetricsReturns
    \/ \E i \in Ifaces : HandleIfEvents(i) \/ KernelUpdate(i)

LinkSpec == LinkInit /\ [][LinkNext]_linkVars

(* Goroutines run, a Go mutex does not starve a waiter, and a select with  *)
(* several ready cases picks any of them, so none is passed over for ever. *)
LinkFairness ==
    /\ WF_linkVars(HandleEvents) /\ SF_linkVars(HandleEventsExit)
    /\ SF_linkVars(LookupChannel)
    /\ SF_linkVars(Shutdown)
    /\ \A i \in Ifaces : WF_linkVars(HandleIfEvents(i)) /\ SF_linkVars(IfEventsStop(i))

FairLinkSpec == LinkSpec /\ LinkFairness

-----------------------------------------------------------------------------
(* Every variable has its type, and there is an interface in hand where    *)
(* handleEvents or main works on one.                                      *)
LinkTypeOK ==
    /\ mutex \in {"free", "handler"}
    /\ ifaceChannels \in SUBSET Ifaces
    /\ hstop \in BOOLEAN
    /\ hpc \in {"subscribe", "select", "lock", "send", "exited"}
    /\ update \in Ifaces \cup {NoIface}
    /\ kernelQ \in Seq(Ifaces)
    /\ mpc \in {"init", "initCheck", "loop", "attach", "check", "close", "unsubscribe", "wait",
                "join", "failed", "done", "dead"}
    /\ err \in BOOLEAN
    /\ metrics \in {"listening", "returned"}
    /\ cur \in Ifaces \cup {NoIface}
    /\ phase \in {"start", "stop"}
    /\ unstarted \in SUBSET Ifaces
    /\ monitors \in SUBSET Ifaces
    /\ ipc \in [Ifaces -> {"off", "select", "busy", "exited"}]
    /\ istop \in SUBSET Ifaces
    /\ closed \in SUBSET Ifaces
    /\ hpc \in {"lock", "send"} => update # NoIface
    /\ mpc \in {"attach", "check", "close", "unsubscribe", "wait"} => cur # NoIface

(* A monitor whose StopMonitor has come past Unsubscribe is never sent an  *)
(* update again: one that was looked up before is delivered first, because *)
(* handleEvents keeps the mutex while it sends.                            *)
NoUpdateAfterUnsubscribe == hpc = "send" => update \in ifaceChannels

(* Only the monitor main is stopping can have its channel closed while it  *)
(* is still subscribed: the panic is confined to the time between the two  *)
(* statements of StopMonitor.                                              *)
ClosedWhileSubscribed ==
    closed \cap ifaceChannels # {} =>
        closed \cap ifaceChannels = {cur} /\ mpc \in {"unsubscribe", "dead"}

Running == {i \in Ifaces : ipc[i] \in {"select", "busy"}}
Orphans == Running \ (monitors \cup {cur})

(* main lists, and later stops, only monitors that run: StopMonitor of one *)
(* whose StartMonitor failed would close its channel again.                *)
ListedAreRunning == monitors \subseteq Running \ istop

(* The error of the metrics server may be taken for one of StartMonitor,   *)
(* and a running monitor left out of the list, never to be stopped. That   *)
(* happens to one monitor at most.                                         *)
OneOrphan ==
    /\ \A i, j \in Orphans : i = j
    /\ metrics = "listening" => Orphans = {}

(* Nobody waits for somebody who cannot act: who waits for the mutex waits *)
(* for a send, a send for a monitor that is there to receive or has closed *)
(* the channel, stopWg.Wait() of StopMonitor for a monitor that was told   *)
(* to stop, and that of the handler for a handler that was. A monitor      *)
(* waits for none of them, so that there is no circle.                     *)
WaitsAreServed ==
    /\ mutex = "handler" => hpc = "send" \/ mpc = "dead"
    /\ hpc = "send" => update \in Running \cup closed
    /\ mpc = "wait" => cur \in istop /\ ipc[cur] # "off"
    /\ mpc = "join" => hstop

(* main.go: signals are captured to clean up before exiting, so the        *)
(* process does not end otherwise.                                         *)
CleanupBeforeExit == mpc # "dead"

(* The handler is never stuck on one interface: every update it took is    *)
(* delivered or dropped, however busy the monitor is.                      *)
HandlerReturns == hpc \in {"lock", "send"} ~> hpc \in {"select", "exited"}

(* A shutdown ends: Unsubscribe waits for a mutex whose holder waits for a *)
(* monitor that is itself being stopped, and yet nobody waits for ever.    *)
ShutdownEnds == phase = "stop" ~> mpc \in {"done", "dead"}

-----------------------------------------------------------------------------
(* The inductive invariant behind the two safety invariants.               *)

(* The handler sends only with the mutex held.                             *)
SendInv == hpc = "send" => mutex = "handler" /\ update \in ifaceChannels

(* A channel is closed only after the stop channel, and a monitor told to  *)
(* stop is the current one or unsubscribed.                                *)
StopInv ==
    /\ closed \subseteq istop
    /\ \A i \in istop \cap ifaceChannels : i = cur /\ mpc \in {"unsubscribe", "dead"}

(* An interface is tried once, so a stopped monitor never comes back.      *)
OnceInv ==
    /\ unstarted \cap (istop \cup monitors \cup {cur}) = {}
    /\ monitors \cap (istop \cup {cur}) = {}
    /\ mpc = "attach" => cur \notin istop

(* The error main checks is that of the monitor it has started, unless the *)
(* server ended in between.                                                *)
ErrInv ==
    /\ mpc = "attach" => cur \in Running
    /\ mpc = "check" /\ ~err => cur \in Running \ istop
    /\ mpc = "check" /\ err /\ cur \in Running => metrics = "returned" /\ Orphans = {}
    /\ \A i \in Ifaces : ipc[i] = "exited" => i \in istop
    /\ \A i \in unstarted : ipc[i] = "off"
    /\ mpc \in {"init", "initCheck", "loop"} => cur = NoIface

(* A subscribed monitor runs or has closed its channel, which it does when *)
(* it ends, and main stops a monitor that it has started.                  *)
WaitInv ==
    /\ ifaceChannels \subseteq Running \cup closed
    /\ \A i \in Ifaces : ipc[i] = "exited" => i \in closed
    /\ mpc \in {"close", "unsubscribe", "wait"} => ipc[cur] # "off"
    /\ mpc \in {"unsubscribe", "wait"} => cur \in istop

LinkInv == SendInv /\ StopInv /\ OnceInv
RunInv == ErrInv /\ ListedAreRunning /\ OneOrphan
=============================================================================
