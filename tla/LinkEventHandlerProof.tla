----------------------- MODULE LinkEventHandlerProof -----------------------
(***************************************************************************)
(* Proofs about LinkEventHandler, for any set of interfaces, any bound on  *)
(* the queue and any of the faults.                                        *)
(***************************************************************************)
EXTENDS LinkEventHandler, SequenceTheorems, TLAPS

LEMMA LinkTypeStep == LinkTypeOK /\ [LinkNext]_linkVars => LinkTypeOK'
<1> SUFFICES ASSUME LinkTypeOK, [LinkNext]_linkVars PROVE LinkTypeOK'
  OBVIOUS
<1> USE NoIfaceAssumption DEF LinkTypeOK, handlerVars, mainVars, errVars, monitorVars
<1>1. CASE HandleEvents
  <2>1. CASE LinkSubscribe
    BY <2>1 DEF LinkSubscribe
  <2>2. CASE ReceiveUpdate
    BY <2>2 DEF ReceiveUpdate
  <2>3. CASE HandleEventsExit
    BY <2>3 DEF HandleEventsExit
  <2>4. CASE LookupChannel
    BY <2>4 DEF LookupChannel
  <2>5. CASE Deliver
    BY <2>5 DEF Deliver
  <2>6. CASE Panic
    BY <2>6 DEF Panic
  <2>7. QED  BY <1>1, <2>1, <2>2, <2>3, <2>4, <2>5, <2>6 DEF HandleEvents
<1>2. CASE Startup
  <2>1. ASSUME NEW i \in Ifaces, StartFails(i) PROVE LinkTypeOK'
    <3>1. err' \in BOOLEAN
      BY <2>1, Zenon DEF StartFails
    <3>2. QED  BY <2>1, <3>1 DEF StartFails
  <2>2. ASSUME NEW i \in Ifaces, Subscribe(i) PROVE LinkTypeOK'
    BY <2>2 DEF Subscribe
  <2>3. CASE Attach
    <3>1. err' \in BOOLEAN
      BY <2>3, Zenon DEF Attach
    <3>2. QED  BY <2>3, <3>1 DEF Attach
  <2>4. CASE InitInterfaces
    <3>1. err' \in BOOLEAN
      BY <2>4, Zenon DEF InitInterfaces
    <3>2. QED  BY <2>4, <3>1 DEF InitInterfaces
  <2>5. CASE InitChecked
    BY <2>5 DEF InitChecked
  <2>6. CASE StartChecked
    BY <2>6 DEF StartChecked
  <2>7. CASE Signal
    BY <2>7 DEF Signal
  <2>8. QED  BY <1>2, <2>1, <2>2, <2>3, <2>4, <2>5, <2>6, <2>7 DEF Startup
<1>3. CASE Shutdown
  <2>1. ASSUME NEW i \in Ifaces, StopNext(i) PROVE LinkTypeOK'
    BY <2>1 DEF StopNext
  <2>2. CASE CloseStop
    BY <2>2 DEF CloseStop
  <2>3. CASE Unsubscribe
    BY <2>3 DEF Unsubscribe
  <2>4. CASE StopReturns
    <3>1. err' \in BOOLEAN
      BY <2>4, Zenon DEF StopReturns
    <3>2. QED  BY <2>4, <3>1 DEF StopReturns
  <2>5. CASE StopHandler
    BY <2>5 DEF StopHandler
  <2>6. CASE Cleanup
    BY <2>6 DEF Cleanup
  <2>7. QED  BY <1>3, <2>1, <2>2, <2>3, <2>4, <2>5, <2>6 DEF Shutdown
<1>4. ASSUME NEW i \in Ifaces, HandleIfEvents(i) PROVE LinkTypeOK'
  BY <1>4 DEF HandleIfEvents, IfEventHandled, IfEventsStop
<1>5. ASSUME NEW i \in Ifaces, KernelUpdate(i) PROVE LinkTypeOK'
  <2>1. Append(kernelQ, i) \in Seq(Ifaces)
    BY <1>5, AppendProperties
  <2>2. QED  BY <1>5, <2>1 DEF KernelUpdate
<1>6. CASE MetricsReturns
  <2>1. err' \in BOOLEAN
    BY <1>6, Zenon DEF MetricsReturns
  <2>2. QED  BY <1>6, <2>1 DEF MetricsReturns
<1>7. CASE UNCHANGED linkVars
  BY <1>7 DEF linkVars
<1>8. QED  BY <1>1, <1>2, <1>3, <1>4, <1>5, <1>6, <1>7 DEF LinkNext

(* Every variable of the link event handler keeps its type.                *)
THEOREM LinkTypeCorrect == LinkSpec => []LinkTypeOK
<1>1. LinkInit => LinkTypeOK
  <2>1. <<>> \in Seq(Ifaces)
    OBVIOUS
  <2>2. QED  BY <2>1 DEF LinkInit, LinkTypeOK
<1>2. QED  BY <1>1, LinkTypeStep, PTL DEF LinkSpec

LEMMA LinkInvInit == LinkInit => LinkInv /\ RunInv
  BY NoIfaceAssumption DEF LinkInit, LinkInv, SendInv, StopInv, OnceInv, RunInv, ErrInv,
                           ListedAreRunning, OneOrphan, Orphans, Running

LEMMA LinkInvStep == LinkTypeOK /\ LinkInv /\ RunInv /\ [LinkNext]_linkVars => LinkInv'
<1> SUFFICES ASSUME LinkTypeOK, LinkInv, RunInv, [LinkNext]_linkVars PROVE LinkInv'
  OBVIOUS
<1> USE NoIfaceAssumption
        DEF LinkTypeOK, LinkInv, SendInv, StopInv, OnceInv, handlerVars, mainVars, errVars, monitorVars
<1>1. CASE HandleEvents
  <2>1. CASE LinkSubscribe
    BY <2>1 DEF LinkSubscribe
  <2>2. CASE ReceiveUpdate
    BY <2>2 DEF ReceiveUpdate
  <2>3. CASE HandleEventsExit
    BY <2>3 DEF HandleEventsExit
  <2>4. CASE LookupChannel
    BY <2>4 DEF LookupChannel
  <2>5. CASE Deliver
    BY <2>5 DEF Deliver
  <2>6. CASE Panic
    BY <2>6 DEF Panic
  <2>7. QED  BY <1>1, <2>1, <2>2, <2>3, <2>4, <2>5, <2>6 DEF HandleEvents
<1>2. CASE Startup
  <2>1. ASSUME NEW i \in Ifaces, StartFails(i) PROVE LinkInv'
    BY <2>1 DEF StartFails
  <2>2. ASSUME NEW i \in Ifaces, Subscribe(i) PROVE LinkInv'
    BY <2>2 DEF Subscribe
  <2>3. CASE Attach
    BY <2>3 DEF Attach
  <2>4. CASE InitInterfaces \/ InitChecked \/ Signal
    BY <2>4 DEF InitInterfaces, InitChecked, Signal
  <2>5. CASE StartChecked
    <3>1. NoIface \notin unstarted /\ NoIface \notin monitors \cup {cur}
      BY <2>5 DEF StartChecked
    <3>2. istop \cap ifaceChannels = {} /\ (~err => cur \notin istop)
      BY <2>5 DEF StartChecked, RunInv, ErrInv
    <3>3. QED  BY <2>5, <3>1, <3>2 DEF StartChecked
  <2>6. QED  BY <1>2, <2>1, <2>2, <2>3, <2>4, <2>5 DEF Startup
<1>3. CASE Shutdown
  <2>1. ASSUME NEW i \in Ifaces, StopNext(i) PROVE LinkInv'
    BY <2>1 DEF StopNext
  <2>2. CASE CloseStop
    BY <2>2 DEF CloseStop
  <2>3. CASE Unsubscribe
    BY <2>3 DEF Unsubscribe
  <2>4. CASE StopReturns
    BY <2>4 DEF StopReturns
  <2>5. CASE StopHandler
    BY <2>5 DEF StopHandler
  <2>6. CASE Cleanup
    BY <2>6 DEF Cleanup
  <2>7. QED  BY <1>3, <2>1, <2>2, <2>3, <2>4, <2>5, <2>6 DEF Shutdown
<1>4. ASSUME NEW i \in Ifaces, HandleIfEvents(i) \/ KernelUpdate(i) PROVE LinkInv'
  BY <1>4 DEF HandleIfEvents, IfEventHandled, IfEventsStop, KernelUpdate
<1>5. CASE MetricsReturns
  BY <1>5 DEF MetricsReturns
<1>6. CASE UNCHANGED linkVars
  BY <1>6 DEF linkVars
<1>7. QED  BY <1>1, <1>2, <1>3, <1>4, <1>5, <1>6 DEF LinkNext

LEMMA RunInvStep == LinkTypeOK /\ LinkInv /\ RunInv /\ [LinkNext]_linkVars => RunInv'
<1> SUFFICES ASSUME LinkTypeOK, LinkInv, RunInv, [LinkNext]_linkVars PROVE RunInv'
  OBVIOUS
<1> USE NoIfaceAssumption
        DEF LinkTypeOK, RunInv, ErrInv, ListedAreRunning, OneOrphan, Orphans, Running, handlerVars,
            mainVars, errVars, monitorVars
<1>1. CASE HandleEvents
  <2>1. CASE Deliver
    <3>1. Running' = Running /\ UNCHANGED <<mpc, cur, unstarted, monitors, err, metrics, istop>>
      BY <2>1 DEF Deliver
    <3>2. \A i \in Ifaces : /\ ipc'[i] = "exited" => ipc[i] = "exited"
                            /\ ipc[i] = "off" => ipc'[i] = "off"
      BY <2>1 DEF Deliver
    <3>3. QED  BY <3>1, <3>2
  <2>2. QED
    BY <1>1, <2>1 DEF HandleEvents, LinkSubscribe, ReceiveUpdate, HandleEventsExit, LookupChannel,
                      Panic
<1>2. CASE Startup
  <2>1. ASSUME NEW i \in Ifaces, StartFails(i) PROVE RunInv'
    BY <2>1 DEF StartFails, LinkInv, OnceInv
  <2>2. ASSUME NEW i \in Ifaces, Subscribe(i) PROVE RunInv'
    BY <2>2 DEF Subscribe, LinkInv, OnceInv
  <2>3. CASE Attach
    BY <2>3 DEF Attach, LinkInv, OnceInv
  <2>4. CASE InitInterfaces \/ InitChecked \/ Signal
    BY <2>4 DEF InitInterfaces, InitChecked, Signal
  <2>5. CASE StartChecked
    BY <2>5 DEF StartChecked
  <2>6. QED  BY <1>2, <2>1, <2>2, <2>3, <2>4, <2>5 DEF Startup
<1>3. CASE Shutdown
  <2>1. ASSUME NEW i \in Ifaces, StopNext(i) PROVE RunInv'
    BY <2>1 DEF StopNext
  <2>2. CASE CloseStop
    BY <2>2 DEF CloseStop, LinkInv, OnceInv
  <2>3. CASE StopReturns
    BY <2>3 DEF StopReturns
  <2>4. CASE Unsubscribe \/ StopHandler \/ Cleanup
    BY <2>4 DEF Unsubscribe, StopHandler, Cleanup
  <2>5. QED  BY <1>3, <2>1, <2>2, <2>3, <2>4 DEF Shutdown
<1>4. ASSUME NEW i \in Ifaces, IfEventHandled(i) \/ KernelUpdate(i) PROVE RunInv'
  BY <1>4 DEF IfEventHandled, KernelUpdate
<1>5. ASSUME NEW i \in Ifaces, IfEventsStop(i) PROVE RunInv'
  BY <1>5 DEF IfEventsStop, LinkInv, OnceInv
<1>6. CASE MetricsReturns
  BY <1>6 DEF MetricsReturns
<1>7. CASE UNCHANGED linkVars
  BY <1>7 DEF linkVars
<1>8. QED  BY <1>1, <1>2, <1>3, <1>4, <1>5, <1>6, <1>7 DEF LinkNext, HandleIfEvents

(* The inductive invariant of the link event handler.                      *)
THEOREM LinkInvariant == LinkSpec => [](LinkInv /\ RunInv)
<1>1. QED  BY LinkInvInit, LinkInvStep, RunInvStep, LinkTypeCorrect, PTL DEF LinkSpec

(* handleEvents never sends to a monitor that Unsubscribe has removed.     *)
THEOREM UpdateSafety == LinkSpec => []NoUpdateAfterUnsubscribe
<1>1. LinkInv => NoUpdateAfterUnsubscribe
  BY DEF LinkInv, SendInv, NoUpdateAfterUnsubscribe
<1>2. QED  BY <1>1, LinkInvariant, PTL

(* A subscribed channel is closed only between close(m.stop) and           *)
(* Unsubscribe of the one monitor main is stopping.                        *)
THEOREM CloseSafety == LinkSpec => []ClosedWhileSubscribed
<1>1. LinkInv => ClosedWhileSubscribed
  BY DEF LinkInv, StopInv, ClosedWhileSubscribed
<1>2. QED  BY <1>1, LinkInvariant, PTL

(* main stops only monitors that run and were not told to stop: the shared *)
(* err never turns a failed StartMonitor into a successful one.            *)
THEOREM StopSafety == LinkSpec => []ListedAreRunning
<1>1. RunInv => ListedAreRunning
  BY DEF RunInv
<1>2. QED  BY <1>1, LinkInvariant, PTL

(* The end of the metrics server leaves at most one monitor running that   *)
(* main does not list, however many interfaces there are.                  *)
THEOREM OrphanSafety == LinkSpec => []OneOrphan
<1>1. RunInv => OneOrphan
  BY DEF RunInv
<1>2. QED  BY <1>1, LinkInvariant, PTL

LEMMA WaitInvStep ==
  LinkTypeOK /\ LinkInv /\ RunInv /\ WaitInv /\ WaitsAreServed /\ [LinkNext]_linkVars
    => WaitInv' /\ WaitsAreServed'
<1> SUFFICES ASSUME LinkTypeOK, LinkInv, RunInv, WaitInv, WaitsAreServed, [LinkNext]_linkVars
             PROVE  WaitInv' /\ WaitsAreServed'
  OBVIOUS
<1> USE NoIfaceAssumption
        DEF LinkTypeOK, WaitInv, WaitsAreServed, Running, handlerVars, mainVars, errVars, monitorVars
<1>1. CASE HandleEvents
  <2>1. CASE LookupChannel
    BY <2>1 DEF LookupChannel
  <2>2. CASE Deliver
    BY <2>2 DEF Deliver
  <2>3. CASE Panic
    BY <2>3 DEF Panic
  <2>4. CASE LinkSubscribe \/ ReceiveUpdate \/ HandleEventsExit
    BY <2>4 DEF LinkSubscribe, ReceiveUpdate, HandleEventsExit
  <2>5. QED  BY <1>1, <2>1, <2>2, <2>3, <2>4 DEF HandleEvents
<1>2. CASE Startup
  <2>1. ASSUME NEW i \in Ifaces, StartFails(i) PROVE WaitInv' /\ WaitsAreServed'
    BY <2>1 DEF StartFails
  <2>2. ASSUME NEW i \in Ifaces, Subscribe(i) PROVE WaitInv' /\ WaitsAreServed'
    BY <2>2 DEF Subscribe
  <2>3. CASE Attach
    BY <2>3 DEF Attach, RunInv, ErrInv
  <2>4. CASE InitInterfaces \/ InitChecked \/ StartChecked \/ Signal
    BY <2>4 DEF InitInterfaces, InitChecked, StartChecked, Signal
  <2>5. QED  BY <1>2, <2>1, <2>2, <2>3, <2>4 DEF Startup
<1>3. CASE Shutdown
  <2>1. ASSUME NEW i \in Ifaces, StopNext(i) PROVE WaitInv' /\ WaitsAreServed'
    BY <2>1 DEF StopNext, RunInv, ListedAreRunning
  <2>2. CASE CloseStop
    BY <2>2 DEF CloseStop
  <2>3. CASE Unsubscribe
    BY <2>3 DEF Unsubscribe, LinkInv, SendInv
  <2>4. CASE StopReturns \/ StopHandler \/ Cleanup
    BY <2>4 DEF StopReturns, StopHandler, Cleanup
  <2>5. QED  BY <1>3, <2>1, <2>2, <2>3, <2>4 DEF Shutdown
<1>4. ASSUME NEW i \in Ifaces, IfEventHandled(i) PROVE WaitInv' /\ WaitsAreServed'
  BY <1>4 DEF IfEventHandled
<1>5. ASSUME NEW i \in Ifaces, IfEventsStop(i) PROVE WaitInv' /\ WaitsAreServed'
  BY <1>5 DEF IfEventsStop
<1>6. ASSUME NEW i \in Ifaces, KernelUpdate(i) PROVE WaitInv' /\ WaitsAreServed'
  BY <1>6 DEF KernelUpdate
<1>7. CASE MetricsReturns
  BY <1>7 DEF MetricsReturns
<1>8. CASE UNCHANGED linkVars
  BY <1>8 DEF linkVars
<1>9. QED  BY <1>1, <1>2, <1>3, <1>4, <1>5, <1>6, <1>7, <1>8 DEF LinkNext, HandleIfEvents

(* In every chain of waits of main for the handler's mutex, of the handler *)
(* for a receiver and of main for a goroutine, the last one can act, for   *)
(* any number of interfaces: no wait closes a circle.                      *)
THEOREM WaitSafety == LinkSpec => []WaitsAreServed
<1>1. LinkInit => WaitInv /\ WaitsAreServed
  BY DEF LinkInit, WaitInv, WaitsAreServed, Running
<1>2. LinkTypeOK /\ LinkInv /\ RunInv /\ WaitInv /\ WaitsAreServed /\ [LinkNext]_linkVars
        => WaitInv' /\ WaitsAreServed'
  BY WaitInvStep
<1>3. QED  BY <1>1, <1>2, LinkTypeCorrect, LinkInvariant, PTL DEF LinkSpec
=============================================================================
