--------------------------- MODULE PortSafetyProof ---------------------------
(***************************************************************************)
(* The port of an interface follows its clients, and the VFs follow the    *)
(* port: proofs of the safety invariants of InterfaceMonitor.              *)
(***************************************************************************)
EXTENDS InterfaceMonitorProof

LEMMA SafetyInit == Init => IInv
<1> SUFFICES ASSUME Init PROVE IInv
  OBVIOUS
<1>1. MutexInv /\ QuietInv
  BY ThreadsAssumption DEF Init, MutexInv, QuietInv, Handlers
<1>2. WalkInv /\ ExpiringInv /\ RequestsAreOfClients
  BY DEF Init, WalkInv, WalkDone, ExpiringInv, RequestsAreOfClients
<1>3. pc["main"] = "off"
  BY ThreadsAssumption DEF Init
<1>4. QED
  BY <1>1, <1>2, <1>3 DEF IInv, StartInv, CallInv, VfInv, PortFollowsClients, Running

(* The variables the invariant speaks of.                                  *)
LEMMA SafetyFrame ==
  ASSUME IInv, UNCHANGED <<addrMutex, pc, todo, call, Authenticated, AuthenticatedAddrs,
                           hwState, cut, expiring, deauthRequests>>
  PROVE  IInv'
  BY DEF IInv, MutexInv, WalkInv, QuietInv, StartInv, CallInv, VfInv, ExpiringInv,
         PortFollowsClients, RequestsAreOfClients, InWalk, WalkDone, Visiting, Running

LEMMA ProcessEndsSafe == ProcessEnds => IInv'
<1> SUFFICES ASSUME ProcessEnds PROVE IInv'
  OBVIOUS
<1>1. MutexInv' /\ QuietInv'
  BY ThreadsAssumption DEF ProcessEnds, NewPfInfo, MutexInv, QuietInv, Handlers
<1>2. WalkInv' /\ ExpiringInv' /\ RequestsAreOfClients'
  BY DEF ProcessEnds, WalkInv, WalkDone, ExpiringInv, RequestsAreOfClients
<1>3. pc'["main"] = "off"
  BY ThreadsAssumption DEF ProcessEnds
<1>4. QED
  BY <1>1, <1>2, <1>3 DEF IInv, StartInv, CallInv, VfInv, PortFollowsClients, Running

LEMMA SafetyEnvironment == TypeOK /\ IInv /\ Environment => IInv'
<1> SUFFICES ASSUME TypeOK, IInv, Environment PROVE IInv'
  OBVIOUS
<1>1. CASE Crash
  BY <1>1, ProcessEndsSafe DEF Crash
<1>2. CASE ~Crash
  BY <1>2, SafetyFrame
     DEF Environment, HostapdRestarts, StationConnects, StationDisconnects,
         RequestAges, LinkUpdate, CniSetVlan, tcVars, kernel, pfInfo, walk,
         handlerVars, reqVars, sweepVars
<1>3. QED  BY <1>1, <1>2

(* A handler moves outside its critical section.                           *)
LEMMA SafetyOutside ==
  ASSUME TypeOK, IInv, NEW t \in Handlers, NEW l, Goto(t, l),
         pc[t] \notin {"off", "config", "sweep"}, l \notin {"config", "restore", "sweep"},
         UNCHANGED <<addrMutex, todo, call, Authenticated, AuthenticatedAddrs, hwState, cut,
                     expiring>>,
         deauthRequests' \subseteq AuthenticatedAddrs \cup expiring
  PROVE  IInv'
<1> USE ThreadsAssumption DEF Goto, TypeOK, LabelsOK, Handlers
<1>1. MutexInv' /\ ExpiringInv'
  BY DEF IInv, MutexInv, ExpiringInv
<1>2. pc'["main"] = pc["main"] /\ QuietInv'
  BY DEF IInv, QuietInv
<1>3. WalkInv'
  BY DEF IInv, WalkInv, InWalk, WalkDone, ReplyLabels, IfEventsLabels, TimeoutLabels
<1>4. StartInv' /\ CallInv' /\ VfInv' /\ PortFollowsClients'
  BY <1>2 DEF IInv, StartInv, CallInv, VfInv, PortFollowsClients, Running, Visiting, WalkDone
<1>5. QED  BY <1>1, <1>2, <1>3, <1>4 DEF IInv, RequestsAreOfClients

(* main moves between two labels outside its walks.                        *)
LEMMA SafetyMainMoves ==
  ASSUME TypeOK, IInv, NEW l, Goto("main", l),
         WalkDone("main"), pc["main"] # "config", l \notin {"config", "restore"},
         Running' => Running,
         pc["main"] = "off" \/ l \notin {"off", "start"},
         UNCHANGED <<addrMutex, todo, call, Authenticated, AuthenticatedAddrs, hwState, cut,
                     expiring, deauthRequests>>
  PROVE  IInv'
<1> USE ThreadsAssumption DEF Goto, TypeOK, LabelsOK, Handlers
<1>1. \A t \in Handlers : pc'[t] = pc[t]
  OBVIOUS
<1>2. pc'["main"] = l
  OBVIOUS
<1>3. MutexInv' /\ QuietInv' /\ ExpiringInv'
  BY <1>1, <1>2 DEF IInv, MutexInv, QuietInv, ExpiringInv
<1>4. WalkInv'
  BY DEF IInv, WalkInv, InWalk, WalkDone
<1>5. StartInv'
  BY <1>2 DEF StartInv
<1>6. CallInv' /\ VfInv' /\ PortFollowsClients'
  BY DEF IInv, CallInv, VfInv, PortFollowsClients, Visiting, WalkDone
<1>7. QED  BY <1>3, <1>4, <1>5, <1>6 DEF IInv, RequestsAreOfClients

(* With the mutex free no handler is in a walk.                            *)
LEMMA FreeMeansIdle ==
  ASSUME TypeOK, IInv, addrMutex = "free", NEW t \in Handlers
  PROVE  pc[t] \notin {"config", "sweep", "restore"} /\ WalkDone(t)
  BY ThreadsAssumption DEF IInv, MutexInv, WalkInv, InWalk, Handlers, TypeOK, LabelsOK,
     ReplyLabels, IfEventsLabels, TimeoutLabels

(* A client comes or goes while no walk is under way: the flag follows the *)
(* set, and if it changes every VF is to be visited.                       *)
LEMMA ClientChange ==
  ASSUME TypeOK, IInv, NEW t \in {"reply", "timeout"}, NEW a \in Macs,
         AddClient(t, a) \/ DropClient(t, a),
         \A h \in Handlers : WalkDone(h), pc'["main"] = pc["main"]
  PROVE  /\ CallInv' /\ VfInv' /\ PortFollowsClients'
         /\ \A h \in Threads \ {t} : todo'[h] = todo[h]
         /\ call' = call
<1> USE ThreadsAssumption DEF TypeOK, TcTypeOK, Handlers
<1>1. call' = call /\ hwState' = hwState /\ cut' = cut
  BY DEF AddClient, DropClient, kernel
<1>2. \/ todo' = [todo EXCEPT ![t] = VFs]
      \/ todo' = todo /\ Authenticated' = Authenticated
  BY DEF AddClient, DropClient, SetPort
<1>3. PortFollowsClients'
  BY DEF IInv, PortFollowsClients, Running, AddClient, DropClient, SetPort
<1>4. CallInv'
  BY <1>1 DEF CallInv, WalkDone
<1>5. VfInv'
  <2>1. CASE todo' = [todo EXCEPT ![t] = VFs]
    BY <2>1 DEF VfInv, Visiting
  <2>2. CASE todo' = todo /\ Authenticated' = Authenticated
    BY <2>2, <1>1 DEF IInv, VfInv, Visiting, WalkDone, Running
  <2>3. QED  BY <1>2, <2>1, <2>2
<1>6. QED  BY <1>1, <1>2, <1>3, <1>4, <1>5

(* A handler enters the walk of a client that came or went.                *)
LEMMA SafetyEnter ==
  ASSUME TypeOK, IInv, NEW t \in {"reply", "timeout"}, NEW a \in Macs,
         AddClient(t, a) \/ DropClient(t, a),
         Goto(t, "config"), pc[t] # "off",
         \A h \in Handlers : WalkDone(h), addrMutex \in {"free", t}, addrMutex' = t,
         IF t = "reply" THEN expiring' = expiring ELSE expiring' = {a},
         deauthRequests' \subseteq AuthenticatedAddrs' \cup expiring'
  PROVE  IInv'
<1> USE ThreadsAssumption DEF Goto, TypeOK, LabelsOK, Handlers
<1>1. pc'["main"] = pc["main"] /\ \A h \in Threads \ {t} : pc'[h] = pc[h]
  OBVIOUS
<1>2. /\ CallInv' /\ VfInv' /\ PortFollowsClients'
      /\ \A h \in Threads \ {t} : todo'[h] = todo[h]
      /\ call' = call
  BY <1>1, ClientChange
<1>3. MutexInv'
  BY <1>1 DEF IInv, MutexInv
<1>4. WalkInv'
  BY <1>1, <1>2 DEF IInv, WalkInv, InWalk, WalkDone
<1>5. pc["main"] \notin {"off", "start", "config"}
  BY DEF IInv, QuietInv
<1>6. QuietInv' /\ StartInv'
  BY <1>1, <1>5 DEF QuietInv, StartInv
<1>7. ExpiringInv'
  BY <1>1 DEF IInv, ExpiringInv
<1>8. QED  BY <1>2, <1>3, <1>4, <1>6, <1>7 DEF IInv, RequestsAreOfClients

(* A handler ends its walk, done or failed, and stays in its critical      *)
(* section or leaves it.                                                   *)
LEMMA SafetyLeave ==
  ASSUME TypeOK, IInv, NEW t \in Handlers, NEW l, Goto(t, l), pc[t] = "config",
         l \notin {"off", "config", "restore"},
         IF l = "sweep" THEN addrMutex' = addrMutex ELSE addrMutex' = "free",
         \/ WalkDone(t) /\ UNCHANGED <<hwState, Authenticated, AuthenticatedAddrs, walk>>
         \/ WalkFails(t),
         IF t = "timeout" THEN expiring' = {} ELSE expiring' = expiring,
         deauthRequests' \subseteq AuthenticatedAddrs \cup expiring'
  PROVE  IInv'
<1> USE ThreadsAssumption DEF Goto, TypeOK, TcTypeOK, LabelsOK, Handlers
<1>1. /\ pc'["main"] = pc["main"] /\ pc'[t] = l /\ \A h \in Threads \ {t} : pc'[h] = pc[h]
      /\ UNCHANGED <<hwState, Authenticated, AuthenticatedAddrs>>
  BY DEF WalkFails, pfInfo
<1>2. addrMutex = t /\ \A h \in Handlers \ {t} : WalkDone(h)
  BY DEF IInv, MutexInv, WalkInv, InWalk, ReplyLabels, IfEventsLabels, TimeoutLabels
<1>3. WalkDone(t)' /\ \A h \in Threads \ {t} : todo'[h] = todo[h] /\ call'[h] = call[h]
  BY DEF WalkDone, WalkFails, walk
<1>4. pc["main"] \notin {"off", "start", "config"}
  BY DEF IInv, QuietInv
<1>5. QuietInv' /\ StartInv'
  BY <1>1, <1>4 DEF QuietInv, StartInv
<1>6. MutexInv'
  BY <1>1, <1>2 DEF IInv, MutexInv
<1> HIDE DEF TypeOK, TcTypeOK, LabelsOK, Goto
<1>7. WalkInv'
  BY <1>1, <1>3 DEF IInv, WalkInv, InWalk, WalkDone
<1>8. CallInv' /\ PortFollowsClients'
  BY <1>1, <1>3 DEF IInv, CallInv, PortFollowsClients, WalkDone, Running
<1>9. VfInv'
  <2>1. cut' = TRUE \/ (cut' = cut /\ WalkDone(t))
    BY DEF WalkFails, walk
  <2>2. \A h \in Handlers : WalkDone(h)'
    BY <1>2, <1>3 DEF WalkDone
  <2>3. VfInv
    BY DEF IInv
  <2>4. WalkDone(t) => \A h \in Handlers, v \in VFs : ~Visiting(h, v)
    BY <1>2 DEF WalkDone, Visiting
  <2>5. QED  BY <1>1, <2>1, <2>2, <2>3, <2>4 DEF VfInv, Running, StateFor
<1>10. ExpiringInv'
  BY <1>1 DEF IInv, ExpiringInv
<1>11. QED  BY <1>1, <1>5, <1>6, <1>7, <1>8, <1>9, <1>10 DEF IInv, RequestsAreOfClients

LEMMA SafetyReply == TypeOK /\ IInv /\ Reply => IInv'
<1> SUFFICES ASSUME TypeOK, IInv, Reply PROVE IInv'
  OBVIOUS
<1> USE DEF handlerVars, reqVars, sweepVars, tcVars, kernel, pfInfo, walk
<1>a. "reply" \in Handlers /\ deauthRequests \subseteq AuthenticatedAddrs \cup expiring
  BY DEF Handlers, IInv, RequestsAreOfClients
<1>1. CASE ReplyExit
  BY <1>1, <1>a, SafetyOutside DEF ReplyExit
<1>2. CASE ReadEvent
  <2>1. PICK l \in {"report", "lock"} : Goto("reply", l)
    BY <1>2 DEF ReadEvent
  <2>2. QED  BY <1>2, <1>a, <2>1, SafetyOutside DEF ReadEvent
<1>3. CASE HandleAuthenticateEvent
  <2>1. event.addr \in Macs
    BY <1>3 DEF HandleAuthenticateEvent, TypeOK, Events, NoEvent
  <2>2. \A h \in Handlers : WalkDone(h)
    BY <1>3, FreeMeansIdle DEF HandleAuthenticateEvent, Lock
  <2>3. deauthRequests' \subseteq AuthenticatedAddrs' \cup expiring'
    BY <1>3, <1>a DEF HandleAuthenticateEvent, ForgetRequest, AddClient
  <2>4. QED  BY <1>3, <2>1, <2>2, <2>3, SafetyEnter DEF HandleAuthenticateEvent, Lock
<1>4. CASE HandleDeAuthenticateEvent
  <2>1. event.addr \in Macs
    BY <1>4 DEF HandleDeAuthenticateEvent, TypeOK, Events, NoEvent
  <2>2. \A h \in Handlers : WalkDone(h)
    BY <1>4, FreeMeansIdle DEF HandleDeAuthenticateEvent, Lock
  <2>3. deauthRequests' \subseteq AuthenticatedAddrs' \cup expiring'
    BY <1>4, <1>a DEF HandleDeAuthenticateEvent, ForgetRequest, DropClient
  <2>4. QED  BY <1>4, <2>1, <2>2, <2>3, SafetyEnter DEF HandleDeAuthenticateEvent, Lock
<1>5. CASE ReplyDone
  BY <1>5, <1>a, SafetyLeave DEF ReplyDone, Unlock
<1>6. CASE ReplyReport
  <2>1. PICK l \in {"exited", "read"} : Goto("reply", l)
    BY <1>6 DEF ReplyReport
  <2>2. QED  BY <1>6, <1>a, <2>1, SafetyOutside DEF ReplyReport
<1>7. QED  BY <1>1, <1>2, <1>3, <1>4, <1>5, <1>6 DEF Reply

LEMMA SafetyIfEvents == TypeOK /\ IInv /\ IfEvents => IInv'
<1> SUFFICES ASSUME TypeOK, IInv, IfEvents PROVE IInv'
  OBVIOUS
<1> USE DEF handlerVars, reqVars, sweepVars, tcVars, kernel, pfInfo, walk
<1>a. "ifEvents" \in Handlers /\ deauthRequests \subseteq AuthenticatedAddrs \cup expiring
  BY DEF Handlers, IInv, RequestsAreOfClients
<1>1. CASE IfEventsExit
  BY <1>1, <1>a, SafetyOutside DEF IfEventsExit
<1>2. CASE ReceiveLinkUpdate
  <2>1. PICK l \in {"oper", "vlan"} : Goto("ifEvents", l)
    BY <1>2 DEF ReceiveLinkUpdate
  <2>2. QED  BY <1>2, <1>a, <2>1, SafetyOutside DEF ReceiveLinkUpdate
<1>3. CASE HandlePfEventForOpStateChange
  <2>1. deauthRequests' \subseteq AuthenticatedAddrs \cup expiring
    BY <1>3, <1>a DEF HandlePfEventForOpStateChange
  <2>2. QED  BY <1>3, <1>a, <2>1, SafetyOutside DEF HandlePfEventForOpStateChange
<1>4. CASE HandlePfEventForVlanChange
  <2>1. CASE ChangedVfs = {}
    <3>1. WalkDone("ifEvents")
      BY <1>4, <1>a, FreeMeansIdle DEF HandlePfEventForVlanChange
    <3>2. todo' = todo
      BY <1>4, <2>1, <3>1, ThreadsAssumption
         DEF HandlePfEventForVlanChange, WalkDone, TypeOK, TcTypeOK
    <3>3. QED  BY <1>4, <1>a, <2>1, <3>2, SafetyOutside DEF HandlePfEventForVlanChange
  <2>2. CASE ChangedVfs # {}
    <3> USE ThreadsAssumption DEF Goto, TypeOK, TcTypeOK, LabelsOK, Handlers
    <3>1. \A h \in Threads \ {"ifEvents"} : pc'[h] = pc[h] /\ todo'[h] = todo[h]
      BY <1>4, <2>2 DEF HandlePfEventForVlanChange
    <3>2. pc'["ifEvents"] = "config" /\ addrMutex = "free" /\ addrMutex' = "ifEvents"
      BY <1>4, <2>2 DEF HandlePfEventForVlanChange
    <3>3. MutexInv' /\ ExpiringInv'
      BY <1>4, <3>1, <3>2 DEF IInv, MutexInv, ExpiringInv, HandlePfEventForVlanChange
    <3>4. WalkInv'
      BY <1>4, <3>1, <3>2 DEF IInv, WalkInv, InWalk, WalkDone, HandlePfEventForVlanChange
    <3>5. pc["main"] \notin {"off", "start", "config"}
      BY <1>4 DEF IInv, QuietInv, HandlePfEventForVlanChange
    <3>6. QuietInv' /\ StartInv'
      BY <3>1, <3>5 DEF QuietInv, StartInv
    <3>7. CallInv' /\ VfInv' /\ PortFollowsClients' /\ RequestsAreOfClients'
      BY <1>4, <3>1 DEF IInv, CallInv, VfInv, PortFollowsClients, RequestsAreOfClients,
                        Running, Visiting, WalkDone, HandlePfEventForVlanChange
    <3>8. QED  BY <3>3, <3>4, <3>6, <3>7 DEF IInv
  <2>3. QED  BY <2>1, <2>2
<1>5. CASE LinkByNameFails
  <2> USE ThreadsAssumption DEF Goto, TypeOK, LabelsOK, Handlers
  <2>1. \A h \in Threads \ {"ifEvents"} : pc'[h] = pc[h]
    BY <1>5 DEF LinkByNameFails
  <2>2. pc["ifEvents"] = "vlan" /\ pc'["ifEvents"] = "select"
    BY <1>5 DEF LinkByNameFails
  <2>3. MutexInv' /\ ExpiringInv' /\ WalkInv'
    BY <1>5, <2>1, <2>2 DEF IInv, MutexInv, ExpiringInv, WalkInv, InWalk, WalkDone,
                            LinkByNameFails
  <2>4. pc["main"] \notin {"off", "start", "config"}
    BY <2>2 DEF IInv, QuietInv
  <2>5. QuietInv' /\ StartInv'
    BY <2>1, <2>4 DEF QuietInv, StartInv
  <2>6. VfInv'
    <3>1. WalkDone("reply") /\ WalkDone("timeout")
      BY <1>5, FreeMeansIdle DEF LinkByNameFails
    <3>2. QED  BY <1>5, <3>1 DEF VfInv, WalkDone, LinkByNameFails
  <2>7. CallInv' /\ PortFollowsClients' /\ RequestsAreOfClients'
    BY <1>5, <2>1 DEF IInv, CallInv, PortFollowsClients, RequestsAreOfClients, Running,
                      LinkByNameFails
  <2>8. QED  BY <2>3, <2>5, <2>6, <2>7 DEF IInv
<1>6. CASE IfEventsDone
  BY <1>6, <1>a, SafetyLeave DEF IfEventsDone, Unlock
<1>7. QED  BY <1>1, <1>2, <1>3, <1>4, <1>5, <1>6 DEF IfEvents

(* The timeout thread takes or gives back the mutex around its sweep.      *)
LEMMA SafetySweep ==
  ASSUME TypeOK, IInv, NEW l \in {"idle", "sweep"}, Goto("timeout", l),
         pc["timeout"] \in {"lock", "sweep"},
         IF pc["timeout"] = "lock" THEN addrMutex = "free" ELSE addrMutex = "timeout",
         IF l = "sweep" THEN addrMutex' = "timeout" ELSE addrMutex' = "free",
         UNCHANGED <<todo, call, Authenticated, AuthenticatedAddrs, hwState, cut, expiring,
                     deauthRequests>>
  PROVE  IInv'
<1> USE ThreadsAssumption DEF Goto, TypeOK, LabelsOK, Handlers
<1>1. pc'["timeout"] = l /\ \A h \in Threads \ {"timeout"} : pc'[h] = pc[h]
  OBVIOUS
<1>2. MutexInv' /\ ExpiringInv' /\ WalkInv'
  BY <1>1 DEF IInv, MutexInv, ExpiringInv, WalkInv, InWalk, WalkDone
<1>3. pc["main"] \notin {"off", "start", "config"}
  BY DEF IInv, QuietInv
<1>4. QuietInv' /\ StartInv'
  BY <1>1, <1>3 DEF QuietInv, StartInv
<1>5. CallInv' /\ VfInv' /\ PortFollowsClients' /\ RequestsAreOfClients'
  BY <1>1 DEF IInv, CallInv, VfInv, PortFollowsClients, RequestsAreOfClients, Running,
              Visiting, WalkDone
<1>6. QED  BY <1>2, <1>4, <1>5 DEF IInv

LEMMA SafetyTimeout == TypeOK /\ IInv /\ Timeout => IInv'
<1> SUFFICES ASSUME TypeOK, IInv, Timeout PROVE IInv'
  OBVIOUS
<1> USE DEF handlerVars, reqVars, sweepVars, tcVars, kernel, pfInfo, walk
<1>a. "timeout" \in Handlers /\ deauthRequests \subseteq AuthenticatedAddrs \cup expiring
  BY DEF Handlers, IInv, RequestsAreOfClients
<1>b. pc["timeout"] \in {"sweep", "config"} => addrMutex = "timeout"
  BY <1>a DEF IInv, MutexInv
<1>1. CASE TimeoutExit
  BY <1>1, <1>a, SafetyOutside DEF TimeoutExit
<1>2. CASE ReadClock
  BY <1>2, <1>a, SafetyOutside DEF ReadClock
<1>3. CASE BeginSweep
  BY <1>3, SafetySweep DEF BeginSweep
<1>4. CASE EndSweep
  BY <1>4, <1>b, SafetySweep DEF EndSweep, Unlock
<1>5. CASE ExpireRequest
  <2>1. PICK a \in Macs : expiring' = {a} /\ DropClient("timeout", a)
    BY <1>5 DEF ExpireRequest, TypeOK
  <2>2. \A h \in Handlers : WalkDone(h)
    BY <1>5, <1>b, ThreadsAssumption
       DEF ExpireRequest, IInv, MutexInv, WalkInv, InWalk, Handlers, TypeOK, LabelsOK,
           ReplyLabels, IfEventsLabels
  <2>3. expiring = {}
    BY <1>5 DEF ExpireRequest, IInv, ExpiringInv
  <2>4. deauthRequests' \subseteq AuthenticatedAddrs' \cup expiring'
    BY <1>5, <1>a, <2>1, <2>3 DEF ExpireRequest, DropClient
  <2>5. QED  BY <1>5, <1>b, <2>1, <2>2, <2>4, SafetyEnter DEF ExpireRequest
<1>6. CASE ExpireDone
  <2>1. PICK a \in expiring :
          /\ \/ WalkDone("timeout") /\ UNCHANGED <<hwVlan, hwState, pfInfo, walk>>
             \/ WalkFails("timeout")
          /\ ForgetRequest(a)
    BY <1>6 DEF ExpireDone
  <2>2. expiring = {a}
    BY <1>6, <2>1 DEF ExpireDone, IInv, ExpiringInv
  <2>3. deauthRequests' \subseteq AuthenticatedAddrs \cup expiring'
    BY <1>6, <1>a, <2>1, <2>2 DEF ExpireDone, ForgetRequest
  <2>4. QED  BY <1>6, <1>a, <2>1, <2>3, SafetyLeave DEF ExpireDone
<1>7. QED  BY <1>1, <1>2, <1>3, <1>4, <1>5, <1>6 DEF Timeout

(* main acts on its own while the port is not controlled.                  *)
LEMMA SafetyReleased ==
  ASSUME TypeOK, IInv, NEW l, Goto("main", l),
         l \in {"restore", "closeStop", "unmonitored"},
         l = "restore" \/ WalkDone("main")',
         \A h \in Handlers : todo'[h] = todo[h] /\ call'[h] = call[h],
         UNCHANGED <<addrMutex, AuthenticatedAddrs, expiring, deauthRequests>>
  PROVE  IInv'
<1> USE ThreadsAssumption DEF Goto, TypeOK, LabelsOK, Handlers
<1>1. pc'["main"] = l /\ \A h \in Handlers : pc'[h] = pc[h]
  OBVIOUS
<1>2. MutexInv' /\ ExpiringInv' /\ QuietInv'
  BY <1>1 DEF IInv, MutexInv, ExpiringInv, QuietInv
<1>3. WalkInv'
  BY <1>1 DEF IInv, WalkInv, InWalk, WalkDone
<1>4. StartInv' /\ CallInv' /\ VfInv' /\ PortFollowsClients'
  BY <1>1 DEF StartInv, CallInv, VfInv, PortFollowsClients, Running
<1>5. QED  BY <1>2, <1>3, <1>4 DEF IInv, RequestsAreOfClients

LEMMA SafetyMain == TypeOK /\ IInv /\ Main => IInv'
<1> SUFFICES ASSUME TypeOK, IInv, Main PROVE IInv'
  OBVIOUS
<1> USE DEF handlerVars, reqVars, sweepVars, tcVars, kernel, pfInfo, walk
<1>a. pc["main"] \notin {"config", "restore"} => WalkDone("main")
  BY ThreadsAssumption DEF IInv, WalkInv, InWalk
<1>b. ASSUME NEW l, Goto("main", l), Running \/ l \notin {"attach", "report", "running"}
      PROVE  Running' => Running
  BY <1>b, ThreadsAssumption DEF Goto, Running, TypeOK, LabelsOK
<1>c. pc["main"] \in {"attach", "report", "running"} => Running
  BY DEF Running
<1>1. CASE Boot
  BY <1>1, <1>a, <1>b, SafetyMainMoves DEF Boot
<1>2. CASE StartFails
  BY <1>2, <1>a, <1>b, SafetyMainMoves DEF StartFails
<1>3. CASE AttachHostapd
  BY <1>3, <1>a, <1>b, <1>c, SafetyMainMoves DEF AttachHostapd
<1>4. CASE StartReport
  BY <1>4, <1>a, <1>b, <1>c, SafetyMainMoves DEF StartReport
<1>5. CASE StopMonitor
  <2>1. PICK l \in {"closeStop", "setAuth"} : Goto("main", l)
    BY <1>5 DEF StopMonitor
  <2>2. QED  BY <1>5, <1>a, <1>b, <2>1, SafetyMainMoves DEF StopMonitor
<1>6. CASE CloseStop
  BY <1>6, <1>a, <1>b, SafetyMainMoves DEF CloseStop
<1>7. CASE CloseConn
  BY <1>7, <1>a, <1>b, SafetyMainMoves DEF CloseConn
<1>8. CASE StopDone
  <2>1. PICK l \in {"stopped", "unmonitored"} : Goto("main", l)
    BY <1>8 DEF StopDone
  <2>2. QED  BY <1>8, <1>a, <1>b, <2>1, SafetyMainMoves DEF StopDone
<1>9. CASE Exit
  BY <1>9, ProcessEndsSafe DEF Exit
<1>10. CASE StartMonitor
  <2> USE ThreadsAssumption DEF Goto, TypeOK, TcTypeOK, LabelsOK, Handlers
  <2>1. pc["main"] = "start" /\ pc'["main"] = "config" /\ \A h \in Handlers : pc'[h] = pc[h]
    BY <1>10 DEF StartMonitor
  <2>2. /\ todo'["main"] = VFs /\ \A h \in Handlers : todo'[h] = todo[h]
        /\ call' = call /\ call["main"] = NoCall
    BY <1>10, <1>a DEF StartMonitor, GetSriovPFInfo, WalkDone
  <2>3. MutexInv' /\ ExpiringInv' /\ QuietInv'
    BY <1>10, <2>1 DEF IInv, MutexInv, ExpiringInv, QuietInv, StartMonitor, GetSriovPFInfo,
                       NewPfInfo
  <2>4. WalkInv'
    BY <2>1, <2>2 DEF IInv, WalkInv, InWalk, WalkDone
  <2>5. StartInv'
    BY <1>10, <2>2 DEF StartMonitor, GetSriovPFInfo, NewPfInfo, StartInv, Visiting
  <2>6. CallInv' /\ VfInv' /\ PortFollowsClients'
    BY <2>1 DEF CallInv, VfInv, PortFollowsClients, Running
  <2>7. RequestsAreOfClients'
    <3>1. AuthenticatedAddrs = {}
      BY <2>1 DEF IInv, QuietInv
    <3>2. QED  BY <1>10, <3>1 DEF IInv, RequestsAreOfClients, StartMonitor
  <2>8. QED  BY <2>3, <2>4, <2>5, <2>6, <2>7 DEF IInv
<1>11. CASE StartWalkFails
  <2>1. WalkDone("main")' /\ \A h \in Handlers : todo'[h] = todo[h] /\ call'[h] = call[h]
    BY <1>11, ThreadsAssumption DEF StartWalkFails, WalkFails, WalkDone, TypeOK, TcTypeOK,
                                    Handlers
  <2>2. QED  BY <1>11, <2>1, SafetyReleased DEF StartWalkFails, WalkFails
<1>12. CASE StartThreads
  <2> USE ThreadsAssumption DEF TypeOK, TcTypeOK, LabelsOK, Handlers
  <2>1. /\ pc'["main"] = "attach" /\ pc'["reply"] = "read"
        /\ pc'["ifEvents"] = "select" /\ pc'["timeout"] = "idle"
    BY <1>12 DEF StartThreads, FirstLabel
  <2>2. \A h \in Handlers : pc[h] = "off" /\ WalkDone(h)
    BY <1>12 DEF IInv, QuietInv, WalkInv, InWalk, StartThreads
  <2>3. MutexInv' /\ ExpiringInv' /\ QuietInv'
    BY <1>12, <2>1, <2>2 DEF IInv, MutexInv, ExpiringInv, QuietInv, StartThreads
  <2>4. WalkInv'
    BY <1>12, <2>2 DEF WalkInv, WalkDone, StartThreads
  <2>5. /\ ~Authenticated /\ AuthenticatedAddrs = {}
        /\ \A v \in VFs : hwState[v] = "disable"
    BY <1>12 DEF IInv, StartInv, StartThreads, Visiting, WalkDone
  <2>6. CallInv' /\ VfInv' /\ PortFollowsClients'
    BY <1>12, <2>2, <2>5 DEF CallInv, VfInv, PortFollowsClients, WalkDone, StateFor,
                             StartThreads
  <2>7. StartInv' /\ RequestsAreOfClients'
    BY <1>12, <2>1 DEF StartInv, IInv, RequestsAreOfClients, StartThreads
  <2>8. QED  BY <2>3, <2>4, <2>6, <2>7 DEF IInv
<1>13. CASE StopSetAuth
  <2>1. \A h \in Handlers : todo'[h] = todo[h] /\ call'[h] = call[h]
    BY <1>13, ThreadsAssumption DEF StopSetAuth, SetPort, TypeOK, TcTypeOK, Handlers
  <2>2. QED  BY <1>13, <2>1, SafetyReleased DEF StopSetAuth
<1>14. CASE RestoreDone
  <2>1. WalkDone("main")' /\ \A h \in Handlers : todo'[h] = todo[h] /\ call'[h] = call[h]
    BY <1>14, ThreadsAssumption DEF RestoreDone, WalkFails, WalkDone, TypeOK, TcTypeOK, Handlers
  <2>2. QED  BY <1>14, <2>1, SafetyReleased DEF RestoreDone, WalkFails
<1>15. CASE BootFails
  BY <1>15, SafetyFrame DEF BootFails
<1>16. QED
  BY <1>1, <1>2, <1>3, <1>4, <1>5, <1>6, <1>7, <1>8, <1>9, <1>10, <1>11, <1>12, <1>13, <1>14,
     <1>15 DEF Main

(* VfCall builds a call with the fields it is given.                       *)
LEMMA VfCallFields ==
  ASSUME NEW v \in VFs, NEW vlan \in AllVlans, NEW s \in LinkStates, NEW p \in {"vlan", "state"}
  PROVE  /\ VfCall(v, vlan, s, p) \in Calls
         /\ VfCall(v, vlan, s, p).vf = v
         /\ VfCall(v, vlan, s, p).state = s
  BY DEF VfCall, Calls

(* What a step of a walk does to the VFs its thread still has to deal with. *)
LEMMA WalkStep ==
  ASSUME TypeOK, NEW t \in Threads, NextVf(t) \/ ConfigureVf(t)
  PROVE  \/ /\ \A v \in VFs : Visiting(t, v) => Visiting(t, v)'
            /\ call[t] # NoCall => call'[t] # NoCall /\ call'[t].state = call[t].state
            /\ call[t] = NoCall => call'[t].state = StateFor(Authenticated)
            /\ ~WalkDone(t) /\ ~WalkDone(t)'
            /\ UNCHANGED <<hwState, cut>>
         \/ /\ call[t] \in Calls /\ call'[t] = NoCall /\ todo' = todo
            /\ hwState' = [hwState EXCEPT ![call[t].vf] = call[t].state]
            /\ cut' = (cut /\ ~(FullWalk(t) /\ todo[t] = {}))
<1>1. /\ call \in [Threads -> Calls \cup {NoCall}]
      /\ todo \in [Threads -> SUBSET VFs]
  BY DEF TypeOK, TcTypeOK
<1>2. CASE NextVf(t)
  <2>1. PICK v \in VFs, vlan \in AllVlans : BeginVf(t, v, vlan)
    BY <1>2 DEF NextVf, TypeOK, TcTypeOK
  <2> DEFINE target == IF Authenticated THEN vlan ELSE ReservedVlan
  <2>2. target \in AllVlans /\ StateFor(Authenticated) \in LinkStates
    BY DEF AllVlans, StateFor, LinkStates
  <2>3. call'[t] = VfCall(v, target, StateFor(Authenticated), "vlan")
    BY <1>1, <2>1 DEF BeginVf
  <2> HIDE DEF target
  <2>4. call'[t] \in Calls /\ call'[t].vf = v /\ call'[t].state = StateFor(Authenticated)
    BY <2>2, <2>3, VfCallFields
  <2>5. /\ call[t] = NoCall /\ v \in todo[t] /\ todo'[t] = todo[t] \ {v}
        /\ UNCHANGED <<hwState, cut>>
    BY <1>1, <2>1 DEF BeginVf, kernel
  <2>6. call'[t] # NoCall
    BY <2>4, NoCallAssumption
  <2>7. QED  BY <2>4, <2>5, <2>6 DEF Visiting, WalkDone
<1>3. CASE LinkSetVfVlan(t)
  <2>1. call[t] \in Calls /\ call[t] # NoCall /\ UNCHANGED <<hwState, todo, cut>>
    BY <1>1, <1>3 DEF LinkSetVfVlan
  <2>2. /\ call[t].vf \in VFs /\ call[t].vlan \in AllVlans /\ call[t].state \in LinkStates
    BY <2>1 DEF Calls
  <2>3. call'[t] = VfCall(call[t].vf, call[t].vlan, call[t].state, "state")
    BY <1>1, <1>3 DEF LinkSetVfVlan
  <2>4. call'[t] \in Calls /\ call'[t].vf = call[t].vf /\ call'[t].state = call[t].state
    <3>1. PICK v \in VFs, vlan \in AllVlans, state \in LinkStates :
            v = call[t].vf /\ vlan = call[t].vlan /\ state = call[t].state
      BY <2>2
    <3>2. PICK step \in {"vlan", "state"} : step = "state"
      OBVIOUS
    <3>3. call'[t] = VfCall(v, vlan, state, step)
      BY <2>3, <3>1, <3>2
    <3>4. PICK c : c = VfCall(v, vlan, state, step) /\ c \in Calls /\ c.vf = v /\ c.state = state
      BY VfCallFields
    <3>5. call'[t] = c
      BY <3>3, <3>4
    <3>6. QED  BY <3>1, <3>4, <3>5
  <2>5. call'[t] # NoCall
    BY <2>4, NoCallAssumption
  <2>6. QED  BY <2>1, <2>4, <2>5 DEF Visiting, WalkDone
<1>4. CASE LinkSetVfState(t, FullWalk(t))
  BY <1>1, <1>4 DEF LinkSetVfState
<1>5. QED  BY <1>2, <1>3, <1>4 DEF ConfigureVf

LEMMA SafetyWalk == TypeOK /\ IInv /\ Walk => IInv'
<1> SUFFICES ASSUME TypeOK, IInv, NEW t \in Threads, NextVf(t) \/ ConfigureVf(t)
             PROVE  IInv'
  BY DEF Walk
<1> USE ThreadsAssumption DEF TypeOK, TcTypeOK, Handlers
<1>1. /\ InWalk(t) /\ UNCHANGED <<pc, addrMutex, Authenticated, AuthenticatedAddrs, expiring,
                                 deauthRequests>>
      /\ \A h \in Threads \ {t} : todo'[h] = todo[h] /\ call'[h] = call[h]
  BY DEF NextVf, ConfigureVf, BeginVf, LinkSetVfVlan, LinkSetVfState, handlerVars, reqVars,
         sweepVars, pfInfo
<1>2. MutexInv' /\ ExpiringInv' /\ QuietInv' /\ PortFollowsClients' /\ RequestsAreOfClients'
  BY <1>1 DEF IInv, MutexInv, ExpiringInv, QuietInv, PortFollowsClients, RequestsAreOfClients,
              Running
<1>3. WalkInv'
  BY <1>1 DEF IInv, WalkInv, InWalk, WalkDone
<1>4. CASE t = "main"
  <2>1. CallInv' /\ VfInv'
    BY <1>1, <1>4 DEF CallInv, VfInv, Running, InWalk
  <2>2. StartInv'
    <3> SUFFICES ASSUME pc["main"] = "config" PROVE StartInv'
      BY <1>1 DEF StartInv
    <3>1. /\ ~Authenticated /\ AuthenticatedAddrs = {}
          /\ call["main"] # NoCall => call["main"].state = "disable"
          /\ \A v \in VFs : hwState[v] = "disable" \/ Visiting("main", v)
      BY DEF IInv, StartInv
    <3>2. CASE /\ \A v \in VFs : Visiting(t, v) => Visiting(t, v)'
               /\ call[t] # NoCall => call'[t] # NoCall /\ call'[t].state = call[t].state
               /\ call[t] = NoCall => call'[t].state = StateFor(Authenticated)
               /\ UNCHANGED hwState
      BY <1>1, <1>4, <3>1, <3>2 DEF StartInv, StateFor
    <3>3. CASE /\ call[t] \in Calls /\ call'[t] = NoCall /\ todo' = todo
               /\ hwState' = [hwState EXCEPT ![call[t].vf] = call[t].state]
      <4>1. call[t] # NoCall /\ call[t].vf \in VFs /\ call[t].state = "disable"
        BY <1>4, <3>1, <3>3, NoCallAssumption DEF Calls
      <4>2. \A v \in VFs : hwState'[v] = "disable" \/ Visiting("main", v)'
        BY <1>4, <3>1, <3>3, <4>1 DEF Visiting
      <4>3. QED  BY <1>1, <1>4, <3>1, <3>3, <4>2 DEF StartInv
    <3>4. QED  BY <3>2, <3>3, WalkStep
  <2>3. QED  BY <1>2, <1>3, <2>1, <2>2 DEF IInv
<1>5. CASE t # "main"
  <2>1. pc["main"] # "config"
    BY <1>1, <1>5 DEF IInv, QuietInv, InWalk
  <2>2. StartInv'
    BY <1>1, <2>1 DEF StartInv
  <2>3. \A h \in Handlers \ {t} : WalkDone(h)
    <3>1. \A h \in Handlers : pc[h] # "restore"
      BY DEF LabelsOK, ReplyLabels, IfEventsLabels, TimeoutLabels
    <3>2. t \in Handlers /\ pc[t] = "config"
      BY <1>1, <1>5, <3>1 DEF InWalk
    <3>3. addrMutex = t
      BY <3>2 DEF IInv, MutexInv
    <3>4. \A h \in Handlers \ {t} : ~InWalk(h)
      BY <3>1, <3>3 DEF IInv, MutexInv, InWalk
    <3>5. QED  BY <3>4 DEF IInv, WalkInv
  <2>4. CallInv'
    <3> HIDE DEF TypeOK, TcTypeOK
    <3>1. Running' = Running /\ Authenticated' = Authenticated
      BY <1>1 DEF Running
    <3>2. \A h \in Handlers \ {t} : call'[h] = NoCall
      BY <1>1, <2>3 DEF WalkDone
    <3>3. Running /\ t \in Handlers /\ call[t] # NoCall => call[t].state = StateFor(Authenticated)
      BY DEF IInv, CallInv
    <3>4. Running /\ t \in Handlers /\ call'[t] # NoCall => call'[t].state = StateFor(Authenticated)
      BY <3>3, WalkStep
    <3>5. QED  BY <3>1, <3>2, <3>4 DEF CallInv, StateFor
  <2>5. VfInv'
    <3>1. \A h \in Handlers \ {t} : WalkDone(h)' /\ \A v \in VFs : ~Visiting(h, v)
      BY <1>1, <2>3 DEF WalkDone, Visiting
    <3>2. CASE /\ \A v \in VFs : Visiting(t, v) => Visiting(t, v)'
               /\ ~WalkDone(t) /\ ~WalkDone(t)'
               /\ UNCHANGED <<hwState, cut>>
      <4>1. pc' = pc /\ Authenticated' = Authenticated
        BY <1>1
      <4>2. VfInv /\ t \in Threads
        BY DEF IInv
      <4>3. QED  BY <3>1, <3>2, <4>1, <4>2 DEF VfInv, Running
    <3>3. CASE /\ call[t] \in Calls /\ call'[t] = NoCall /\ todo' = todo
               /\ hwState' = [hwState EXCEPT ![call[t].vf] = call[t].state]
               /\ cut' = (cut /\ ~(FullWalk(t) /\ todo[t] = {}))
      <4>1. call[t] # NoCall /\ call[t].vf \in VFs
        BY <3>3, NoCallAssumption DEF Calls
      <4>2. Running => call[t].state = StateFor(Authenticated)
        BY <1>5, <4>1 DEF IInv, CallInv
      <4>3. \A v \in VFs : Visiting(t, v) => v \in todo[t] \/ v = call[t].vf
        BY DEF Visiting
      <4>4. CASE t = "ifEvents"
        BY <1>1, <3>1, <3>3, <4>1, <4>2, <4>4 DEF IInv, VfInv, Running, FullWalk, WalkDone
      <4>5. CASE t # "ifEvents"
        <5>1. /\ t \in {"reply", "timeout"} /\ FullWalk(t)
              /\ pc' = pc /\ Authenticated' = Authenticated
          BY <1>1, <1>5, <4>5 DEF FullWalk
        <5>2. hwState \in [VFs -> LinkStates] /\ VfInv
          BY DEF IInv
        <5> HIDE DEF TypeOK, TcTypeOK
        <5>3. \A v \in VFs \ {call[t].vf} :
                hwState'[v] = hwState[v] /\ (Visiting(t, v) => Visiting(t, v)')
          BY <3>3, <4>3, <5>2 DEF Visiting
        <5>4. Running => hwState'[call[t].vf] = StateFor(Authenticated)
          BY <3>3, <4>1, <4>2, <5>2
        <5>5. ~WalkDone(t) /\ (cut' <=> cut /\ todo[t] # {})
          BY <3>3, <4>1, <5>1 DEF WalkDone
        <5>6. QED  BY <3>1, <5>1, <5>2, <5>3, <5>4, <5>5 DEF VfInv, Running, StateFor
      <4>6. QED  BY <4>4, <4>5
    <3>4. QED  BY <3>2, <3>3, WalkStep
  <2>6. QED  BY <1>2, <1>3, <2>2, <2>4, <2>5 DEF IInv
<1>6. QED  BY <1>4, <1>5

LEMMA SafetyNext == TypeOK /\ IInv /\ [Next]_vars => IInv'
<1> SUFFICES ASSUME TypeOK, IInv, [Next]_vars PROVE IInv'
  OBVIOUS
<1>1. CASE UNCHANGED vars
  BY <1>1, SafetyFrame DEF vars, tcVars, kernel, pfInfo, walk, handlerVars, reqVars, sweepVars
<1>2. CASE Next
  BY <1>2, SafetyWalk, SafetyReply, SafetyIfEvents, SafetyTimeout, SafetyMain,
     SafetyEnvironment DEF Next
<1>3. QED  BY <1>1, <1>2

(* The inductive invariant holds in every reachable state, for any number  *)
(* of VFs and clients, any queue bounds and any of the calls failing.      *)
THEOREM SafetyInvariant == Spec => []IInv
<1>1. QED  BY SafetyInit, SafetyNext, TypeCorrect, PTL DEF Spec

(* PFInfo.Authenticated is set exactly while AuthenticatedAddrs holds an   *)
(* address, as long as the monitor runs.                                   *)
THEOREM PortSafety == Spec => []PortFollowsClients
<1>1. IInv => PortFollowsClients
  BY DEF IInv
<1>2. QED  BY <1>1, SafetyInvariant, PTL

(* A deauthentication request is of a current client, or of the one        *)
(* handleRequestsTimeout acts on.                                          *)
THEOREM RequestSafety == Spec => []RequestsAreOfClients
<1>1. IInv => RequestsAreOfClients
  BY DEF IInv
<1>2. QED  BY <1>1, SafetyInvariant, PTL

(* With the mutex free and the last walk not failed, the link state of     *)
(* every VF is the one ConfigureVlanState sets for the port.               *)
THEOREM VfStateSafety == Spec => []VfStateFollowsPort
<1>1. TypeOK /\ IInv => VfStateFollowsPort
  <2> SUFFICES ASSUME TypeOK, IInv, Running, addrMutex = "free", ~cut, NEW v \in VFs
               PROVE  hwState[v] = StateFor(Authenticated)
    BY DEF VfStateFollowsPort
  <2>1. WalkDone("reply") /\ WalkDone("timeout")
    BY FreeMeansIdle DEF Handlers
  <2>2. QED  BY <2>1 DEF IInv, VfInv, Visiting, WalkDone
<1>2. QED  BY <1>1, TypeCorrect, SafetyInvariant, PTL
==============================================================================
