------------------------- MODULE PortRefinementProof -------------------------
(***************************************************************************)
(* The interface monitor implements the controlled port, and its tc        *)
(* filters follow its clients.                                             *)
(***************************************************************************)
EXTENDS PortSafetyProof

(* While a handler is between the change of the set of clients and that of *)
(* the filters, nobody else changes the set.                               *)
HandledInv ==
    /\ pc["reply"] = "config" /\ event.kind = "connected" => event.addr \in AuthenticatedAddrs
    /\ pc["reply"] = "config" /\ event.kind = "disconnected" => event.addr \notin AuthenticatedAddrs
    /\ pc["timeout"] = "config" => \A a \in expiring : a \notin AuthenticatedAddrs

LEMMA HandledFrame ==
  ASSUME HandledInv,
         pc'["reply"] = "config" =>
             pc["reply"] = "config" /\ UNCHANGED <<event, AuthenticatedAddrs>>,
         pc'["timeout"] = "config" =>
             pc["timeout"] = "config" /\ UNCHANGED <<expiring, AuthenticatedAddrs>>
  PROVE  HandledInv'
  BY DEF HandledInv

(* The mutex keeps reply and timeout out of each other's section.          *)
LEMMA OneHandler ==
  ASSUME TypeOK, IInv
  PROVE  /\ addrMutex = "free" => pc["reply"] # "config" /\ pc["timeout"] # "config"
         /\ pc["timeout"] \in {"sweep", "config"} => pc["reply"] # "config"
  BY DEF IInv, MutexInv, Handlers

(* An event that is being handled has an address.                          *)
LEMMA EventAddr ==
  ASSUME TypeOK, event.kind \in {"connected", "disconnected"}
  PROVE  event.addr \in Macs
<1>1. event \in Events \cup {NoEvent}
  BY DEF TypeOK
<1>2. event # NoEvent
  BY DEF NoEvent
<1>3. QED  BY <1>1, <1>2 DEF Events

LEMMA HandledReply == TypeOK /\ IInv /\ HandledInv /\ Reply => HandledInv'
<1> SUFFICES ASSUME TypeOK, IInv, HandledInv, Reply PROVE HandledInv'
  OBVIOUS
<1> USE ThreadsAssumption
        DEF Goto, TypeOK, LabelsOK, handlerVars, reqVars, sweepVars, tcVars, pfInfo
<1>1. CASE ReplyExit
  BY <1>1, HandledFrame DEF ReplyExit
<1>2. CASE ReadEvent
  BY <1>2, HandledFrame DEF ReadEvent
<1>3. CASE HandleAuthenticateEvent
  <2>1. pc'["reply"] = "config" /\ pc'["timeout"] # "config"
    BY <1>3, OneHandler DEF HandleAuthenticateEvent, Lock
  <2>2. QED  BY <1>3, <2>1 DEF HandleAuthenticateEvent, AddClient, HandledInv
<1>4. CASE HandleDeAuthenticateEvent
  <2>1. pc'["reply"] = "config" /\ pc'["timeout"] # "config"
    BY <1>4, OneHandler DEF HandleDeAuthenticateEvent, Lock
  <2>2. QED  BY <1>4, <2>1 DEF HandleDeAuthenticateEvent, DropClient, HandledInv
<1>5. CASE ReplyDone
  BY <1>5, HandledFrame DEF ReplyDone, WalkFails
<1>6. CASE ReplyReport
  BY <1>6, HandledFrame DEF ReplyReport
<1>7. QED  BY <1>1, <1>2, <1>3, <1>4, <1>5, <1>6 DEF Reply

LEMMA HandledIfEvents == TypeOK /\ IInv /\ HandledInv /\ IfEvents => HandledInv'
<1> SUFFICES ASSUME TypeOK, IInv, HandledInv, IfEvents PROVE HandledInv'
  OBVIOUS
<1> USE ThreadsAssumption DEF Goto, TypeOK, LabelsOK
<1>1. /\ \A t \in Threads \ {"ifEvents"} : pc'[t] = pc[t]
      /\ UNCHANGED <<event, expiring, AuthenticatedAddrs>>
  BY DEF IfEvents, IfEventsExit, ReceiveLinkUpdate, HandlePfEventForOpStateChange,
         HandlePfEventForVlanChange, LinkByNameFails, IfEventsDone, WalkFails, handlerVars,
         sweepVars, tcVars, pfInfo
<1>2. QED  BY <1>1, HandledFrame

LEMMA HandledTimeout == TypeOK /\ IInv /\ HandledInv /\ Timeout => HandledInv'
<1> SUFFICES ASSUME TypeOK, IInv, HandledInv, Timeout PROVE HandledInv'
  OBVIOUS
<1> USE ThreadsAssumption
        DEF Goto, TypeOK, LabelsOK, handlerVars, reqVars, sweepVars, tcVars, pfInfo
<1>1. CASE TimeoutExit \/ ReadClock
  BY <1>1, HandledFrame DEF TimeoutExit, ReadClock
<1>2. CASE BeginSweep \/ EndSweep
  BY <1>2, HandledFrame DEF BeginSweep, EndSweep
<1>3. CASE ExpireRequest
  <2>1. pc'["reply"] # "config"
    BY <1>3, OneHandler DEF ExpireRequest
  <2>2. PICK a : expiring' = {a} /\ AuthenticatedAddrs' = AuthenticatedAddrs \ {a}
    BY <1>3 DEF ExpireRequest, DropClient
  <2>3. QED  BY <2>1, <2>2 DEF HandledInv
<1>4. CASE ExpireDone
  BY <1>4, HandledFrame DEF ExpireDone, WalkFails
<1>5. QED  BY <1>1, <1>2, <1>3, <1>4 DEF Timeout

(* Outside the handlers the set of clients changes only when there is no   *)
(* handler, before StartMonitor or with the process.                       *)
LEMMA HandledOthers ==
  TypeOK /\ IInv /\ HandledInv /\ (Walk \/ Main \/ Environment) => HandledInv'
<1> SUFFICES ASSUME TypeOK, IInv, HandledInv, Walk \/ Main \/ Environment PROVE HandledInv'
  OBVIOUS
<1> USE ThreadsAssumption
        DEF Goto, TypeOK, LabelsOK, handlerVars, reqVars, sweepVars, tcVars, pfInfo
<1>1. CASE Walk
  BY <1>1, HandledFrame DEF Walk, NextVf, ConfigureVf, BeginVf, LinkSetVfVlan, LinkSetVfState
<1>2. CASE Exit \/ Crash
  BY <1>2, HandledFrame DEF Exit, Crash, ProcessEnds
<1>3. CASE StartMonitor
  BY <1>3, HandledFrame DEF StartMonitor, IInv, QuietInv, Handlers
<1>4. CASE StartThreads
  BY <1>4, HandledFrame DEF StartThreads, FirstLabel
<1>5. CASE Boot \/ BootFails \/ StartFails \/ StartWalkFails \/ AttachHostapd \/ StartReport
  BY <1>5, HandledFrame DEF Boot, BootFails, StartFails, StartWalkFails, AttachHostapd,
                            StartReport, WalkFails
<1>6. CASE StopMonitor \/ StopSetAuth \/ RestoreDone \/ CloseStop \/ CloseConn \/ StopDone
  BY <1>6, HandledFrame DEF StopMonitor, StopSetAuth, RestoreDone, CloseStop, CloseConn,
                            StopDone, WalkFails
<1>7. CASE Environment /\ ~Crash
  BY <1>7, HandledFrame DEF Environment, HostapdRestarts, StationConnects,
                            StationDisconnects, RequestAges, LinkUpdate, CniSetVlan
<1>8. QED  BY <1>1, <1>2, <1>3, <1>4, <1>5, <1>6, <1>7 DEF Main

LEMMA HandledInvariant == Spec => []HandledInv
<1>1. Init => HandledInv
  BY ThreadsAssumption DEF Init, HandledInv
<1>2. TypeOK /\ IInv /\ HandledInv /\ [Next]_vars => HandledInv'
  <2>1. HandledInv /\ UNCHANGED vars => HandledInv'
    BY HandledFrame DEF vars, tcVars, pfInfo, sweepVars
  <2>2. QED  BY <2>1, HandledReply, HandledIfEvents, HandledTimeout, HandledOthers DEF Next
<1>3. QED  BY <1>1, <1>2, TypeCorrect, SafetyInvariant, PTL DEF Spec

-----------------------------------------------------------------------------
(* A step that leaves clients, filters, links and mode alone is none of    *)
(* the port's.                                                             *)
LEMMA PortStutters ==
  ASSUME PortMode' = PortMode, UNCHANGED <<AuthenticatedAddrs, okFilter, hwState>>
  PROVE  [Port!PortNext]_(Port!portVars)
  BY DEF Port!portVars

LEMMA ModeStays ==
  ASSUME pc'["main"] = pc["main"]
  PROVE  PortMode' = PortMode
  BY DEF PortMode, Running

(* A handler that is alive has a port that is controlled or released.      *)
LEMMA HandlerMode ==
  ASSUME TypeOK, IInv, NEW t \in Handlers, pc[t] # "off"
  PROVE  PortMode \in {"controlled", "released"} /\ pc["main"] \notin {"off", "start", "config"}
  BY DEF IInv, QuietInv, PortMode, Running

(* A client comes or goes.                                                 *)
LEMMA PortClient ==
  ASSUME NEW t, NEW a \in Macs, AddClient(t, a) \/ DropClient(t, a),
         PortMode' = PortMode, PortMode \in {"controlled", "released"}
  PROVE  [Port!PortNext]_(Port!portVars)
<1>1. UNCHANGED <<okFilter, hwState>>
  BY DEF AddClient, DropClient, kernel
<1>2. CASE AddClient(t, a)
  <2>1. Port!Admit(a)
    BY <1>1, <1>2 DEF Port!Admit, AddClient
  <2>2. QED  BY <2>1 DEF Port!PortNext
<1>3. CASE DropClient(t, a)
  <2>1. Port!Evict(a)
    BY <1>1, <1>3 DEF Port!Evict, DropClient
  <2>2. QED  BY <2>1 DEF Port!PortNext
<1>4. QED  BY <1>2, <1>3

(* The filter loop of a client reaches the PF, or no netdev at all.        *)
LEMMA OutcomeHasPf ==
  ASSUME NEW S \in TcOutcomes
  PROVE  S = {} \/ PF \in S
  BY NetdevAssumption DEF TcOutcomes

LEMMA PortFilter ==
  ASSUME TypeOK, NEW a \in Macs,
         \/ TcFilterOk(a) /\ a \in AuthenticatedAddrs
         \/ TcFilterDrop(a) /\ a \notin AuthenticatedAddrs,
         PortMode' = PortMode, UNCHANGED <<AuthenticatedAddrs, hwState>>
  PROVE  [Port!PortNext]_(Port!portVars)
<1> DEFINE passing == {b \in Macs : PF \in okFilter[b]}
<1>0. okFilter \in [Macs -> SUBSET Netdevs]
  BY DEF TypeOK, TcTypeOK
<1>1. CASE TcFilterOk(a) /\ a \in AuthenticatedAddrs
  <2>1. PICK S \in TcOutcomes : okFilter' = [okFilter EXCEPT ![a] = @ \cup S]
    BY <1>1 DEF TcFilterOk
  <2>2. passing' = passing \/ passing' = passing \cup {a}
    BY <1>0, <2>1, OutcomeHasPf
  <2>3. CASE passing' = passing
    BY <2>3 DEF Port!portVars
  <2>4. CASE passing' = passing \cup {a}
    <3>1. Port!Pass(a)
      BY <1>1, <2>4 DEF Port!Pass
    <3>2. QED  BY <3>1 DEF Port!PortNext
  <2>5. QED  BY <2>2, <2>3, <2>4
<1>2. CASE TcFilterDrop(a) /\ a \notin AuthenticatedAddrs
  <2>1. PICK S \in TcOutcomes : okFilter' = [okFilter EXCEPT ![a] = @ \ S]
    BY <1>2 DEF TcFilterDrop
  <2>2. passing' = passing \/ passing' = passing \ {a}
    BY <1>0, <2>1, OutcomeHasPf
  <2>3. CASE passing' = passing
    BY <2>3 DEF Port!portVars
  <2>4. CASE passing' = passing \ {a}
    <3>1. Port!Block(a)
      BY <1>2, <2>4 DEF Port!Block
    <3>2. QED  BY <3>1 DEF Port!PortNext
  <2>5. QED  BY <2>2, <2>3, <2>4
<1>3. QED  BY <1>1, <1>2

LEMMA PortReply ==
  TypeOK /\ IInv /\ HandledInv /\ Reply => [Port!PortNext]_(Port!portVars)
<1> SUFFICES ASSUME TypeOK, IInv, HandledInv, Reply PROVE [Port!PortNext]_(Port!portVars)
  OBVIOUS
<1>1. pc'["main"] = pc["main"] /\ PortMode' = PortMode
  <2>1. pc'["main"] = pc["main"]
    BY ThreadsAssumption DEF Reply, ReplyExit, ReadEvent, HandleAuthenticateEvent,
       HandleDeAuthenticateEvent, ReplyDone, ReplyReport, Goto, TypeOK, LabelsOK
  <2>2. QED  BY <2>1, ModeStays
<1>2. event.kind \in {"connected", "disconnected"} => event.addr \in Macs
  BY EventAddr
<1>3. CASE ReplyExit \/ ReadEvent \/ ReplyReport
  BY <1>1, <1>3, PortStutters DEF ReplyExit, ReadEvent, ReplyReport, tcVars, kernel, pfInfo
<1>4. CASE HandleAuthenticateEvent \/ HandleDeAuthenticateEvent
  <2>1. PortMode \in {"controlled", "released"}
    BY <1>4, HandlerMode DEF HandleAuthenticateEvent, HandleDeAuthenticateEvent, Handlers
  <2>2. QED  BY <1>1, <1>2, <1>4, <2>1, PortClient
                DEF HandleAuthenticateEvent, HandleDeAuthenticateEvent
<1>5. CASE ReplyDone
  <2>1. CASE WalkFails("reply") /\ UNCHANGED okFilter
    BY <1>1, <2>1, PortStutters DEF WalkFails, pfInfo
  <2>2. CASE /\ \/ event.kind = "connected" /\ TcFilterOk(event.addr)
                \/ event.kind = "disconnected" /\ TcFilterDrop(event.addr)
             /\ UNCHANGED <<hwVlan, hwState, pfInfo, walk>>
    BY <1>1, <1>2, <1>5, <2>2, PortFilter DEF ReplyDone, HandledInv, pfInfo
  <2>3. QED  BY <1>5, <2>1, <2>2 DEF ReplyDone
<1>6. QED  BY <1>3, <1>4, <1>5 DEF Reply

LEMMA PortIfEvents == TypeOK /\ IfEvents => [Port!PortNext]_(Port!portVars)
<1> SUFFICES ASSUME TypeOK, IfEvents PROVE [Port!PortNext]_(Port!portVars)
  OBVIOUS
<1>1. pc'["main"] = pc["main"] /\ UNCHANGED <<AuthenticatedAddrs, okFilter, hwState>>
  BY ThreadsAssumption
     DEF IfEvents, IfEventsExit, ReceiveLinkUpdate, HandlePfEventForOpStateChange,
         HandlePfEventForVlanChange, LinkByNameFails, IfEventsDone, WalkFails, Goto, TypeOK,
         LabelsOK, tcVars, kernel, pfInfo
<1>2. QED  BY <1>1, ModeStays, PortStutters

LEMMA PortTimeout ==
  TypeOK /\ IInv /\ HandledInv /\ Timeout => [Port!PortNext]_(Port!portVars)
<1> SUFFICES ASSUME TypeOK, IInv, HandledInv, Timeout PROVE [Port!PortNext]_(Port!portVars)
  OBVIOUS
<1>1. pc'["main"] = pc["main"] /\ PortMode' = PortMode
  <2>1. pc'["main"] = pc["main"]
    BY ThreadsAssumption DEF Timeout, TimeoutExit, ReadClock, BeginSweep, EndSweep,
       ExpireRequest, ExpireDone, Goto, TypeOK, LabelsOK
  <2>2. QED  BY <2>1, ModeStays
<1>2. CASE TimeoutExit \/ ReadClock \/ BeginSweep \/ EndSweep
  BY <1>1, <1>2, PortStutters DEF TimeoutExit, ReadClock, BeginSweep, EndSweep, tcVars,
                                  kernel, pfInfo
<1>3. CASE ExpireRequest
  <2>1. PortMode \in {"controlled", "released"}
    BY <1>3, HandlerMode DEF ExpireRequest, Handlers
  <2>2. PICK a \in Macs : DropClient("timeout", a)
    BY <1>3 DEF ExpireRequest, TypeOK
  <2>3. QED  BY <1>1, <2>1, <2>2, PortClient
<1>4. CASE ExpireDone
  <2>1. PICK a \in expiring :
          \/ TcFilterDrop(a) /\ UNCHANGED <<hwVlan, hwState, pfInfo, walk>>
          \/ WalkFails("timeout") /\ UNCHANGED okFilter
    BY <1>4 DEF ExpireDone
  <2>2. a \in Macs /\ a \notin AuthenticatedAddrs
    BY <1>4 DEF ExpireDone, HandledInv, TypeOK
  <2>3. CASE TcFilterDrop(a) /\ UNCHANGED <<hwVlan, hwState, pfInfo, walk>>
    BY <1>1, <2>2, <2>3, PortFilter DEF pfInfo
  <2>4. CASE WalkFails("timeout") /\ UNCHANGED okFilter
    BY <1>1, <2>4, PortStutters DEF WalkFails, pfInfo
  <2>5. QED  BY <2>1, <2>3, <2>4
<1>5. QED  BY <1>2, <1>3, <1>4 DEF Timeout

(* The link of one VF is set to the state the mode of the port allows.     *)
LEMMA PortLink ==
  ASSUME TypeOK, NEW v \in VFs, NEW s \in LinkStates,
         hwState' = [hwState EXCEPT ![v] = s],
         s = "auto" => \/ PortMode = "released"
                       \/ PortMode = "controlled" /\ AuthenticatedAddrs # {},
         s = "disable" => \/ PortMode \in {"engaging", "released"}
                          \/ PortMode = "controlled" /\ AuthenticatedAddrs = {},
         PortMode' = PortMode, UNCHANGED <<AuthenticatedAddrs, okFilter>>
  PROVE  [Port!PortNext]_(Port!portVars)
<1> DEFINE up == {w \in VFs : hwState[w] = "auto"}
<1>0. hwState \in [VFs -> LinkStates]
  BY DEF TypeOK, TcTypeOK
<1>1. CASE s = "auto"
  <2>1. up' = up \cup {v}
    BY <1>0, <1>1
  <2>2. Port!Raise(v)
    BY <1>1, <2>1 DEF Port!Raise
  <2>3. QED  BY <2>2 DEF Port!PortNext
<1>2. CASE s = "disable"
  <2>1. up' = up \ {v}
    BY <1>0, <1>2
  <2>2. Port!Lower(v)
    BY <1>2, <2>1 DEF Port!Lower
  <2>3. QED  BY <2>2 DEF Port!PortNext
<1>3. QED  BY <1>1, <1>2 DEF LinkStates

LEMMA PortWalk == TypeOK /\ IInv /\ Walk => [Port!PortNext]_(Port!portVars)
<1> SUFFICES ASSUME TypeOK, IInv, NEW t \in Threads, NextVf(t) \/ ConfigureVf(t)
             PROVE  [Port!PortNext]_(Port!portVars)
  BY DEF Walk
<1>1. /\ InWalk(t) /\ UNCHANGED <<pc, AuthenticatedAddrs, okFilter>>
  BY DEF NextVf, ConfigureVf, BeginVf, LinkSetVfVlan, LinkSetVfState, pfInfo, kernel
<1>2. PortMode' = PortMode
  BY <1>1, ModeStays
<1>3. CASE UNCHANGED hwState
  BY <1>1, <1>2, <1>3, PortStutters
<1>4. CASE call[t] \in Calls /\ hwState' = [hwState EXCEPT ![call[t].vf] = call[t].state]
  <2>1. call[t] # NoCall /\ call[t].vf \in VFs /\ call[t].state \in LinkStates
    BY <1>4, NoCallAssumption DEF Calls
  <2>2. CASE t = "main"
    <3>1. CASE pc["main"] = "config"
      <4>1. call[t].state = "disable" /\ PortMode = "engaging"
        BY <2>1, <2>2, <3>1 DEF IInv, StartInv, PortMode
      <4>2. QED  BY <1>1, <1>2, <1>4, <2>1, <4>1, PortLink
    <3>2. CASE pc["main"] = "restore"
      <4>1. PortMode = "released"
        BY <3>2 DEF PortMode, Running
      <4>2. QED  BY <1>1, <1>2, <1>4, <2>1, <4>1, PortLink
    <3>3. QED  BY <1>1, <2>2, <3>1, <3>2 DEF InWalk
  <2>3. CASE t # "main"
    <3>1. t \in Handlers /\ pc[t] # "off"
      BY <1>1, <2>3, ThreadsAssumption DEF Handlers, InWalk
    <3>2. CASE PortMode = "released"
      BY <1>1, <1>2, <1>4, <2>1, <3>2, PortLink
    <3>3. CASE PortMode = "controlled"
      <4>1. Running
        BY <3>3 DEF PortMode
      <4>2. call[t].state = StateFor(Authenticated) /\ (Authenticated <=> AuthenticatedAddrs # {})
        BY <2>1, <3>1, <4>1 DEF IInv, CallInv, PortFollowsClients
      <4>3. /\ call[t].state = "auto" => AuthenticatedAddrs # {}
            /\ call[t].state = "disable" => AuthenticatedAddrs = {}
        BY <4>2 DEF StateFor, TypeOK, TcTypeOK
      <4>4. QED  BY <1>1, <1>2, <1>4, <2>1, <3>3, <4>3, PortLink
    <3>4. QED  BY <3>1, <3>2, <3>3, HandlerMode
  <2>4. QED  BY <2>2, <2>3
<1>5. QED  BY <1>3, <1>4, WalkStep

(* initInterfaces and resetInterfaces clear the filters of the netdevs     *)
(* they reach, the PF's among the first.                                   *)
LEMMA PortReset ==
  ASSUME TypeOK, NEW S, S = {} \/ PF \in S, ResetInterfaces(S)
  PROVE  {a \in Macs : PF \in okFilter'[a]} \in {{}, {a \in Macs : PF \in okFilter[a]}}
<1>1. \A a \in Macs : okFilter'[a] = okFilter[a] \ S
  BY DEF ResetInterfaces
<1>2. QED  BY <1>1

(* The process ends, with or without its filters.                          *)
LEMMA PortVanishes ==
  ASSUME TypeOK, ProcessEnds, pc["main"] # "off",
         {a \in Macs : PF \in okFilter'[a]} \in {{}, {a \in Macs : PF \in okFilter[a]}}
  PROVE  [Port!PortNext]_(Port!portVars)
<1>1. pc'["main"] = "off"
  BY ThreadsAssumption DEF ProcessEnds
<1>2. PortMode' = "off" /\ PortMode # "off"
  BY <1>1 DEF PortMode
<1>3. AuthenticatedAddrs' = {} /\ hwState' = hwState
  BY DEF ProcessEnds, NewPfInfo
<1>4. Port!Vanish
  BY <1>2, <1>3 DEF Port!Vanish
<1>5. QED  BY <1>4 DEF Port!PortNext

LEMMA PortMain == TypeOK /\ IInv /\ Main => [Port!PortNext]_(Port!portVars)
<1> SUFFICES ASSUME TypeOK, IInv, Main PROVE [Port!PortNext]_(Port!portVars)
  OBVIOUS
<1> USE DEF tcVars, kernel, pfInfo
<1>a. ASSUME NEW l, Goto("main", l)
      PROVE  pc'["main"] = l
  BY <1>a, ThreadsAssumption DEF Goto, TypeOK, LabelsOK
<1>1. CASE Boot
  <2>1. PortMode = "off" /\ PortMode' = "engaging"
    BY <1>1, <1>a DEF Boot, PortMode
  <2>2. {a \in Macs : PF \in okFilter'[a]} = {}
    BY <1>1, NetdevAssumption DEF Boot, ResetInterfaces
  <2>3. Port!Engage
    BY <1>1, <2>1, <2>2 DEF Port!Engage, Boot
  <2>4. QED  BY <2>3 DEF Port!PortNext
<1>2. CASE BootFails
  <2>1. PortMode = "off" /\ PortMode' = PortMode
    BY <1>2 DEF BootFails, PortMode, Running
  <2>2. {a \in Macs : PF \in okFilter'[a]} \in {{}, {a \in Macs : PF \in okFilter[a]}}
    BY <1>2, OutcomeHasPf, PortReset DEF BootFails
  <2>3. Port!Clear \/ UNCHANGED Port!portVars
    BY <1>2, <2>1, <2>2 DEF Port!Clear, Port!portVars, BootFails
  <2>4. QED  BY <2>3 DEF Port!PortNext
<1>3. CASE StartMonitor
  <2>1. AuthenticatedAddrs = {}
    BY <1>3 DEF StartMonitor, IInv, QuietInv
  <2>2. PortMode' = PortMode
    BY <1>3, <1>a DEF StartMonitor, PortMode
  <2>3. QED  BY <1>3, <2>1, <2>2, PortStutters DEF StartMonitor, GetSriovPFInfo, NewPfInfo
<1>4. CASE StartThreads
  <2>1. pc["main"] = "config" /\ pc'["main"] = "attach"
    BY <1>4, ThreadsAssumption DEF StartThreads, FirstLabel
  <2>2. PortMode = "engaging" /\ PortMode' = "controlled"
    BY <2>1 DEF PortMode, Running
  <2>3. \A v \in VFs : hwState[v] = "disable"
    BY <1>4, <2>1 DEF StartThreads, IInv, StartInv, Visiting, WalkDone
  <2>4. {v \in VFs : hwState[v] = "auto"} = {}
    BY <2>3
  <2>5. Port!Control
    BY <1>4, <2>2, <2>4 DEF Port!Control, StartThreads
  <2>6. QED  BY <2>5 DEF Port!PortNext
<1>5. CASE StartFails \/ StartWalkFails \/ StopMonitor
  <2>1. /\ pc["main"] \in {"start", "config", "running", "attach"}
        /\ pc'["main"] \in {"unmonitored", "closeStop", "setAuth"}
        /\ UNCHANGED <<AuthenticatedAddrs, okFilter, hwState>>
    BY <1>5, <1>a DEF StartFails, StartWalkFails, StopMonitor, WalkFails
  <2>2. PortMode \in {"engaging", "controlled"} /\ PortMode' = "released"
    BY <2>1 DEF PortMode, Running
  <2>3. Port!Release
    BY <2>1, <2>2 DEF Port!Release
  <2>4. QED  BY <2>3 DEF Port!PortNext
<1>6. CASE AttachHostapd \/ StartReport
  <2>1. Running /\ Running' /\ UNCHANGED <<AuthenticatedAddrs, okFilter, hwState>>
    BY <1>6, <1>a DEF AttachHostapd, StartReport, Running
  <2>2. PortMode' = PortMode
    BY <2>1 DEF PortMode, Running
  <2>3. QED  BY <2>1, <2>2, PortStutters
<1>7. CASE StopSetAuth \/ RestoreDone \/ CloseStop \/ CloseConn \/ StopDone
  <2>1. /\ pc["main"] \in {"setAuth", "restore", "closeStop", "closeConn", "wait"}
        /\ pc'["main"] \in {"restore", "closeStop", "closeConn", "wait", "stopped",
                            "unmonitored"}
        /\ UNCHANGED <<AuthenticatedAddrs, okFilter, hwState>>
    BY <1>7, <1>a DEF StopSetAuth, RestoreDone, CloseStop, CloseConn, StopDone, WalkFails
  <2>2. PortMode' = PortMode
    BY <2>1 DEF PortMode, Running
  <2>3. QED  BY <2>1, <2>2, PortStutters
<1>8. CASE Exit
  <2>1. {a \in Macs : PF \in okFilter'[a]} \in {{}, {a \in Macs : PF \in okFilter[a]}}
    BY <1>8, OutcomeHasPf, PortReset DEF Exit
  <2>2. QED  BY <1>8, <2>1, PortVanishes DEF Exit
<1>9. QED
  BY <1>1, <1>2, <1>3, <1>4, <1>5, <1>6, <1>7, <1>8 DEF Main

LEMMA PortEnvironment == TypeOK /\ Environment => [Port!PortNext]_(Port!portVars)
<1> SUFFICES ASSUME TypeOK, Environment PROVE [Port!PortNext]_(Port!portVars)
  OBVIOUS
<1>1. CASE Crash
  BY <1>1, PortVanishes DEF Crash
<1>2. CASE ~Crash
  <2>1. UNCHANGED <<pc, AuthenticatedAddrs, okFilter, hwState>>
    BY <1>2 DEF Environment, HostapdRestarts, StationConnects, StationDisconnects, RequestAges,
                LinkUpdate, CniSetVlan, tcVars, kernel, pfInfo
  <2>2. QED  BY <2>1, ModeStays, PortStutters
<1>3. QED  BY <1>1, <1>2

(* Every behaviour of the monitor is, seen through the filters of the PF   *)
(* and the links of its VFs, one of the controlled port: for any number of *)
(* VFs and supplicants, with any of its calls failing and through crashes. *)
THEOREM PortRefinement == Spec => ImplementsControlledPort
<1>1. Init => Port!PortInit
  <2> SUFFICES ASSUME Init PROVE Port!PortInit
    OBVIOUS
  <2>1. PortMode = "off"
    BY ThreadsAssumption DEF Init, PortMode
  <2>2. {a \in Macs : PF \in okFilter[a]} = {} /\ {v \in VFs : hwState[v] = "auto"} = VFs
    BY DEF Init
  <2>3. QED  BY <2>1, <2>2 DEF Init, Port!PortInit
<1>2. TypeOK /\ IInv /\ HandledInv /\ [Next]_vars => [Port!PortNext]_(Port!portVars)
  <2>1. UNCHANGED vars => [Port!PortNext]_(Port!portVars)
    BY PortStutters, ModeStays DEF vars, tcVars, kernel, pfInfo
  <2>2. QED  BY <2>1, PortWalk, PortReply, PortIfEvents, PortTimeout, PortMain,
                PortEnvironment DEF Next
<1>3. QED  BY <1>1, <1>2, TypeCorrect, SafetyInvariant, HandledInvariant, PTL
              DEF Spec, ImplementsControlledPort, Port!PortSpec
-----------------------------------------------------------------------------
(* The filters of a client that came or went, until its handler sets them. *)
Settling(a) ==
    \/ pc["reply"] = "config" /\ event.addr = a
    \/ pc["timeout"] = "config" /\ a \in expiring

FilterInv ==
    pc["main"] # "off" =>
        \A a \in Macs :
            Settling(a) \/ okFilter[a] = IF a \in AuthenticatedAddrs THEN Netdevs ELSE {}

LEMMA FilterFrame ==
  ASSUME FilterInv, pc'["main"] # "off" => pc["main"] # "off",
         \A a \in Macs : Settling(a) => Settling(a)',
         UNCHANGED <<okFilter, AuthenticatedAddrs>>
  PROVE  FilterInv'
  BY DEF FilterInv

(* A filter loop that does not fail reaches every netdev.                  *)
LEMMA FilterSet ==
  ASSUME Faults \cap {"link", "tc"} = {}, TypeOK, NEW a \in Macs
  PROVE  /\ TcFilterOk(a) => okFilter'[a] = Netdevs
         /\ TcFilterDrop(a) => okFilter'[a] = {}
         /\ TcFilterOk(a) \/ TcFilterDrop(a) => \A b \in Macs \ {a} : okFilter'[b] = okFilter[b]
<1>1. okFilter \in [Macs -> SUBSET Netdevs] /\ okFilter[a] \subseteq Netdevs
  BY DEF TypeOK, TcTypeOK
<1>2. TcOutcomes = {Netdevs}
  BY DEF TcOutcomes
<1>3. ASSUME TcFilterOk(a)
      PROVE  okFilter' = [okFilter EXCEPT ![a] = @ \cup Netdevs]
  BY <1>2, <1>3 DEF TcFilterOk
<1>4. ASSUME TcFilterDrop(a)
      PROVE  okFilter' = [okFilter EXCEPT ![a] = @ \ Netdevs]
  BY <1>2, <1>4 DEF TcFilterDrop
<1>5. QED  BY <1>1, <1>3, <1>4

LEMMA FilterReply ==
  ASSUME Faults \cap {"link", "tc"} = {}, TypeOK, IInv, HandledInv, FilterInv, Reply
  PROVE  FilterInv'
<1> USE ThreadsAssumption
        DEF Goto, TypeOK, LabelsOK, handlerVars, reqVars, sweepVars, tcVars, kernel, pfInfo
<1>1. CASE ReplyExit \/ ReadEvent \/ ReplyReport
  BY <1>1, FilterFrame DEF ReplyExit, ReadEvent, ReplyReport, Settling
<1>2. CASE HandleAuthenticateEvent \/ HandleDeAuthenticateEvent
  <2>1. pc["reply"] = "lock" /\ pc["timeout"] # "config"
    BY <1>2, OneHandler DEF HandleAuthenticateEvent, HandleDeAuthenticateEvent, Lock
  <2>2. /\ pc'["reply"] = "config" /\ pc'["main"] = pc["main"]
        /\ UNCHANGED <<event, okFilter>>
        /\ \A a \in Macs \ {event.addr} :
              a \in AuthenticatedAddrs' <=> a \in AuthenticatedAddrs
    BY <1>2 DEF HandleAuthenticateEvent, HandleDeAuthenticateEvent, AddClient, DropClient
  <2>3. QED  BY <2>1, <2>2 DEF FilterInv, Settling
<1>3. CASE ReplyDone
  <2>1. /\ pc["timeout"] # "config"
        /\ pc'["reply"] = "report" /\ pc'["timeout"] = pc["timeout"]
        /\ pc'["main"] = pc["main"]
        /\ pc["reply"] = "config"
    BY <1>3, OneHandler DEF ReplyDone, IInv, MutexInv, Handlers
  <2>2. /\ AuthenticatedAddrs' = AuthenticatedAddrs
        /\ \/ event.kind = "connected" /\ TcFilterOk(event.addr)
           \/ event.kind = "disconnected" /\ TcFilterDrop(event.addr)
    BY <1>3 DEF ReplyDone, WalkFails
  <2>3. event.addr \in Macs
    BY <2>2, EventAddr
  <2>4. okFilter'[event.addr] = IF event.addr \in AuthenticatedAddrs THEN Netdevs ELSE {}
    BY <2>1, <2>2, <2>3, FilterSet DEF HandledInv
  <2>5. \A a \in Macs \ {event.addr} : okFilter'[a] = okFilter[a]
    BY <2>2, <2>3, FilterSet
  <2>6. QED  BY <2>1, <2>2, <2>4, <2>5 DEF FilterInv, Settling
<1>4. QED  BY <1>1, <1>2, <1>3 DEF Reply

LEMMA FilterTimeout ==
  ASSUME Faults \cap {"link", "tc"} = {}, TypeOK, IInv, HandledInv, FilterInv, Timeout
  PROVE  FilterInv'
<1> USE ThreadsAssumption
        DEF Goto, TypeOK, LabelsOK, handlerVars, reqVars, sweepVars, tcVars, kernel, pfInfo
<1>1. CASE TimeoutExit \/ ReadClock \/ BeginSweep \/ EndSweep
  BY <1>1, FilterFrame DEF TimeoutExit, ReadClock, BeginSweep, EndSweep, Settling
<1>2. CASE ExpireRequest
  <2>1. pc["reply"] # "config" /\ pc["timeout"] = "sweep"
    BY <1>2, OneHandler DEF ExpireRequest
  <2>2. PICK a \in sweep :
          /\ expiring' = {a} /\ AuthenticatedAddrs' = AuthenticatedAddrs \ {a}
          /\ UNCHANGED okFilter
    BY <1>2 DEF ExpireRequest, DropClient
  <2>3. pc'["timeout"] = "config" /\ pc'["main"] = pc["main"]
    BY <1>2 DEF ExpireRequest
  <2>4. QED  BY <2>1, <2>2, <2>3 DEF FilterInv, Settling
<1>3. CASE ExpireDone
  <2>1. PICK a \in expiring : TcFilterDrop(a) /\ AuthenticatedAddrs' = AuthenticatedAddrs
    BY <1>3 DEF ExpireDone, WalkFails
  <2>2. /\ pc["timeout"] = "config" /\ pc["reply"] # "config"
        /\ pc'["timeout"] = "sweep" /\ pc'["reply"] = pc["reply"]
        /\ pc'["main"] = pc["main"]
    BY <1>3, OneHandler DEF ExpireDone
  <2>3. expiring = {a}
    BY <2>1 DEF IInv, ExpiringInv
  <2>4. okFilter'[a] = {} /\ a \notin AuthenticatedAddrs
    <3>1. a \in Macs
      BY <2>1
    <3>2. QED  BY <2>1, <2>2, <3>1, FilterSet DEF HandledInv
  <2>5. \A b \in Macs \ {a} : okFilter'[b] = okFilter[b]
    BY <2>1, FilterSet
  <2>6. QED  BY <2>1, <2>2, <2>3, <2>4, <2>5 DEF FilterInv, Settling
<1>4. QED  BY <1>1, <1>2, <1>3 DEF Timeout

LEMMA FilterOthers ==
  ASSUME Faults \cap {"link", "tc"} = {}, TypeOK, IInv, FilterInv,
         Walk \/ IfEvents \/ Main \/ Environment
  PROVE  FilterInv'
<1> USE ThreadsAssumption
        DEF Goto, TypeOK, LabelsOK, handlerVars, reqVars, sweepVars, tcVars, kernel, pfInfo
<1>1. CASE Walk
  BY <1>1, FilterFrame DEF Walk, NextVf, ConfigureVf, BeginVf, LinkSetVfVlan, LinkSetVfState,
                           Settling
<1>2. CASE IfEvents
  <2>1. /\ \A t \in Threads \ {"ifEvents"} : pc'[t] = pc[t]
        /\ UNCHANGED <<event, expiring, AuthenticatedAddrs, okFilter>>
    BY <1>2 DEF IfEvents, IfEventsExit, ReceiveLinkUpdate, HandlePfEventForOpStateChange,
                HandlePfEventForVlanChange, LinkByNameFails, IfEventsDone, WalkFails
  <2>2. QED  BY <2>1, FilterFrame DEF Settling
<1>3. CASE Exit \/ Crash
  BY <1>3 DEF Exit, Crash, ProcessEnds, FilterInv
<1>4. CASE Boot
  <2>1. \A a \in Macs : okFilter'[a] = {} /\ a \notin AuthenticatedAddrs'
    BY <1>4 DEF Boot, ResetInterfaces, IInv, QuietInv, TcTypeOK
  <2>2. QED  BY <2>1 DEF FilterInv
<1>5. CASE StartMonitor
  <2>1. AuthenticatedAddrs' = AuthenticatedAddrs
    BY <1>5 DEF StartMonitor, GetSriovPFInfo, NewPfInfo, IInv, QuietInv
  <2>2. QED  BY <1>5, <2>1, FilterFrame DEF StartMonitor, Settling
<1>6. CASE StartThreads
  BY <1>6, FilterFrame DEF StartThreads, IInv, QuietInv, Handlers, Settling
<1>7. CASE BootFails \/ StartFails \/ StartWalkFails \/ AttachHostapd \/ StartReport
  BY <1>7, FilterFrame DEF BootFails, StartFails, StartWalkFails, AttachHostapd, StartReport,
                           WalkFails, Settling
<1>8. CASE StopMonitor \/ StopSetAuth \/ RestoreDone \/ CloseStop \/ CloseConn \/ StopDone
  BY <1>8, FilterFrame DEF StopMonitor, StopSetAuth, RestoreDone, CloseStop, CloseConn,
                           StopDone, WalkFails, Settling
<1>9. CASE Environment /\ ~Crash
  BY <1>9, FilterFrame DEF Environment, HostapdRestarts, StationConnects, StationDisconnects,
                           RequestAges, LinkUpdate, CniSetVlan, Settling
<1>10. QED  BY <1>1, <1>2, <1>3, <1>4, <1>5, <1>6, <1>7, <1>8, <1>9 DEF Main

(* As long as no netlink call and no tc fails, the filters of the PF and   *)
(* of its VFs let through exactly the authenticated clients whenever no    *)
(* handler is at work: for any number of VFs and supplicants, whatever the *)
(* order of events, timeouts, stops and crashes (AllowTrafficFromMac,      *)
(* DenyTrafficFromMac and initInterfaces together).                        *)
THEOREM FilterSafety ==
  ASSUME Faults \cap {"link", "tc"} = {}
  PROVE  Spec => []FilterFollowsClients
<1>1. Init => FilterInv
  BY ThreadsAssumption DEF Init, FilterInv
<1>2. TypeOK /\ IInv /\ HandledInv /\ FilterInv /\ [Next]_vars => FilterInv'
  <2>1. FilterInv /\ UNCHANGED vars => FilterInv'
    BY FilterFrame DEF vars, tcVars, kernel, pfInfo, sweepVars, Settling
  <2>2. QED  BY <2>1, FilterReply, FilterTimeout, FilterOthers DEF Next
<1>3. TypeOK /\ IInv /\ FilterInv => FilterFollowsClients
  BY OneHandler DEF FilterInv, FilterFollowsClients, Settling
<1>4. QED  BY <1>1, <1>2, <1>3, TypeCorrect, SafetyInvariant, HandledInvariant, PTL DEF Spec
==============================================================================
