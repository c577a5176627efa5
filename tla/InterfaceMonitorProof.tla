------------------------ MODULE InterfaceMonitorProof ------------------------
(***************************************************************************)
(* Proofs about InterfaceMonitor, for any number of VFs, supplicants,      *)
(* VLANs, queued events and starts, and any set of failing calls.          *)
(***************************************************************************)
EXTENDS InterfaceMonitor, SequenceTheorems, TLAPS

LEMMA TypeInit == Init => TypeOK
<1> SUFFICES ASSUME Init PROVE TypeOK
  OBVIOUS
<1>1. TcTypeOK
  <2>1. hwVlan \in [VFs -> AllVlans] /\ vfVlan \in [VFs -> AllVlans]
    BY DEF Init, AllVlans, NoVlans
  <2>2. QED  BY <2>1 DEF Init, TcTypeOK, LinkStates
<1>2. LabelsOK /\ addrMutex \in (Threads \ {"main"}) \cup {"free"}
  BY ThreadsAssumption DEF Init, LabelsOK, MainLabels, ReplyLabels, IfEventsLabels, TimeoutLabels
<1>3. event \in Events \cup {NoEvent} /\ hostapdQ \in Seq(Events) /\ ifEventQ \in Seq(OperStates)
  BY DEF Init
<1>4. seenVlan \in [VFs -> AllVlans]
  BY DEF Init, NoVlans, AllVlans
<1>5. operState \in OperStates /\ starts \in 0 .. MaxStarts
  BY BoundsAssumption DEF Init, OperStates
<1>6. QED  BY <1>1, <1>2, <1>3, <1>4, <1>5 DEF Init, TypeOK

LEMMA TypeWalk == TypeOK /\ Walk => TypeOK'
<1> SUFFICES ASSUME TypeOK, NEW t \in Threads, NextVf(t) \/ ConfigureVf(t)
             PROVE  TypeOK'
  BY DEF Walk
<1> USE DEF TypeOK, TcTypeOK, handlerVars, outsideVars, reqVars, sweepVars, linkVars, lifeVars,
            hostapdVars, ghostVars,
        kernel, pfInfo, LabelsOK
<1>1. CASE NextVf(t)
  BY <1>1 DEF NextVf, BeginVf, StateFor, VfCall, Calls, LinkStates, AllVlans, FullWalk
<1>2. CASE InWalk(t) /\ LinkSetVfVlan(t) /\ ConfigureVf(t)
  BY <1>2 DEF ConfigureVf, LinkSetVfVlan, VfCall, Calls
<1>3. CASE InWalk(t) /\ LinkSetVfState(t, FullWalk(t)) /\ ConfigureVf(t)
  BY <1>3 DEF ConfigureVf, LinkSetVfState, Calls
<1>4. QED  BY <1>1, <1>2, <1>3 DEF ConfigureVf

(* The operations of TrafficControl keep its variables in their types.     *)
LEMMA AddClientType ==
  ASSUME TcTypeOK, NEW t \in Threads, NEW a \in Macs, AddClient(t, a)
  PROVE  TcTypeOK'
  BY DEF TcTypeOK, AddClient, SetPort, kernel

LEMMA DropClientType ==
  ASSUME TcTypeOK, NEW t \in Threads, NEW a \in Macs, DropClient(t, a)
  PROVE  TcTypeOK'
  BY DEF TcTypeOK, DropClient, SetPort, kernel

LEMMA WalkFailsType ==
  ASSUME TcTypeOK, NEW t \in Threads, WalkFails(t), UNCHANGED okFilter
  PROVE  TcTypeOK'
  BY DEF TcTypeOK, WalkFails, pfInfo

LEMMA TcUnchanged ==
  ASSUME TcTypeOK, UNCHANGED tcVars
  PROVE  TcTypeOK'
  BY DEF TcTypeOK, tcVars, kernel, pfInfo, walk

LEMMA ResetType ==
  ASSUME TcTypeOK, NEW S, ResetInterfaces(S), UNCHANGED <<hwVlan, hwState, pfInfo, walk>>
  PROVE  TcTypeOK'
<1>1. okFilter' \in [Macs -> SUBSET Netdevs]
  BY DEF TcTypeOK, ResetInterfaces
<1>2. QED  BY <1>1 DEF TcTypeOK, pfInfo, walk

LEMMA TcFilterType ==
  ASSUME TcTypeOK, NEW a \in Macs, TcFilterOk(a) \/ TcFilterDrop(a),
         UNCHANGED <<hwVlan, hwState, pfInfo, walk>>
  PROVE  TcTypeOK'
<1>1. \A S \in TcOutcomes : S \in SUBSET Netdevs
  BY DEF TcOutcomes
<1>2. okFilter' \in [Macs -> SUBSET Netdevs]
  BY <1>1 DEF TcTypeOK, TcFilterOk, TcFilterDrop
<1>3. QED  BY <1>2 DEF TcTypeOK, pfInfo, walk

LEMMA TypeReply == TypeOK /\ Reply => TypeOK'
<1> SUFFICES ASSUME TypeOK, Reply PROVE TypeOK'
  OBVIOUS
<1> USE ThreadsAssumption
        DEF TypeOK, TcTypeOK, handlerVars, outsideVars, reqVars, sweepVars, linkVars, lifeVars,
            hostapdVars, ghostVars,
            tcVars, kernel, pfInfo, walk, Goto, Lock, Unlock,
            LabelsOK, MainLabels, ReplyLabels, IfEventsLabels, TimeoutLabels
<1>1. CASE ReplyExit
  BY <1>1 DEF ReplyExit
<1>2. CASE ReadEvent
  BY <1>2, HeadTailProperties DEF ReadEvent, Events
<1>3. CASE HandleAuthenticateEvent
  <2>1. event.addr \in Macs
    BY <1>3 DEF HandleAuthenticateEvent, Events, NoEvent
  <2>2. TcTypeOK'
    BY <1>3, <2>1, AddClientType DEF HandleAuthenticateEvent
  <2>3. QED  BY <1>3, <2>2 DEF HandleAuthenticateEvent, ForgetRequest
<1>4. CASE HandleDeAuthenticateEvent
  <2>1. event.addr \in Macs
    BY <1>4 DEF HandleDeAuthenticateEvent, Events, NoEvent
  <2> HIDE DEF TcTypeOK
  <2>2. TcTypeOK'
    BY Zenon, <1>4, <2>1, DropClientType, ThreadsAssumption DEF HandleDeAuthenticateEvent
  <2>3. QED  BY <1>4, <2>2 DEF HandleDeAuthenticateEvent, ForgetRequest
<1>5. CASE ReplyDone
  <2>1. event.kind \in {"connected", "disconnected"} => event.addr \in Macs
    <3>1. event \in Events \cup {NoEvent}
      BY DEF TypeOK
    <3>2. QED  BY ONLY <3>1 DEF Events, NoEvent
  <2>2. TcTypeOK'
    BY <1>5, <2>1, TcFilterType, WalkFailsType DEF ReplyDone
  <2>3. QED  BY <1>5, <2>2 DEF ReplyDone
<1>6. CASE ReplyReport
  BY <1>6 DEF ReplyReport, UpdateInterfaceStatus
<1>7. QED  BY <1>1, <1>2, <1>3, <1>4, <1>5, <1>6 DEF Reply

LEMMA TypeIfEvents == TypeOK /\ IfEvents => TypeOK'
<1> SUFFICES ASSUME TypeOK, IfEvents PROVE TypeOK'
  OBVIOUS
<1> USE ThreadsAssumption
        DEF TypeOK, TcTypeOK, handlerVars, outsideVars, reqVars, sweepVars, linkVars, lifeVars,
            hostapdVars, ghostVars,
            tcVars, kernel, pfInfo, walk, Goto, Lock, Unlock,
            LabelsOK, MainLabels, ReplyLabels, IfEventsLabels, TimeoutLabels
<1>1. CASE IfEventsExit
  BY <1>1 DEF IfEventsExit
<1>2. CASE ReceiveLinkUpdate
  BY <1>2, HeadTailProperties DEF ReceiveLinkUpdate
<1>3. CASE HandlePfEventForOpStateChange
  BY <1>3 DEF HandlePfEventForOpStateChange, OperStates
<1>4. CASE HandlePfEventForVlanChange
  <2>1. TcTypeOK'
    BY <1>4 DEF HandlePfEventForVlanChange, ChangedVfs
  <2>2. LabelsOK' /\ addrMutex' \in (Threads \ {"main"}) \cup {"free"}
    BY <1>4 DEF HandlePfEventForVlanChange
  <2>3. seenVlan' \in [VFs -> AllVlans] /\ missed' \in BOOLEAN
    BY <1>4 DEF HandlePfEventForVlanChange
  <2>4. QED  BY <1>4, <2>1, <2>2, <2>3 DEF HandlePfEventForVlanChange
<1>5. CASE LinkByNameFails
  BY <1>5 DEF LinkByNameFails
<1>6. CASE IfEventsDone
  <2> HIDE DEF TcTypeOK
  <2>1. TcTypeOK'
    BY Zenon, <1>6, TcUnchanged, WalkFailsType DEF IfEventsDone
  <2>2. LabelsOK'
    BY <1>6 DEF IfEventsDone
  <2>3. seenVlan' \in [VFs -> AllVlans]
    BY <1>6 DEF IfEventsDone, NoVlans, AllVlans
  <2> HIDE DEF LabelsOK
  <2>4. QED  BY <1>6, <2>1, <2>2, <2>3 DEF IfEventsDone
<1>7. QED  BY <1>1, <1>2, <1>3, <1>4, <1>5, <1>6 DEF IfEvents

LEMMA TypeTimeout == TypeOK /\ Timeout => TypeOK'
<1> SUFFICES ASSUME TypeOK, Timeout PROVE TypeOK'
  OBVIOUS
<1> USE ThreadsAssumption
        DEF TypeOK, TcTypeOK, handlerVars, outsideVars, reqVars, sweepVars, linkVars, lifeVars,
            hostapdVars, ghostVars,
            tcVars, kernel, pfInfo, walk, Goto, Lock, Unlock,
            LabelsOK, MainLabels, ReplyLabels, IfEventsLabels, TimeoutLabels
<1>1. CASE TimeoutExit
  BY <1>1 DEF TimeoutExit
<1>2. CASE ReadClock
  BY <1>2 DEF ReadClock
<1>3. CASE BeginSweep
  BY <1>3 DEF BeginSweep
<1>4. CASE EndSweep
  BY <1>4 DEF EndSweep
<1>5. CASE ExpireRequest
  <2>1. TcTypeOK'
    BY <1>5, DropClientType DEF ExpireRequest
  <2>2. QED  BY <1>5, <2>1 DEF ExpireRequest
<1>6. CASE ExpireDone
  <2>1. TcTypeOK'
    BY <1>6, TcFilterType, WalkFailsType DEF ExpireDone
  <2>2. QED  BY <1>6, <2>1 DEF ExpireDone, ForgetRequest
<1>7. QED  BY <1>1, <1>2, <1>3, <1>4, <1>5, <1>6 DEF Timeout

LEMMA ProcessEndsType ==
  ASSUME TypeOK, ProcessEnds, okFilter' \in [Macs -> SUBSET Netdevs]
  PROVE  TypeOK'
<1>1. vfVlan' \in [VFs -> AllVlans] /\ seenVlan' \in [VFs -> AllVlans]
  BY DEF ProcessEnds, NoVlans, AllVlans
<1>2. TcTypeOK'
  BY <1>1 DEF ProcessEnds, NewPfInfo, TypeOK, TcTypeOK
<1>3. LabelsOK'
  BY ThreadsAssumption DEF ProcessEnds, LabelsOK, MainLabels, ReplyLabels, IfEventsLabels,
                           TimeoutLabels
<1>4. event' \in Events \cup {NoEvent} /\ hostapdQ' \in Seq(Events) /\ ifEventQ' \in Seq(OperStates)
  BY DEF ProcessEnds
<1>5. operState' \in OperStates
  BY DEF ProcessEnds, OperStates
<1>6. QED  BY <1>1, <1>2, <1>3, <1>4, <1>5 DEF ProcessEnds, TypeOK

LEMMA TypeMain == TypeOK /\ Main => TypeOK'
<1> SUFFICES ASSUME TypeOK, Main PROVE TypeOK'
  OBVIOUS
<1> USE ThreadsAssumption
        DEF TypeOK, handlerVars, outsideVars, reqVars, sweepVars, linkVars, lifeVars,
            hostapdVars, ghostVars, Goto, Lock, Unlock,
            LabelsOK, MainLabels, ReplyLabels, IfEventsLabels, TimeoutLabels
<1>1. CASE Boot
  <2>1. starts' \in 0 .. MaxStarts
    BY <1>1, BoundsAssumption DEF Boot
  <2>2. TcTypeOK'
    BY Zenon, <1>1, ResetType DEF Boot
  <2>3. LabelsOK'
    BY <1>1 DEF Boot
  <2> HIDE DEF LabelsOK
  <2>4. QED  BY <1>1, <2>1, <2>2, <2>3 DEF Boot
<1>2. CASE StartFails
  BY <1>2, TcUnchanged DEF StartFails
<1>3. CASE StartMonitor
  <2>1. TcTypeOK'
    BY <1>3 DEF TcTypeOK, StartMonitor, GetSriovPFInfo, NewPfInfo, kernel
  <2>2. QED  BY <1>3, <2>1 DEF StartMonitor
<1>4. CASE StartWalkFails
  BY <1>4, WalkFailsType DEF StartWalkFails
<1>5. CASE StartThreads
  BY <1>5, TcUnchanged DEF StartThreads, FirstLabel
<1>6. CASE AttachHostapd
  BY <1>6, TcUnchanged DEF AttachHostapd
<1>7. CASE StartReport
  BY <1>7, TcUnchanged DEF StartReport, UpdateInterfaceStatus
<1>8. CASE StopMonitor
  BY <1>8, TcUnchanged DEF StopMonitor
<1>9. CASE StopSetAuth
  <2>1. TcTypeOK'
    BY <1>9 DEF TcTypeOK, StopSetAuth, SetPort, kernel
  <2>2. QED  BY <1>9, <2>1 DEF StopSetAuth
<1>10. CASE RestoreDone
  <2>1. TcTypeOK'
    BY Zenon, <1>10, TcUnchanged, WalkFailsType DEF RestoreDone
  <2>2. LabelsOK'
    BY <1>10 DEF RestoreDone
  <2> HIDE DEF LabelsOK
  <2>3. QED  BY <1>10, <2>1, <2>2 DEF RestoreDone
<1>11. CASE CloseStop
  BY <1>11, TcUnchanged DEF CloseStop
<1>12. CASE CloseConn
  <2>1. hostapdQ' \in Seq(Events) /\ ifEventQ' \in Seq(OperStates)
    BY <1>12 DEF CloseConn
  <2>2. QED  BY <1>12, <2>1, TcUnchanged DEF CloseConn
<1>13. CASE StopDone
  BY <1>13, TcUnchanged DEF StopDone
<1>14. CASE Exit
  <2>1. okFilter' \in [Macs -> SUBSET Netdevs]
    BY <1>14 DEF TcTypeOK, Exit, ResetInterfaces
  <2>2. QED  BY <1>14, <2>1, ProcessEndsType DEF Exit
<1>15. CASE BootFails
  <2>1. starts' \in 0 .. MaxStarts
    BY <1>15, BoundsAssumption DEF BootFails
  <2>2. TcTypeOK'
    BY Zenon, <1>15, ResetType DEF BootFails
  <2>3. LabelsOK'
    BY <1>15 DEF BootFails
  <2> HIDE DEF LabelsOK
  <2>4. QED  BY <1>15, <2>1, <2>2, <2>3 DEF BootFails
<1>16. QED
  BY <1>1, <1>2, <1>3, <1>4, <1>5, <1>6, <1>7, <1>8, <1>9, <1>10, <1>11, <1>12, <1>13, <1>14,
     <1>15 DEF Main

LEMMA NotifyType ==
  ASSUME hostapdQ \in Seq(Events), NEW e \in Events, Notify(e)
  PROVE  hostapdQ' \in Seq(Events)
<1>1. Append(hostapdQ, e) \in Seq(Events)
  BY AppendProperties
<1>2. QED  BY <1>1 DEF Notify

LEMMA PublishType ==
  ASSUME ifEventQ \in Seq(OperStates), NEW s \in LinkUpdates, Publish(s)
  PROVE  ifEventQ' \in Seq(OperStates)
<1>1. s \in OperStates
  BY LinkAssumption DEF OperStates
<1>2. Append(ifEventQ, s) \in Seq(OperStates)
  BY <1>1, AppendProperties
<1>3. QED  BY <1>2 DEF Publish

LEMMA TypeEnvironment == TypeOK /\ Environment => TypeOK'
<1> SUFFICES ASSUME TypeOK, Environment PROVE TypeOK'
  OBVIOUS
<1> USE DEF TypeOK, handlerVars, outsideVars, reqVars, sweepVars, linkVars, lifeVars,
            hostapdVars, ghostVars, LabelsOK
<1>1. CASE Crash
  <2>1. okFilter' \in [Macs -> SUBSET Netdevs]
    BY <1>1 DEF Crash, TcTypeOK
  <2>2. QED  BY <1>1, <2>1, ProcessEndsType DEF Crash
<1> USE DEF TcTypeOK, tcVars, kernel, pfInfo, walk
<1>2. CASE HostapdRestarts
  BY <1>2 DEF HostapdRestarts
<1>3. ASSUME NEW a \in Macs, StationConnects(a) \/ StationDisconnects(a)
      PROVE  TypeOK'
  <2>1. /\ [kind |-> "connected", addr |-> a] \in Events
        /\ [kind |-> "disconnected", addr |-> a] \in Events
    BY DEF Events
  <2>2. hostapdQ' \in Seq(Events)
    BY <1>3, <2>1, NotifyType DEF StationConnects, StationDisconnects
  <2>3. QED  BY <1>3, <2>2 DEF StationConnects, StationDisconnects
<1>4. ASSUME NEW a \in Macs, RequestAges(a) PROVE TypeOK'
  BY <1>4 DEF RequestAges
<1>5. ASSUME NEW x \in LinkUpdates, LinkUpdate(x) PROVE TypeOK'
  <2>1. ifEventQ' \in Seq(OperStates)
    BY <1>5, PublishType DEF LinkUpdate
  <2>2. QED  BY <1>5, <2>1 DEF LinkUpdate
<1>6. ASSUME NEW v \in VFs, NEW x \in CniVlans, CniSetVlan(v, x) PROVE TypeOK'
  <2>1. ifEventQ' \in Seq(OperStates)
    BY <1>6, PublishType DEF CniSetVlan
  <2>2. QED  BY <1>6, <2>1, CniAssumption DEF CniSetVlan, AllVlans
<1>7. QED  BY <1>1, <1>2, <1>3, <1>4, <1>5, <1>6 DEF Environment

(* Type correctness: every variable keeps its type, whatever fails.        *)
THEOREM TypeCorrect == Spec => []TypeOK
<1>1. TypeOK /\ UNCHANGED vars => TypeOK'
  BY DEF TypeOK, TcTypeOK, LabelsOK, vars, tcVars, kernel, pfInfo, walk, handlerVars, outsideVars,
         reqVars, sweepVars, linkVars, lifeVars, hostapdVars, ghostVars
<1>2. TypeOK /\ [Next]_vars => TypeOK'
  BY <1>1, TypeWalk, TypeReply, TypeIfEvents, TypeTimeout, TypeMain, TypeEnvironment DEF Next
<1>3. QED  BY <1>2, TypeInit, PTL DEF Spec
==============================================================================
