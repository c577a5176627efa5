------------------------- MODULE MonitorSafetyProof -------------------------
(***************************************************************************)
(* Three invariants of InterfaceMonitor, for every value of the constants: *)
(* its clients are the stations of hostapd (ClientsAreStations), the VFs   *)
(* are on the VLANs it remembers for them (VfVlanFollowsPort), and only a  *)
(* request that is due cuts a client off (CutOffOnlyWhenDue).              *)
(***************************************************************************)
EXTENDS PortRefinementProof, SequenceTheorems

-----------------------------------------------------------------------------
(* The clients and the stations.                                           *)

(* Nothing of hostapd has reached the monitor before ATTACH.               *)
BeforeAttach ==
    pc["main"] \in {"off", "start", "config", "attach"} =>
        /\ ~attached
        /\ hostapdQ = <<>>
        /\ AuthenticatedAddrs = {}
        /\ pc["reply"] # "lock"

StationInv == BeforeAttach /\ unheard \subseteq stations /\ ClientsAreStations

LEMMA StationInit == Init => StationInv
  BY ThreadsAssumption DEF Init, StationInv, BeforeAttach, ClientsAreStations

(* A step that leaves alone what hostapd sent and what the monitor made of *)
(* it so far.                                                              *)
LEMMA StationFrame ==
  ASSUME StationInv,
         UNCHANGED <<stations, attached, hostapdQ, unheard, AuthenticatedAddrs>>,
         pc'["reply"] = "lock" <=> pc["reply"] = "lock",
         pc["reply"] = "lock" => event' = event,
         pc'["main"] \in {"off", "start", "config", "attach"} =>
            pc["main"] \in {"off", "start", "config", "attach"}
  PROVE  StationInv'
<1>1. \A a \in Macs : QueuedAbout(a)' = QueuedAbout(a) /\ InHand(a)' = InHand(a)
  BY DEF QueuedAbout, InHand
<1>2. \A a \in Macs : WillBeClient(a)' = WillBeClient(a)
  BY <1>1 DEF WillBeClient, InHand
<1>3. QED  BY <1>2 DEF StationInv, BeforeAttach, ClientsAreStations

(* An event appended to the queue decides on its own address and on no     *)
(* other.                                                                  *)
LEMMA LastEventDecides ==
  ASSUME TypeOK, NEW e \in Events, hostapdQ' = Append(hostapdQ, e),
         UNCHANGED <<pc, event, AuthenticatedAddrs>>, NEW a \in Macs
  PROVE  WillBeClient(a)' <=> IF e.addr = a THEN e.kind = "connected" ELSE WillBeClient(a)
<1> DEFINE n == Len(hostapdQ)
<1>1. /\ n \in Nat /\ DOMAIN hostapdQ = 1 .. n /\ DOMAIN hostapdQ' = 1 .. n + 1
      /\ \A i \in 1 .. n : hostapdQ'[i] = hostapdQ[i]
      /\ hostapdQ'[n + 1] = e
  BY AppendProperties, LenProperties DEF TypeOK
<1> HIDE DEF n
<1>2. InHand(a)' = InHand(a)
  BY DEF InHand
<1>3. CASE e.addr = a
  <2>1. n + 1 \in QueuedAbout(a)' /\ \A j \in QueuedAbout(a)' : j \in Nat /\ j <= n + 1
    BY <1>1, <1>3 DEF QueuedAbout
  <2>2. \A i \in QueuedAbout(a)' : (\A j \in QueuedAbout(a)' : j <= i) => i = n + 1
    BY <1>1, <2>1
  <2>3. QED  BY <1>1, <1>3, <2>1, <2>2 DEF WillBeClient
<1>4. CASE e.addr # a
  <2>1. QueuedAbout(a)' = QueuedAbout(a)
    BY <1>1, <1>4 DEF QueuedAbout
  <2>2. \A i \in QueuedAbout(a) : hostapdQ'[i] = hostapdQ[i]
    BY <1>1 DEF QueuedAbout
  <2>3. QED  BY Zenon, <1>2, <1>4, <2>1, <2>2 DEF WillBeClient
<1>5. QED  BY <1>3, <1>4

(* Taking the first event off the queue changes no verdict.                *)
LEMMA FirstEventInHand ==
  ASSUME TypeOK, ReadEvent, NEW a \in Macs
  PROVE  WillBeClient(a)' <=> WillBeClient(a)
<1> DEFINE n == Len(hostapdQ)
<1>1. /\ n \in Nat /\ n > 0 /\ DOMAIN hostapdQ = 1 .. n /\ DOMAIN hostapdQ' = 1 .. n - 1
      /\ \A i \in 1 .. n - 1 : hostapdQ'[i] = hostapdQ[i + 1]
      /\ event' = hostapdQ[1]
  <2>1. hostapdQ \in Seq(Events) /\ hostapdQ # <<>>
    BY DEF TypeOK, ReadEvent
  <2>2. QED  BY <2>1, HeadTailProperties, LenProperties DEF ReadEvent
<1>2. /\ pc["reply"] = "read" /\ pc'["reply"] = "lock"
      /\ AuthenticatedAddrs' = AuthenticatedAddrs
  BY ThreadsAssumption DEF ReadEvent, Goto, TypeOK, LabelsOK, tcVars, pfInfo
<1>3. ~InHand(a) /\ (InHand(a)' <=> event'.addr = a)
  BY <1>2 DEF InHand
<1> HIDE DEF n
<1>4. QueuedAbout(a)' = {i \in 1 .. n - 1 : hostapdQ[i + 1].addr = a}
  BY <1>1 DEF QueuedAbout
<1>5. QueuedAbout(a) = {i \in 1 .. n : hostapdQ[i].addr = a}
  BY <1>1 DEF QueuedAbout
<1>6. \A i \in 1 .. n - 1 : i \in QueuedAbout(a)' <=> i + 1 \in QueuedAbout(a)
  BY <1>1, <1>4, <1>5
<1>7. \A i \in QueuedAbout(a) : i = 1 \/ (i - 1 \in 1 .. n - 1 /\ i - 1 \in QueuedAbout(a)')
  BY <1>1, <1>4, <1>5
<1>8. 1 \in QueuedAbout(a) <=> event'.addr = a
  BY <1>1, <1>5
<1>9. CASE QueuedAbout(a)' = {}
  <2>1. \A i \in QueuedAbout(a) : i = 1
    BY <1>7, <1>9
  <2>2. QED  BY <1>1, <1>2, <1>3, <1>8, <1>9, <2>1 DEF WillBeClient
<1>10. CASE QueuedAbout(a)' # {}
  <2>1. PICK k \in QueuedAbout(a)' : TRUE
    BY <1>10
  <2>2. QueuedAbout(a) # {} /\ k \in 1 .. n - 1 /\ k + 1 \in QueuedAbout(a)
    BY <1>4, <1>6, <2>1
  <2>3. ASSUME NEW i \in QueuedAbout(a)', \A j \in QueuedAbout(a)' : j <= i
        PROVE  i + 1 \in QueuedAbout(a) /\ \A j \in QueuedAbout(a) : j <= i + 1
    <3>1. i \in 1 .. n - 1
      BY <1>4
    <3>2. \A j \in QueuedAbout(a) : j \in 1 .. n /\ (j = 1 \/ j - 1 <= i)
      BY <1>5, <1>7, <2>3
    <3>3. QED  BY <1>1, <1>6, <3>1, <3>2
  <2>4. ASSUME NEW i \in QueuedAbout(a), \A j \in QueuedAbout(a) : j <= i
        PROVE  /\ i - 1 \in QueuedAbout(a)' /\ i - 1 \in 1 .. n - 1
               /\ \A j \in QueuedAbout(a)' : j <= i - 1
    <3>1. i # 1
      BY <1>1, <2>2, <2>4
    <3>2. i - 1 \in QueuedAbout(a)' /\ i - 1 \in 1 .. n - 1
      BY <1>7, <3>1
    <3>3. QED  BY <1>1, <1>4, <1>5, <1>6, <2>4, <3>2
  <2>5. \A i \in 1 .. n - 1 : hostapdQ'[i].kind = hostapdQ[i + 1].kind
    BY <1>1
  <2>6. ASSUME WillBeClient(a)' PROVE WillBeClient(a)
    BY <1>4, <1>10, <2>2, <2>3, <2>5, <2>6 DEF WillBeClient
  <2>7. ASSUME WillBeClient(a) PROVE WillBeClient(a)'
    <3>1. PICK i \in QueuedAbout(a) : /\ hostapdQ[i].kind = "connected"
                                      /\ \A j \in QueuedAbout(a) : j <= i
      BY <2>2, <2>7 DEF WillBeClient
    <3>2. /\ i - 1 \in QueuedAbout(a)' /\ i - 1 \in 1 .. n - 1
          /\ \A j \in QueuedAbout(a)' : j <= i - 1
      BY <2>4, <3>1
    <3>3. hostapdQ'[i - 1] = hostapdQ[i]
      BY <1>1, <1>5, <3>2
    <3>4. QED  BY <3>1, <3>2, <3>3 DEF WillBeClient
  <2>8. QED  BY <2>6, <2>7
<1>11. QED  BY <1>9, <1>10

LEMMA StationReply == TypeOK /\ IInv /\ StationInv /\ Reply => StationInv'
<1> SUFFICES ASSUME TypeOK, IInv, StationInv, Reply PROVE StationInv'
  OBVIOUS
<1> USE ThreadsAssumption DEF Goto, TypeOK, LabelsOK, handlerVars, reqVars, sweepVars, tcVars,
                              pfInfo, outsideVars, hostapdVars, ghostVars
<1>1. CASE ReplyExit
  BY <1>1, StationFrame DEF ReplyExit
<1>2. CASE ReadEvent
  <2>1. /\ UNCHANGED <<stations, attached, unheard, AuthenticatedAddrs>>
        /\ hostapdQ # <<>> /\ pc'["main"] = pc["main"]
    BY <1>2 DEF ReadEvent
  <2>2. BeforeAttach' /\ (unheard \subseteq stations)'
    BY <2>1 DEF StationInv, BeforeAttach
  <2>3. ClientsAreStations'
    BY <1>2, <2>1, FirstEventInHand DEF StationInv, ClientsAreStations
  <2>4. QED  BY <2>2, <2>3 DEF StationInv
<1>3. CASE HandleAuthenticateEvent
  <2>1. /\ UNCHANGED <<stations, attached, unheard, hostapdQ>>
        /\ pc'["main"] = pc["main"] /\ pc["reply"] = "lock" /\ pc'["reply"] = "config"
        /\ event.kind = "connected"
        /\ AuthenticatedAddrs' = AuthenticatedAddrs \cup {event.addr}
    BY <1>3 DEF HandleAuthenticateEvent, AddClient
  <2>2. \A a \in Macs : QueuedAbout(a)' = QueuedAbout(a) /\ ~InHand(a)'
    BY <2>1 DEF QueuedAbout, InHand
  <2>3. \A a \in Macs : WillBeClient(a)' <=> WillBeClient(a)
    BY <2>1, <2>2 DEF WillBeClient, InHand
  <2>4. QED  BY <2>1, <2>3 DEF StationInv, BeforeAttach, ClientsAreStations
<1>4. CASE HandleDeAuthenticateEvent
  <2>1. /\ UNCHANGED <<stations, attached, unheard, hostapdQ>>
        /\ pc'["main"] = pc["main"] /\ pc["reply"] = "lock" /\ pc'["reply"] = "config"
        /\ event.kind = "disconnected"
        /\ AuthenticatedAddrs' = AuthenticatedAddrs \ {event.addr}
    BY <1>4 DEF HandleDeAuthenticateEvent, DropClient
  <2>2. \A a \in Macs : QueuedAbout(a)' = QueuedAbout(a) /\ ~InHand(a)'
    BY <2>1 DEF QueuedAbout, InHand
  <2>3. \A a \in Macs : WillBeClient(a)' <=> WillBeClient(a)
    BY <2>1, <2>2 DEF WillBeClient, InHand
  <2>4. QED  BY <2>1, <2>3 DEF StationInv, BeforeAttach, ClientsAreStations
<1>5. CASE ReplyDone
  BY <1>5, StationFrame DEF ReplyDone, WalkFails
<1>6. CASE ReplyReport
  BY <1>6, StationFrame DEF ReplyReport
<1>7. QED  BY <1>1, <1>2, <1>3, <1>4, <1>5, <1>6 DEF Reply

(* A client dropped because its request timed out is no longer stood for:  *)
(* unless an event about it is under way, its station becomes unheard.     *)
LEMMA StationTimeout == TypeOK /\ IInv /\ StationInv /\ Timeout => StationInv'
<1> SUFFICES ASSUME TypeOK, IInv, StationInv, Timeout PROVE StationInv'
  OBVIOUS
<1> USE ThreadsAssumption DEF Goto, TypeOK, LabelsOK, handlerVars, reqVars, sweepVars, tcVars,
                              pfInfo, outsideVars, hostapdVars, ghostVars
<1>1. CASE TimeoutExit
  BY <1>1, StationFrame DEF TimeoutExit
<1>2. CASE ReadClock
  BY <1>2, StationFrame DEF ReadClock
<1>3. CASE BeginSweep
  BY <1>3, StationFrame DEF BeginSweep
<1>4. CASE EndSweep
  BY <1>4, StationFrame DEF EndSweep
<1>5. CASE ExpireRequest
  <2>1. PICK b \in Macs :
          /\ AuthenticatedAddrs' = AuthenticatedAddrs \ {b}
          /\ unheard' = IF QueuedAbout(b) = {} /\ ~InHand(b)
                        THEN unheard \cup ({b} \cap stations) ELSE unheard
    BY Zenon, <1>5 DEF ExpireRequest, DropClient
  <2>2. /\ UNCHANGED <<stations, attached, hostapdQ, event>>
        /\ pc'["main"] = pc["main"] /\ pc'["reply"] = pc["reply"]
    BY <1>5 DEF ExpireRequest
  <2>3. \A a \in Macs : QueuedAbout(a)' = QueuedAbout(a) /\ InHand(a)' = InHand(a)
    BY <2>2 DEF QueuedAbout, InHand
  <2>4. \A a \in Macs : WillBeClient(a)' <=>
          WillBeClient(a) /\ ~(a = b /\ QueuedAbout(b) = {} /\ ~InHand(b))
    BY <2>1, <2>2, <2>3 DEF WillBeClient
  <2>5. BeforeAttach' /\ (unheard \subseteq stations)'
    BY <2>1, <2>2 DEF StationInv, BeforeAttach
  <2>6. ClientsAreStations'
    BY <2>1, <2>2, <2>4 DEF StationInv, ClientsAreStations
  <2>7. QED  BY <2>5, <2>6 DEF StationInv
<1>6. CASE ExpireDone
  BY <1>6, StationFrame DEF ExpireDone, WalkFails
<1>7. QED  BY <1>1, <1>2, <1>3, <1>4, <1>5, <1>6 DEF Timeout

LEMMA StationIfEvents == TypeOK /\ StationInv /\ IfEvents => StationInv'
<1> SUFFICES ASSUME TypeOK, StationInv, IfEvents PROVE StationInv'
  OBVIOUS
<1> USE ThreadsAssumption, StationFrame
        DEF Goto, TypeOK, LabelsOK, handlerVars, reqVars, sweepVars, tcVars, pfInfo, outsideVars,
            hostapdVars, ghostVars
<1>1. CASE IfEventsExit
  BY <1>1 DEF IfEventsExit
<1>2. CASE ReceiveLinkUpdate
  BY <1>2 DEF ReceiveLinkUpdate
<1>3. CASE HandlePfEventForOpStateChange
  BY <1>3 DEF HandlePfEventForOpStateChange
<1>4. CASE HandlePfEventForVlanChange
  BY <1>4 DEF HandlePfEventForVlanChange
<1>5. CASE LinkByNameFails
  BY <1>5 DEF LinkByNameFails
<1>6. CASE IfEventsDone
  BY <1>6 DEF IfEventsDone, WalkFails
<1>7. QED  BY <1>1, <1>2, <1>3, <1>4, <1>5, <1>6 DEF IfEvents

LEMMA StationWalk == TypeOK /\ StationInv /\ Walk => StationInv'
  BY StationFrame DEF Walk, NextVf, ConfigureVf, BeginVf, LinkSetVfVlan, LinkSetVfState,
     handlerVars, reqVars, sweepVars, pfInfo, outsideVars, hostapdVars, ghostVars

LEMMA StationProcessEnds == TypeOK /\ ProcessEnds => StationInv'
  BY ThreadsAssumption DEF ProcessEnds, NewPfInfo, StationInv, BeforeAttach, ClientsAreStations,
                           TypeOK

LEMMA StationMain == TypeOK /\ IInv /\ StationInv /\ Main => StationInv'
<1> SUFFICES ASSUME TypeOK, IInv, StationInv, Main PROVE StationInv'
  OBVIOUS
<1> USE ThreadsAssumption DEF Goto, TypeOK, LabelsOK, handlerVars, reqVars, sweepVars, tcVars,
                              pfInfo, outsideVars, hostapdVars, ghostVars
<1>1. CASE Boot
  BY <1>1, StationFrame DEF Boot
<1>2. CASE BootFails
  BY <1>2, StationFrame DEF BootFails
<1>3. CASE StartFails
  BY <1>3, StationFrame DEF StartFails
<1>4. CASE StartMonitor
  <2>1. AuthenticatedAddrs = {}
    BY <1>4 DEF IInv, QuietInv, StartMonitor
  <2>2. QED  BY <1>4, <2>1, StationFrame DEF StartMonitor, GetSriovPFInfo, NewPfInfo
<1>5. CASE StartWalkFails
  BY <1>5, StationFrame DEF StartWalkFails, WalkFails
<1>6. CASE StartThreads
  <2>1. pc["reply"] = "off" /\ pc["main"] = "config"
    BY <1>6 DEF IInv, QuietInv, StartThreads, Handlers
  <2>2. pc'["reply"] = "read"
    BY <1>6 DEF StartThreads, FirstLabel
  <2>3. QED  BY <1>6, <2>1, <2>2, StationFrame DEF StartThreads
<1>7. CASE AttachHostapd
  <2>1. /\ hostapdQ' = <<>> /\ AuthenticatedAddrs' = {}
        /\ pc'["reply"] # "lock" /\ pc'["main"] = "report"
        /\ unheard' = stations' /\ attached'
    BY <1>7 DEF AttachHostapd, StationInv, BeforeAttach
  <2>2. \A a \in Macs : ~WillBeClient(a)'
    BY SMTT(20), <2>1 DEF WillBeClient, QueuedAbout, InHand
  <2>3. QED  BY <2>1, <2>2 DEF StationInv, BeforeAttach, ClientsAreStations
<1>8. CASE StartReport
  BY <1>8, StationFrame DEF StartReport
<1>9. CASE StopMonitor
  <2>1. pc'["main"] \in {"closeStop", "setAuth"} /\ pc'["reply"] = pc["reply"]
    BY <1>9 DEF StopMonitor
  <2>2. QED  BY <1>9, <2>1, StationFrame DEF StopMonitor
<1>10. CASE StopSetAuth
  BY <1>10, StationFrame DEF StopSetAuth
<1>11. CASE RestoreDone
  BY <1>11, StationFrame DEF RestoreDone, WalkFails
<1>12. CASE CloseStop
  BY <1>12, StationFrame DEF CloseStop
<1>13. CASE CloseConn
  BY <1>13 DEF CloseConn, StationInv, BeforeAttach, ClientsAreStations
<1>14. CASE StopDone
  BY <1>14, StationFrame DEF StopDone
<1>15. CASE Exit
  BY <1>15, StationProcessEnds DEF Exit
<1>16. QED
  BY <1>1, <1>2, <1>3, <1>4, <1>5, <1>6, <1>7, <1>8, <1>9, <1>10, <1>11, <1>12, <1>13, <1>14,
     <1>15 DEF Main

LEMMA StationEnvironment == TypeOK /\ StationInv /\ Environment => StationInv'
<1> SUFFICES ASSUME TypeOK, StationInv, Environment PROVE StationInv'
  OBVIOUS
<1> USE DEF handlerVars, reqVars, sweepVars, tcVars, pfInfo, outsideVars, hostapdVars, ghostVars
<1>1. CASE Crash
  BY <1>1, StationProcessEnds DEF Crash
<1>2. CASE HostapdRestarts
  BY <1>2 DEF HostapdRestarts, StationInv, BeforeAttach, ClientsAreStations
<1>3. ASSUME NEW b \in Macs, StationConnects(b) PROVE StationInv'
  <2>1. /\ b \notin stations /\ stations' = stations \cup {b}
        /\ UNCHANGED <<pc, event, AuthenticatedAddrs, attached, unheard>>
    BY <1>3 DEF StationConnects
  <2>2. BeforeAttach' /\ (unheard \subseteq stations)'
    BY <1>3, <2>1 DEF StationConnects, Notify, StationInv, BeforeAttach
  <2>3. ASSUME attached
        PROVE  \A a \in Macs : WillBeClient(a)' <=> IF a = b THEN TRUE ELSE WillBeClient(a)
    <3> DEFINE e == [kind |-> "connected", addr |-> b]
    <3>1. e \in Events /\ hostapdQ' = Append(hostapdQ, e) /\ e.addr = b /\ e.kind = "connected"
      BY <1>3, <2>3 DEF StationConnects, Notify, Events
    <3> HIDE DEF e
    <3>2. QED  BY <2>1, <3>1, LastEventDecides
  <2>4. ClientsAreStations'
    BY <2>1, <2>3 DEF StationInv, ClientsAreStations
  <2>5. QED  BY <2>2, <2>4 DEF StationInv
<1>4. ASSUME NEW b \in Macs, StationDisconnects(b) PROVE StationInv'
  <2>1. /\ stations' = stations \ {b} /\ unheard' = unheard \ {b}
        /\ UNCHANGED <<pc, event, AuthenticatedAddrs, attached>>
    BY <1>4 DEF StationDisconnects
  <2>2. BeforeAttach' /\ (unheard \subseteq stations)'
    BY <1>4, <2>1 DEF StationDisconnects, Notify, StationInv, BeforeAttach
  <2>3. ASSUME attached
        PROVE  \A a \in Macs : WillBeClient(a)' <=> IF a = b THEN FALSE ELSE WillBeClient(a)
    <3> DEFINE e == [kind |-> "disconnected", addr |-> b]
    <3>1. e \in Events /\ hostapdQ' = Append(hostapdQ, e) /\ e.addr = b /\ e.kind # "connected"
      BY <1>4, <2>3 DEF StationDisconnects, Notify, Events
    <3> HIDE DEF e
    <3>2. QED  BY <2>1, <3>1, LastEventDecides
  <2>4. ClientsAreStations'
    BY <2>1, <2>3 DEF StationInv, ClientsAreStations
  <2>5. QED  BY <2>2, <2>4 DEF StationInv
<1>5. ASSUME NEW b \in Macs, RequestAges(b) PROVE StationInv'
  BY <1>5, StationFrame DEF RequestAges
<1>6. ASSUME NEW s \in LinkUpdates, LinkUpdate(s) PROVE StationInv'
  BY <1>6, StationFrame DEF LinkUpdate
<1>7. ASSUME NEW v \in VFs, NEW x \in CniVlans, CniSetVlan(v, x) PROVE StationInv'
  BY <1>7, StationFrame DEF CniSetVlan
<1>8. QED  BY <1>1, <1>2, <1>3, <1>4, <1>5, <1>6, <1>7 DEF Environment

(* Once it has handled what is queued, an attached monitor's clients are   *)
(* exactly the stations hostapd has authorised since ATTACH and that the   *)
(* monitor did not itself give up on: for any number of stations, any      *)
(* queue bound, and hostapd restarts, lost processes and failed calls.     *)
THEOREM StationSafety == Spec => []ClientsAreStations
<1>1. TypeOK /\ IInv /\ StationInv /\ [Next]_vars => StationInv'
  <2> SUFFICES ASSUME TypeOK, IInv, StationInv, [Next]_vars PROVE StationInv'
    OBVIOUS
  <2>1. CASE UNCHANGED vars
    BY <2>1, StationFrame DEF vars, hostapdVars, ghostVars, tcVars, pfInfo
  <2>2. CASE Next
    BY <2>2, StationWalk, StationReply, StationIfEvents, StationTimeout, StationMain,
       StationEnvironment DEF Next
  <2>3. QED  BY <2>1, <2>2
<1>2. StationInv => ClientsAreStations
  BY DEF StationInv
<1>3. QED  BY <1>1, <1>2, StationInit, TypeCorrect, SafetyInvariant, PTL DEF Spec

-----------------------------------------------------------------------------
(* The VLANs of the VFs.                                                   *)

(* The walk of thread t has yet to set the VLAN of the VF.                 *)
VlanDue(t, v) ==
    \/ v \in todo[t]
    \/ call[t] # NoCall /\ call[t].vf = v /\ call[t].step = "vlan"

VlanFor(v) == IF Authenticated THEN vfVlan[v] ELSE ReservedVlan

(* A VLAN someone else set that HandlePfEventForVlanChange has yet to      *)
(* compare.                                                                *)
ChangeUnseen == missed \/ ifEventQ # <<>> \/ pc["ifEvents"] \in {"oper", "vlan"}

(* A failed walk left VFs as they were, and no new one has begun.          *)
Skipped == cut /\ WalkDone("reply") /\ WalkDone("timeout")

(* StartMonitor isolates the VFs one by one.                               *)
StartVlanInv ==
    pc["main"] = "config" =>
        /\ call["main"] # NoCall => call["main"].vlan = ReservedVlan
        /\ \A v \in VFs : hwVlan[v] = ReservedVlan \/ VlanDue("main", v) \/ missed

(* Under the mutex neither the flag nor the remembered VLAN can change     *)
(* below a call in progress.                                               *)
CallVlanInv ==
    Running => \A t \in Handlers : call[t] # NoCall => call[t].vlan = VlanFor(call[t].vf)

(* A VF not on a VLAN the port allows is still to be visited, or was       *)
(* skipped, or someone else changed it and the update is under way.        *)
VfVlanInv ==
    Running => \A v \in VFs :
        \/ hwVlan[v] = vfVlan[v]
        \/ hwVlan[v] = VlanFor(v)
        \/ \E t \in Handlers : VlanDue(t, v)
        \/ Skipped
        \/ ChangeUnseen

(* HandlePfEventForVlanChange leaves VFs on the reserved VLAN alone: with  *)
(* the port open there are none but those still to be visited or skipped.  *)
IsolatedInv ==
    Running /\ Authenticated => \A v \in VFs :
        \/ hwVlan[v] # ReservedVlan
        \/ vfVlan[v] = ReservedVlan
        \/ \E t \in Handlers : VlanDue(t, v)
        \/ Skipped

VlanInv == StartVlanInv /\ CallVlanInv /\ VfVlanInv /\ IsolatedInv

(* While a handler is in its critical section no other handler walks.      *)
LEMMA OnlyHolderWalks ==
  ASSUME TypeOK, IInv, NEW t \in Handlers, pc[t] \in {"config", "sweep"}
  PROVE  \A h \in Handlers \ {t} : ~InWalk(h)
<1>1. addrMutex = t
  BY DEF IInv, MutexInv
<1>2. \A h \in Handlers \ {t} : pc[h] # "config"
  BY <1>1 DEF IInv, MutexInv
<1>3. \A h \in Handlers : pc[h] # "restore"
  BY DEF TypeOK, LabelsOK, ReplyLabels, IfEventsLabels, TimeoutLabels, Handlers
<1>4. QED  BY <1>2, <1>3 DEF InWalk

LEMMA VlanInit == Init => VlanInv
<1> SUFFICES ASSUME Init PROVE VlanInv
  OBVIOUS
<1>1. pc["main"] = "off"
  BY ThreadsAssumption DEF Init
<1>2. QED  BY <1>1 DEF VlanInv, StartVlanInv, CallVlanInv, VfVlanInv, IsolatedInv, Running

(* Nothing is claimed before the first walk and once StopMonitor begins.   *)
LEMMA VlanReleased ==
  ASSUME ~Running', pc'["main"] # "config"
  PROVE  VlanInv'
  BY DEF VlanInv, StartVlanInv, CallVlanInv, VfVlanInv, IsolatedInv

(* A step that leaves the VFs and the walks alone, and forgets no change   *)
(* of a VLAN.                                                              *)
LEMMA VlanFrame ==
  ASSUME VlanInv,
         UNCHANGED <<hwVlan, Authenticated, vfVlan, todo, call, cut, missed>>,
         ChangeUnseen => ChangeUnseen',
         Running' => Running,
         pc'["main"] = "config" => pc["main"] = "config"
  PROVE  VlanInv'
<1>1. \A t \in Threads, v \in VFs : VlanDue(t, v)' = VlanDue(t, v) /\ VlanFor(v)' = VlanFor(v)
  BY DEF VlanDue, VlanFor
<1>2. Skipped' = Skipped
  BY DEF Skipped, WalkDone
<1>3. StartVlanInv'
  BY <1>1, ThreadsAssumption DEF VlanInv, StartVlanInv
<1>4. CallVlanInv'
  BY DEF VlanInv, CallVlanInv, VlanFor
<1>5. VfVlanInv' /\ IsolatedInv'
  BY <1>1, <1>2, ThreadsAssumption DEF VlanInv, VfVlanInv, IsolatedInv, Handlers
<1>6. QED  BY <1>3, <1>4, <1>5 DEF VlanInv

(* A handler's walk fails, or the PF cannot be read: VFs may be left out.  *)
LEMMA VlanSkips ==
  ASSUME VlanInv, Skipped', pc'["main"] = pc["main"], pc["main"] # "config",
         UNCHANGED <<hwVlan, Authenticated, vfVlan>>,
         \A t \in Handlers : call'[t] \in {call[t], NoCall}
  PROVE  VlanInv'
  BY Zenon DEF VlanInv, StartVlanInv, CallVlanInv, VfVlanInv, IsolatedInv, Running, VlanFor

(* A client comes or goes while no walk is under way.                      *)
LEMMA VlanClientChange ==
  ASSUME TypeOK, IInv, VlanInv, NEW t \in {"reply", "timeout"}, NEW a \in Macs,
         AddClient(t, a) \/ DropClient(t, a),
         \A h \in Handlers : WalkDone(h), pc'["main"] = pc["main"], pc["main"] # "config",
         pc'["ifEvents"] = pc["ifEvents"], UNCHANGED <<missed, ifEventQ>>
  PROVE  VlanInv'
<1>a. todo \in [Threads -> SUBSET VFs]
  BY DEF TypeOK, TcTypeOK
<1> USE <1>a, ThreadsAssumption DEF Handlers
<1>1. UNCHANGED <<call, cut, hwVlan, vfVlan>>
  BY Zenon DEF AddClient, DropClient, kernel
<1>2. CASE todo' = [todo EXCEPT ![t] = VFs]
  <2>1. \A v \in VFs : VlanDue(t, v)'
    BY <1>2 DEF VlanDue
  <2>2. CallVlanInv'
    BY <1>1 DEF CallVlanInv, WalkDone
  <2>3. QED  BY Zenon, <2>1, <2>2 DEF VlanInv, StartVlanInv, VfVlanInv, IsolatedInv
<1>3. CASE todo' = todo /\ Authenticated' = Authenticated
  BY <1>1, <1>3, VlanFrame DEF ChangeUnseen, Running
<1>4. QED  BY <1>2, <1>3 DEF AddClient, DropClient, SetPort

LEMMA VlanReply == TypeOK /\ IInv /\ VlanInv /\ Reply => VlanInv'
<1> SUFFICES ASSUME TypeOK, IInv, VlanInv, Reply PROVE VlanInv'
  OBVIOUS
<1>p. pc \in [Threads -> MainLabels \cup ReplyLabels \cup IfEventsLabels \cup TimeoutLabels]
  BY DEF TypeOK, LabelsOK
<1> USE <1>p, ThreadsAssumption DEF Goto, handlerVars, linkVars, outsideVars, ghostVars, tcVars,
                                    kernel, pfInfo, walk
<1>a. pc["reply"] # "off" => pc["main"] # "config"
  BY DEF IInv, QuietInv, Handlers
<1>1. CASE ReplyExit
  BY <1>1, VlanFrame DEF ReplyExit, ChangeUnseen, Running
<1>2. CASE ReadEvent
  BY <1>2, VlanFrame DEF ReadEvent, ChangeUnseen, Running
<1>3. CASE HandleAuthenticateEvent \/ HandleDeAuthenticateEvent
  <2>1. event.addr \in Macs
    BY <1>3, EventAddr DEF HandleAuthenticateEvent, HandleDeAuthenticateEvent
  <2>2. \A h \in Handlers : WalkDone(h)
    BY <1>3, FreeMeansIdle DEF HandleAuthenticateEvent, HandleDeAuthenticateEvent, Lock
  <2>3. /\ AddClient("reply", event.addr) \/ DropClient("reply", event.addr)
        /\ pc'["main"] = pc["main"] /\ pc'["ifEvents"] = pc["ifEvents"]
        /\ pc["reply"] = "lock" /\ UNCHANGED <<missed, ifEventQ>>
    BY <1>3 DEF HandleAuthenticateEvent, HandleDeAuthenticateEvent
  <2>4. QED  BY <1>a, <2>1, <2>2, <2>3, VlanClientChange
<1>4. CASE ReplyDone
  <2>1. /\ pc'["main"] = pc["main"] /\ pc'["ifEvents"] = pc["ifEvents"]
        /\ pc["reply"] = "config" /\ UNCHANGED <<missed, ifEventQ, hwVlan, Authenticated, vfVlan>>
    BY <1>4 DEF ReplyDone, WalkFails
  <2>2. CASE UNCHANGED walk
    BY <2>1, <2>2, VlanFrame DEF ChangeUnseen, Running
  <2>3. CASE WalkFails("reply")
    <3>1. WalkDone("timeout")
      <4>1. ~InWalk("timeout")
        BY <2>1, OnlyHolderWalks DEF Handlers
      <4>2. QED  BY <4>1 DEF IInv, WalkInv
    <3>2. Skipped' /\ \A t \in Handlers : call'[t] \in {call[t], NoCall}
      BY <2>3, <3>1 DEF WalkFails, Skipped, WalkDone, TypeOK, TcTypeOK, Handlers
    <3>3. QED  BY <1>a, <2>1, <3>2, VlanSkips
  <2>4. QED  BY <1>4, <2>2, <2>3 DEF ReplyDone
<1>5. CASE ReplyReport
  BY <1>5, VlanFrame DEF ReplyReport, ChangeUnseen, Running
<1>6. QED  BY <1>1, <1>2, <1>3, <1>4, <1>5 DEF Reply

LEMMA VlanTimeout == TypeOK /\ IInv /\ VlanInv /\ Timeout => VlanInv'
<1> SUFFICES ASSUME TypeOK, IInv, VlanInv, Timeout PROVE VlanInv'
  OBVIOUS
<1>p. pc \in [Threads -> MainLabels \cup ReplyLabels \cup IfEventsLabels \cup TimeoutLabels]
  BY DEF TypeOK, LabelsOK
<1> USE <1>p, ThreadsAssumption DEF Goto, handlerVars, linkVars, outsideVars, ghostVars, tcVars,
                                    kernel, pfInfo, walk
<1>a. pc["timeout"] # "off" => pc["main"] # "config"
  BY DEF IInv, QuietInv, Handlers
<1>1. CASE TimeoutExit
  BY <1>1, VlanFrame DEF TimeoutExit, ChangeUnseen, Running
<1>2. CASE ReadClock
  BY <1>2, VlanFrame DEF ReadClock, ChangeUnseen, Running
<1>3. CASE BeginSweep
  BY <1>3, VlanFrame DEF BeginSweep, ChangeUnseen, Running
<1>4. CASE EndSweep
  BY <1>4, VlanFrame DEF EndSweep, ChangeUnseen, Running
<1>5. CASE ExpireRequest
  <2>1. PICK a \in Macs : DropClient("timeout", a)
    BY <1>5 DEF ExpireRequest, TypeOK
  <2>2. /\ pc'["main"] = pc["main"] /\ pc'["ifEvents"] = pc["ifEvents"]
        /\ pc["timeout"] = "sweep" /\ UNCHANGED <<missed, ifEventQ>>
    BY <1>5 DEF ExpireRequest
  <2>3. \A h \in Handlers : WalkDone(h)
    <3>1. ~InWalk("timeout") /\ ~InWalk("reply") /\ ~InWalk("ifEvents")
      BY <2>2, OnlyHolderWalks DEF InWalk, Handlers
    <3>2. QED  BY <3>1 DEF IInv, WalkInv, Handlers
  <2>4. QED  BY <1>a, <2>1, <2>2, <2>3, VlanClientChange
<1>6. CASE ExpireDone
  <2>1. /\ pc'["main"] = pc["main"] /\ pc'["ifEvents"] = pc["ifEvents"]
        /\ pc["timeout"] = "config"
        /\ UNCHANGED <<missed, ifEventQ, hwVlan, Authenticated, vfVlan>>
    BY <1>6 DEF ExpireDone, WalkFails
  <2>2. CASE UNCHANGED walk
    BY <2>1, <2>2, VlanFrame DEF ChangeUnseen, Running
  <2>3. CASE WalkFails("timeout")
    <3>1. WalkDone("reply")
      <4>1. ~InWalk("reply")
        BY <2>1, OnlyHolderWalks DEF Handlers
      <4>2. QED  BY <4>1 DEF IInv, WalkInv
    <3>2. Skipped' /\ \A t \in Handlers : call'[t] \in {call[t], NoCall}
      BY <2>3, <3>1 DEF WalkFails, Skipped, WalkDone, TypeOK, TcTypeOK, Handlers
    <3>3. QED  BY Zenon, <1>a, <2>1, <3>2, VlanSkips
  <2>4. QED  BY <1>6, <2>2, <2>3 DEF ExpireDone
<1>7. QED  BY <1>1, <1>2, <1>3, <1>4, <1>5, <1>6 DEF Timeout

LEMMA VlanIfEvents == TypeOK /\ IInv /\ VlanInv /\ IfEvents => VlanInv'
<1> SUFFICES ASSUME TypeOK, IInv, VlanInv, IfEvents PROVE VlanInv'
  OBVIOUS
<1>p. pc \in [Threads -> MainLabels \cup ReplyLabels \cup IfEventsLabels \cup TimeoutLabels]
  BY DEF TypeOK, LabelsOK
<1> USE <1>p, ThreadsAssumption DEF Goto, handlerVars, linkVars, outsideVars, ghostVars, tcVars,
                                    kernel, pfInfo, walk
<1>a. pc["ifEvents"] # "off" => pc["main"] # "config"
  BY DEF IInv, QuietInv, Handlers
<1>1. CASE IfEventsExit
  BY <1>1, VlanFrame DEF IfEventsExit, ChangeUnseen, Running
<1>2. CASE ReceiveLinkUpdate
  BY <1>2, VlanFrame DEF ReceiveLinkUpdate, ChangeUnseen, Running
<1>3. CASE HandlePfEventForOpStateChange
  BY <1>3, VlanFrame DEF HandlePfEventForOpStateChange, ChangeUnseen, Running
<1>4. CASE HandlePfEventForVlanChange
  <2>1. /\ pc["ifEvents"] = "vlan" /\ addrMutex = "free" /\ pc'["main"] = pc["main"]
        /\ UNCHANGED <<hwVlan, vfVlan, Authenticated, call, cut>>
        /\ todo' = [todo EXCEPT !["ifEvents"] = ChangedVfs]
    BY <1>4 DEF HandlePfEventForVlanChange
  <2>2. \A h \in Handlers : WalkDone(h)
    BY <2>1, FreeMeansIdle
  <2>3. /\ \A h \in Handlers : call'[h] = NoCall
        /\ \A v \in VFs : v \in ChangedVfs => VlanDue("ifEvents", v)'
        /\ Skipped => Skipped'
    BY <2>1, <2>2 DEF VlanDue, WalkDone, Skipped, Handlers, TypeOK, TcTypeOK, ChangedVfs
  <2>4. \A v \in VFs : v \notin ChangedVfs => hwVlan[v] = ReservedVlan \/ hwVlan[v] = vfVlan[v]
    BY DEF ChangedVfs
  <2>5. \A v \in VFs, h \in Handlers : ~VlanDue(h, v)
    BY <2>2 DEF VlanDue, WalkDone
  <2>6. StartVlanInv' /\ CallVlanInv'
    BY Zenon, <1>a, <2>1, <2>3 DEF StartVlanInv, CallVlanInv
  <2>7. IsolatedInv'
    <3> SUFFICES ASSUME Running, Authenticated, NEW v \in VFs,
                        hwVlan[v] = ReservedVlan, vfVlan[v] # ReservedVlan
                 PROVE  Skipped'
      BY Zenon, <2>1 DEF IsolatedInv, Running
    <3>1. QED  BY Zenon, <2>3, <2>5 DEF VlanInv, IsolatedInv
  <2>8. VfVlanInv'
    <3> SUFFICES ASSUME Running, NEW v \in VFs, v \notin ChangedVfs
                 PROVE  hwVlan[v] = vfVlan[v] \/ hwVlan[v] = VlanFor(v) \/ Skipped'
      BY <2>1, <2>3 DEF VfVlanInv, Running, VlanFor, Handlers
    <3>1. CASE hwVlan[v] = ReservedVlan /\ Authenticated
      BY <2>3, <2>5, <3>1 DEF VlanInv, IsolatedInv
    <3>2. CASE hwVlan[v] = ReservedVlan /\ ~Authenticated
      BY <3>2 DEF VlanFor
    <3>3. QED  BY <2>4, <3>1, <3>2
  <2>9. QED  BY <2>6, <2>7, <2>8 DEF VlanInv
<1>5. CASE LinkByNameFails
  <2>1. WalkDone("reply") /\ WalkDone("timeout")
    BY <1>5, FreeMeansIdle DEF LinkByNameFails, Handlers
  <2>2. Skipped' /\ pc["ifEvents"] = "vlan" /\ pc'["main"] = pc["main"]
        /\ UNCHANGED <<hwVlan, Authenticated, vfVlan, call>>
    BY Zenon, <1>5, <2>1 DEF LinkByNameFails, Skipped, WalkDone
  <2>3. QED  BY <1>a, <2>2, VlanSkips
<1>6. CASE IfEventsDone
  <2>1. /\ pc'["main"] = pc["main"] /\ pc["ifEvents"] = "config"
        /\ pc'["ifEvents"] = "select"
        /\ UNCHANGED <<missed, ifEventQ, hwVlan, Authenticated, vfVlan>>
    BY <1>6 DEF IfEventsDone, WalkFails
  <2>2. CASE UNCHANGED walk
    BY <2>1, <2>2, VlanFrame DEF ChangeUnseen, Running
  <2>3. CASE WalkFails("ifEvents")
    <3>1. WalkDone("reply") /\ WalkDone("timeout")
      <4>1. ~InWalk("reply") /\ ~InWalk("timeout")
        BY <2>1, OnlyHolderWalks DEF Handlers
      <4>2. QED  BY <4>1 DEF IInv, WalkInv
    <3>2. Skipped' /\ \A t \in Handlers : call'[t] \in {call[t], NoCall}
      BY <2>3, <3>1 DEF WalkFails, Skipped, WalkDone, TypeOK, TcTypeOK, Handlers
    <3>3. QED  BY <1>a, <2>1, <3>2, VlanSkips
  <2>4. QED  BY <1>6, <2>2, <2>3 DEF IfEventsDone
<1>7. QED  BY <1>1, <1>2, <1>3, <1>4, <1>5, <1>6 DEF IfEvents

LEMMA VlanMain == TypeOK /\ IInv /\ VlanInv /\ Main => VlanInv'
<1> SUFFICES ASSUME TypeOK, IInv, VlanInv, Main PROVE VlanInv'
  OBVIOUS
<1>p. pc \in [Threads -> MainLabels \cup ReplyLabels \cup IfEventsLabels \cup TimeoutLabels]
  BY DEF TypeOK, LabelsOK
<1> USE <1>p, ThreadsAssumption DEF Goto, handlerVars, linkVars, outsideVars, ghostVars, tcVars,
                                    kernel, pfInfo, walk
<1>1. CASE Boot \/ BootFails \/ StartFails \/ StartWalkFails \/ StopMonitor \/ StopSetAuth
             \/ RestoreDone \/ CloseStop \/ CloseConn \/ StopDone
  <2>1. ~Running' /\ pc'["main"] # "config"
    BY Zenon, <1>1 DEF Boot, BootFails, StartFails, StartWalkFails, StopMonitor, StopSetAuth,
                RestoreDone, CloseStop, CloseConn, StopDone, Running
  <2>2. QED  BY <2>1, VlanReleased
<1>2. CASE Exit
  BY <1>2, VlanReleased DEF Exit, ProcessEnds, Running
<1>3. CASE StartMonitor
  <2>1. pc'["main"] = "config" /\ todo'["main"] = VFs /\ call' = call
    BY <1>3 DEF StartMonitor, GetSriovPFInfo, TypeOK, TcTypeOK
  <2>2. call["main"] = NoCall
    BY <1>3 DEF StartMonitor, IInv, WalkInv, InWalk, WalkDone
  <2>3. QED  BY Zenon, <2>1, <2>2 DEF VlanInv, StartVlanInv, CallVlanInv, VfVlanInv, IsolatedInv,
                               Running, VlanDue
<1>4. CASE StartThreads
  <2>1. pc["main"] = "config" /\ WalkDone("main") /\ UNCHANGED <<tcVars, missed>>
    BY <1>4 DEF StartThreads
  <2>2. ~Authenticated /\ \A h \in Handlers : call[h] = NoCall
    BY Zenon, <2>1 DEF IInv, StartInv, QuietInv, WalkInv, InWalk, WalkDone, Handlers
  <2>3. \A v \in VFs : hwVlan[v] = ReservedVlan \/ missed
    BY <2>1 DEF VlanInv, StartVlanInv, VlanDue, WalkDone
  <2>4. pc'["main"] = "attach"
    BY <1>4 DEF StartThreads, FirstLabel
  <2>5. QED  BY Zenon, <2>1, <2>2, <2>3, <2>4 DEF VlanInv, StartVlanInv, CallVlanInv, VfVlanInv,
                                           IsolatedInv, VlanFor, ChangeUnseen
<1>5. CASE AttachHostapd
  BY <1>5, VlanFrame DEF AttachHostapd, ChangeUnseen, Running
<1>6. CASE StartReport
  BY <1>6, VlanFrame DEF StartReport, ChangeUnseen, Running
<1>7. QED  BY <1>1, <1>2, <1>3, <1>4, <1>5, <1>6 DEF Main

LEMMA VlanEnvironment == TypeOK /\ VlanInv /\ Environment => VlanInv'
<1> SUFFICES ASSUME TypeOK, VlanInv, Environment PROVE VlanInv'
  OBVIOUS
<1> USE DEF linkVars, outsideVars, hostapdVars, ghostVars, tcVars, kernel, pfInfo, walk
<1>1. CASE Crash
  BY <1>1, VlanReleased, ThreadsAssumption DEF Crash, ProcessEnds, Running
<1>2. CASE HostapdRestarts
  BY <1>2, VlanFrame DEF HostapdRestarts, ChangeUnseen, Running
<1>3. ASSUME NEW a \in Macs, StationConnects(a) \/ StationDisconnects(a) \/ RequestAges(a)
      PROVE  VlanInv'
  <2>1. UNCHANGED <<hwVlan, Authenticated, vfVlan, todo, call, cut, missed, pc, ifEventQ>>
    BY <1>3 DEF StationConnects, StationDisconnects, RequestAges
  <2>2. QED  BY <2>1, VlanFrame DEF ChangeUnseen, Running
<1>4. ASSUME NEW s, s \in OperStates, Publish(s), Subscribed PROVE ifEventQ' # <<>>
  BY <1>4 DEF Publish, TypeOK
<1>5. LinkUpdates \subseteq OperStates
  BY LinkAssumption DEF OperStates
<1>6. ASSUME NEW s \in LinkUpdates, LinkUpdate(s) PROVE VlanInv'
  <2>1. ChangeUnseen'
    BY <1>4, <1>5, <1>6 DEF LinkUpdate, ChangeUnseen
  <2>2. QED  BY <1>6, <2>1, VlanFrame DEF LinkUpdate, Running
<1>7. ASSUME NEW v \in VFs, NEW x \in CniVlans, CniSetVlan(v, x) PROVE VlanInv'
  <2>1. /\ hwVlan' = [hwVlan EXCEPT ![v] = x] /\ x # ReservedVlan
        /\ missed' = (missed \/ pc["main"] = "config")
        /\ UNCHANGED <<pc, todo, call, cut, Authenticated, vfVlan>>
    BY <1>7, CniAssumption, VlanAssumption DEF CniSetVlan
  <2>2. Running => ChangeUnseen'
    BY <1>4, <1>5, <1>7 DEF CniSetVlan, ChangeUnseen, Subscribed
  <2>3. StartVlanInv' /\ CallVlanInv' /\ VfVlanInv'
    BY Zenon, <2>1, <2>2 DEF VlanInv, StartVlanInv, CallVlanInv, VfVlanInv, Running, VlanFor
  <2>4. IsolatedInv'
    <3>1. \A w \in VFs : hwVlan'[w] # ReservedVlan \/ hwVlan'[w] = hwVlan[w]
      BY <2>1 DEF TypeOK, TcTypeOK
    <3>2. Skipped' = Skipped /\ \A t \in Handlers, w \in VFs : VlanDue(t, w)' = VlanDue(t, w)
      BY Zenon, <2>1 DEF Skipped, WalkDone, VlanDue
    <3>3. QED  BY <2>1, <3>1, <3>2 DEF VlanInv, IsolatedInv, Running
  <2>5. QED  BY <2>3, <2>4 DEF VlanInv
<1>8. QED  BY <1>1, <1>2, <1>3, <1>6, <1>7 DEF Environment

(* What one step of a walk does to VLANs: a VF is taken up, its VLAN is    *)
(* set, or its link state is set.                                          *)
LEMMA VlanTakeUp ==
  ASSUME TypeOK, NEW t \in Threads, NextVf(t)
  PROVE  \E v \in VFs, vlan \in AllVlans :
            /\ call[t] = NoCall /\ v \in todo[t] /\ todo'[t] = todo[t] \ {v}
            /\ call'[t] # NoCall /\ call'[t].vf = v /\ call'[t].step = "vlan"
            /\ call'[t].vlan = IF Authenticated THEN vlan ELSE ReservedVlan
            /\ vfVlan' = [vfVlan EXCEPT ![v] = vlan]
            /\ UNCHANGED <<hwVlan, cut>>
<1>1. call \in [Threads -> Calls \cup {NoCall}] /\ todo \in [Threads -> SUBSET VFs]
  BY DEF TypeOK, TcTypeOK
<1>2. PICK v \in VFs, vlan \in AllVlans : BeginVf(t, v, vlan)
  BY DEF NextVf, TypeOK, TcTypeOK
<1> DEFINE target == IF Authenticated THEN vlan ELSE ReservedVlan
<1>3. target \in AllVlans /\ StateFor(Authenticated) \in LinkStates
  BY DEF AllVlans, StateFor, LinkStates
<1>4. call'[t] = VfCall(v, target, StateFor(Authenticated), "vlan")
  BY <1>1, <1>2 DEF BeginVf
<1> HIDE DEF target
<1>5. call'[t].vf = v /\ call'[t].step = "vlan" /\ call'[t].vlan = target
  <2>1. PICK state : state = StateFor(Authenticated)
    OBVIOUS
  <2>2. PICK c : c = VfCall(v, target, state, "vlan")
    OBVIOUS
  <2>3. c.vf = v /\ c.step = "vlan" /\ c.vlan = target
    BY <2>2 DEF VfCall
  <2>4. call'[t] = c
    BY <1>4, <2>1, <2>2
  <2>5. QED  BY <2>3, <2>4
<1>6. /\ call[t] = NoCall /\ v \in todo[t] /\ todo'[t] = todo[t] \ {v}
      /\ vfVlan' = [vfVlan EXCEPT ![v] = vlan] /\ UNCHANGED <<hwVlan, cut>>
  BY <1>1, <1>2 DEF BeginVf, kernel
<1>7. call'[t] # NoCall
  <2>1. VfCall(v, target, StateFor(Authenticated), "vlan") \in Calls
    BY <1>3, VfCallFields
  <2>2. QED  BY <1>4, <2>1, NoCallAssumption
<1>8. QED  BY Zenon, <1>5, <1>6, <1>7 DEF target

LEMMA VlanSet ==
  ASSUME TypeOK, NEW t \in Threads, LinkSetVfVlan(t)
  PROVE  /\ call[t] # NoCall /\ call[t].vf \in VFs /\ call[t].step = "vlan"
         /\ hwVlan' = [hwVlan EXCEPT ![call[t].vf] = call[t].vlan]
         /\ call'[t] # NoCall /\ call'[t].step = "state"
         /\ call'[t].vf = call[t].vf /\ call'[t].vlan = call[t].vlan
         /\ UNCHANGED <<vfVlan, todo, cut>>
<1>1. call \in [Threads -> Calls \cup {NoCall}]
  BY DEF TypeOK, TcTypeOK
<1>2. call[t] \in Calls /\ call[t] # NoCall
  BY <1>1 DEF LinkSetVfVlan
<1>3. call[t].vf \in VFs /\ call[t].vlan \in AllVlans /\ call[t].state \in LinkStates
  BY <1>2 DEF Calls
<1>4. call'[t] = VfCall(call[t].vf, call[t].vlan, call[t].state, "state")
  BY <1>1 DEF LinkSetVfVlan
<1>5. /\ call'[t].vf = call[t].vf /\ call'[t].vlan = call[t].vlan
      /\ call'[t].step = "state"
  <2>1. PICK v, vlan, state : v = call[t].vf /\ vlan = call[t].vlan /\ state = call[t].state
    OBVIOUS
  <2>2. PICK c : c = VfCall(v, vlan, state, "state")
    OBVIOUS
  <2>3. c.vf = v /\ c.vlan = vlan /\ c.step = "state"
    BY <2>2 DEF VfCall
  <2>4. call'[t] = c
    BY <1>4, <2>1, <2>2
  <2>5. QED  BY <2>1, <2>3, <2>4
<1>6. call'[t] # NoCall
  <2>1. VfCall(call[t].vf, call[t].vlan, call[t].state, "state") \in Calls
    BY <1>3, VfCallFields
  <2>2. QED  BY <1>4, <2>1, NoCallAssumption
<1>7. QED  BY <1>2, <1>3, <1>5, <1>6 DEF LinkSetVfVlan, pfInfo

LEMMA VlanWalk == TypeOK /\ IInv /\ VlanInv /\ Walk => VlanInv'
<1> SUFFICES ASSUME TypeOK, IInv, VlanInv, NEW t \in Threads, NextVf(t) \/ ConfigureVf(t)
             PROVE  VlanInv'
  BY DEF Walk
<1>1. /\ InWalk(t) /\ UNCHANGED <<pc, Authenticated, missed, ifEventQ>>
      /\ \A h \in Threads \ {t} : todo'[h] = todo[h] /\ call'[h] = call[h]
  BY Zenon DEF NextVf, ConfigureVf, BeginVf, LinkSetVfVlan, LinkSetVfState, linkVars, outsideVars,
         ghostVars, pfInfo, TypeOK, TcTypeOK
<1>2. /\ todo \in [Threads -> SUBSET VFs] /\ call \in [Threads -> Calls \cup {NoCall}]
      /\ hwVlan \in [VFs -> AllVlans] /\ vfVlan \in [VFs -> AllVlans]
  BY DEF TypeOK, TcTypeOK
<1>3. NextVf(t) \/ LinkSetVfVlan(t) \/ LinkSetVfState(t, FullWalk(t))
  BY DEF ConfigureVf
<1>4. CASE t = "main"
  <2> SUFFICES ASSUME pc["main"] = "config"
               PROVE  StartVlanInv'
    BY Zenon, <1>1, <1>4 DEF VlanInv, CallVlanInv, VfVlanInv, IsolatedInv, StartVlanInv, Running,
                             InWalk
  <2>1. /\ call[t] # NoCall => call[t].vlan = ReservedVlan
        /\ \A v \in VFs : hwVlan[v] = ReservedVlan \/ VlanDue(t, v) \/ missed
    BY Zenon, <1>4 DEF VlanInv, StartVlanInv
  <2>2. ~Authenticated
    BY DEF IInv, StartInv
  <2>3. CASE NextVf(t)
    <3>1. PICK v \in VFs :
            /\ call[t] = NoCall /\ todo'[t] = todo[t] \ {v}
            /\ call'[t] # NoCall /\ call'[t].vf = v /\ call'[t].step = "vlan"
            /\ call'[t].vlan = ReservedVlan /\ UNCHANGED hwVlan
      BY Zenon, <2>2, <2>3, VlanTakeUp
    <3>2. \A w \in VFs : VlanDue(t, w) => VlanDue(t, w)'
      BY Zenon, <3>1 DEF VlanDue
    <3>3. QED  BY Zenon, <1>1, <1>4, <2>1, <3>1, <3>2 DEF StartVlanInv
  <2>4. CASE LinkSetVfVlan(t)
    <3>1. /\ call[t] # NoCall /\ call[t].vf \in VFs
          /\ hwVlan' = [hwVlan EXCEPT ![call[t].vf] = ReservedVlan]
          /\ call'[t].vlan = ReservedVlan /\ UNCHANGED todo
      BY Zenon, <2>1, <2>4, VlanSet
    <3>2. \A w \in VFs : hwVlan'[w] = IF w = call[t].vf THEN ReservedVlan ELSE hwVlan[w]
      BY Zenon, <1>2, <3>1
    <3>3. \A w \in VFs : VlanDue(t, w) => VlanDue(t, w)' \/ w = call[t].vf
      BY Zenon, <3>1 DEF VlanDue
    <3>4. QED  BY <1>1, <1>4, <2>1, <3>1, <3>2, <3>3 DEF StartVlanInv
  <2>5. CASE LinkSetVfState(t, FullWalk(t))
    BY <1>1, <1>2, <1>4, <2>1, <2>5 DEF StartVlanInv, VlanDue, LinkSetVfState
  <2>6. QED  BY <1>3, <2>3, <2>4, <2>5
<1>5. CASE t # "main"
  <2>1. t \in Handlers /\ Handlers \subseteq Threads
    BY <1>5, ThreadsAssumption DEF Handlers
  <2>2. pc[t] = "config"
    BY <1>1, <2>1 DEF TypeOK, LabelsOK, ReplyLabels, IfEventsLabels, TimeoutLabels, Handlers,
                      InWalk
  <2>3. pc["main"] # "config"
    BY <2>1, <2>2 DEF IInv, QuietInv
  <2>4. \A h \in Handlers \ {t} : WalkDone(h) /\ WalkDone(h)'
    BY <1>1, <2>1, <2>2, OnlyHolderWalks DEF IInv, WalkInv, WalkDone
  <2>5. StartVlanInv'
    BY <1>1, <2>3 DEF StartVlanInv
  <2>6. ASSUME Running
        PROVE  /\ call[t] # NoCall => call[t].vlan = VlanFor(call[t].vf)
               /\ \A v \in VFs : \/ hwVlan[v] = vfVlan[v] \/ hwVlan[v] = VlanFor(v)
                                 \/ VlanDue(t, v) \/ Skipped \/ ChangeUnseen
               /\ Authenticated => \A v \in VFs : \/ hwVlan[v] # ReservedVlan
                                                  \/ vfVlan[v] = ReservedVlan
                                                  \/ VlanDue(t, v) \/ Skipped
    BY Zenon, <2>1, <2>4, <2>6 DEF VlanInv, CallVlanInv, VfVlanInv, IsolatedInv, VlanDue, WalkDone
  <2>7. ChangeUnseen' = ChangeUnseen /\ Running' = Running
    BY <1>1 DEF ChangeUnseen, Running
  <2>8. SUFFICES ASSUME Running
                 PROVE  /\ call'[t] # NoCall => call'[t].vlan = VlanFor(call[t].vf)'
                        /\ \A v \in VFs : \/ hwVlan'[v] = vfVlan'[v] \/ hwVlan'[v] = VlanFor(v)'
                                          \/ VlanDue(t, v)' \/ Skipped' \/ ChangeUnseen
                        /\ Authenticated => \A v \in VFs : \/ hwVlan'[v] # ReservedVlan
                                                           \/ vfVlan'[v] = ReservedVlan
                                                           \/ VlanDue(t, v)' \/ Skipped'
    BY Zenon, <1>1, <2>1, <2>4, <2>5, <2>7
       DEF VlanInv, CallVlanInv, VfVlanInv, IsolatedInv, WalkDone
  <2>9. CASE NextVf(t)
    <3>1. PICK v \in VFs, vlan \in AllVlans :
            /\ call[t] = NoCall /\ v \in todo[t] /\ todo'[t] = todo[t] \ {v}
            /\ call'[t] # NoCall /\ call'[t].vf = v /\ call'[t].step = "vlan"
            /\ call'[t].vlan = IF Authenticated THEN vlan ELSE ReservedVlan
            /\ vfVlan' = [vfVlan EXCEPT ![v] = vlan]
            /\ UNCHANGED <<hwVlan, cut>>
      BY Zenon, <2>9, VlanTakeUp
    <3>2. call'[t].vlan = VlanFor(call[t].vf)'
      BY Zenon, <1>1, <1>2, <3>1 DEF VlanFor
    <3>3. Skipped => Skipped'
      BY <1>1, <2>1, <2>4, <3>1 DEF Skipped, WalkDone, Handlers
    <3>4. VlanDue(t, v)'
      BY <3>1 DEF VlanDue
    <3>5. \A w \in VFs \ {v} : /\ VlanDue(t, w) => VlanDue(t, w)'
                               /\ vfVlan'[w] = vfVlan[w] /\ VlanFor(w)' = VlanFor(w)
                               /\ hwVlan'[w] = hwVlan[w]
      BY Zenon, <1>1, <1>2, <3>1 DEF VlanDue, VlanFor
    <3>6. QED  BY Zenon, <2>6, <2>8, <3>2, <3>3, <3>4, <3>5
  <2>10. CASE LinkSetVfVlan(t)
    <3>1. PICK v \in VFs :
          /\ call[t] # NoCall /\ call[t].vf = v /\ call[t].step = "vlan"
          /\ hwVlan' = [hwVlan EXCEPT ![v] = call[t].vlan]
          /\ call'[t] # NoCall /\ call'[t].step = "state"
          /\ call'[t].vf = v /\ call'[t].vlan = call[t].vlan
          /\ UNCHANGED <<vfVlan, todo, cut>>
      BY Zenon, <2>10, VlanSet
    <3>2. \A w \in VFs : VlanFor(w)' = VlanFor(w)
      BY Zenon, <1>1, <3>1 DEF VlanFor
    <3>3. call[t].vlan = VlanFor(v) /\ hwVlan'[v] = VlanFor(v)'
      BY Zenon, <1>2, <2>6, <2>8, <3>1, <3>2
    <3>4. Skipped => Skipped'
      BY <1>1, <2>1, <2>4, <3>1 DEF Skipped, WalkDone, Handlers
    <3>5. \A w \in VFs \ {v} : (VlanDue(t, w) => VlanDue(t, w)') /\ hwVlan'[w] = hwVlan[w]
      BY Zenon, <1>2, <3>1 DEF VlanDue
    <3>6. Authenticated => hwVlan'[v] = vfVlan'[v]
      BY Zenon, <1>1, <3>3 DEF VlanFor
    <3>7. QED  BY Zenon, <2>6, <2>8, <3>1, <3>2, <3>3, <3>4, <3>5, <3>6
  <2>11. CASE LinkSetVfState(t, FullWalk(t))
    <3>1. /\ call[t] # NoCall /\ call[t].step = "state" /\ call'[t] = NoCall
          /\ UNCHANGED <<hwVlan, vfVlan, todo>>
          /\ cut' = (cut /\ ~(FullWalk(t) /\ todo[t] = {}))
      BY <1>2, <2>11 DEF LinkSetVfState, pfInfo
    <3>2. Skipped => Skipped'
      BY Zenon, <1>1, <2>1, <2>4, <3>1 DEF Skipped, WalkDone, Handlers, FullWalk
    <3>3. \A w \in VFs : (VlanDue(t, w) => VlanDue(t, w)') /\ VlanFor(w)' = VlanFor(w)
      BY <1>1, <3>1 DEF VlanDue, VlanFor
    <3>4. QED  BY Zenon, <2>6, <2>8, <3>1, <3>2, <3>3
  <2>12. QED  BY Zenon, <1>3, <2>9, <2>10, <2>11
<1>6. QED  BY <1>4, <1>5

(* With the mutex free, no failed walk and no update of someone else under *)
(* way, every VF is on the VLAN remembered for it if the port is open, and *)
(* on that or the reserved one if it is not: for any number of VFs and     *)
(* VLANs, any interleaving of handlers, CNI plugins and failing calls.     *)
THEOREM VlanSafety == Spec => []VfVlanFollowsPort
<1>1. TypeOK /\ IInv /\ VlanInv /\ [Next]_vars => VlanInv'
  <2> SUFFICES ASSUME TypeOK, IInv, VlanInv, [Next]_vars PROVE VlanInv'
    OBVIOUS
  <2>1. CASE UNCHANGED vars
    BY <2>1, VlanFrame DEF vars, tcVars, kernel, pfInfo, walk, linkVars, ghostVars, ChangeUnseen,
                           Running
  <2>2. CASE Next
    BY <2>2, VlanWalk, VlanReply, VlanIfEvents, VlanTimeout, VlanMain, VlanEnvironment DEF Next
  <2>3. QED  BY <2>1, <2>2
<1>2. TypeOK /\ IInv /\ VlanInv => VfVlanFollowsPort
  <2> SUFFICES ASSUME TypeOK, IInv, VlanInv, Running, addrMutex = "free", ~cut,
                      ~LinkUpdatePending, NEW v \in VFs
               PROVE  hwVlan[v] = vfVlan[v] \/ (~Authenticated /\ hwVlan[v] = ReservedVlan)
    BY DEF VfVlanFollowsPort
  <2>1. \A t \in Handlers : ~VlanDue(t, v)
    BY FreeMeansIdle DEF WalkDone, VlanDue
  <2>2. ~ChangeUnseen /\ ~Skipped
    BY DEF ChangeUnseen, LinkUpdatePending, Skipped
  <2>3. QED  BY <2>1, <2>2 DEF VlanInv, VfVlanInv, VlanFor
<1>3. QED  BY <1>1, <1>2, VlanInit, TypeCorrect, SafetyInvariant, PTL DEF Spec

-----------------------------------------------------------------------------
(* The requests the timeout acts on.                                       *)

(* A request that was due when the clock was read is still, if it is still *)
(* there; under the mutex, what is left to look at is still there.         *)
DueInv ==
    /\ deauthRequests \cap expired \subseteq timedOut
    /\ pc["timeout"] \in {"sweep", "config"} => sweep \subseteq deauthRequests
    /\ expiring \cap sweep = {}
    /\ expiring \subseteq timedOut

LEMMA DueFrame ==
  ASSUME DueInv, UNCHANGED <<deauthRequests, timedOut, expired, sweep, expiring>>,
         pc'["timeout"] \in {"sweep", "config"} => pc["timeout"] \in {"sweep", "config"}
  PROVE  DueInv'
BY DEF DueInv

(* With the mutex free, requests may come, go and be stamped again: one    *)
(* that is due by the clock as read was due then.                          *)
LEMMA DueFree ==
  ASSUME TypeOK, IInv, DueInv, addrMutex = "free", UNCHANGED <<sweep, expiring>>,
         pc'["timeout"] = pc["timeout"],
         \A a \in deauthRequests' \cap expired' :
             a \in deauthRequests \cap expired /\ (a \in timedOut => a \in timedOut')
  PROVE  DueInv'
<1>1. pc["timeout"] \notin {"sweep", "config"}
  BY FreeMeansIdle DEF Handlers
<1>2. expiring = {}
  BY <1>1 DEF IInv, ExpiringInv
<1>3. QED  BY <1>1, <1>2 DEF DueInv

LEMMA DueProcessEnds == TypeOK /\ ProcessEnds => DueInv'
BY ThreadsAssumption DEF ProcessEnds, DueInv

LEMMA DueWalk == TypeOK /\ DueInv /\ Walk => DueInv'
BY DueFrame DEF Walk, NextVf, ConfigureVf, handlerVars, reqVars, sweepVars

LEMMA DueReply == TypeOK /\ IInv /\ DueInv /\ Reply => DueInv'
<1> SUFFICES ASSUME TypeOK, IInv, DueInv, Reply PROVE DueInv'
  OBVIOUS
<1> USE ThreadsAssumption DEF Goto, TypeOK, LabelsOK, handlerVars, reqVars, sweepVars
<1>1. CASE ReplyExit
  BY <1>1, DueFrame DEF ReplyExit
<1>2. CASE ReadEvent
  BY <1>2, DueFrame DEF ReadEvent
<1>3. CASE HandleAuthenticateEvent \/ HandleDeAuthenticateEvent
  <2>1. /\ addrMutex = "free" /\ UNCHANGED <<sweep, expiring>>
        /\ ForgetRequest(event.addr) /\ pc'["timeout"] = pc["timeout"]
    BY <1>3 DEF HandleAuthenticateEvent, HandleDeAuthenticateEvent, Lock
  <2>2. \A a \in deauthRequests' \cap expired' :
           a \in deauthRequests \cap expired /\ (a \in timedOut => a \in timedOut')
    BY <2>1 DEF ForgetRequest
  <2>3. QED  BY <2>1, <2>2, DueFree
<1>4. CASE ReplyDone
  BY <1>4, DueFrame DEF ReplyDone
<1>5. CASE ReplyReport
  BY <1>5, DueFrame DEF ReplyReport
<1>6. QED  BY <1>1, <1>2, <1>3, <1>4, <1>5 DEF Reply

LEMMA DueIfEvents == TypeOK /\ IInv /\ DueInv /\ IfEvents => DueInv'
<1> SUFFICES ASSUME TypeOK, IInv, DueInv, IfEvents PROVE DueInv'
  OBVIOUS
<1> USE ThreadsAssumption DEF Goto, TypeOK, LabelsOK, handlerVars, reqVars, sweepVars
<1>1. CASE IfEventsExit
  BY <1>1, DueFrame DEF IfEventsExit
<1>2. CASE ReceiveLinkUpdate
  BY <1>2, DueFrame DEF ReceiveLinkUpdate
<1>3. CASE HandlePfEventForOpStateChange
  <2>1. /\ addrMutex = "free" /\ UNCHANGED <<sweep, expiring>> /\ pc'["timeout"] = pc["timeout"]
    BY <1>3 DEF HandlePfEventForOpStateChange
  <2>2. \A a \in deauthRequests' \cap expired' :
           a \in deauthRequests \cap expired /\ (a \in timedOut => a \in timedOut')
    <3>1. CASE operState = "down"
      BY <1>3, <3>1 DEF HandlePfEventForOpStateChange
    <3>2. CASE operState = "up"
      BY <1>3, <3>2 DEF HandlePfEventForOpStateChange
    <3>3. CASE operState = "unknown"
      BY <1>3, <3>3 DEF HandlePfEventForOpStateChange
    <3>4. QED  BY <3>1, <3>2, <3>3 DEF OperStates
  <2>3. QED  BY <2>1, <2>2, DueFree
<1>4. CASE HandlePfEventForVlanChange
  BY <1>4, DueFrame DEF HandlePfEventForVlanChange
<1>5. CASE LinkByNameFails
  BY <1>5, DueFrame DEF LinkByNameFails
<1>6. CASE IfEventsDone
  BY <1>6, DueFrame DEF IfEventsDone
<1>7. QED  BY <1>1, <1>2, <1>3, <1>4, <1>5, <1>6 DEF IfEvents

LEMMA DueTimeout == TypeOK /\ IInv /\ DueInv /\ Timeout => DueInv'
<1> SUFFICES ASSUME TypeOK, IInv, DueInv, Timeout PROVE DueInv'
  OBVIOUS
<1> USE ThreadsAssumption DEF Goto, TypeOK, LabelsOK, handlerVars, reqVars, sweepVars
<1>1. CASE TimeoutExit
  BY <1>1, DueFrame DEF TimeoutExit
<1>2. CASE ReadClock
  <2>1. pc["timeout"] = "idle" /\ pc'["timeout"] = "lock" /\ expired' = timedOut
        /\ UNCHANGED <<deauthRequests, timedOut, sweep, expiring>>
    BY <1>2 DEF ReadClock
  <2>2. QED  BY <2>1 DEF DueInv
<1>3. CASE BeginSweep
  <2>1. /\ sweep' = deauthRequests /\ UNCHANGED <<deauthRequests, timedOut, expiring>>
        /\ expired' \in {{}, expired} /\ pc["timeout"] = "lock"
    BY <1>3 DEF BeginSweep
  <2>2. expiring = {}
    BY <2>1 DEF IInv, ExpiringInv
  <2>3. QED  BY <2>1, <2>2 DEF DueInv
<1>4. CASE EndSweep
  BY <1>4 DEF EndSweep, DueInv
<1>5. CASE ExpireRequest
  <2>1. PICK a \in sweep \cap expired : sweep' = sweep \ {a} /\ expiring' = {a}
    BY <1>5 DEF ExpireRequest
  <2>2. UNCHANGED <<deauthRequests, timedOut, expired>> /\ pc["timeout"] = "sweep"
    BY <1>5 DEF ExpireRequest
  <2>3. a \in timedOut
    BY <2>1, <2>2 DEF DueInv
  <2>4. QED  BY <2>1, <2>2, <2>3 DEF DueInv
<1>6. CASE ExpireDone
  <2>1. PICK a \in expiring : ForgetRequest(a)
    BY <1>6 DEF ExpireDone
  <2>2. expiring' = {} /\ sweep' = sweep /\ pc["timeout"] = "config"
    BY <1>6 DEF ExpireDone
  <2>3. a \notin sweep
    BY <2>1 DEF DueInv
  <2>4. QED  BY <2>1, <2>2, <2>3 DEF DueInv, ForgetRequest
<1>7. QED  BY <1>1, <1>2, <1>3, <1>4, <1>5, <1>6 DEF Timeout

LEMMA DueMain == TypeOK /\ DueInv /\ Main => DueInv'
<1> SUFFICES ASSUME TypeOK, DueInv, Main PROVE DueInv'
  OBVIOUS
<1> USE ThreadsAssumption DEF Goto, TypeOK, LabelsOK, handlerVars, reqVars, sweepVars
<1>1. CASE Boot \/ BootFails \/ StartFails
  BY <1>1, DueFrame DEF Boot, BootFails, StartFails
<1>2. CASE StartMonitor \/ StartWalkFails
  BY <1>2, DueFrame DEF StartMonitor, StartWalkFails
<1>3. CASE StartThreads
  BY <1>3, DueFrame DEF StartThreads, FirstLabel
<1>4. CASE AttachHostapd \/ StartReport
  BY <1>4, DueFrame DEF AttachHostapd, StartReport
<1>5. CASE StopMonitor \/ StopSetAuth \/ RestoreDone
  BY <1>5, DueFrame DEF StopMonitor, StopSetAuth, RestoreDone
<1>6. CASE CloseStop \/ CloseConn \/ StopDone
  BY <1>6, DueFrame DEF CloseStop, CloseConn, StopDone
<1>7. CASE Exit
  BY <1>7, DueProcessEnds DEF Exit
<1>8. QED  BY Zenon, <1>1, <1>2, <1>3, <1>4, <1>5, <1>6, <1>7 DEF Main

LEMMA DueEnvironment == TypeOK /\ DueInv /\ Environment => DueInv'
<1> SUFFICES ASSUME TypeOK, DueInv, Environment PROVE DueInv'
  OBVIOUS
<1> USE DEF handlerVars, reqVars, sweepVars
<1>1. CASE Crash
  BY <1>1, DueProcessEnds DEF Crash
<1>2. CASE HostapdRestarts
  BY <1>2, DueFrame DEF HostapdRestarts
<1>3. ASSUME NEW a \in Macs, StationConnects(a) \/ StationDisconnects(a) PROVE DueInv'
  BY <1>3, DueFrame DEF StationConnects, StationDisconnects
<1>4. ASSUME NEW a \in Macs, RequestAges(a) PROVE DueInv'
  BY <1>4 DEF RequestAges, DueInv
<1>5. ASSUME NEW s \in LinkUpdates, LinkUpdate(s) PROVE DueInv'
  BY <1>5, DueFrame DEF LinkUpdate
<1>6. ASSUME NEW v \in VFs, NEW x \in CniVlans, CniSetVlan(v, x) PROVE DueInv'
  BY <1>6, DueFrame DEF CniSetVlan
<1>7. QED  BY Zenon, <1>1, <1>2, <1>3, <1>4, <1>5, <1>6 DEF Environment

(* handleRequestsTimeout cuts a client off only for a request that is then *)
(* pending and requestTimeout old, however long it waited for the mutex    *)
(* after it read the clock and whatever the other handlers did meanwhile.  *)
THEOREM DueSafety == Spec => []CutOffOnlyWhenDue
<1>1. Init => DueInv
  BY DEF Init, DueInv
<1>2. TypeOK /\ IInv /\ DueInv /\ [Next]_vars => DueInv'
  <2> SUFFICES ASSUME TypeOK, IInv, DueInv, [Next]_vars PROVE DueInv'
    OBVIOUS
  <2>1. CASE UNCHANGED vars
    BY <2>1, DueFrame DEF vars, handlerVars, reqVars, sweepVars
  <2>2. CASE Next
    BY Zenon, <2>2, DueWalk, DueReply, DueIfEvents, DueTimeout, DueMain, DueEnvironment DEF Next
  <2>3. QED  BY <2>1, <2>2
<1>3. DueInv => CutOffOnlyWhenDue
  BY DEF DueInv, CutOffOnlyWhenDue
<1>4. QED  BY <1>1, <1>2, <1>3, TypeCorrect, SafetyInvariant, PTL DEF Spec
=============================================================================
