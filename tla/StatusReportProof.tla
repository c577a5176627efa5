------------------------- MODULE StatusReportProof -------------------------
(***************************************************************************)
(* Proofs about StatusReport, for any interfaces, states, clients and      *)
(* faults, and any number of retries.                                      *)
(***************************************************************************)
EXTENDS StatusReport, TLAPS

LabelsOK ==
    /\ pc["main"] \in {"attach", "status", "report", "get", "put", "running", "wait", "stopped",
                       "dead"}
    /\ pc["reply"] \in {"read", "assign", "handle", "report", "get", "put", "exited", "dead"}
    /\ pc["ifEvents"] \in {"select", "deauth", "status", "exited", "dead"}
    /\ pc["keepAlive"] \in {"sleep", "ping", "exited", "dead"}

(* addrMutex is held exactly by the thread that updates the status or      *)
(* deauthenticates clients.                                                *)
MutexOK ==
    /\ \A t \in {"main", "reply"} : pc[t] \in {"get", "put"} <=> addrMutex = t
    /\ pc["ifEvents"] = "deauth" <=> addrMutex = "ifEvents"

(* A datagram reply has in hand has the fields its handler takes from it.  *)
EventOK ==
    /\ pc["reply"] = "assign" => event \subseteq [kind: {"state"}, state: States]
    /\ pc["reply"] = "handle" =>
         event \subseteq [kind: {"connected", "disconnected"}, addr: Clients]

(* A fresh draft differs from the status in this interface's entry only.   *)
DraftKeepsOthers ==
    fresh => \A n \in Names \ {IfName} : draft[n] = status[n]

(* A draft has what the monitor knows, unless reply has learnt more and    *)
(* will report it.                                                         *)
DraftCurrent ==
    \A t \in {"main", "reply"} :
        pc[t] = "put" /\ pc["reply"] \in {"read", "exited", "put"} =>
            draft[IfName] = [state |-> ifEAPState, clients |-> clients]

(* An object that was read may be written: the last retry is not over.     *)
TriesOK == \A t \in {"main", "reply"} : pc[t] = "put" => tries < MaxTries

(* The labels, the mutex, the datagram in hand and the number of tries.    *)
ControlOK == LabelsOK /\ MutexOK /\ EventOK /\ TriesOK

ReportInv == TypeOK /\ ControlOK /\ DraftKeepsOthers /\ DraftCurrent /\ StatusCurrent

-----------------------------------------------------------------------------
LEMMA NoDraftType == NoDraft \in Statuses
  BY DEF NoDraft, Statuses

LEMMA DoneType ==
    ASSUME NEW t
    PROVE  Done(t) \in {"running", "exited", "read"}
  BY DEF Done

LEMMA EndUpdateType ==
    ASSUME TypeOK, NEW t \in {"main", "reply"}, NEW error \in BOOLEAN, EndUpdate(t, error),
           status' \in Statuses
    PROVE  TypeOK'
<1>1. pc' \in [Threads -> {"attach", "status", "report", "get", "put", "running", "wait",
                           "stopped", "read", "assign", "handle", "exited", "select",
                           "deauth", "sleep", "ping", "dead"}]
  BY DoneType DEF EndUpdate, TypeOK, Goto, Threads
<1>2. tries' \in 0 .. MaxTries
  BY TriesAssumption DEF EndUpdate
<1>3. fresh' \in BOOLEAN /\ stale' \in BOOLEAN
  BY Zenon DEF EndUpdate
<1>4. /\ addrMutex' = "free"
      /\ draft' \in Statuses
      /\ UNCHANGED <<stop, deadline, hostapd, event, left, ifEAPState, clients>>
  BY NoDraftType DEF EndUpdate, Unlock, socketVars, memoryVars
<1>5. QED  BY <1>1, <1>2, <1>3, <1>4 DEF TypeOK

(* The steps of an update keep the types.                                  *)
LEMMA UpdateType ==
    ASSUME TypeOK, TriesOK, NEW t \in {"main", "reply"}, Update(t)
    PROVE  TypeOK'
<1> USE TriesAssumption, NameAssumption, NoDraftType
        DEF TypeOK, socketVars, memoryVars, objectVars, updateVars, Goto, Lock, Unlock, Threads
<1>1. CASE BeginUpdate(t)
  BY <1>1 DEF BeginUpdate
<1>2. CASE GetAuthObject(t)
  <2>1. PICK s \in ReadState :
           draft' = [status EXCEPT ![IfName] = [state |-> s, clients |-> clients]]
    BY <1>2 DEF GetAuthObject
  <2>2. s \in States \cup {Unset, Torn}
    BY <2>1 DEF ReadState
  <2>3. [state |-> s, clients |-> clients] \in Entries
    BY <2>2 DEF Entries
  <2>4. draft' \in Statuses
    BY <2>1, <2>3 DEF Statuses
  <2>5. QED  BY <1>2, <2>4 DEF GetAuthObject
<1>3. CASE GetFails(t)
  <2>1. EndUpdate(t, TRUE) /\ status' = status
    BY <1>3 DEF GetFails
  <2>2. QED  BY <2>1, EndUpdateType
<1>4. CASE StatusUpdate(t)
  <2>1. EndUpdate(t, FALSE) /\ status' = draft
    BY <1>4 DEF StatusUpdate
  <2>2. QED  BY <2>1, EndUpdateType
<1>5. CASE Conflict(t)
  BY <1>5 DEF Conflict, TriesOK
<1>6. CASE UpdateFails(t)
  <2>1. EndUpdate(t, TRUE) /\ status' \in {status, draft}
    BY <1>6 DEF UpdateFails
  <2>2. QED  BY <2>1, EndUpdateType
<1>7. QED  BY <1>1, <1>2, <1>3, <1>4, <1>5, <1>6 DEF Update

(* Every step keeps the types.                                             *)
LEMMA TypeStep ==
    ASSUME ReportInv, Next
    PROVE  TypeOK'
<1> TypeOK /\ TriesOK /\ EventOK
  BY DEF ReportInv, ControlOK
<1>1. ASSUME NEW t \in {"main", "reply"}, Update(t) PROVE TypeOK'
  BY <1>1, UpdateType
<1> USE DEF TypeOK, socketVars, memoryVars, objectVars, updateVars, Goto, Lock, Unlock, Threads
<1>2. CASE AttachHostapd \/ AttachFails \/ StopMonitor \/ Signal
  <2>1. CASE CloseStop
    <3>1. stop' \in BOOLEAN
      BY <2>1, Zenon DEF CloseStop
    <3>2. QED  BY <2>1, <3>1 DEF CloseStop
  <2>2. QED  BY <1>2, <2>1 DEF AttachHostapd, AttachFails, StopMonitor, Signal
<1>3. ASSUME NEW t \in {"main", "ifEvents"}, WriteStatus(t) PROVE TypeOK'
  BY <1>3 DEF WriteStatus
<1>4. CASE ReplyExits \/ IfEventsExit \/ SetWriteDeadline \/ Ping
  BY <1>4 DEF ReplyExits, IfEventsExit, SetWriteDeadline, Ping
<1>5. CASE AssignState
  BY <1>5 DEF AssignState, EventOK
<1>6. CASE HandleClient
  <2>1. PICK e \in event : clients' = IF e.kind = "connected" THEN clients \cup {e.addr}
                                      ELSE clients \ {e.addr}
    BY <1>6 DEF HandleClient
  <2>2. e.addr \in Clients
    BY <1>6, <2>1 DEF HandleClient, EventOK
  <2>3. clients' \in SUBSET Clients
    BY <2>1, <2>2
  <2>4. QED  BY <1>6, <2>3 DEF HandleClient
<1>7. CASE Deauthenticate \/ OpStateChange
  BY <1>7 DEF Deauthenticate, OpStateChange
<1>8. CASE ReadReply
  <2>1. PICK e \in Datagrams : /\ event' = IF e.kind = "other" THEN {} ELSE {e}
                               /\ Goto("reply", FirstStep(e))
    BY <1>8 DEF ReadReply
  <2>2. FirstStep(e) \in {"assign", "report", "handle"}
    BY DEF FirstStep
  <2>3. event' \in SUBSET Datagrams
    BY <2>1
  <2>4. QED  BY <1>8, <2>1, <2>2, <2>3 DEF ReadReply
<1>9. CASE Panic
  <2>1. fresh' \in BOOLEAN /\ stale' \in BOOLEAN
    BY <1>9, Zenon DEF Panic
  <2>2. tries' \in 0 .. MaxTries
    BY <1>9, TriesAssumption DEF Panic
  <2>3. QED  BY <1>9, <2>1, <2>2, NoDraftType DEF Panic
<1>10. CASE ExpireClient \/ TimePasses
  BY <1>10 DEF ExpireClient, TimePasses
<1>11. CASE OtherWrites
  <2>1. PICK n \in Names \ {IfName}, s \in States :
           status' = [status EXCEPT ![n] = [state |-> s, clients |-> {}]]
    BY <1>11 DEF OtherWrites
  <2>2. [state |-> s, clients |-> {}] \in Entries
    BY DEF Entries
  <2>3. status' \in Statuses
    BY <2>1, <2>2 DEF Statuses
  <2>4. QED  BY <1>11, <2>3 DEF OtherWrites
<1>12. CASE HostapdChanges
  BY <1>12, FaultAssumption DEF HostapdChanges
<1>13. QED
  BY <1>1, <1>2, <1>3, <1>4, <1>5, <1>6, <1>7, <1>8, <1>9, <1>10, <1>11, <1>12
  DEF Next, Main, Reply, IfEvents, KeepAlive, Environment

(* Every step keeps what the invariant says of control.                    *)
LEMMA UpdateControl ==
    ASSUME TypeOK, ControlOK, NEW t \in {"main", "reply"}, Update(t)
    PROVE  ControlOK'
<1> USE DEF TypeOK, ControlOK, LabelsOK, MutexOK, EventOK, TriesOK, Goto, Lock, Unlock, Threads
<1>1. CASE BeginUpdate(t)
  BY <1>1 DEF BeginUpdate, memoryVars, updateVars
<1>2. CASE GetAuthObject(t)
  BY <1>2 DEF GetAuthObject, memoryVars
<1>3. ASSUME NEW error, EndUpdate(t, error), pc[t] \in {"get", "put"} PROVE ControlOK'
  BY <1>3, DoneType DEF EndUpdate, memoryVars, Done
<1>4. CASE Conflict(t)
  BY <1>4 DEF Conflict, memoryVars
<1>5. QED
  BY <1>1, <1>2, <1>3, <1>4 DEF Update, GetFails, StatusUpdate, UpdateFails

LEMMA ControlStep ==
    ASSUME TypeOK, ControlOK, Next
    PROVE  ControlOK'
<1>1. ASSUME NEW t \in {"main", "reply"}, Update(t) PROVE ControlOK'
  BY <1>1, UpdateControl
<1> USE DEF TypeOK, ControlOK, LabelsOK, MutexOK, EventOK, TriesOK, memoryVars, updateVars,
            Goto, Lock, Unlock, Threads
<1>2. CASE AttachHostapd \/ AttachFails \/ StopMonitor \/ Signal
  BY <1>2 DEF AttachHostapd, AttachFails, StopMonitor, Signal, CloseStop
<1>3. ASSUME NEW t \in {"main", "ifEvents"}, WriteStatus(t) PROVE ControlOK'
  BY <1>3 DEF WriteStatus
<1>4. CASE ReplyExits \/ IfEventsExit \/ SetWriteDeadline \/ Ping
  BY <1>4 DEF ReplyExits, IfEventsExit, SetWriteDeadline, Ping
<1>5. CASE AssignState \/ HandleClient
  BY <1>5 DEF AssignState, HandleClient
<1>6. CASE Deauthenticate \/ OpStateChange
  BY <1>6 DEF Deauthenticate, OpStateChange
<1>7. CASE ReadReply
  <2>1. PICK e \in Datagrams : /\ event' = IF e.kind = "other" THEN {} ELSE {e}
                               /\ Goto("reply", FirstStep(e))
    BY <1>7 DEF ReadReply
  <2>2. FirstStep(e) = "assign" => e \in [kind: {"state"}, state: States]
    BY DEF FirstStep, Datagrams
  <2>3. FirstStep(e) = "handle" => e \in [kind: {"connected", "disconnected"}, addr: Clients]
    BY DEF FirstStep, Datagrams
  <2>4. FirstStep(e) \in {"assign", "report", "handle"}
    BY DEF FirstStep
  <2>5. QED  BY <1>7, <2>1, <2>2, <2>3, <2>4 DEF ReadReply
<1>8. CASE Panic
  BY <1>8 DEF Panic
<1>9. CASE ExpireClient \/ TimePasses \/ OtherWrites \/ HostapdChanges
  BY <1>9 DEF ExpireClient, TimePasses, OtherWrites, HostapdChanges
<1>10. QED
  BY <1>1, <1>2, <1>3, <1>4, <1>5, <1>6, <1>7, <1>8, <1>9
  DEF Next, Main, Reply, IfEvents, KeepAlive, Environment

(* Every step keeps what it says of the draft and of the status.           *)
DataOK == DraftKeepsOthers /\ DraftCurrent /\ StatusCurrent

LEMMA UpdateData ==
    ASSUME ReportInv, NEW t \in {"main", "reply"}, Update(t)
    PROVE  DataOK'
<1> TypeOK /\ ControlOK /\ DataOK
  BY DEF ReportInv, DataOK
<1> USE DEF DataOK, DraftKeepsOthers, DraftCurrent, StatusCurrent
<1>1. CASE BeginUpdate(t)
  BY <1>1 DEF BeginUpdate, memoryVars, updateVars, objectVars, Goto, Lock, TypeOK, Threads,
              ControlOK, MutexOK
<1>2. CASE GetAuthObject(t)
  <2>1. PICK s \in ReadState :
           draft' = [status EXCEPT ![IfName] = [state |-> s, clients |-> clients]]
    BY <1>2 DEF GetAuthObject
  <2>2. pc["reply"] # "assign" => s = ifEAPState
    BY <2>1 DEF ReadState
  <2>3. /\ addrMutex = t /\ addrMutex' = t
        /\ pc' = [pc EXCEPT ![t] = "put"]
        /\ UNCHANGED <<status, ifEAPState, clients>>
    BY <1>2 DEF GetAuthObject, ControlOK, MutexOK, Goto, memoryVars, objectVars
  <2>4. DraftKeepsOthers'
    BY <2>1, <2>3 DEF TypeOK, Statuses
  <2>5. DraftCurrent'
    BY <2>1, <2>2, <2>3, NameAssumption DEF TypeOK, Statuses, Threads, ControlOK, MutexOK
  <2>6. QED  BY <2>3, <2>4, <2>5
<1>3. CASE EndUpdate(t, TRUE) /\ pc[t] \in {"get", "put"}
  <2>1. fresh' = FALSE /\ stale' = TRUE
    BY <1>3, Zenon DEF EndUpdate
  <2>2. \A u \in {"main", "reply"} : pc'[u] # "put"
    BY <1>3, DoneType DEF EndUpdate, Goto, TypeOK, Threads, ControlOK, MutexOK
  <2>3. QED  BY <2>1, <2>2
<1>4. CASE StatusUpdate(t)
  <2>1. pc[t] = "put" /\ addrMutex = t /\ status' = draft /\ EndUpdate(t, FALSE)
    BY <1>4 DEF StatusUpdate, ControlOK, MutexOK
  <2>2. ~fresh'
    BY <2>1, Zenon DEF EndUpdate
  <2>3. \A u \in {"main", "reply"} : pc'[u] # "put"
    BY <2>1, DoneType DEF EndUpdate, Goto, TypeOK, Threads, ControlOK, MutexOK
  <2>4. ASSUME pc'["reply"] \in {"read", "exited"} PROVE pc["reply"] \in {"read", "exited", "put"}
    BY <2>1, <2>4 DEF EndUpdate, Goto, TypeOK, Threads
  <2>5. ASSUME pc'["reply"] \in {"read", "exited"}
        PROVE  draft[IfName] = [state |-> ifEAPState, clients |-> clients]
    BY <2>1, <2>4, <2>5
  <2>6. UNCHANGED <<ifEAPState, clients>>
    BY <2>1 DEF EndUpdate, memoryVars
  <2>7. [state |-> ifEAPState, clients |-> clients] \in Entries
    BY DEF TypeOK, Entries
  <2>8. StatusCurrent'
    BY <2>1, <2>5, <2>6, <2>7, EntryAssumption
  <2>9. QED  BY <2>2, <2>3, <2>8
<1>5. CASE Conflict(t)
  <2>1. ~fresh' /\ UNCHANGED <<status, stale, ifEAPState, clients, addrMutex>>
    BY <1>5 DEF Conflict, memoryVars, objectVars
  <2>2. addrMutex = t /\ pc' = [pc EXCEPT ![t] = "get"]
    BY <1>5 DEF Conflict, Goto, ControlOK, MutexOK
  <2>3. \A u \in {"main", "reply"} : pc'[u] # "put"
    BY <2>2 DEF TypeOK, Threads, ControlOK, MutexOK
  <2>4. QED  BY <2>1, <2>2, <2>3
<1>6. QED
  BY <1>1, <1>2, <1>3, <1>4, <1>5 DEF Update, GetFails, UpdateFails

LEMMA DataFrame ==
    ASSUME DataOK, UNCHANGED <<addrMutex, status, stale, draft, fresh, ifEAPState, clients>>,
           \A t \in {"main", "reply"} :
              pc'[t] = pc[t] \/ {pc[t], pc'[t]} \subseteq {"read", "exited"}
    PROVE  DataOK'
<1>1. DraftKeepsOthers'
  BY DEF DataOK, DraftKeepsOthers
<1>2. DraftCurrent'
  BY DEF DataOK, DraftCurrent
<1>3. StatusCurrent'
  BY DEF DataOK, StatusCurrent
<1>4. QED  BY <1>1, <1>2, <1>3 DEF DataOK

LEMMA DataStep ==
    ASSUME ReportInv, Next
    PROVE  DataOK'
<1> TypeOK /\ ControlOK /\ DataOK
  BY DEF ReportInv, DataOK
<1>1. ASSUME NEW t \in {"main", "reply"}, Update(t) PROVE DataOK'
  BY <1>1, UpdateData
<1> USE DEF DataOK, DraftKeepsOthers, DraftCurrent, StatusCurrent, TypeOK, Threads, Goto,
            memoryVars, updateVars, objectVars
<1>2. CASE AttachHostapd \/ AttachFails \/ StopMonitor \/ Signal
  BY <1>2 DEF AttachHostapd, AttachFails, StopMonitor, Signal, CloseStop
<1>3. ASSUME NEW t \in {"main", "ifEvents"}, WriteStatus(t) PROVE DataOK'
  BY <1>3 DEF WriteStatus
<1>4. CASE ReplyExits \/ IfEventsExit \/ SetWriteDeadline \/ Ping
  <2> HIDE DEF DataOK, DraftKeepsOthers, DraftCurrent, StatusCurrent
  <2>1. UNCHANGED <<addrMutex, status, stale, draft, fresh, ifEAPState, clients>>
    BY <1>4 DEF ReplyExits, IfEventsExit, SetWriteDeadline, Ping
  <2>2. \A t \in {"main", "reply"} :
          pc'[t] = pc[t] \/ {pc[t], pc'[t]} \subseteq {"read", "exited"}
    BY <1>4 DEF ReplyExits, IfEventsExit, SetWriteDeadline, Ping
  <2>3. QED  BY <2>1, <2>2, DataFrame
<1>5. CASE AssignState \/ HandleClient
  <2>1. pc' = [pc EXCEPT !["reply"] = "report"] /\ UNCHANGED <<draft, fresh, status>>
    BY <1>5 DEF AssignState, HandleClient
  <2>2. QED  BY <2>1
<1>6. CASE Deauthenticate \/ OpStateChange
  BY <1>6 DEF Deauthenticate, OpStateChange, Lock, Unlock, ControlOK, MutexOK
<1>7. CASE ReadReply
  <2>1. PICK e \in Datagrams : Goto("reply", FirstStep(e))
    BY <1>7 DEF ReadReply
  <2>2. FirstStep(e) \in {"assign", "report", "handle"}
    BY DEF FirstStep
  <2>3. QED  BY <1>7, <2>1, <2>2 DEF ReadReply
<1>8. CASE Panic
  <2>1. fresh' = FALSE /\ stale' = TRUE
    BY <1>8, Zenon DEF Panic
  <2>2. \A t \in {"main", "reply"} : pc'[t] # "put"
    BY <1>8 DEF Panic
  <2>3. QED  BY <2>1, <2>2
<1>9. CASE ExpireClient
  <2>1. addrMutex = "free" /\ clients' \subseteq clients
    BY <1>9 DEF ExpireClient
  <2>2. \A t \in {"main", "reply"} : pc[t] # "put"
    BY <2>1 DEF ControlOK, MutexOK
  <2>3. QED  BY <1>9, <2>1, <2>2 DEF ExpireClient
<1>10. CASE TimePasses \/ HostapdChanges
  <2> HIDE DEF DataOK, DraftKeepsOthers, DraftCurrent, StatusCurrent
  <2>1. UNCHANGED <<pc, addrMutex, status, stale, draft, fresh, ifEAPState, clients>>
    BY <1>10 DEF TimePasses, HostapdChanges
  <2>2. QED  BY <2>1, DataFrame
<1>11. CASE OtherWrites
  <2>1. ~fresh' /\ UNCHANGED <<pc, addrMutex, ifEAPState, clients, draft, stale>>
    BY <1>11 DEF OtherWrites
  <2>2. status'[IfName] = status[IfName]
    BY <1>11, NameAssumption DEF OtherWrites, Statuses
  <2>3. QED  BY <2>1, <2>2
<1>12. QED
  BY <1>1, <1>2, <1>3, <1>4, <1>5, <1>6, <1>7, <1>8, <1>9, <1>10, <1>11
  DEF Next, Main, Reply, IfEvents, KeepAlive, Environment

LEMMA ReportInit == Init => ReportInv
<1> SUFFICES ASSUME Init PROVE ReportInv
  OBVIOUS
<1> USE DEF Init
<1>1. TypeOK
  <2>1. /\ stop \in BOOLEAN /\ fresh \in BOOLEAN /\ stale \in BOOLEAN
    BY Zenon
  <2>2. status \in Statuses /\ draft \in Statuses
    BY NoDraftType DEF NoDraft
  <2>3. tries \in 0 .. MaxTries
    BY TriesAssumption
  <2>4. QED  BY <2>1, <2>2, <2>3 DEF TypeOK, Threads
<1>2. ControlOK
  BY DEF ControlOK, LabelsOK, MutexOK, EventOK, TriesOK, Threads
<1>3. DataOK
  BY DEF DataOK, DraftKeepsOthers, DraftCurrent, StatusCurrent, Threads
<1>4. QED  BY <1>1, <1>2, <1>3 DEF ReportInv, DataOK

LEMMA ReportStep == ReportInv /\ [Next]_vars => ReportInv'
<1> SUFFICES ASSUME ReportInv, [Next]_vars PROVE ReportInv'
  OBVIOUS
<1>1. CASE Next
  <2>1. TypeOK' /\ ControlOK' /\ DataOK'
    BY <1>1, TypeStep, ControlStep, DataStep DEF ReportInv
  <2>2. QED  BY <2>1 DEF ReportInv, DataOK
<1>2. CASE UNCHANGED vars
  <2> USE DEF vars, socketVars, memoryVars, updateVars, objectVars
  <2>1. TypeOK'
    BY <1>2 DEF ReportInv, TypeOK
  <2>2. ControlOK'
    BY <1>2 DEF ReportInv, ControlOK, LabelsOK, MutexOK, EventOK, TriesOK
  <2>3. DataOK'
    BY <1>2, DataFrame DEF ReportInv, DataOK
  <2>4. QED  BY <2>1, <2>2, <2>3 DEF ReportInv, DataOK
<1>3. QED  BY <1>1, <1>2

(* The inductive invariant: types, control, the draft and the status.      *)
THEOREM ReportInvariant == Spec => []ReportInv
  BY ReportInit, ReportStep, PTL DEF Spec

(* Every variable of the status report keeps its type; in particular       *)
(* RetryOnConflict never exceeds its steps.                                *)
THEOREM ReportTypes == Spec => []TypeOK
<1>1. ReportInv => TypeOK
  BY DEF ReportInv
<1>2. QED  BY <1>1, ReportInvariant, PTL

(* Whenever reply is at rest and the last updateInterfaceStatus succeeded, *)
(* the status has the last state and every client, although main and       *)
(* reply report concurrently and ifEAPState is not guarded by the mutex.   *)
THEOREM StatusIsCurrent == Spec => []StatusCurrent
<1>1. ReportInv => StatusCurrent
  BY DEF ReportInv
<1>2. QED  BY <1>1, ReportInvariant, PTL

(* updateInterfaceStatus, whatever the other writers of the object do,     *)
(* leaves the entries of the other interfaces as they are.                 *)
THEOREM OwnEntriesOnly == Spec => OwnEntryOnly
<1>1. ASSUME ReportInv, [Next]_vars
      PROVE  [pc' # pc => \A n \in Names \ {IfName} : status'[n] = status[n]]_vars
  <2> SUFFICES ASSUME Next, pc' # pc, NEW n \in Names \ {IfName}
               PROVE  status'[n] = status[n]
    BY <1>1
  <2>1. DraftKeepsOthers
    BY <1>1 DEF ReportInv
  <2>2. ASSUME NEW t \in {"main", "reply"}, Update(t) PROVE status'[n] = status[n]
    BY <2>1, <2>2 DEF Update, BeginUpdate, GetAuthObject, GetFails, StatusUpdate, Conflict,
                      UpdateFails, objectVars, DraftKeepsOthers
  <2>3. CASE UNCHANGED status
    BY <2>3
  <2>4. QED
    BY <2>2, <2>3
    DEF Next, Main, Reply, IfEvents, KeepAlive, Environment, AttachHostapd, AttachFails, WriteStatus,
        StopMonitor, ReplyExits, AssignState, HandleClient, Deauthenticate, IfEventsExit,
        SetWriteDeadline, Ping, Panic, Signal, CloseStop, ReadReply, OpStateChange, ExpireClient,
        TimePasses, HostapdChanges, OtherWrites, objectVars
<1>2. QED  BY <1>1, ReportInvariant, PTL DEF Spec, OwnEntryOnly
=============================================================================
