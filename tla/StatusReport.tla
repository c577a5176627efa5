---------------------------- MODULE StatusReport ----------------------------
(***************************************************************************)
(* pkg/hostap/monitor.go: how the state and the clients of an interface    *)
(* get from hostapd into the Authenticator's status. The monitor's threads *)
(* share hostapd's control socket, with one write deadline for all of      *)
(* them, and addrMutex; the status they share with every other writer of   *)
(* the object.                                                             *)
(*                                                                         *)
(*   main       attachHostapd, STATUS, the first report, StopMonitor       *)
(*   reply      handleHostapdReply: replies and events, each with a report *)
(*   ifEvents   handleIfEvents on a change of the operational state        *)
(*   keepAlive  sendKeepAlive: a PING and a new write deadline each second *)
(*                                                                         *)
(* The clients' effect on filters and VFs is in InterfaceMonitor.          *)
(***************************************************************************)
EXTENDS Naturals

CONSTANTS
    Names,         \* interfaces with an entry in the status
    IfName,        \* this monitor's
    NoEntry,       \* an interface without an entry
    States,        \* the states hostapd reports
    Unset,         \* the zero value of ifEAPState
    Torn,          \* the pointer of one state with the length of another
    Clients,       \* addresses of supplicants
    ReportFaults,  \* "api": a call fails; "hangs", "gone": what hostapd may do
    MaxTries       \* retry.DefaultRetry.Steps

ASSUME NameAssumption == IfName \in Names
ASSUME FaultAssumption == ReportFaults \subseteq {"api", "hangs", "gone"}
ASSUME TriesAssumption == MaxTries \in Nat \ {0}

VARIABLES
    pc,          \* where each thread is
    addrMutex,   \* the thread that holds addrMutex, or "free"
    stop,        \* the stop channel and the connection are closed
    deadline,    \* the connection's write deadline: "ahead" or "past"
    hostapd,     \* "reads" its socket, "hangs", or is "gone"
    event,       \* the datagram reply handles
    left,        \* clients ifEvents has yet to deauthenticate
    ifEAPState,  \* InterfaceMonitor.ifEAPState
    clients,     \* PfInfo.AuthenticatedAddrs
    status,      \* Status.Interfaces of the Authenticator, by name
    draft,       \* the status the update in progress will write
    fresh,       \* nobody wrote the object since that update read it
    tries,       \* conflicts of that update
    stale        \* ghost: the last update failed, or there was none

socketVars == <<deadline, hostapd>>
memoryVars == <<event, left, ifEAPState, clients>>
updateVars == <<draft, fresh, tries>>
objectVars == <<status, stale>>
vars == <<pc, addrMutex, stop, socketVars, memoryVars, updateVars, objectVars>>

Threads == {"main", "reply", "ifEvents", "keepAlive"}
Entries == [state: States \cup {Unset, Torn}, clients: SUBSET Clients]
ASSUME EntryAssumption == NoEntry \notin Entries

Statuses == [Names -> Entries \cup {NoEntry}]
Datagrams == [kind: {"state"}, state: States] \cup [kind: {"other"}]
                 \cup [kind: {"connected", "disconnected"}, addr: Clients]

NoDraft == [n \in Names |-> NoEntry]

Goto(t, label) == pc' = [pc EXCEPT ![t] = label]
Lock(t) == addrMutex = "free" /\ addrMutex' = t
Unlock == addrMutex' = "free"

Init ==
    /\ pc = [t \in Threads |-> CASE t = "main" -> "attach" [] t = "reply" -> "read"
                                 [] t = "ifEvents" -> "select" [] OTHER -> "sleep"]
    /\ addrMutex = "free"
    /\ stop = FALSE
    /\ deadline = "ahead"
    /\ hostapd = "reads"
    /\ event = {}
    /\ left = {}
    /\ ifEAPState = Unset
    /\ clients = {}
    /\ status = [n \in Names |-> NoEntry]
    /\ draft = NoDraft
    /\ fresh = FALSE
    /\ tries = 0
    /\ stale = TRUE

-----------------------------------------------------------------------------
(* hostApdConn.Write, by any thread. It waits for room in hostapd's buffer *)
(* until the deadline; after it, it fails at once.                         *)

Refused == hostapd = "gone" \/ stop
Written == deadline = "ahead" /\ hostapd = "reads" /\ ~stop
TimesOut == deadline = "past" /\ ~stop

(* Faulty: a write that has no deadline.                                   *)
WriteWaits == Written \/ stop

(* A write whose error is ignored.                                         *)
Write == Written \/ TimesOut \/ Refused

-----------------------------------------------------------------------------
(* updateInterfaceStatus, by main and reply                                *)

Done(t) == IF t = "main" THEN "running" ELSE IF stop THEN "exited" ELSE "read"

BeginUpdate(t) ==
    /\ pc[t] = "report"
    /\ Lock(t)
    /\ Goto(t, "get")
    /\ UNCHANGED <<stop, socketVars, memoryVars, updateVars, objectVars>>

(* What main reads of ifEAPState while reply assigns it.                   *)
ReadState == {ifEAPState} \cup
    {Torn : e \in {d \in event : pc["reply"] = "assign" /\ ifEAPState \notin {Unset, d.state}}}

(* Faulty: nothing limits the retries.                                     *)
GetAuthObjectAlways(t) ==
    /\ pc[t] = "get"
    /\ draft' = [status EXCEPT ![IfName] = [state |-> ifEAPState, clients |-> clients]]
    /\ fresh' = TRUE
    /\ Goto(t, "put")
    /\ UNCHANGED <<addrMutex, stop, socketVars, memoryVars, tries, objectVars>>

(* getAuthObject, then the entry of this interface is found or appended    *)
(* and filled in with what the monitor knows now.                          *)
GetAuthObject(t) ==
    /\ pc[t] = "get"
    /\ tries < MaxTries
    /\ \E s \in ReadState :
         draft' = [status EXCEPT ![IfName] = [state |-> s, clients |-> clients]]
    /\ fresh' = TRUE
    /\ Goto(t, "put")
    /\ UNCHANGED <<addrMutex, stop, socketVars, memoryVars, tries, objectVars>>

(* The update returns; its error, if any, is only logged.                  *)
EndUpdate(t, error) ==
    /\ Unlock
    /\ Goto(t, Done(t))
    /\ stale' = error
    /\ draft' = NoDraft /\ fresh' = FALSE /\ tries' = 0
    /\ UNCHANGED <<stop, socketVars, memoryVars>>

(* The Get fails, or RetryOnConflict has used up its steps.                *)
GetFails(t) ==
    /\ pc[t] = "get"
    /\ "api" \in ReportFaults \/ tries = MaxTries
    /\ EndUpdate(t, TRUE)
    /\ UNCHANGED status

(* Faulty: the write does not depend on the version that was read.         *)
StatusUpdateBlind(t) ==
    /\ pc[t] = "put"
    /\ status' = draft
    /\ EndUpdate(t, FALSE)

(* Status().Update(authObj) with the resource version that was read.       *)
StatusUpdate(t) ==
    /\ pc[t] = "put"
    /\ fresh
    /\ status' = draft
    /\ EndUpdate(t, FALSE)

(* RetryOnConflict: the whole closure again.                               *)
Conflict(t) ==
    /\ pc[t] = "put"
    /\ ~fresh
    /\ tries' = tries + 1
    /\ draft' = NoDraft
    /\ Goto(t, "get")
    /\ UNCHANGED <<addrMutex, stop, socketVars, memoryVars, fresh, objectVars>>

(* Any other error; the API server may have taken the write nevertheless.  *)
UpdateFails(t) ==
    /\ pc[t] = "put"
    /\ "api" \in ReportFaults
    /\ status' \in {status} \cup (IF fresh THEN {draft} ELSE {})
    /\ EndUpdate(t, TRUE)

Update(t) == BeginUpdate(t) \/ GetAuthObject(t) \/ GetFails(t) \/ StatusUpdate(t)
                 \/ Conflict(t) \/ UpdateFails(t)

-----------------------------------------------------------------------------
(* reply                                                                   *)

FirstStep(e) ==
    CASE e.kind = "state" -> "assign"
      [] e.kind = "other" -> "report"
      [] OTHER -> "handle"

(* hostapd answers a STATUS, and sends events to a monitor that attached.  *)
(* EAP results, like events of another kind, only lead to a report.        *)
ReadReply ==
    /\ pc["reply"] = "read"
    /\ ~stop /\ hostapd = "reads"
    /\ \E e \in Datagrams :
         /\ e.kind = "state" \/ pc["main"] # "attach"
         /\ event' = IF e.kind = "other" THEN {} ELSE {e}
         /\ Goto("reply", FirstStep(e))
    /\ UNCHANGED <<addrMutex, stop, socketVars, left, ifEAPState, clients, updateVars, objectVars>>

ReplyExits ==
    /\ pc["reply"] = "read"
    /\ stop
    /\ Goto("reply", "exited")
    /\ UNCHANGED <<addrMutex, stop, socketVars, memoryVars, updateVars, objectVars>>

(* Faulty: the state is kept until the next STATUS reply.                  *)
AssignStateDrops ==
    /\ pc["reply"] = "assign"
    /\ \E e \in event : ifEAPState' = e.state
    /\ Goto("reply", "read")
    /\ event' = {}
    /\ UNCHANGED <<addrMutex, stop, socketVars, left, clients, updateVars, objectVars>>

(* m.ifEAPState = getIfState(eventStr), without the mutex.                 *)
AssignState ==
    /\ pc["reply"] = "assign"
    /\ \E e \in event : ifEAPState' = e.state
    /\ Goto("reply", "report")
    /\ event' = {}
    /\ UNCHANGED <<addrMutex, stop, socketVars, left, clients, updateVars, objectVars>>

(* handleAuthenticateEvent and handleDeAuthenticateEvent.                  *)
HandleClient ==
    /\ pc["reply"] = "handle"
    /\ addrMutex = "free"
    /\ \E e \in event : clients' = IF e.kind = "connected" THEN clients \cup {e.addr}
                                   ELSE clients \ {e.addr}
    /\ event' = {}
    /\ Goto("reply", "report")
    /\ UNCHANGED <<addrMutex, stop, socketVars, left, ifEAPState, updateVars, objectVars>>

Reply == ReplyExits \/ AssignState \/ HandleClient \/ Update("reply")

-----------------------------------------------------------------------------
(* keepAlive                                                               *)

(* Faulty: the deadline is set once, by attachHostapd.                     *)
KeepAliveKeepsDeadline ==
    /\ pc["keepAlive"] = "sleep"
    /\ Goto("keepAlive", "ping")
    /\ UNCHANGED <<addrMutex, stop, socketVars, memoryVars, updateVars, objectVars>>

(* time.Sleep and SetWriteDeadline, which all writers share.               *)
SetWriteDeadline ==
    /\ pc["keepAlive"] = "sleep"
    /\ deadline' = "ahead"
    /\ Goto("keepAlive", "ping")
    /\ UNCHANGED <<addrMutex, stop, hostapd, memoryVars, updateVars, objectVars>>

(* Faulty: the stop channel is not looked at.                              *)
PingForever ==
    /\ pc["keepAlive"] = "ping"
    /\ Write
    /\ Goto("keepAlive", "sleep")
    /\ UNCHANGED <<addrMutex, stop, socketVars, memoryVars, updateVars, objectVars>>

(* An error that is not a timeout ends the goroutine, as does stop.        *)
Ping ==
    /\ pc["keepAlive"] = "ping"
    /\ Write
    /\ Goto("keepAlive", IF Written \/ TimesOut THEN "sleep" ELSE "exited")
    /\ UNCHANGED <<addrMutex, stop, socketVars, memoryVars, updateVars, objectVars>>

KeepAlive == SetWriteDeadline \/ Ping

-----------------------------------------------------------------------------
(* ifEvents: a link update with a new operational state                    *)

(* handlePfEventForOpStateChange: when the link went down each client gets *)
(* a DEAUTHENTICATE, under the mutex. The walk over the VFs that follows   *)
(* the STATUS is in InterfaceMonitor.                                      *)
OpStateChange ==
    /\ pc["ifEvents"] = "select"
    /\ ~stop
    /\ \/ /\ Lock("ifEvents")
          /\ clients # {} /\ left' = clients
          /\ Goto("ifEvents", "deauth")
       \/ /\ addrMutex = "free"
          /\ Goto("ifEvents", "status")
          /\ UNCHANGED <<addrMutex, left>>
    /\ UNCHANGED <<stop, socketVars, event, ifEAPState, clients, updateVars, objectVars>>

Deauthenticate ==
    /\ pc["ifEvents"] = "deauth"
    /\ Write
    /\ \E c \in left : left' = left \ {c}
    /\ IF left' = {} THEN Unlock /\ Goto("ifEvents", "status") ELSE UNCHANGED <<pc, addrMutex>>
    /\ UNCHANGED <<stop, socketVars, event, ifEAPState, clients, updateVars, objectVars>>

WriteStatus(t) ==
    /\ pc[t] = "status"
    /\ Write
    /\ Goto(t, IF t = "main" THEN "report" ELSE "select")
    /\ UNCHANGED <<addrMutex, stop, socketVars, memoryVars, updateVars, objectVars>>

IfEventsExit ==
    /\ pc["ifEvents"] = "select"
    /\ stop
    /\ Goto("ifEvents", "exited")
    /\ UNCHANGED <<addrMutex, stop, socketVars, memoryVars, updateVars, objectVars>>

IfEvents == Deauthenticate \/ WriteStatus("ifEvents") \/ IfEventsExit

-----------------------------------------------------------------------------
(* main                                                                    *)

(* attachHostapd tries again after a timeout.                              *)
AttachHostapd ==
    /\ pc["main"] = "attach"
    /\ Written
    /\ Goto("main", "status")
    /\ UNCHANGED <<addrMutex, stop, socketVars, memoryVars, updateVars, objectVars>>

(* StopMonitor after the VFs: close(m.stop), Unsubscribe and               *)
(* hostApdConn.Close(), ...                                                *)
CloseStop ==
    /\ stop' = TRUE
    /\ Goto("main", "wait")
    /\ UNCHANGED <<addrMutex, socketVars, memoryVars, updateVars, objectVars>>

AttachFails ==
    /\ pc["main"] = "attach"
    /\ Refused /\ ~TimesOut
    /\ CloseStop

Signal ==
    /\ pc["main"] = "running"
    /\ CloseStop

(* ... stopWg.Wait().                                                      *)
StopMonitor ==
    /\ pc["main"] = "wait"
    /\ \A t \in Threads \ {"main"} : pc[t] = "exited"
    /\ Goto("main", "stopped")
    /\ UNCHANGED <<addrMutex, stop, socketVars, memoryVars, updateVars, objectVars>>

Main == AttachHostapd \/ AttachFails \/ WriteStatus("main") \/ Update("main") \/ StopMonitor

-----------------------------------------------------------------------------
(* The environment                                                         *)

(* A panic ends the process: logEvent, of reply and of ifEvents, hands the *)
(* recorder a nil object when it cannot read the Authenticator; and a      *)
(* string that is read while its first value is assigned may have a length *)
(* and no content.                                                         *)
Panic ==
    /\ \/ /\ "api" \in ReportFaults
          /\ \/ pc["reply"] = "read" /\ hostapd = "reads" /\ pc["main"] \notin {"attach", "wait"}
             \/ pc["ifEvents"] = "select" /\ addrMutex = "free" /\ ~stop
             \/ pc["ifEvents"] = "deauth"
       \/ pc["main"] = "get" /\ pc["reply"] = "assign" /\ ifEAPState = Unset
    /\ pc' = [t \in Threads |-> "dead"]
    /\ Unlock
    /\ event' = {} /\ left' = {} /\ ifEAPState' = Unset /\ clients' = {}
    /\ draft' = NoDraft /\ fresh' = FALSE /\ tries' = 0
    /\ stale' = TRUE
    /\ UNCHANGED <<stop, socketVars, status>>

(* handleRequestsTimeout removes a client, and reports nothing.            *)
ExpireClient ==
    /\ addrMutex = "free" /\ ~stop
    /\ clients' \in {clients \ {c} : c \in clients}
    /\ UNCHANGED <<pc, addrMutex, stop, socketVars, event, left, ifEAPState, updateVars, objectVars>>

(* The write deadline passes. A second is long for a write that is refused *)
(* at once: none is still to be made then.                                 *)
TimePasses ==
    /\ deadline = "ahead" /\ ~stop
    /\ hostapd = "gone" => \A t \in Threads : pc[t] \notin {"attach", "status", "deauth", "ping"}
    /\ deadline' = "past"
    /\ UNCHANGED <<pc, addrMutex, stop, hostapd, memoryVars, updateVars, objectVars>>

(* hostapd hangs, recovers or ends.                                        *)
HostapdChanges ==
    /\ hostapd # "gone" /\ ~stop
    /\ hostapd' \in (ReportFaults \ {"api"}) \cup {"reads"}
    /\ UNCHANGED <<pc, addrMutex, stop, deadline, memoryVars, updateVars, objectVars>>

(* Somebody else writes the object: another monitor its entry or, when     *)
(* that is no change, a user the spec.                                     *)
OtherWrites ==
    /\ \E n \in Names \ {IfName}, s \in States :
         status' = [status EXCEPT ![n] = [state |-> s, clients |-> {}]]
    /\ fresh' = FALSE
    /\ UNCHANGED <<pc, addrMutex, stop, socketVars, memoryVars, draft, tries, stale>>

(* The environment is followed while the monitor runs.                     *)
Alive == pc["main"] \notin {"stopped", "dead"}

Environment ==
    Alive /\ (Panic \/ Signal \/ ReadReply \/ OpStateChange \/ ExpireClient \/ TimePasses
                  \/ HostapdChanges \/ OtherWrites)

Next == Main \/ Reply \/ IfEvents \/ KeepAlive \/ Environment

Spec == Init /\ [][Next]_vars

(* The goroutines keep running and the Go mutex does not starve a waiter;  *)
(* time passes. Nothing obliges hostapd, the links or the API server.      *)
Fairness ==
    /\ SF_vars(Main) /\ SF_vars(Reply) /\ SF_vars(IfEvents) /\ WF_vars(KeepAlive)
    /\ WF_vars(Alive /\ TimePasses)

FairSpec == Spec /\ Fairness

-----------------------------------------------------------------------------
(* Every variable has its type.                                            *)
TypeOK ==
    /\ pc \in [Threads -> {"attach", "status", "report", "get", "put", "running", "wait",
                           "stopped", "read", "assign", "handle", "exited", "select",
                           "deauth", "sleep", "ping", "dead"}]
    /\ addrMutex \in {"main", "reply", "ifEvents", "free"}
    /\ stop \in BOOLEAN /\ hostapd \in {"reads", "hangs", "gone"}
    /\ fresh \in BOOLEAN /\ stale \in BOOLEAN
    /\ deadline \in {"ahead", "past"}
    /\ event \in SUBSET Datagrams
    /\ left \in SUBSET Clients
    /\ ifEAPState \in States \cup {Unset}
    /\ clients \in SUBSET Clients
    /\ status \in Statuses
    /\ draft \in Statuses
    /\ tries \in 0 .. MaxTries

(* No step of this monitor changes what the status says of another         *)
(* interface, whoever writes between its Get and its Update.               *)
OwnEntryOnly ==
    [][pc' # pc => \A n \in Names \ {IfName} : status'[n] = status[n]]_vars

(* At rest, when the last update did not fail, the status has the state    *)
(* hostapd answered last and lists every client, although the state is     *)
(* assigned without the mutex and a report may be under way just then.     *)
StatusCurrent ==
    addrMutex \in {"free", "ifEvents"} /\ ~stale /\ pc["reply"] \in {"read", "exited"} =>
        /\ status[IfName] # NoEntry
        /\ status[IfName].state = ifEAPState
        /\ clients \subseteq status[IfName].clients

(* attachHostapd returns unless hostapd hangs, although a write after the  *)
(* deadline fails at once: sendKeepAlive runs already and renews it.       *)
AttachReturns == pc["main"] = "attach" ~> pc["main"] # "attach" \/ hostapd = "hangs"

(* Nobody keeps addrMutex for ever: updates are retried a bounded number   *)
(* of times, and a write to a hostapd that does not read has a deadline.   *)
MutexReleased == addrMutex # "free" ~> addrMutex = "free" \/ pc["main"] = "dead"

(* StopMonitor returns, whatever its goroutines are waiting for.           *)
StopReturns == pc["main"] = "wait" ~> pc["main"] \in {"stopped", "dead"}
=============================================================================
