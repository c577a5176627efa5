# A TLA+ verification of eapol-operator

The operator turns interfaces of Kubernetes nodes into 802.1X authenticators. This
directory models what it does with them, checks the models with TLC on small
instances, and proves the safety properties of every component with TLAPS for instances
of any size. Paths below are relative to `src/`.

## The system

| part | code | state | what is hard |
|---|---|---|---|
| Authenticator controller | `controllers/`, `main.go` | objects of the API server and their cached copies, RBAC objects kept in memory | other actors between any two calls, reads that are out of date, owner references, restarts |
| configuration generator | `pkg/configgen` | none: Authenticator to DaemonSet and ConfigMap | what the pod reads back must be what was meant, and the two reach it apart |
| monitor process | `monitor/main.go`, `internal/k8s` | interfaces, list of monitors, a shared `err` | setup over the remains of an earlier run, ordered shutdown |
| link event handler | `pkg/netlink` | subscribed channels, a mutex | a blocking send with the mutex held, a channel closed by its receiver |
| interface monitor | `pkg/hostap/monitor.go` | clients, pending deauthentication requests, four goroutines, a socket with one deadline | hostapd events, link updates and timeouts in any order; a status others write too; a stop without the mutex |
| traffic control | `internal/trafficcontrol` | VLAN and link state of the VFs, tc filters (in the kernel) | several calls per change, each may fail; other users of the VFs |

The controller writes a DaemonSet per Authenticator. In its pod hostapd authenticates
supplicants and the monitor process follows hostapd's events: the first client of a
physical function (PF) opens its virtual functions (VFs), the last one to leave shuts
them (link disabled, VLAN 4095), and per-MAC tc filters let the frames of clients
through. A link that goes down makes the monitor ask hostapd to deauthenticate
everyone; a client whose request is not answered in two seconds is removed anyway.

## Modules

| module | models | notes |
|---|---|---|
| `TrafficControl` | `sriov.go`, `tc.go` | the operations, per calling thread: a walk over the VFs is a step per netlink call |
| `InterfaceMonitor` | `monitor.go`, and `main.go` around it | EXTENDS `TrafficControl`; threads main, reply, ifEvents, timeout, and the environment (hostapd, kernel, CNI plugins, crashes) |
| `StatusReport` | `monitor.go` | the same threads and `sendKeepAlive` over the control socket, up to the Authenticator's status and its other writers |
| `ControlledPort` | - | the abstract specification of an interface, implemented by `InterfaceMonitor` |
| `LinkEventHandler` | `eventhandle.go`, start and stop loops of `main.go` | all interfaces of a process and the metrics goroutine; of a monitor only its `handleIfEvents` |
| `Reconciler` | `authenticator_controller.go`, `main.go` | one step per API call, with caches, users, garbage collector and restarts |
| `PodStartup` | `configgen.go`, `k8s.go`, `monitor/main.go`, `tc.go` | Authenticator, pod template and ConfigMap, arguments, static filter chain, the files of hostapd |
| `InterfaceMonitorProof`, `PortSafetyProof`, `PortRefinementProof`, `MonitorSafetyProof`, `LinkEventHandlerProof`, `StatusReportProof`, `ReconcilerProof`, `PodStartupProof` | - | theorems and proofs |
| `MC...` | - | values of the constants for TLC |

`InterfaceMonitor` and `StatusReport` are two views of one program, cut where they do
not disturb each other: nothing in the code reads the status back, so
`InterfaceMonitor` leaves the reports out, and the walks and filters change nothing a
report contains, so `StatusReport` keeps of them the set of clients alone. Both have
`addrMutex` and the stop channel.

Names follow the code. A section the code runs under `addrMutex` is one step when it
touches only memory and several when it calls the kernel, because `StopMonitor` and
other programs do not take the mutex. `call[t]` is the `ConfigureVlanState` a thread
has in progress, `todo[t]` the VFs its walk has not reached. Ghost variables serve
properties only: `cut` (a walk failed and none has completed since), `missed` (a VLAN
changed while nobody listened), `unheard` (stations hostapd did not report, or kept
after their request timed out), and in `StatusReport` `stale` (the last update failed).
In `Reconciler` an object is the sequence of its versions the cache has yet to see: its
head is what a read returns, its last what is stored; an informer drops the head and
wakes the owner. Reads of the DaemonSet never find what is generated, because the API
server fills in defaults, so it is updated in every round; a write that changes nothing
makes no version, which is why the rounds end.
Operators marked "Faulty" in the modules are variants with a plausible mistake: with
one of them in place of the original the property named in `PROJECT.json` fails.

External, and modelled from how the code uses them: hostapd's control interface, the
kernel's link updates, `tc` (the filter with the lowest preference that matches
decides; `replace` of a MAC's filter replaces its action), CNI plugins, the kubelet
(projected volumes, the downward API, restarts), the API server with its versions, the
informers and the garbage collector.

Data races. Three variables are accessed by two goroutines without a lock.
`PFInfo.Authenticated` is a flag, read and written at any step of `StopMonitor`. `err`
of `main` is an interface of two words; the metrics server only ever writes a non-nil
error, so main reads nil or not nil. `ifEAPState` is a string: main may read the pointer
of one value with the length of another (`Torn`), or a length without content, which
is a panic.

## Runs that pass

| run | instance | shows |
|---|---|---|
| `MonitorClients` | 2 MACs, 1 VF, no faults | `PortFollowsClients`, `FilterFollowsClients`, `ClientsAreStations`, `RequestsAreOfClients`, `CutOffOnlyWhenDue` in all interleavings of events, link updates and timeouts |
| `MonitorVlans` | 2 VFs, 2 VLANs, a CNI plugin, failing netlink calls | `VfVlanFollowsPort`: a foreign VLAN lasts until its update is handled; `VfStateFollowsPort` with walks that interleave or break off |
| `MonitorFaults` | 1 MAC, 1 VF, crash anywhere, 2 starts; every call fails, hostapd restarts | the inductive invariant `IInv`, and `ImplementsControlledPort`, also over what a dead process left |
| `MonitorLive` | fair, 2 MACs, no VF | `StopCompletes`, and `RequestsResolved` although a sweep stops at the first request that is not due |
| `StatusReport` | fair, 2 interfaces, 1 client, 2 tries; API calls fail, hostapd hangs or ends | `StatusCurrent`, `OwnEntryOnly`; `AttachReturns`, `MutexReleased`, `StopReturns`: no write and no retry lasts for ever |
| `LinkEvents` | fair, 2 interfaces, all faults | `NoUpdateAfterUnsubscribe`, `ClosedWhileSubscribed`, `ListedAreRunning`, `OneOrphan`; `WaitsAreServed`, `HandlerReturns`, `ShutdownEnds`: no circle of waits |
| `Reconcile` | fair, 1 name, 2 lives, 2 disturbances, a cache one version behind | `NoLostWakeup`: at rest the cluster is as the Authenticator says; `Converges`: it comes to rest; `SettledStays`: rounds that find nothing to do leave it at rest |
| `PodStartup` | a PF with a VF, a plain interface, 2 ports, 2 secrets | `ArgsRoundTrip`, `HostapdFindsFiles`; `OnlyUnprotectedPass` and `UnprotectedPass`: the filters against the spec's lists, over restarts and edits |

**Bounds.** Two clients are the least for which the first in and the last out differ
from the others; two VFs the least for which a walk can be half done. `MonitorClients`
queues two hostapd events besides the one in hand, so that a connect and the disconnect
that follows it both wait while a timeout or a link update is handled; the other runs
queue one. hostapd and the kernel wait when a queue is full. Two starts show a start
over old state. `MonitorLive` has no VF: a walk is a finite loop that waits for nobody
and leaves the clients alone. Two interfaces let main stop one while the handler serves
the other. In `StatusReport` the second interface stands for all other writers, and two
tries for the five of `RetryOnConflict`: one that meets a conflict and one that is the
last. With the run's one hostapd state no string can be torn; two states were also
checked (588 thousand states), and `StatusIsCurrent` is proved for any number. One
worker handles the requests of all Authenticators one at a time, and Authenticators
share nothing but the RBAC objects, so `Reconcile` has one name; two lives show a
recreation over the objects of the predecessor, and two disturbances (edits, manual
deletions, failed calls, restarts) let each kind meet another. A cache one version
behind is enough for every read to be out of date and for events to be merged; each
object lags by itself. The RBAC objects are treated alike, so one stands for the three
(`NumKinds`); the invariants were also checked with two (6.4 million states).
`PodStartup` has lists of up to two ports, since none, one and two take different paths.
Symmetry is used for MACs and VFs that are model values, which are only compared, and
never in a run with a liveness property. Deadlock is checked for the interface monitor;
the other systems may stop, after a shutdown or when nobody edits anything.

**Fairness.** Each goroutine is strongly fair: the Go scheduler runs it, a Go mutex
hands over to waiters that starve, and a select with several ready cases picks at
random. Requests age and deadlines pass, because time passes. Signals, users, hostapd,
CNI plugins and the API server are not fair: `AttachReturns` excepts a hostapd that
hangs, and `MutexReleased` and `StopReturns` hold whether hostapd reads or not. For the
controller the workqueue serves every request, the collector every object, and every
watch delivers. `TimePasses` is the one assumption on speed: a write that is refused at
once is made before the second of its deadline is over.

## Disagreements with the documents

Each `Claim...` run checks one sentence of the repository and TLC shows a behaviour of
the code against it. `PROJECT.json` quotes the lines.

| run | the code |
|---|---|
| `ClaimOriginal` | after a crash the reserved VLAN is taken for the original one and restored |
| `ClaimCleanup` | a send on a channel its receiver has closed can end the process during shutdown |
| `ClaimGarbage` | an updated ConfigMap has no owner and is not collected |
| `ClaimPorts` | two ports of a protocol are joined with a space, split at commas, and the monitor exits |

Limits of the code that the properties leave room for, each listed as a hazard in
`PROJECT.json`: a VF set to its remembered VLAN again while the port is shut keeps it
(`VfVlanFollowsPort` allows it); a handler at work can undo the restore of
`StopMonitor`; a client removed by a timeout stays in the status until the next event
(`StatusCurrent` says that no client is missing from it); the first report may be torn,
or say nothing, until hostapd's first answer is handled; a restarted hostapd is not
attached to again, and stations authorised before ATTACH are not learnt of; a netlink
error in `DenyTrafficFromMac` leaves the client's filter; an error of the metrics server
may leave one monitor running that main never stops (`OneOrphan`); the RBAC objects of a
namespace go with the Authenticator that was first (`InSync` speaks of them only for an
Authenticator alone). A running hostapd is not restarted when only the ConfigMap
changes. A link that flaps stamps the requests again each time, so that a client may stay
as long as it flaps (`RequestsResolved` speaks of a link that is quiet in the end).

Two limits concern the unprotected ports, and `OnlyUnprotectedPass` and `UnprotectedPass`,
which compare the filters with the lists of the Authenticator, name them as exceptions.
`UnprotectIPv6Ports` gets both lists as one (`tc.go:123-125`) and its filters match no
protocol (`tc.go:165`): over IPv6 a port of the `tcp` list is open for udp as well, and
the other way round, while `authenticator_types.go:153` and `157` have a list of tcp ports
and one of udp ports (`OpenOverIPv6`). And `InitInterfaceForEAPTraffic` returns after the
drop filter for an interface that is not a PF (`tc.go:103-105`): neither EAPOL nor a listed
port gets in there, while `authenticator_types.go:146` has the ports allowed "even for
unathenticated interfaces". A filter that `tc` does not take is only logged, and
`UnprotectedPass` says nothing of the ports of such a PF (ghost variable `refused`). `tc`
itself is not part of the repository: `match tcp dst` and `match udp dst` are taken to
match frames of that protocol only.

The lost owner reference of `ClaimGarbage` has a second effect, which the lagging cache
shows: events of the ConfigMap wake nobody any more. When an edit is taken back before
the cache has seen the ConfigMap of the edit, Reconcile finds nothing to do, and the
ConfigMap stays as the edit made it until the next edit. `InSync` therefore speaks of the
content of a ConfigMap while it has its owner.

## What is proved

All theorems hold for every value of the constants that satisfies the named ASSUMEs
(the reserved VLAN is not a user's, the PF is one of the netdevs, sentinels are not
values, bounds are naturals, names and port numbers hold no separator and label values no
`=`), with every fault enabled or not but for `FilterSafety`. Every invariant and action
property that the passing runs check is the subject of a theorem.

- `InterfaceMonitorProof`: `TypeCorrect`, by induction on steps, one lemma per group of
  actions.
- `PortSafetyProof`: `SafetyInvariant` (`IInv`), and from it `PortSafety`
  (`PortFollowsClients`), `RequestSafety` (`RequestsAreOfClients`) and `VfStateSafety`
  (`VfStateFollowsPort`).
- `PortRefinementProof`: `PortRefinement` (`ImplementsControlledPort`), and
  `FilterSafety` (`FilterFollowsClients`) for a system in which no netlink call and no
  `tc` fails: a client whose filter could not be changed keeps the one it had.
- `MonitorSafetyProof`: `StationSafety` (`ClientsAreStations`), `VlanSafety`
  (`VfVlanFollowsPort`) and `DueSafety` (`CutOffOnlyWhenDue`).
- `LinkEventHandlerProof`: `LinkTypeCorrect`, `LinkInvariant` (`LinkInv`, `RunInv`), and
  from it `UpdateSafety` (`NoUpdateAfterUnsubscribe`), `CloseSafety`
  (`ClosedWhileSubscribed`), `StopSafety` (`ListedAreRunning`), `OrphanSafety`
  (`OneOrphan`) and `WaitSafety` (`WaitsAreServed`).
- `StatusReportProof`: `ReportInvariant` (`ReportInv`), and from it `ReportTypes`
  (`TypeOK`), `StatusIsCurrent` (`StatusCurrent`) and the action property
  `OwnEntriesOnly` (`OwnEntryOnly`).
- `ReconcilerProof`: `RecTypeCorrect` (`RecTypeOK`), `WakeupSafety` (`NoLostWakeup`) and
  the action property `SettledSafety` (`SettledStays`), for any number of Authenticators,
  lives, disturbances, RBAC objects and any lag.
- `PodStartupProof`: `ArgsSafety` (`ArgsRoundTrip`), `ChainSafety`
  (`OnlyUnprotectedPass`), `OpenPortsSafety` (`UnprotectedPass`) and the action property
  `FilesSafety` (`HostapdFindsFiles`), for lists of any length.

`VfStateFollowsPort` speaks of moments when nobody holds the mutex and is far from
inductive. `IInv` adds what holds in between: a handler has the mutex exactly in its
critical section (`MutexInv`), a walk left behind is finished (`WalkInv`), a call in
progress under the mutex carries the state the port asks for now (`CallInv`), and a VF
in another state is still to be visited, or a walk failed (`VfInv`). `StartInv` and
`QuietInv` say the same of the first walk, made before any handler exists. For
`RequestsAreOfClients` it is enough that one request is expired at a time, under the
mutex (`ExpiringInv`). `CutOffOnlyWhenDue` needs `DueInv`: the clock is read without the
mutex, but a request that was due by that reading and is still in the map is still due,
since one that is made anew has a later stamp; and under the mutex nobody takes away a
request the sweep has yet to look at.

`PortRefinement` shows that initial states map to initial states and that every step of
the monitor is one of `ControlledPort` or leaves it alone. `IInv` tells which way a link
may be set: a handler's call carries what the port asks for now, and main's calls are
made while the port is being taken over or has been released. The filters need
`HandledInv`: between the change of the set of clients and that of the filters the
mutex keeps everybody else from changing the set, so that a filter is added for a client
and removed for one that left. `FilterInv` extends it to all addresses: the filters of
every address but the one being handled are right from the reset in `initInterfaces` on.

`LinkInv` says that the handler sends only with the mutex held, that a channel is closed
only after its stop channel, and that an interface is started once, so that a stopped
monitor stays stopped; `RunInv` adds what main can conclude from `err`: nil means that
the monitor runs, and an error of a monitor that runs is the metrics server's, which has
only one. `WaitsAreServed` is the part of `ShutdownEnds` that needs no fairness: main waits
for the handler's mutex, the handler for a receiver, main for a goroutine, and each time
the one waited for is there, was told, and waits for neither of them. It needs `WaitInv`: a
subscribed monitor runs or has closed its channel, because it closes it when it ends, and
main stops only what it has started. That whoever can act does act is the fairness under
which TLC checks `HandlerReturns` and `ShutdownEnds`. `ReportInv` says who holds the mutex, that a draft read from a version nobody
has replaced since agrees with that version on every other entry (why the write of a
stale draft must be refused), and that a report which may have missed the latest state
or client is followed by another, by the thread that changed it.

`StationInv` adds to `ClientsAreStations` that before ATTACH there is nothing to hear of
(no queue, no client, no event in hand), and that `unheard` holds stations only; the rest
is that every step of hostapd or of the reply handler moves an address between what is
stored, queued and in hand without losing it. `VlanInv` holds at every step of a walk: a
call in progress carries the VLAN the port asks for now (`CallVlanInv`, with the mutex of
`IInv`), a VF on a VLAN the port does not allow is still to be visited, was skipped by a
failed walk, or has an update nobody has looked at (`VfVlanInv`), and with the port open
no other VF is on the reserved VLAN (`IsolatedInv`), which is what makes it safe for
`HandlePfEventForVlanChange` to pass over VFs on it.

`NoLostWakeup` speaks of rest; `RecInv` says why rest is right. Every object is a
sequence of versions in which a deletion is a change of something that was there, and of
something owned if it is a ConfigMap (`VersionsOK`): so each deletion has an owner for
its event to wake. A Reconcile in progress has the cached Authenticator in hand, or will
be called again (`WorkerOK`). `WakeInv` is then local to an object: if nothing that is
queued or under way to the cache will call Reconcile on its account, it is as it should
be, or Reconcile is at a call before the one that looks at it. It has to be said of each
object by itself: a ConfigMap may have to be read again while its DaemonSet is right.
`SettledStays` says of the same loop that it does not feed itself. `Settled` is chosen to
be stable: what is stored has reached the cache and is what Reconcile generates, and a
Reconcile in progress has read just that. Then every read of a round (`SettledReads`) leads
past the writes but that of the DaemonSet, which writes what is there; with `RecInv` this
holds for every step but a user's. Unlike `InSync`, `Settled` asks for the content of a
ConfigMap without owner, too, since Reconcile would still write it.

`StartInv` of `PodStartupProof` follows `initInterfaces` through its list: the filters of
the first netdev are as far as the step says (`HeadInv`), and every netdev to protect is
still in the list or has all its filters (`VisitedInv`), whatever an earlier run left on
those still in the list. What has all its filters gives each frame the right verdict
(`DoneProtects`), and `ArgsRoundTrip` relates the filters, made from the arguments, to
the lists of the spec. The arguments need what the strings do: `JoinSplit` (splitting at
a separator no part contains undoes the join), `SplitWhole`, `TrimNothing`, `LabelSplit`,
and from these `CommaRoundTrip`, `SpaceRoundTrip` (a list joined with blanks is read back
only if it has at most one port, and otherwise refused) and `LabelsRoundTrip`.
`FlattenElements`, on the list of netdevs, is an induction on its length, made as an
argument on the least counterexample (`LeastNumber`).

The inductive invariants were checked with TLC before they were proved: `IInv` in
`MonitorFaults`, the others on the instances of the runs of their component.

Only model-checked: everything temporal under fairness (`StopCompletes`,
`RequestsResolved`, `AttachReturns`, `MutexReleased`, `StopReturns`, `HandlerReturns`,
`ShutdownEnds`, `Converges`), which is out of the prover's reach, and the `Claim...` runs,
which are counterexamples.

## Not modelled

- Metrics: `auth_success_total` is raised by every EAP-SUCCESS, those of a
  reauthentication included, and lowered by a disconnect; nothing reads it back.
- Logging, flags, health checks, leader election (off by default), generated code, the
  helpers of the tests.
- The lines of hostapd.conf that name no file. `$AUTHSECRET` is written as it stands and
  the secret of a RADIUS server is used nowhere in the code.
- A write of the controller that took effect although its call failed (the status update
  has it). Two Authenticators of one name in two namespaces.
- Names that are no label values (more than 63 characters), names of interfaces with a
  comma or a blank in them (`SeparatorAssumption`), and an interface named twice
  or on two nodes, whose monitors share an entry of the status.
- VFs that come and go, and link states changed by others: no code reacts to them.
- The wall clock set back: the age of a request only grows.
- An edit of the ports reaches ConfigMap and DaemonSet in `PodStartup` without failures
  in between; `Reconciler` has those.
