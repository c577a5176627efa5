----------------------------- MODULE Reconciler -----------------------------
(***************************************************************************)
(* controllers/authenticator_controller.go: the reconcile loop of the      *)
(* operator, call by call, with the users who edit Authenticators, the     *)
(* garbage collector of Kubernetes and restarts of the operator.           *)
(*                                                                         *)
(* The spec of an Authenticator stands for the ConfigMap data and for the  *)
(* DaemonSet spec that pkg/configgen generates from it.                    *)
(*                                                                         *)
(* The manager's client writes to the API server and reads from a cache    *)
(* that follows it. An object is therefore a sequence of its versions: the *)
(* first is the cached one, the last is the one that is stored.            *)
(***************************************************************************)
EXTENDS Naturals, Sequences

CONSTANTS
    Auths,            \* names of Authenticators
    Namespaces,
    NsOf,             \* the namespace of each
    Specs,            \* contents of an Authenticator's spec
    None,             \* no object, no owner
    NumKinds,         \* RBAC objects of a namespace, all treated alike
    RecFaults,        \* "api": a write fails; "restart": the operator restarts
    MaxLives,         \* bound: Authenticators created, under any name
    MaxLag,           \* bound: versions of an object the cache has yet to see
    MaxDisturbances   \* bound: edits, manual deletions, failures, restarts

ASSUME NsAssumption == NsOf \in [Auths -> Namespaces]
ASSUME RecBoundsAssumption ==
    /\ NumKinds \in Nat \ {0} /\ MaxLives \in Nat
    /\ MaxLag \in Nat \ {0} /\ MaxDisturbances \in Nat

VARIABLES
    auth,         \* the Authenticators
    lives,        \* Authenticators created so far
    cm, ds,       \* their ConfigMap and DaemonSet
    rbac,         \* owner of each RBAC object of a namespace
    rbacOwner,    \* owner reference left in the operator's rbacResources
    queue,        \* reconcile requests
    rpc, cur,     \* where Reconcile is, and for which Authenticator
    kind,         \* the RBAC object syncRbacResources has come to
    a11r,         \* the Authenticator it read
    fresh,        \* the DaemonSet it read is the stored version
    disturbances

cluster == <<auth, lives>>
owned == <<cm, ds, rbac>>
worker == <<rpc, cur, kind, a11r, fresh>>
recVars == <<cluster, owned, rbacOwner, queue, worker, disturbances>>

Uids == Auths \X (1 .. MaxLives)
Incarnations == [uid: Uids, spec: Specs]
Objects(Owners) == [content: Specs, owner: Owners]

ASSUME NoneAssumption ==
    None \notin Auths \cup Uids \cup Incarnations \cup Objects(Uids \cup {None})

(* The objects of syncRbacResources, in its order: a ServiceAccount, a     *)
(* Role and a RoleBinding.                                                 *)
Kinds == 1 .. NumKinds
Steps == {"idle", "getCm", "createCm", "updateCm", "getRbac", "createRbac",
          "getDs", "createDs", "updateDs"}

(* retrieveResources reads the RBAC manifests, which name no owner. A      *)
(* process it fails in exits before it serves a request.                   *)
RetrieveResources == [k \in Kinds |-> None]

RecInit ==
    /\ auth = [a \in Auths |-> <<None>>]
    /\ lives = 0
    /\ cm = [a \in Auths |-> <<None>>]
    /\ ds = [a \in Auths |-> <<None>>]
    /\ rbac = [n \in Namespaces |-> [k \in Kinds |-> <<None>>]]
    /\ rbacOwner = RetrieveResources
    /\ queue = {}
    /\ rpc = "idle"
    /\ cur = None
    /\ kind = 1
    /\ a11r = None
    /\ fresh = FALSE
    /\ disturbances = 0

-----------------------------------------------------------------------------
(* The API server and the cache                                            *)

Cached(versions) == Head(versions)
Stored(versions) == versions[Len(versions)]

(* A write that changes nothing makes no version.                          *)
Write(versions, v) == IF v = Stored(versions) THEN versions ELSE Append(versions, v)

CanWrite(versions) == Len(versions) <= MaxLag

Exists(a) == Stored(auth[a]) # None

(* Owns(...): an event of an object is a request for its controller, in    *)
(* the object's namespace; a change is an event of both versions.          *)
OwnerIn(n, o) == IF o = None THEN {} ELSE {a \in {o[1]} : NsOf[a] = n}
Owner(obj) == IF obj = None THEN None ELSE obj.owner
Requests(n, o, p) == queue' = queue \cup OwnerIn(n, o) \cup OwnerIn(n, p)

(* The owner exists, under the name and the UID of the reference.          *)
Current(n, o) == OwnerIn(n, o) = {o[1]} /\ Exists(o[1]) /\ Stored(auth[o[1]]).uid = o

(* The next version of an object reaches the cache, and its event the      *)
(* queue.                                                                  *)
InformAuth(a) ==
    /\ Len(auth[a]) > 1
    /\ auth' = [auth EXCEPT ![a] = Tail(@)]
    /\ queue' = queue \cup {a}
    /\ UNCHANGED <<lives, owned, rbacOwner, worker, disturbances>>

InformCm(a) ==
    /\ Len(cm[a]) > 1
    /\ cm' = [cm EXCEPT ![a] = Tail(@)]
    /\ Requests(NsOf[a], Owner(cm[a][1]), Owner(cm[a][2]))
    /\ UNCHANGED <<cluster, ds, rbac, rbacOwner, worker, disturbances>>

InformDs(a) ==
    /\ Len(ds[a]) > 1
    /\ ds' = [ds EXCEPT ![a] = Tail(@)]
    /\ Requests(NsOf[a], Owner(ds[a][1]), Owner(ds[a][2]))
    /\ UNCHANGED <<cluster, cm, rbac, rbacOwner, worker, disturbances>>

InformRbac(n, k) ==
    /\ Len(rbac[n][k]) > 1
    /\ rbac' = [rbac EXCEPT ![n][k] = Tail(@)]
    /\ Requests(n, rbac[n][k][1], rbac[n][k][2])
    /\ UNCHANGED <<cluster, cm, ds, rbacOwner, worker, disturbances>>

InformAuths == \E a \in Auths : InformAuth(a)

InformOwned ==
    \/ \E a \in Auths : InformCm(a) \/ InformDs(a)
    \/ \E n \in Namespaces, k \in Kinds : InformRbac(n, k)

-----------------------------------------------------------------------------
(* Reconcile                                                               *)

Idle == rpc' = "idle" /\ cur' = None /\ kind' = 1 /\ a11r' = None /\ fresh' = FALSE

(* Faulty: the error is logged and the request forgotten.                  *)
FailForgotten == Idle /\ UNCHANGED queue

(* Reconcile returned an error: the request is queued again.               *)
Fail == Idle /\ queue' = queue \cup {cur}

(* A request is taken; an Authenticator that is gone needs no action.      *)
GetAuthenticator(a) ==
    /\ rpc = "idle"
    /\ a \in queue
    /\ queue' = queue \ {a}
    /\ IF Cached(auth[a]) = None
       THEN UNCHANGED worker
       ELSE /\ cur' = a
            /\ a11r' = Cached(auth[a])
            /\ rpc' = "getCm"
            /\ UNCHANGED <<kind, fresh>>
    /\ UNCHANGED <<cluster, owned, rbacOwner, disturbances>>

(* Faulty: the ConfigMap is written whether it differs or not.             *)
GetConfigMapDiffers ==
    /\ rpc = "getCm"
    /\ rpc' = IF Cached(cm[cur]) = None THEN "createCm" ELSE "updateCm"
    /\ UNCHANGED <<cluster, owned, rbacOwner, queue, cur, kind, a11r, fresh, disturbances>>

GetConfigMap ==
    /\ rpc = "getCm"
    /\ rpc' = IF Cached(cm[cur]) = None THEN "createCm"
              ELSE IF Cached(cm[cur]).content # a11r.spec THEN "updateCm" ELSE "getRbac"
    /\ UNCHANGED <<cluster, owned, rbacOwner, queue, cur, kind, a11r, fresh, disturbances>>

CreateConfigMap ==
    /\ rpc = "createCm" /\ CanWrite(cm[cur])
    /\ IF Stored(cm[cur]) = None
       THEN /\ cm' = [cm EXCEPT ![cur] =
                        Write(@, [content |-> a11r.spec, owner |-> a11r.uid])]
            /\ rpc' = "getRbac"
            /\ UNCHANGED <<queue, cur, kind, a11r, fresh>>
       ELSE Fail /\ UNCHANGED cm
    /\ UNCHANGED <<cluster, ds, rbac, rbacOwner, disturbances>>

(* Update is called with the generated object: it has no resource version, *)
(* so it always wins, and no owner reference, so the stored one is lost.   *)
UpdateConfigMap ==
    /\ rpc = "updateCm" /\ CanWrite(cm[cur])
    /\ IF Stored(cm[cur]) # None
       THEN /\ cm' = [cm EXCEPT ![cur] = Write(@, [content |-> a11r.spec, owner |-> None])]
            /\ rpc' = "getRbac"
            /\ UNCHANGED <<queue, cur, kind, a11r, fresh>>
       ELSE Fail /\ UNCHANGED cm
    /\ UNCHANGED <<cluster, ds, rbac, rbacOwner, disturbances>>

(* syncRbacResources: its objects belong to the namespace.                 *)
NextKind ==
    IF kind < NumKinds THEN rpc' = "getRbac" /\ kind' = kind + 1
                       ELSE rpc' = "getDs" /\ UNCHANGED kind

GetRbac ==
    /\ rpc = "getRbac"
    /\ IF Cached(rbac[NsOf[cur]][kind]) = None
       THEN rpc' = "createRbac" /\ UNCHANGED kind
       ELSE NextKind
    /\ UNCHANGED <<cluster, owned, rbacOwner, queue, cur, a11r, fresh, disturbances>>

(* Faulty: the reference of a former incarnation is kept.                  *)
SetControllerReferenceKeepsUid ==
    rbacOwner' = [rbacOwner EXCEPT ![kind] = IF @ = None THEN a11r.uid ELSE @]

(* createOwned: SetControllerReference refuses an object that names some   *)
(* other controller, the refusal is ignored, and the object is the one the *)
(* operator keeps in memory, with the reference of its last creation.      *)
SetControllerReference ==
    rbacOwner' = [rbacOwner EXCEPT ![kind] =
                    IF @ = None \/ @[1] = cur THEN a11r.uid ELSE @]

CreateRbac ==
    /\ rpc = "createRbac" /\ CanWrite(rbac[NsOf[cur]][kind])
    /\ SetControllerReference
    /\ IF Stored(rbac[NsOf[cur]][kind]) = None
       THEN /\ rbac' = [rbac EXCEPT ![NsOf[cur]][kind] = Write(@, rbacOwner'[kind])]
            /\ NextKind
            /\ UNCHANGED <<queue, cur, a11r, fresh>>
       ELSE Fail /\ UNCHANGED rbac
    /\ UNCHANGED <<cluster, cm, ds, disturbances>>

(* deep.Equal finds the defaults the API server has filled in that         *)
(* Daemonset does not generate, so a DaemonSet is always updated.          *)
GetDaemonSet ==
    /\ rpc = "getDs"
    /\ rpc' = IF Cached(ds[cur]) = None THEN "createDs" ELSE "updateDs"
    /\ fresh' = (Len(ds[cur]) = 1)
    /\ UNCHANGED <<cluster, owned, rbacOwner, queue, cur, kind, a11r, disturbances>>

CreateDaemonSet ==
    /\ rpc = "createDs" /\ CanWrite(ds[cur])
    /\ IF Stored(ds[cur]) = None
       THEN /\ ds' = [ds EXCEPT ![cur] =
                        Write(@, [content |-> a11r.spec, owner |-> a11r.uid])]
            /\ Idle
            /\ UNCHANGED queue
       ELSE Fail /\ UNCHANGED ds
    /\ UNCHANGED <<cluster, cm, rbac, rbacOwner, disturbances>>

(* Faulty: the generated DaemonSet is written, as for the ConfigMap.       *)
UpdateDaemonSetDropsOwner ==
    /\ rpc = "updateDs" /\ CanWrite(ds[cur])
    /\ ds' = [ds EXCEPT ![cur] = Write(@, [content |-> a11r.spec, owner |-> None])]
    /\ Idle
    /\ UNCHANGED <<cluster, cm, rbac, rbacOwner, queue, disturbances>>

(* Update is called with the object that was read: it fails if that was an *)
(* old version or is gone (nobody else creates one), and keeps the owner.  *)
UpdateDaemonSet ==
    /\ rpc = "updateDs" /\ CanWrite(ds[cur])
    /\ IF fresh /\ Stored(ds[cur]) # None
       THEN /\ ds' = [ds EXCEPT ![cur] =
                        Write(@, [content |-> a11r.spec, owner |-> Owner(Stored(@))])]
            /\ Idle
            /\ UNCHANGED queue
       ELSE Fail /\ UNCHANGED ds
    /\ UNCHANGED <<cluster, cm, rbac, rbacOwner, disturbances>>

Reconcile ==
    \/ \E a \in Auths : GetAuthenticator(a)
    \/ GetConfigMap \/ CreateConfigMap \/ UpdateConfigMap
    \/ GetRbac \/ CreateRbac
    \/ GetDaemonSet \/ CreateDaemonSet \/ UpdateDaemonSet

-----------------------------------------------------------------------------
(* Around it                                                               *)

Disturb == disturbances < MaxDisturbances /\ disturbances' = disturbances + 1

(* A write fails, an update also because the DaemonSet controller has      *)
(* written the status meanwhile.                                           *)
CallFails ==
    /\ "api" \in RecFaults /\ Disturb
    /\ rpc \in {"createCm", "updateCm", "createRbac", "createDs", "updateDs"}
    /\ Fail
    /\ IF rpc = "createRbac" THEN SetControllerReference ELSE UNCHANGED rbacOwner
    /\ UNCHANGED <<cluster, owned>>

(* main starts a manager, whose cache lists every object: one event each.  *)
Relist(versions) == <<Stored(versions)>>

OperatorRestarts ==
    /\ "restart" \in RecFaults /\ Disturb
    /\ rbacOwner' = RetrieveResources
    /\ auth' = [a \in Auths |-> Relist(auth[a])]
    /\ cm' = [a \in Auths |-> Relist(cm[a])]
    /\ ds' = [a \in Auths |-> Relist(ds[a])]
    /\ rbac' = [n \in Namespaces |-> [k \in Kinds |-> Relist(rbac[n][k])]]
    /\ queue' = {a \in Auths : Exists(a)}
        \cup (UNION {OwnerIn(NsOf[a], Owner(Stored(cm[a]))) : a \in Auths})
        \cup (UNION {OwnerIn(NsOf[a], Owner(Stored(ds[a]))) : a \in Auths})
        \cup (UNION {OwnerIn(x[1], Stored(rbac[x[1]][x[2]])) : x \in Namespaces \X Kinds})
    /\ Idle
    /\ UNCHANGED lives

(* A monitor writes the status of its Authenticator: an event as well.     *)
StatusWritten(a) ==
    /\ Cached(auth[a]) # None
    /\ queue' = queue \cup {a}
    /\ UNCHANGED <<cluster, owned, rbacOwner, worker, disturbances>>

SetAuth(a, v) ==
    /\ CanWrite(auth[a])
    /\ auth' = [auth EXCEPT ![a] = Write(@, v)]
    /\ UNCHANGED <<owned, rbacOwner, queue, worker>>

CreateAuthenticator(a, s) ==
    /\ ~Exists(a)
    /\ lives < MaxLives
    /\ lives' = lives + 1
    /\ SetAuth(a, [uid |-> <<a, lives'>>, spec |-> s])
    /\ UNCHANGED disturbances

DeleteAuthenticator(a) ==
    /\ Exists(a)
    /\ SetAuth(a, None)
    /\ UNCHANGED <<lives, disturbances>>

EditAuthenticator(a, s) ==
    /\ Disturb
    /\ Exists(a) /\ s # Stored(auth[a]).spec
    /\ SetAuth(a, [Stored(auth[a]) EXCEPT !.spec = s])
    /\ UNCHANGED lives

(* Someone deletes a DaemonSet by hand.                                    *)
DeleteDaemonSet(a) ==
    /\ Disturb /\ CanWrite(ds[a])
    /\ Stored(ds[a]) # None
    /\ ds' = [ds EXCEPT ![a] = Write(@, None)]
    /\ UNCHANGED <<cluster, cm, rbac, rbacOwner, queue, worker>>

(* The garbage collector deletes an object whose owner does not exist.     *)
Garbage(n, o) == o # None /\ ~Current(n, o)
GarbageCm(a) == Garbage(NsOf[a], Owner(Stored(cm[a])))
GarbageDs(a) == Garbage(NsOf[a], Owner(Stored(ds[a])))
GarbageRbac(n, k) == Garbage(n, Stored(rbac[n][k]))

Collect(a) ==
    /\ \/ /\ GarbageCm(a) /\ CanWrite(cm[a])
          /\ cm' = [cm EXCEPT ![a] = Write(@, None)] /\ UNCHANGED ds
       \/ /\ GarbageDs(a) /\ CanWrite(ds[a])
          /\ ds' = [ds EXCEPT ![a] = Write(@, None)] /\ UNCHANGED cm
    /\ UNCHANGED <<cluster, rbac, rbacOwner, queue, worker, disturbances>>

CollectRbac(n, k) ==
    /\ GarbageRbac(n, k) /\ CanWrite(rbac[n][k])
    /\ rbac' = [rbac EXCEPT ![n][k] = Write(@, None)]
    /\ UNCHANGED <<cluster, cm, ds, rbacOwner, queue, worker, disturbances>>

GarbageCollector ==
    \/ \E a \in Auths : Collect(a)
    \/ \E n \in Namespaces, k \in Kinds : CollectRbac(n, k)

UserChanges ==
    \E a \in Auths : \/ DeleteAuthenticator(a) \/ DeleteDaemonSet(a)
                     \/ \E s \in Specs : CreateAuthenticator(a, s) \/ EditAuthenticator(a, s)

Users == UserChanges \/ \E a \in Auths : StatusWritten(a)

RecNext ==
    \/ Reconcile \/ InformAuths \/ InformOwned \/ GarbageCollector
    \/ Users \/ CallFails \/ OperatorRestarts

RecSpec == RecInit /\ [][RecNext]_recVars

(* The workqueue serves every request, the collector every object, and     *)
(* the watches deliver the versions.                                       *)
FairRecSpec ==
    /\ RecSpec
    /\ WF_recVars(Reconcile) /\ \A a \in Auths : SF_recVars(GetAuthenticator(a))
    /\ WF_recVars(GarbageCollector) /\ WF_recVars(InformAuths) /\ WF_recVars(InformOwned)

-----------------------------------------------------------------------------
(* Every variable has its type; in particular a DaemonSet always has an    *)
(* owner, which is how its events find their way back to Reconcile.        *)
RecTypeOK ==
    /\ auth \in [Auths -> Seq(Incarnations \cup {None})]
    /\ lives \in 0 .. MaxLives
    /\ cm \in [Auths -> Seq(Objects(Uids \cup {None}) \cup {None})]
    /\ ds \in [Auths -> Seq(Objects(Uids) \cup {None})]
    /\ rbac \in [Namespaces -> [Kinds -> Seq(Uids \cup {None})]]
    /\ rbacOwner \in [Kinds -> Uids \cup {None}]
    /\ queue \in SUBSET Auths
    /\ rpc \in Steps
    /\ cur \in Auths \cup {None}
    /\ kind \in Kinds
    /\ a11r \in Incarnations \cup {None}
    /\ fresh \in BOOLEAN
    /\ disturbances \in 0 .. MaxDisturbances

(* Nothing is under way to the cache or to be collected.                   *)
Delivered ==
    /\ \A a \in Auths :
          /\ Len(auth[a]) = 1 /\ Len(cm[a]) = 1 /\ Len(ds[a]) = 1
          /\ ~GarbageCm(a) /\ ~GarbageDs(a)
    /\ \A n \in Namespaces, k \in Kinds : Len(rbac[n][k]) = 1 /\ ~GarbageRbac(n, k)

(* And nothing is queued or in progress.                                   *)
AtRest == queue = {} /\ rpc = "idle" /\ Delivered

(* A ConfigMap that lost its owner sends no events any more: one compared  *)
(* with a version the cache was late to replace may stay out of date.      *)
(* RBAC objects are owned by one of the Authenticators of their namespace  *)
(* and go with it, so only an Authenticator alone can count on them.       *)
InSync(a) ==
    IF ~Exists(a)
    THEN Stored(ds[a]) = None
    ELSE LET auth_a == Stored(auth[a]) IN
         /\ Stored(cm[a]) # None
         /\ Owner(Stored(cm[a])) # None => Stored(cm[a]).content = auth_a.spec
         /\ Stored(ds[a]) = [content |-> auth_a.spec, owner |-> auth_a.uid]
         /\ Auths = {a} => \A k \in Kinds : Stored(rbac[NsOf[a]][k]) # None

(* No wake-up is lost: when the operator has nothing left to do, every     *)
(* Authenticator has its DaemonSet, up to date and owned by this           *)
(* incarnation, and its ConfigMap, up to date while it is owned, and a     *)
(* deleted one has no DaemonSet, whatever was edited, deleted, recreated   *)
(* or failed while Reconcile was between two of its calls, and however old *)
(* what it read from the cache. The only Authenticator also has its RBAC   *)
(* objects.                                                                *)
NoLostWakeup == AtRest => \A a \in Auths : InSync(a)

(* Every Authenticator has what Reconcile would generate for it, and a     *)
(* Reconcile in progress has seen that.                                    *)
Settled ==
    /\ Delivered
    /\ \A a \in Auths : Exists(a) =>
          /\ InSync(a) /\ Stored(cm[a]).content = Stored(auth[a]).spec
          /\ \A k \in Kinds : Stored(rbac[NsOf[a]][k]) # None
    /\ rpc # "idle" =>
          /\ a11r = Stored(auth[cur])
          /\ rpc \in {"getCm", "getRbac", "getDs", "updateDs"}
          /\ rpc = "updateDs" => fresh

(* A settled cluster is left alone: Reconcile, called for every status a   *)
(* monitor writes, after a failed call and for everything after a restart, *)
(* writes its DaemonSet again and makes no version of any object, so that  *)
(* it does not call itself for ever. Only a user unsettles the cluster.    *)
SettledStays == [][Settled /\ ~UserChanges => Settled' /\ UNCHANGED owned]_recVars

(* The cluster converges once users and faults are quiet: Reconcile, which *)
(* may read an old version, and the garbage collector do not undo each     *)
(* other's work for ever.                                                  *)
Converges == <>[](\A a \in Auths : InSync(a))

(* Reconcile: the garbage collector cleans up the objects of a deleted     *)
(* Authenticator.                                                          *)
DeletedIsCollected ==
    AtRest => \A a \in Auths : ~Exists(a) => Stored(cm[a]) = None /\ Stored(ds[a]) = None
=============================================================================
