--------------------------- MODULE ReconcilerProof ---------------------------
(***************************************************************************)
(* No wake-up of the reconcile loop is lost: proofs about Reconciler for   *)
(* any number of Authenticators, namespaces, RBAC objects, versions the    *)
(* cache lags behind, edits, failures and restarts.                        *)
(***************************************************************************)
EXTENDS Reconciler, SequenceTheorems, TLAPS

-----------------------------------------------------------------------------
(* The inductive invariant.                                                *)

(* The versions an object may have, one at least, from a set of values and *)
(* of changes from one to the next.                                        *)
Histories(Values, Changes) ==
    {vs \in Seq(Values) :
        vs # <<>> /\ \A i \in 1 .. Len(vs) - 1 : <<vs[i], vs[i + 1]>> \in Changes}

(* The objects of Authenticator a name a, or nobody, as their owner.       *)
AuthValues(a) == {v \in Incarnations \cup {None} : v # None => v.uid[1] = a}
CmValues(a) ==
    {v \in Objects(Uids \cup {None}) \cup {None} :
        v # None => v.owner = None \/ v.owner[1] = a}
DsValues(a) == {v \in Objects(Uids) \cup {None} : v # None => v.owner[1] = a}
RbacValues == Uids \cup {None}

(* What is deleted was there, and was owned if it is a ConfigMap.          *)
Deletes(Values) == {c \in Values \X Values : c[2] = None => c[1] # None}
CmChanges(a) ==
    {c \in CmValues(a) \X CmValues(a) : c[2] = None => c[1] # None /\ c[1].owner # None}

AuthVersions(a) == Histories(AuthValues(a), AuthValues(a) \X AuthValues(a))
CmVersions(a) == Histories(CmValues(a), CmChanges(a))
DsVersions(a) == Histories(DsValues(a), Deletes(DsValues(a)))
RbacVersions == Histories(RbacValues, Deletes(RbacValues))

VersionsOK ==
    /\ \A a \in Auths :
          auth[a] \in AuthVersions(a) /\ cm[a] \in CmVersions(a) /\ ds[a] \in DsVersions(a)
    /\ \A n \in Namespaces, k \in Kinds : rbac[n][k] \in RbacVersions

CmSteps == {"getCm", "createCm", "updateCm"}

(* Reconcile works with the cached version of its Authenticator, or will   *)
(* be called again.                                                        *)
WorkerOK ==
    /\ rpc \in CmSteps \cup {"idle"} => kind = 1
    /\ rpc # "idle" =>
          /\ cur \in Auths
          /\ a11r \in Incarnations
          /\ a11r.uid[1] = cur
          /\ a11r = Cached(auth[cur]) \/ cur \in queue

(* Nothing more will call Reconcile for an existing Authenticator on       *)
(* account of itself or of the given object.                               *)
Unprompted(a, versions) ==
    a \notin queue /\ Len(auth[a]) = 1 /\ Stored(auth[a]) # None /\ Len(versions) = 1

(* The object is there, and has the spec if this incarnation owns it.      *)
Fits(obj, inc) == obj # None /\ (obj.owner = inc.uid => obj.content = inc.spec)

(* An object nothing more will call Reconcile for is there and as it       *)
(* should be, or Reconcile has yet to look at it.                          *)
CmAt(a) ==
    Unprompted(a, cm[a]) =>
        (cur = a /\ rpc \in CmSteps) \/ Fits(Stored(cm[a]), Stored(auth[a]))

DsAt(a) ==
    Unprompted(a, ds[a]) =>
        (cur = a /\ rpc # "idle") \/ Fits(Stored(ds[a]), Stored(auth[a]))

RbacAt(a, k) ==
    Unprompted(a, rbac[NsOf[a]][k]) =>
        \/ cur = a /\ rpc \in CmSteps
        \/ cur = a /\ rpc \in {"getRbac", "createRbac"} /\ kind <= k
        \/ Stored(rbac[NsOf[a]][k]) # None

WakeInv ==
    \A a \in Auths : CmAt(a) /\ DsAt(a) /\ (Auths = {a} => \A k \in Kinds : RbacAt(a, k))

RecInv == RecTypeOK /\ VersionsOK /\ WorkerOK /\ WakeInv

-----------------------------------------------------------------------------
(* The versions of an object.                                              *)

LEMMA VersionsFacts ==
  ASSUME NEW S, NEW vs \in Seq(S), vs # <<>>
  PROVE  /\ Len(vs) \in Nat \ {0} /\ DOMAIN vs = 1 .. Len(vs)
         /\ Cached(vs) = vs[1] /\ Cached(vs) \in S
         /\ Stored(vs) = vs[Len(vs)] /\ Stored(vs) \in S
<1>1. Len(vs) \in Nat \ {0} /\ DOMAIN vs = 1 .. Len(vs)
  BY EmptySeq, LenProperties
<1>2. \A i \in 1 .. Len(vs) : vs[i] \in S
  BY <1>1, ElementOfSeq
<1>3. QED  BY <1>1, <1>2 DEF Cached, Stored

(* A write leaves the cached version alone and makes its value the stored  *)
(* one, by a new version unless it was that already.                       *)
LEMMA WriteFacts ==
  ASSUME NEW S, NEW vs \in Seq(S), vs # <<>>, NEW v \in S
  PROVE  /\ Write(vs, v) \in Seq(S) /\ Write(vs, v) # <<>>
         /\ Cached(Write(vs, v)) = Cached(vs) /\ Stored(Write(vs, v)) = v
         /\ \A i \in 1 .. Len(vs) : Write(vs, v)[i] = vs[i]
         /\ \/ v = Stored(vs) /\ Write(vs, v) = vs
            \/ /\ v # Stored(vs) /\ Len(Write(vs, v)) = Len(vs) + 1
               /\ Write(vs, v)[Len(vs) + 1] = v
<1>1. Len(vs) \in Nat \ {0} /\ Cached(vs) = vs[1] /\ Stored(vs) = vs[Len(vs)]
  BY VersionsFacts
<1>2. CASE v = Stored(vs)
  BY <1>1, <1>2 DEF Write
<1>3. CASE v # Stored(vs)
  <2>1. Write(vs, v) = Append(vs, v)
    BY <1>3 DEF Write
  <2>2. /\ Append(vs, v) \in Seq(S) /\ Append(vs, v) # <<>>
        /\ Len(Append(vs, v)) = Len(vs) + 1 /\ Append(vs, v)[Len(vs) + 1] = v
        /\ \A i \in 1 .. Len(vs) : Append(vs, v)[i] = vs[i]
    BY AppendProperties
  <2>3. Cached(Append(vs, v)) = Append(vs, v)[1] /\ Stored(Append(vs, v)) = v
    BY Zenon, <2>2, VersionsFacts
  <2>4. QED  BY <1>1, <1>3, <2>1, <2>2, <2>3
<1>4. QED  BY <1>2, <1>3

(* The cache moves on to the next version.                                 *)
LEMMA TailFacts ==
  ASSUME NEW S, NEW vs \in Seq(S), Len(vs) > 1, NEW w, w = Tail(vs)
  PROVE  /\ w \in Seq(S) /\ w # <<>> /\ Len(w) = Len(vs) - 1
         /\ \A i \in 1 .. Len(vs) - 1 : w[i] = vs[i + 1]
         /\ Cached(w) = vs[2] /\ Stored(w) = Stored(vs)
<1>1. Len(vs) \in Nat /\ vs # <<>>
  BY EmptySeq, LenProperties
<1>2. /\ w \in Seq(S) /\ Len(w) = Len(vs) - 1
      /\ \A i \in 1 .. Len(w) : w[i] = vs[i + 1]
  BY <1>1, HeadTailProperties
<1>3. w # <<>>
  <2>1. Len(w) # 0
    BY <1>1, <1>2, LenProperties
  <2>2. QED  BY Zenon, <1>2, <2>1, EmptySeq
<1>4. Cached(w) = w[1] /\ Stored(w) = w[Len(w)]
  BY Zenon, <1>2, <1>3, VersionsFacts
<1>5. QED  BY <1>1, <1>2, <1>3, <1>4 DEF Stored

(* After a restart the cache has the stored version only.                  *)
LEMMA RelistFacts ==
  ASSUME NEW S, NEW vs \in Seq(S), vs # <<>>, NEW w, w = Relist(vs)
  PROVE  /\ w \in Seq(S) /\ w # <<>> /\ Len(w) = 1
         /\ w[1] = Stored(vs) /\ Stored(w) = Stored(vs)
<1>1. Stored(vs) \in S
  BY VersionsFacts
<1>2. QED  BY <1>1 DEF Relist, Stored

(* What the proofs below need of the versions of an object.                *)
LEMMA HistoryFacts ==
  ASSUME NEW S, NEW R, NEW vs \in Histories(S, R)
  PROVE  /\ vs \in Seq(S) /\ Len(vs) \in Nat \ {0}
         /\ Cached(vs) \in S /\ Stored(vs) \in S
         /\ Len(vs) = 1 => Cached(vs) = Stored(vs)
         /\ Len(vs) > 1 => vs[1] = Cached(vs) /\ <<vs[1], vs[2]>> \in R
<1>1. /\ vs \in Seq(S) /\ vs # <<>>
      /\ \A i \in 1 .. Len(vs) - 1 : <<vs[i], vs[i + 1]>> \in R
  BY DEF Histories
<1>2. /\ Len(vs) \in Nat \ {0} /\ Cached(vs) = vs[1] /\ Cached(vs) \in S
      /\ Stored(vs) = vs[Len(vs)] /\ Stored(vs) \in S
  BY <1>1, VersionsFacts
<1>3. QED  BY <1>1, <1>2

LEMMA WriteKeeps ==
  ASSUME NEW S, NEW R, NEW vs \in Histories(S, R),
         NEW v \in S, v = Stored(vs) \/ <<Stored(vs), v>> \in R
  PROVE  /\ Write(vs, v) \in Histories(S, R)
         /\ Cached(Write(vs, v)) = Cached(vs) /\ Stored(Write(vs, v)) = v
         /\ \/ v = Stored(vs) /\ Write(vs, v) = vs
            \/ v # Stored(vs) /\ Len(Write(vs, v)) # 1
<1> DEFINE w == Write(vs, v)
<1>1. /\ vs \in Seq(S) /\ vs # <<>>
      /\ \A i \in 1 .. Len(vs) - 1 : <<vs[i], vs[i + 1]>> \in R
  BY DEF Histories
<1>2. Len(vs) \in Nat \ {0} /\ Stored(vs) = vs[Len(vs)]
  BY <1>1, VersionsFacts
<1>3. /\ w \in Seq(S) /\ w # <<>> /\ Cached(w) = Cached(vs) /\ Stored(w) = v
      /\ \A i \in 1 .. Len(vs) : w[i] = vs[i]
      /\ \/ v = Stored(vs) /\ w = vs
         \/ v # Stored(vs) /\ Len(w) = Len(vs) + 1 /\ w[Len(vs) + 1] = v
  BY <1>1, WriteFacts
<1> HIDE DEF w
<1>4. CASE v = Stored(vs) /\ w = vs
  BY <1>3, <1>4 DEF w
<1>5. CASE v # Stored(vs) /\ Len(w) = Len(vs) + 1 /\ w[Len(vs) + 1] = v
  <2>1. \A i \in 1 .. Len(w) - 1 : <<w[i], w[i + 1]>> \in R
    <3>1. SUFFICES ASSUME NEW i \in 1 .. Len(w) - 1
                   PROVE  <<w[i], w[i + 1]>> \in R
      OBVIOUS
    <3>2. i \in 1 .. Len(vs) /\ w[i] = vs[i]
      BY <1>2, <1>3, <1>5
    <3>3. CASE i = Len(vs)
      BY <1>2, <1>5, <3>2, <3>3
    <3>4. CASE i # Len(vs)
      <4>1. i \in 1 .. Len(vs) - 1 /\ i + 1 \in 1 .. Len(vs)
        BY <1>2, <3>2, <3>4
      <4>2. QED  BY <1>1, <1>3, <3>2, <4>1
    <3>5. QED  BY <3>3, <3>4
  <2>2. w \in Histories(S, R) /\ Len(w) # 1
    BY <1>2, <1>3, <1>5, <2>1 DEF Histories
  <2>3. QED  BY <1>3, <1>5, <2>2 DEF w
<1>6. QED  BY <1>3, <1>4, <1>5

LEMMA TailKeeps ==
  ASSUME NEW S, NEW R, NEW vs \in Histories(S, R), Len(vs) > 1
  PROVE  Tail(vs) \in Histories(S, R) /\ Stored(Tail(vs)) = Stored(vs) /\ Cached(Tail(vs)) = vs[2]
<1>1. PICK w : w = Tail(vs)
  OBVIOUS
<1>2. /\ vs \in Seq(S) /\ vs # <<>>
      /\ \A i \in 1 .. Len(vs) - 1 : <<vs[i], vs[i + 1]>> \in R
  BY DEF Histories
<1>3. Len(vs) \in Nat
  BY <1>2, LenProperties
<1>4. /\ w \in Seq(S) /\ w # <<>> /\ Len(w) = Len(vs) - 1
      /\ \A i \in 1 .. Len(vs) - 1 : w[i] = vs[i + 1]
      /\ Cached(w) = vs[2] /\ Stored(w) = Stored(vs)
  BY Zenon, <1>1, <1>2, TailFacts
<1>5. \A i \in 1 .. Len(w) - 1 : <<w[i], w[i + 1]>> \in R
  <2>1. SUFFICES ASSUME NEW i \in 1 .. Len(w) - 1
                 PROVE  <<w[i], w[i + 1]>> \in R
    OBVIOUS
  <2>2. /\ i \in 1 .. Len(vs) - 1 /\ i + 1 \in 1 .. Len(vs) - 1
    BY <1>3, <1>4
  <2>3. w[i] = vs[i + 1] /\ w[i + 1] = vs[(i + 1) + 1]
    BY <1>4, <2>2
  <2>4. QED  BY <1>2, <2>2, <2>3
<1>6. w \in Histories(S, R)
  BY <1>4, <1>5 DEF Histories
<1>7. QED  BY <1>1, <1>4, <1>6

LEMMA RelistKeeps ==
  ASSUME NEW S, NEW R, NEW vs \in Histories(S, R)
  PROVE  Relist(vs) \in Histories(S, R) /\ Stored(Relist(vs)) = Stored(vs)
<1>1. PICK w : w = Relist(vs)
  OBVIOUS
<1>2. vs \in Seq(S) /\ vs # <<>>
  BY DEF Histories
<1>3. w \in Seq(S) /\ w # <<>> /\ Len(w) = 1 /\ Stored(w) = Stored(vs)
  BY <1>1, <1>2, RelistFacts
<1>4. w \in Histories(S, R)
  BY <1>3 DEF Histories
<1>5. QED  BY <1>1, <1>3, <1>4

(* The versions of each kind of object are of their type.                  *)
LEMMA VersionTypes ==
  ASSUME NEW a \in Auths
  PROVE  /\ AuthVersions(a) \subseteq Seq(Incarnations \cup {None})
         /\ CmVersions(a) \subseteq Seq(Objects(Uids \cup {None}) \cup {None})
         /\ DsVersions(a) \subseteq Seq(Objects(Uids) \cup {None})
         /\ RbacVersions \subseteq Seq(Uids \cup {None})
<1>1. \A S, R : Histories(S, R) \subseteq Seq(S)
  BY DEF Histories
<1>2. \A S, T : S \subseteq T => Seq(S) \subseteq Seq(T)
  BY SeqMonotonic
<1>3. AuthValues(a) \subseteq Incarnations \cup {None}
  BY DEF AuthValues
<1>4. CmValues(a) \subseteq Objects(Uids \cup {None}) \cup {None}
  BY DEF CmValues
<1>5. DsValues(a) \subseteq Objects(Uids) \cup {None}
  BY DEF DsValues
<1>6. AuthVersions(a) \subseteq Seq(Incarnations \cup {None})
  BY <1>1, <1>2, <1>3, Zenon DEF AuthVersions
<1>7. CmVersions(a) \subseteq Seq(Objects(Uids \cup {None}) \cup {None})
  BY <1>1, <1>2, <1>4, Zenon DEF CmVersions
<1>8. DsVersions(a) \subseteq Seq(Objects(Uids) \cup {None})
  BY <1>1, <1>2, <1>5, Zenon DEF DsVersions
<1>9. QED  BY Zenon, <1>1, <1>6, <1>7, <1>8 DEF RbacVersions, RbacValues

LEMMA CmWrite ==
  ASSUME NEW a \in Auths, NEW vs \in CmVersions(a), NEW v \in CmValues(a),
         <<Stored(vs), v>> \in CmChanges(a)
  PROVE  /\ Write(vs, v) \in CmVersions(a) /\ Stored(Write(vs, v)) = v
         /\ (Write(vs, v) = vs /\ v = Stored(vs)) \/ Len(Write(vs, v)) # 1
  BY WriteKeeps DEF CmVersions

LEMMA DsWrite ==
  ASSUME NEW a \in Auths, NEW vs \in DsVersions(a), NEW v \in DsValues(a),
         <<Stored(vs), v>> \in Deletes(DsValues(a))
  PROVE  /\ Write(vs, v) \in DsVersions(a) /\ Stored(Write(vs, v)) = v
         /\ (Write(vs, v) = vs /\ v = Stored(vs)) \/ Len(Write(vs, v)) # 1
  BY WriteKeeps DEF DsVersions

(* Where the worker is when it is idle.                                    *)
LEMMA IdleTypes == 1 \in Kinds /\ "idle" \in Steps
  BY RecBoundsAssumption DEF Kinds, Steps

(* The objects with their types, without the rest of the state.            *)
ObjectsOK ==
    /\ auth \in [Auths -> Seq(Incarnations \cup {None})]
    /\ cm \in [Auths -> Seq(Objects(Uids \cup {None}) \cup {None})]
    /\ ds \in [Auths -> Seq(Objects(Uids) \cup {None})]
    /\ rbac \in [Namespaces -> [Kinds -> Seq(Uids \cup {None})]]
    /\ VersionsOK

ControlOK ==
    /\ lives \in 0 .. MaxLives
    /\ rbacOwner \in [Kinds -> Uids \cup {None}]
    /\ queue \in SUBSET Auths
    /\ rpc \in Steps
    /\ cur \in Auths \cup {None}
    /\ kind \in Kinds
    /\ a11r \in Incarnations \cup {None}
    /\ fresh \in BOOLEAN
    /\ disturbances \in 0 .. MaxDisturbances

LEMMA TypeSplit == RecTypeOK /\ VersionsOK <=> ObjectsOK /\ ControlOK
  BY Zenon DEF RecTypeOK, ObjectsOK, ControlOK

LEMMA TypeSplitPrimed == (RecTypeOK /\ VersionsOK)' <=> (ObjectsOK /\ ControlOK)'
  BY Zenon DEF RecTypeOK, ObjectsOK, ControlOK

(* One object gets other versions.                                         *)
LEMMA AuthSet ==
  ASSUME ObjectsOK, NEW a \in Auths, NEW w \in AuthVersions(a),
         auth' = [auth EXCEPT ![a] = w], UNCHANGED owned
  PROVE  ObjectsOK' /\ auth'[a] = w /\ \A b \in Auths \ {a} : auth'[b] = auth[b]
<1>1. w \in Seq(Incarnations \cup {None})
  BY VersionTypes
<1>2. /\ auth' \in [Auths -> Seq(Incarnations \cup {None})]
      /\ auth'[a] = w /\ \A b \in Auths \ {a} : auth'[b] = auth[b]
  BY <1>1 DEF ObjectsOK
<1>3. cm' = cm /\ ds' = ds /\ rbac' = rbac
  BY DEF owned
<1>4. \A b \in Auths : auth'[b] \in AuthVersions(b)
  BY <1>2 DEF ObjectsOK, VersionsOK
<1>5. VersionsOK'
  BY <1>3, <1>4 DEF ObjectsOK, VersionsOK
<1>6. QED  BY Zenon, <1>2, <1>3, <1>5 DEF ObjectsOK

LEMMA CmSet ==
  ASSUME ObjectsOK, NEW a \in Auths, NEW w \in CmVersions(a),
         cm' = [cm EXCEPT ![a] = w], UNCHANGED <<auth, ds, rbac>>
  PROVE  ObjectsOK' /\ cm'[a] = w /\ \A b \in Auths \ {a} : cm'[b] = cm[b]
<1>1. w \in Seq(Objects(Uids \cup {None}) \cup {None})
  BY Zenon, VersionTypes
<1>2. /\ cm' \in [Auths -> Seq(Objects(Uids \cup {None}) \cup {None})]
      /\ cm'[a] = w /\ \A b \in Auths \ {a} : cm'[b] = cm[b]
  BY Zenon, <1>1 DEF ObjectsOK
<1>3. \A b \in Auths : cm'[b] \in CmVersions(b)
  BY <1>2 DEF ObjectsOK, VersionsOK
<1>4. VersionsOK'
  BY <1>3 DEF ObjectsOK, VersionsOK
<1>5. QED  BY Zenon, <1>2, <1>4 DEF ObjectsOK

LEMMA DsSet ==
  ASSUME ObjectsOK, NEW a \in Auths, NEW w \in DsVersions(a),
         ds' = [ds EXCEPT ![a] = w], UNCHANGED <<auth, cm, rbac>>
  PROVE  ObjectsOK' /\ ds'[a] = w /\ \A b \in Auths \ {a} : ds'[b] = ds[b]
<1>1. w \in Seq(Objects(Uids) \cup {None})
  BY VersionTypes
<1>2. /\ ds' \in [Auths -> Seq(Objects(Uids) \cup {None})]
      /\ ds'[a] = w /\ \A b \in Auths \ {a} : ds'[b] = ds[b]
  BY <1>1 DEF ObjectsOK
<1>3. \A b \in Auths : ds'[b] \in DsVersions(b)
  BY <1>2 DEF ObjectsOK, VersionsOK
<1>4. VersionsOK'
  BY <1>3 DEF ObjectsOK, VersionsOK
<1>5. QED  BY Zenon, <1>2, <1>4 DEF ObjectsOK

LEMMA RbacType == RbacVersions \subseteq Seq(Uids \cup {None})
<1>1. \A S, R : Histories(S, R) \subseteq Seq(S)
  BY DEF Histories
<1>2. QED  BY <1>1 DEF RbacVersions, RbacValues

LEMMA RbacSet ==
  ASSUME ObjectsOK, NEW n \in Namespaces, NEW k \in Kinds, rbac'[n][k] \in RbacVersions,
         rbac' \in [Namespaces -> [Kinds -> Seq(Uids \cup {None})]],
         \A m \in Namespaces, j \in Kinds : <<m, j>> # <<n, k>> => rbac'[m][j] = rbac[m][j],
         UNCHANGED <<auth, cm, ds>>
  PROVE  ObjectsOK'
<1>1. \A m \in Namespaces, j \in Kinds : rbac'[m][j] \in RbacVersions
  BY Zenon DEF ObjectsOK, VersionsOK
<1>2. VersionsOK'
  BY <1>1 DEF ObjectsOK, VersionsOK
<1>3. QED  BY Zenon, <1>2 DEF ObjectsOK

-----------------------------------------------------------------------------
(* Steps around the worker, which queue or put off what they change.       *)

WorkerAside ==
    /\ UNCHANGED worker /\ queue \subseteq queue'
    /\ \A a \in Auths \ queue' :
          /\ Cached(auth'[a]) = Cached(auth[a])
          /\ Len(auth'[a]) = 1 => auth'[a] = auth[a]
          /\ Len(cm'[a]) = 1 =>
                \/ cm'[a] = cm[a]
                \/ Stored(cm'[a]) # None /\ Stored(cm'[a]).owner = None
          /\ Len(ds'[a]) = 1 => ds'[a] = ds[a]
          /\ Auths = {a} =>
                \A k \in Kinds : Len(rbac'[NsOf[a]][k]) = 1 =>
                                    rbac'[NsOf[a]][k] = rbac[NsOf[a]][k]

(* The values of the versions.                                             *)
LEMMA ValueFacts ==
  ASSUME ObjectsOK, NEW a \in Auths
  PROVE  /\ Stored(auth[a]) \in AuthValues(a) /\ Cached(auth[a]) \in AuthValues(a)
         /\ Stored(cm[a]) \in CmValues(a) /\ Cached(cm[a]) \in CmValues(a)
         /\ Stored(ds[a]) \in DsValues(a) /\ Cached(ds[a]) \in DsValues(a)
         /\ Len(auth[a]) = 1 => Cached(auth[a]) = Stored(auth[a])
         /\ Len(cm[a]) = 1 => Cached(cm[a]) = Stored(cm[a])
         /\ Len(ds[a]) = 1 => Cached(ds[a]) = Stored(ds[a])
<1>1. auth[a] \in AuthVersions(a) /\ cm[a] \in CmVersions(a) /\ ds[a] \in DsVersions(a)
  BY DEF ObjectsOK, VersionsOK
<1>2. /\ Stored(auth[a]) \in AuthValues(a) /\ Cached(auth[a]) \in AuthValues(a)
      /\ Len(auth[a]) = 1 => Cached(auth[a]) = Stored(auth[a])
  <2>1. PICK R : auth[a] \in Histories(AuthValues(a), R)
    BY <1>1 DEF AuthVersions
  <2>2. QED  BY <2>1, HistoryFacts
<1>3. /\ Stored(cm[a]) \in CmValues(a) /\ Cached(cm[a]) \in CmValues(a)
      /\ Len(cm[a]) = 1 => Cached(cm[a]) = Stored(cm[a])
  BY Zenon, <1>1, HistoryFacts DEF CmVersions
<1>4. /\ Stored(ds[a]) \in DsValues(a) /\ Cached(ds[a]) \in DsValues(a)
      /\ Len(ds[a]) = 1 => Cached(ds[a]) = Stored(ds[a])
  BY Zenon, <1>1, HistoryFacts DEF DsVersions
<1>5. QED  BY <1>2, <1>3, <1>4

LEMMA RbacFacts ==
  ASSUME ObjectsOK, NEW n \in Namespaces, NEW k \in Kinds
  PROVE  /\ Stored(rbac[n][k]) \in RbacValues /\ Cached(rbac[n][k]) \in RbacValues
         /\ Len(rbac[n][k]) = 1 => Cached(rbac[n][k]) = Stored(rbac[n][k])
<1>1. rbac[n][k] \in RbacVersions
  BY DEF ObjectsOK, VersionsOK
<1>2. QED  BY Zenon, <1>1, HistoryFacts DEF RbacVersions

(* An incarnation of a has a UID that names a; nobody is not a UID.        *)
LEMMA UidFacts ==
  /\ \A u \in Uids : u # None /\ u[1] \in Auths /\ u = <<u[1], u[2]>>
  /\ \A v \in Incarnations : v # None /\ v.uid \in Uids /\ v.spec \in Specs
  /\ \A v \in Objects(Uids \cup {None}) :
        v # None /\ v.owner \in Uids \cup {None} /\ v.content \in Specs
  /\ \A v \in Objects(Uids) : v # None /\ v.owner \in Uids /\ v.content \in Specs
<1>1. \A v \in Objects(Uids) : v \in Objects(Uids \cup {None})
  BY DEF Objects
<1>2. \A u \in Uids : u # None /\ u[1] \in Auths /\ u = <<u[1], u[2]>>
  BY NoneAssumption DEF Uids
<1>3. \A v \in Incarnations : v # None /\ v.uid \in Uids /\ v.spec \in Specs
  BY NoneAssumption DEF Incarnations
<1>4. \A v \in Objects(Uids \cup {None}) :
         v # None /\ v.owner \in Uids \cup {None} /\ v.content \in Specs
  BY NoneAssumption DEF Objects
<1>5. \A v \in Objects(Uids) : v.owner \in Uids
  BY DEF Objects
<1>6. QED  BY Zenon, <1>1, <1>2, <1>3, <1>4, <1>5

(* An owner is asked for: the requests are for Authenticators.             *)
LEMMA OwnerFacts ==
  /\ \A n, o : o = None => OwnerIn(n, o) = {}
  /\ \A n : \A o \in Uids :
        OwnerIn(n, o) \subseteq Auths /\ (NsOf[o[1]] = n => o[1] \in OwnerIn(n, o))
<1>1. \A u \in Uids : u # None /\ u[1] \in Auths
  BY UidFacts
<1>2. QED  BY <1>1 DEF OwnerIn

LEMMA AsideKeeps ==
  ASSUME RecInv, WorkerAside, ObjectsOK', ControlOK'
  PROVE  RecInv'
<1>1. ObjectsOK /\ WorkerOK /\ WakeInv
  BY TypeSplit DEF RecInv
<1>2. rpc' = rpc /\ cur' = cur /\ kind' = kind /\ a11r' = a11r /\ queue \subseteq queue'
  BY DEF WorkerAside, worker
<1>3. WorkerOK'
  <2>1. cur \in Auths \ queue' => Cached(auth'[cur]) = Cached(auth[cur])
    BY DEF WorkerAside
  <2>2. QED  BY <1>1, <1>2, <2>1 DEF WorkerOK
<1>4. WakeInv'
  <2>1. SUFFICES ASSUME NEW a \in Auths
                 PROVE  (CmAt(a) /\ DsAt(a) /\ (Auths = {a} => \A k \in Kinds : RbacAt(a, k)))'
    BY DEF WakeInv
  <2>2. CASE a \in queue'
    BY <2>2 DEF CmAt, DsAt, RbacAt, Unprompted
  <2>3. CASE Len(auth'[a]) # 1 \/ Stored(auth'[a]) = None
    BY <2>3 DEF CmAt, DsAt, RbacAt, Unprompted
  <2>4. CASE a \notin queue' /\ Len(auth'[a]) = 1 /\ Stored(auth'[a]) # None
    <3>1. /\ auth'[a] = auth[a] /\ a \notin queue
          /\ Len(cm'[a]) = 1 =>
                \/ cm'[a] = cm[a]
                \/ Stored(cm'[a]) # None /\ Stored(cm'[a]).owner = None
          /\ Len(ds'[a]) = 1 => ds'[a] = ds[a]
          /\ Auths = {a} =>
                \A k \in Kinds : Len(rbac'[NsOf[a]][k]) = 1 =>
                                    rbac'[NsOf[a]][k] = rbac[NsOf[a]][k]
      BY <1>2, <2>4 DEF WorkerAside
    <3>2. Stored(auth[a]).uid # None
      <4>1. Stored(auth[a]) \in AuthValues(a) /\ Stored(auth[a]) # None
        BY <1>1, <2>4, <3>1, ValueFacts
      <4>2. QED  BY <4>1, UidFacts DEF AuthValues
    <3>3. CmAt(a) /\ DsAt(a) /\ (Auths = {a} => \A k \in Kinds : RbacAt(a, k))
      BY <1>1 DEF WakeInv
    <3>4. CmAt(a)'
      BY <1>2, <3>1, <3>2, <3>3 DEF CmAt, Unprompted, Fits
    <3>5. DsAt(a)'
      BY <1>2, <3>1, <3>3 DEF DsAt, Unprompted
    <3>6. ASSUME Auths = {a}, NEW k \in Kinds PROVE RbacAt(a, k)'
      BY <1>2, <3>1, <3>3, <3>6 DEF RbacAt, Unprompted
    <3>7. QED  BY <3>4, <3>5, <3>6
  <2>5. QED  BY <2>2, <2>3, <2>4
<1>5. QED  BY <1>3, <1>4, TypeSplitPrimed DEF RecInv

LEMMA InformAuthKeeps ==
  ASSUME RecInv, NEW b \in Auths, InformAuth(b)
  PROVE  RecInv'
<1>1. ObjectsOK /\ ControlOK
  BY TypeSplit DEF RecInv
<1>2. auth[b] \in AuthVersions(b)
  BY <1>1 DEF ObjectsOK, VersionsOK
<1>3. Tail(auth[b]) \in AuthVersions(b)
  BY <1>2, TailKeeps DEF InformAuth, AuthVersions
<1>4. ObjectsOK' /\ \A a \in Auths \ {b} : auth'[a] = auth[a]
  BY Zenon, <1>1, <1>3, AuthSet DEF InformAuth
<1>5. ControlOK'
  BY <1>1 DEF ControlOK, InformAuth, worker
<1>6. WorkerAside
  BY <1>4 DEF WorkerAside, InformAuth, worker, owned
<1>7. QED  BY <1>4, <1>5, <1>6, AsideKeeps

LEMMA InformCmKeeps ==
  ASSUME RecInv, NEW b \in Auths, InformCm(b)
  PROVE  RecInv'
<1>1. ObjectsOK /\ ControlOK
  BY TypeSplit DEF RecInv
<1>2. cm[b] \in CmVersions(b) /\ Len(cm[b]) > 1
  BY <1>1 DEF ObjectsOK, VersionsOK, InformCm
<1>3. <<cm[b][1], cm[b][2]>> \in CmChanges(b)
  BY <1>2, HistoryFacts DEF CmVersions
<1>4. Tail(cm[b]) \in CmVersions(b) /\ Cached(Tail(cm[b])) = cm[b][2]
  BY <1>2, TailKeeps DEF CmVersions
<1>5. ObjectsOK' /\ cm'[b] = Tail(cm[b]) /\ \A a \in Auths \ {b} : cm'[a] = cm[a]
  BY Zenon, <1>1, <1>4, CmSet DEF InformCm, cluster
<1>6. PICK v, w : v = cm[b][1] /\ w = cm[b][2]
  OBVIOUS
<1>7. v \in CmValues(b) /\ w \in CmValues(b) /\ (w = None => v # None /\ v.owner # None)
  BY <1>3, <1>6 DEF CmChanges
<1>8. queue' = queue \cup OwnerIn(NsOf[b], Owner(v)) \cup OwnerIn(NsOf[b], Owner(w))
  BY <1>6 DEF InformCm, Requests
<1>9. \A x \in CmValues(b) :
         /\ Owner(x) \in Uids \cup {None}
         /\ Owner(x) # None => Owner(x)[1] = b /\ x # None /\ Owner(x) = x.owner
         /\ x # None => Owner(x) = x.owner
  BY UidFacts DEF CmValues, Owner
<1>10. queue' \in SUBSET Auths
  BY <1>1, <1>7, <1>8, <1>9, OwnerFacts DEF ControlOK
<1>11. ControlOK'
  BY <1>1, <1>10 DEF ControlOK, InformCm, cluster, worker
<1>12. b \notin queue' => w # None /\ w.owner = None
  <2>1. ASSUME NEW x \in CmValues(b), Owner(x) # None PROVE b \in OwnerIn(NsOf[b], Owner(x))
    BY <1>9, <2>1, OwnerFacts
  <2>2. QED  BY <1>7, <1>8, <1>9, <2>1
<1>13. b \notin queue' /\ Len(cm'[b]) = 1 => Stored(cm'[b]) # None /\ Stored(cm'[b]).owner = None
  <2>1. Len(Tail(cm[b])) = 1 => Cached(Tail(cm[b])) = Stored(Tail(cm[b]))
    BY Zenon, <1>4, HistoryFacts DEF CmVersions
  <2>2. QED  BY <1>4, <1>5, <1>6, <1>12, <2>1
<1>14. WorkerAside
  BY <1>5, <1>8, <1>13 DEF WorkerAside, InformCm, cluster, worker
<1>15. QED  BY <1>5, <1>11, <1>14, AsideKeeps

LEMMA InformDsKeeps ==
  ASSUME RecInv, NEW b \in Auths, InformDs(b)
  PROVE  RecInv'
<1>1. ObjectsOK /\ ControlOK
  BY TypeSplit DEF RecInv
<1>2. ds[b] \in DsVersions(b) /\ Len(ds[b]) > 1
  BY <1>1 DEF ObjectsOK, VersionsOK, InformDs
<1>3. <<ds[b][1], ds[b][2]>> \in Deletes(DsValues(b))
  BY <1>2, HistoryFacts DEF DsVersions
<1>4. Tail(ds[b]) \in DsVersions(b)
  BY <1>2, TailKeeps DEF DsVersions
<1>5. ObjectsOK' /\ ds'[b] = Tail(ds[b]) /\ \A a \in Auths \ {b} : ds'[a] = ds[a]
  BY Zenon, <1>1, <1>4, DsSet DEF InformDs, cluster
<1>6. PICK v, w : v = ds[b][1] /\ w = ds[b][2]
  OBVIOUS
<1>7. v \in DsValues(b) /\ w \in DsValues(b) /\ (w = None => v # None)
  BY <1>3, <1>6 DEF Deletes
<1>8. queue' = queue \cup OwnerIn(NsOf[b], Owner(v)) \cup OwnerIn(NsOf[b], Owner(w))
  BY <1>6 DEF InformDs, Requests
<1>9. \A x \in DsValues(b) :
         /\ Owner(x) \in Uids \cup {None}
         /\ x # None => Owner(x) \in Uids /\ Owner(x)[1] = b
  BY UidFacts DEF DsValues, Owner
<1>10. queue' \in SUBSET Auths
  BY <1>1, <1>7, <1>8, <1>9, OwnerFacts DEF ControlOK
<1>11. ControlOK'
  BY <1>1, <1>10 DEF ControlOK, InformDs, cluster, worker
<1>12. b \in queue'
  <2>1. ASSUME NEW x \in DsValues(b), x # None PROVE b \in OwnerIn(NsOf[b], Owner(x))
    BY <1>9, <2>1, OwnerFacts
  <2>2. QED  BY <1>7, <1>8, <2>1
<1>13. WorkerAside
  BY <1>5, <1>8, <1>12 DEF WorkerAside, InformDs, cluster, worker
<1>14. QED  BY <1>5, <1>11, <1>13, AsideKeeps

LEMMA InformRbacKeeps ==
  ASSUME RecInv, NEW n \in Namespaces, NEW j \in Kinds, InformRbac(n, j)
  PROVE  RecInv'
<1>1. ObjectsOK /\ ControlOK
  BY TypeSplit DEF RecInv
<1>2. rbac[n][j] \in RbacVersions /\ Len(rbac[n][j]) > 1
  BY <1>1 DEF ObjectsOK, VersionsOK, InformRbac
<1>3. <<rbac[n][j][1], rbac[n][j][2]>> \in Deletes(RbacValues)
  BY <1>2, HistoryFacts DEF RbacVersions
<1>4. Tail(rbac[n][j]) \in RbacVersions
  BY <1>2, TailKeeps DEF RbacVersions
<1>5. /\ ObjectsOK'
      /\ \A m \in Namespaces, k \in Kinds : <<m, k>> # <<n, j>> => rbac'[m][k] = rbac[m][k]
  <2>1. rbac' = [rbac EXCEPT ![n][j] = Tail(rbac[n][j])] /\ UNCHANGED <<auth, cm, ds>>
    BY DEF InformRbac, cluster
  <2>2. /\ rbac \in [Namespaces -> [Kinds -> Seq(Uids \cup {None})]]
        /\ Tail(rbac[n][j]) \in Seq(Uids \cup {None})
    BY Zenon, <1>1, <1>4, RbacType DEF ObjectsOK
  <2>3. /\ rbac' \in [Namespaces -> [Kinds -> Seq(Uids \cup {None})]]
        /\ rbac'[n][j] = Tail(rbac[n][j])
        /\ \A m \in Namespaces, k \in Kinds : <<m, k>> # <<n, j>> => rbac'[m][k] = rbac[m][k]
    BY <2>1, <2>2
  <2>4. QED  BY <1>1, <1>4, <2>1, <2>3, RbacSet
<1>6. PICK v, w : v = rbac[n][j][1] /\ w = rbac[n][j][2]
  OBVIOUS
<1>7. v \in Uids \cup {None} /\ w \in Uids \cup {None} /\ (w = None => v # None)
  BY <1>3, <1>6 DEF Deletes, RbacValues
<1>8. queue' = queue \cup OwnerIn(n, v) \cup OwnerIn(n, w)
  BY <1>6 DEF InformRbac, Requests
<1>9. queue' \in SUBSET Auths
  BY <1>1, <1>7, <1>8, OwnerFacts DEF ControlOK
<1>10. ControlOK'
  BY <1>1, <1>9 DEF ControlOK, InformRbac, cluster, worker
<1>11. ASSUME NEW a \in Auths, a \notin queue', Auths = {a}
       PROVE  NsOf[a] \in Namespaces \ {n}
  <2>1. ASSUME NEW x \in Uids, NsOf[a] = n PROVE a \in OwnerIn(n, x)
    <3>1. x[1] = a
      BY <1>11, UidFacts
    <3>2. QED  BY <2>1, <3>1, OwnerFacts
  <2>2. QED  BY <1>7, <1>8, <1>11, <2>1, NsAssumption
<1>12. ASSUME NEW a \in Auths, a \notin queue', Auths = {a}, NEW k \in Kinds
       PROVE  rbac'[NsOf[a]][k] = rbac[NsOf[a]][k]
  BY <1>5, <1>11, <1>12
<1>13. WorkerAside
  BY <1>8, <1>12 DEF WorkerAside, InformRbac, cluster, worker
<1>14. QED  BY <1>5, <1>10, <1>13, AsideKeeps

LEMMA StatusWrittenKeeps ==
  ASSUME RecInv, NEW b \in Auths, StatusWritten(b)
  PROVE  RecInv'
<1>1. ObjectsOK /\ ControlOK
  BY TypeSplit DEF RecInv
<1>2. ObjectsOK'
  BY Zenon, <1>1 DEF ObjectsOK, VersionsOK, StatusWritten, cluster, owned
<1>3. ControlOK'
  BY <1>1 DEF ControlOK, StatusWritten, cluster, worker
<1>4. WorkerAside
  BY DEF WorkerAside, StatusWritten, cluster, owned, worker
<1>5. QED  BY <1>2, <1>3, <1>4, AsideKeeps

(* An Authenticator is created, edited or deleted.                         *)
LEMMA SetAuthKeeps ==
  ASSUME RecInv, NEW b \in Auths, NEW v \in AuthValues(b), SetAuth(b, v), ControlOK'
  PROVE  RecInv'
<1>1. ObjectsOK
  BY TypeSplit DEF RecInv
<1>2. auth[b] \in AuthVersions(b)
  BY <1>1 DEF ObjectsOK, VersionsOK
<1>3. <<Stored(auth[b]), v>> \in AuthValues(b) \X AuthValues(b)
  BY <1>1, ValueFacts
<1>4. /\ Write(auth[b], v) \in AuthVersions(b) /\ Cached(Write(auth[b], v)) = Cached(auth[b])
      /\ Write(auth[b], v) = auth[b] \/ Len(Write(auth[b], v)) # 1
  BY <1>2, <1>3, WriteKeeps DEF AuthVersions
<1>5. /\ ObjectsOK' /\ auth'[b] = Write(auth[b], v)
      /\ \A a \in Auths \ {b} : auth'[a] = auth[a]
  BY Zenon, <1>1, <1>4, AuthSet DEF SetAuth
<1>6. ASSUME NEW a \in Auths
      PROVE  Cached(auth'[a]) = Cached(auth[a]) /\ (Len(auth'[a]) = 1 => auth'[a] = auth[a])
  <2>1. CASE a = b
    BY <1>4, <1>5, <2>1
  <2>2. CASE a # b
    BY <1>5, <2>2
  <2>3. QED  BY <2>1, <2>2
<1>7. WorkerAside
  BY <1>6 DEF WorkerAside, SetAuth, owned, worker
<1>8. QED  BY <1>5, <1>7, AsideKeeps

LEMMA AuthenticatorKeeps ==
  ASSUME RecInv, NEW b \in Auths,
         \/ DeleteAuthenticator(b)
         \/ \E s \in Specs : CreateAuthenticator(b, s) \/ EditAuthenticator(b, s)
  PROVE  RecInv'
<1>1. ObjectsOK /\ ControlOK
  BY TypeSplit DEF RecInv
<1>2. CASE DeleteAuthenticator(b)
  <2>1. None \in AuthValues(b)
    BY DEF AuthValues
  <2>2. ControlOK'
    BY <1>1, <1>2 DEF ControlOK, DeleteAuthenticator, SetAuth, worker
  <2>3. QED  BY <1>2, <2>1, <2>2, SetAuthKeeps DEF DeleteAuthenticator
<1>3. ASSUME NEW s \in Specs, CreateAuthenticator(b, s) PROVE RecInv'
  <2>1. lives' \in 1 .. MaxLives
    BY <1>1, <1>3, RecBoundsAssumption DEF ControlOK, CreateAuthenticator
  <2>2. PICK v : v = [uid |-> <<b, lives'>>, spec |-> s]
    OBVIOUS
  <2>3. v \in Incarnations /\ v.uid[1] = b
    BY <2>1, <2>2 DEF Incarnations, Uids
  <2>4. v \in AuthValues(b)
    BY <2>3 DEF AuthValues
  <2>5. ControlOK'
    BY <1>1, <1>3, <2>1 DEF ControlOK, CreateAuthenticator, SetAuth, worker
  <2>6. QED  BY <1>3, <2>2, <2>4, <2>5, SetAuthKeeps DEF CreateAuthenticator
<1>4. ASSUME NEW s \in Specs, EditAuthenticator(b, s) PROVE RecInv'
  <2>1. Stored(auth[b]) \in Incarnations /\ Stored(auth[b]).uid[1] = b
    BY <1>1, <1>4, ValueFacts DEF EditAuthenticator, Exists, AuthValues
  <2>2. PICK v : v = [Stored(auth[b]) EXCEPT !.spec = s]
    OBVIOUS
  <2>3. v \in Incarnations /\ v.uid[1] = b
    BY <1>4, <2>1, <2>2 DEF Incarnations
  <2>4. v \in AuthValues(b)
    BY <2>3 DEF AuthValues
  <2>5. ControlOK'
    BY <1>1, <1>4, RecBoundsAssumption
       DEF ControlOK, EditAuthenticator, Disturb, SetAuth, worker
  <2>6. QED  BY <1>4, <2>2, <2>4, <2>5, SetAuthKeeps DEF EditAuthenticator
<1>5. QED  BY <1>2, <1>3, <1>4

(* A ConfigMap, a DaemonSet or an RBAC object is deleted.                  *)
LEMMA CmDeleteKeeps ==
  ASSUME RecInv, NEW b \in Auths, GarbageCm(b), cm' = [cm EXCEPT ![b] = Write(@, None)],
         UNCHANGED <<cluster, ds, rbac, rbacOwner, queue, worker, disturbances>>
  PROVE  RecInv'
<1>1. ObjectsOK /\ ControlOK
  BY TypeSplit DEF RecInv
<1>2. cm[b] \in CmVersions(b) /\ Stored(cm[b]) \in CmValues(b)
  BY Zenon, <1>1, ValueFacts DEF ObjectsOK, VersionsOK
<1>3. Stored(cm[b]) # None /\ Stored(cm[b]).owner # None
  BY DEF GarbageCm, Garbage, Owner
<1>4. None \in CmValues(b) /\ <<Stored(cm[b]), None>> \in CmChanges(b)
  BY <1>2, <1>3 DEF CmValues, CmChanges
<1>5. /\ Write(cm[b], None) \in CmVersions(b)
      /\ Write(cm[b], None) = cm[b] \/ Len(Write(cm[b], None)) # 1
  BY <1>2, <1>4, CmWrite
<1>6. /\ ObjectsOK' /\ cm'[b] = Write(cm[b], None)
      /\ \A a \in Auths \ {b} : cm'[a] = cm[a]
  BY Zenon, <1>1, <1>5, CmSet DEF cluster
<1>7. ControlOK'
  BY <1>1 DEF ControlOK, cluster, worker
<1>8. \A a \in Auths : Len(cm'[a]) = 1 => cm'[a] = cm[a]
  BY <1>5, <1>6
<1>9. WorkerAside
  BY <1>8 DEF WorkerAside, cluster, worker
<1>10. QED  BY <1>6, <1>7, <1>9, AsideKeeps

LEMMA DsDeleteKeeps ==
  ASSUME RecInv, NEW b \in Auths, Stored(ds[b]) # None,
         ds' = [ds EXCEPT ![b] = Write(@, None)],
         UNCHANGED <<cluster, cm, rbac, rbacOwner, queue, worker>>,
         disturbances' \in 0 .. MaxDisturbances
  PROVE  RecInv'
<1>1. ObjectsOK /\ ControlOK
  BY TypeSplit DEF RecInv
<1>2. ds[b] \in DsVersions(b) /\ Stored(ds[b]) \in DsValues(b)
  BY Zenon, <1>1, ValueFacts DEF ObjectsOK, VersionsOK
<1>3. None \in DsValues(b) /\ <<Stored(ds[b]), None>> \in Deletes(DsValues(b))
  BY <1>2 DEF DsValues, Deletes
<1>4. /\ Write(ds[b], None) \in DsVersions(b)
      /\ Write(ds[b], None) = ds[b] \/ Len(Write(ds[b], None)) # 1
  BY <1>2, <1>3, DsWrite
<1>5. /\ ObjectsOK' /\ ds'[b] = Write(ds[b], None)
      /\ \A a \in Auths \ {b} : ds'[a] = ds[a]
  BY Zenon, <1>1, <1>4, DsSet DEF cluster
<1>6. ControlOK'
  BY <1>1 DEF ControlOK, cluster, worker
<1>7. \A a \in Auths : Len(ds'[a]) = 1 => ds'[a] = ds[a]
  BY <1>4, <1>5
<1>8. WorkerAside
  BY <1>7 DEF WorkerAside, cluster, worker
<1>9. QED  BY <1>5, <1>6, <1>8, AsideKeeps

LEMMA RbacDeleteKeeps ==
  ASSUME RecInv, NEW n \in Namespaces, NEW j \in Kinds, CollectRbac(n, j)
  PROVE  RecInv'
<1>1. ObjectsOK /\ ControlOK
  BY TypeSplit DEF RecInv
<1>2. rbac[n][j] \in RbacVersions /\ Stored(rbac[n][j]) \in RbacValues
  BY Zenon, <1>1, RbacFacts DEF ObjectsOK, VersionsOK
<1>3. Stored(rbac[n][j]) # None
  BY DEF CollectRbac, GarbageRbac, Garbage
<1>4. None \in RbacValues /\ <<Stored(rbac[n][j]), None>> \in Deletes(RbacValues)
  BY <1>2, <1>3 DEF RbacValues, Deletes
<1>5. /\ Write(rbac[n][j], None) \in RbacVersions
      /\ Write(rbac[n][j], None) = rbac[n][j] \/ Len(Write(rbac[n][j], None)) # 1
  BY <1>2, <1>4, WriteKeeps DEF RbacVersions
<1>6. /\ ObjectsOK' /\ rbac'[n][j] = Write(rbac[n][j], None)
      /\ \A m \in Namespaces, k \in Kinds : <<m, k>> # <<n, j>> => rbac'[m][k] = rbac[m][k]
  <2>1. rbac' = [rbac EXCEPT ![n][j] = Write(rbac[n][j], None)] /\ UNCHANGED <<auth, cm, ds>>
    BY DEF CollectRbac, cluster
  <2>2. /\ rbac \in [Namespaces -> [Kinds -> Seq(Uids \cup {None})]]
        /\ Write(rbac[n][j], None) \in Seq(Uids \cup {None})
    BY <1>1, <1>5, RbacType DEF ObjectsOK
  <2>3. /\ rbac' \in [Namespaces -> [Kinds -> Seq(Uids \cup {None})]]
        /\ rbac'[n][j] = Write(rbac[n][j], None)
        /\ \A m \in Namespaces, k \in Kinds : <<m, k>> # <<n, j>> => rbac'[m][k] = rbac[m][k]
    BY <2>1, <2>2
  <2>4. QED  BY <1>1, <1>5, <2>1, <2>3, RbacSet
<1>7. ControlOK'
  BY <1>1 DEF ControlOK, CollectRbac, cluster, worker
<1>8. \A m \in Namespaces, k \in Kinds :
         Len(rbac'[m][k]) = 1 => rbac'[m][k] = rbac[m][k]
  BY <1>5, <1>6
<1>9. \A a \in Auths : NsOf[a] \in Namespaces
  BY NsAssumption
<1>10. WorkerAside
  BY <1>8, <1>9 DEF WorkerAside, CollectRbac, cluster, worker
<1>11. QED  BY <1>6, <1>7, <1>10, AsideKeeps

LEMMA DeletionKeeps ==
  ASSUME RecInv, NEW b \in Auths, DeleteDaemonSet(b) \/ Collect(b)
  PROVE  RecInv'
<1>1. disturbances \in 0 .. MaxDisturbances
  BY TypeSplit DEF RecInv, ControlOK
<1>2. CASE DeleteDaemonSet(b)
  <2>1. disturbances' \in 0 .. MaxDisturbances
    BY <1>1, <1>2, RecBoundsAssumption DEF DeleteDaemonSet, Disturb
  <2>2. QED  BY Zenon, <1>2, <2>1, DsDeleteKeeps DEF DeleteDaemonSet
<1>3. ASSUME GarbageDs(b), ds' = [ds EXCEPT ![b] = Write(@, None)], UNCHANGED cm,
             UNCHANGED <<cluster, rbac, rbacOwner, queue, worker, disturbances>>
      PROVE  RecInv'
  <2>1. Stored(ds[b]) # None
    BY <1>3 DEF GarbageDs, Garbage, Owner
  <2>2. QED  BY Zenon, <1>1, <1>3, <2>1, DsDeleteKeeps
<1>4. QED  BY <1>2, <1>3, CmDeleteKeeps DEF Collect

-----------------------------------------------------------------------------
(* Steps of the worker.                                                    *)

(* A failed call leaves everything to the request it queues again.         *)
LEMMA FailKeeps ==
  ASSUME RecInv, rpc # "idle", Fail, UNCHANGED <<cluster, owned>>,
         rbacOwner' \in [Kinds -> Uids \cup {None}], disturbances' \in 0 .. MaxDisturbances
  PROVE  RecInv'
<1>1. ObjectsOK /\ ControlOK /\ WorkerOK /\ WakeInv
  BY TypeSplit DEF RecInv
<1>2. /\ auth' = auth /\ cm' = cm /\ ds' = ds /\ rbac' = rbac /\ lives' = lives
      /\ rpc' = "idle" /\ cur' = None /\ kind' = 1 /\ a11r' = None /\ fresh' = FALSE
      /\ queue' = queue \cup {cur}
  BY DEF Fail, Idle, cluster, owned
<1>3. PICK c \in Auths : c = cur
  BY <1>1 DEF WorkerOK
<1>4. ObjectsOK'
  BY Zenon, <1>1, <1>2 DEF ObjectsOK, VersionsOK
<1>5. ControlOK'
  <2>1. queue' \in SUBSET Auths
    BY <1>1, <1>2, <1>3 DEF ControlOK
  <2>2. 1 \in Kinds /\ "idle" \in Steps
    BY IdleTypes
  <2>3. QED  BY Zenon, <1>1, <1>2, <2>1, <2>2 DEF ControlOK
<1>6. WorkerOK'
  BY <1>2 DEF WorkerOK
<1>7. ASSUME NEW a \in Auths
      PROVE  (CmAt(a) /\ DsAt(a) /\ (Auths = {a} => \A k \in Kinds : RbacAt(a, k)))'
  <2>1. CASE a = c
    BY <1>2, <1>3, <2>1 DEF CmAt, DsAt, RbacAt, Unprompted
  <2>2. CASE a # c
    <3>1. CmAt(a) /\ DsAt(a)
      BY <1>1 DEF WakeInv
    <3>2. CmAt(a)' /\ DsAt(a)'
      BY <1>2, <1>3, <2>2, <3>1 DEF CmAt, DsAt, Unprompted
    <3>3. QED  BY <2>2, <3>2
  <2>3. QED  BY <2>1, <2>2
<1>8. QED  BY <1>4, <1>5, <1>6, <1>7, TypeSplitPrimed DEF RecInv, WakeInv

(* A call that succeeds concerns the Authenticator at hand only.           *)
LEMMA CallKeeps ==
  ASSUME RecInv, rpc # "idle", NEW c \in Auths, c = cur,
         ObjectsOK', ControlOK', WorkerOK', auth' = auth, queue' = queue,
         \A a \in Auths \ {c} : cm'[a] = cm[a] /\ ds'[a] = ds[a],
         CmAt(c)', DsAt(c)', Auths = {c} => \A k \in Kinds : RbacAt(c, k)'
  PROVE  RecInv'
<1>1. WakeInv
  BY DEF RecInv
<1>2. ASSUME NEW a \in Auths
      PROVE  (CmAt(a) /\ DsAt(a) /\ (Auths = {a} => \A k \in Kinds : RbacAt(a, k)))'
  <2>1. CASE a = c
    BY <2>1
  <2>2. CASE a # c
    <3>1. CmAt(a) /\ DsAt(a)
      BY <1>1 DEF WakeInv
    <3>2. CmAt(a)' /\ DsAt(a)'
      BY <2>2, <3>1 DEF CmAt, DsAt, Unprompted
    <3>3. QED  BY <2>2, <3>2
  <2>3. QED  BY <2>1, <2>2
<1>3. QED  BY <1>2, TypeSplitPrimed DEF RecInv, WakeInv

(* Reconcile works with the stored Authenticator, unless something will    *)
(* call it again.                                                          *)
LEMMA WorkerFacts ==
  ASSUME RecInv, rpc # "idle"
  PROVE  /\ cur \in Auths /\ a11r \in Incarnations /\ a11r.uid[1] = cur
         /\ a11r.uid \in Uids /\ a11r.spec \in Specs
         /\ cur \notin queue /\ Len(auth[cur]) = 1 => a11r = Stored(auth[cur])
<1>1. ObjectsOK /\ WorkerOK
  BY TypeSplit DEF RecInv
<1>2. /\ cur \in Auths /\ a11r \in Incarnations /\ a11r.uid[1] = cur
      /\ a11r = Cached(auth[cur]) \/ cur \in queue
  BY <1>1 DEF WorkerOK
<1>3. Len(auth[cur]) = 1 => Cached(auth[cur]) = Stored(auth[cur])
  BY <1>1, <1>2, ValueFacts
<1>4. QED  BY <1>2, <1>3, UidFacts

LEMMA GetAuthenticatorKeeps ==
  ASSUME RecInv, NEW b \in Auths, GetAuthenticator(b)
  PROVE  RecInv'
<1>1. ObjectsOK /\ ControlOK /\ WorkerOK /\ WakeInv
  BY TypeSplit DEF RecInv
<1>2. /\ auth' = auth /\ cm' = cm /\ ds' = ds /\ rbac' = rbac /\ lives' = lives
      /\ rbacOwner' = rbacOwner /\ disturbances' = disturbances
      /\ queue' = queue \ {b} /\ rpc = "idle" /\ kind' = kind /\ fresh' = fresh
      /\ \/ Cached(auth[b]) = None /\ rpc' = "idle" /\ cur' = cur /\ a11r' = a11r
         \/ /\ Cached(auth[b]) # None
            /\ rpc' = "getCm" /\ cur' = b /\ a11r' = Cached(auth[b])
  BY DEF GetAuthenticator, cluster, owned, worker
<1>3. Cached(auth[b]) # None => Cached(auth[b]) \in Incarnations /\ Cached(auth[b]).uid[1] = b
  BY <1>1, ValueFacts DEF AuthValues
<1>4. ObjectsOK'
  BY Zenon, <1>1, <1>2 DEF ObjectsOK, VersionsOK
<1>5. ControlOK'
  BY <1>1, <1>2, <1>3 DEF ControlOK, Steps
<1>6. WorkerOK'
  BY <1>1, <1>2, <1>3 DEF WorkerOK, CmSteps
<1>7. ASSUME NEW a \in Auths
      PROVE  (CmAt(a) /\ DsAt(a) /\ (Auths = {a} => \A k \in Kinds : RbacAt(a, k)))'
  <2>1. CASE a = b
    <3>1. CASE Cached(auth[b]) = None
      <4>1. Len(auth'[a]) = 1 => Stored(auth'[a]) = None
        BY <1>1, <1>2, <2>1, <3>1, ValueFacts
      <4>2. QED  BY <4>1 DEF CmAt, DsAt, RbacAt, Unprompted
    <3>2. CASE rpc' = "getCm" /\ cur' = b
      BY <2>1, <3>2 DEF CmAt, DsAt, RbacAt, CmSteps
    <3>3. QED  BY <1>2, <3>1, <3>2
  <2>2. CASE a # b
    <3>1. CmAt(a) /\ DsAt(a) /\ (Auths = {a} => \A k \in Kinds : RbacAt(a, k))
      BY <1>1 DEF WakeInv
    <3>2. CmAt(a)' /\ DsAt(a)'
      BY <1>2, <2>2, <3>1 DEF CmAt, DsAt, Unprompted, CmSteps
    <3>3. QED  BY <2>2, <3>2
  <2>3. QED  BY <2>1, <2>2
<1>8. QED  BY <1>4, <1>5, <1>6, <1>7, TypeSplitPrimed DEF RecInv, WakeInv

LEMMA GetConfigMapKeeps ==
  ASSUME RecInv, GetConfigMap
  PROVE  RecInv'
<1>1. ObjectsOK /\ ControlOK /\ WorkerOK /\ rpc = "getCm"
  BY TypeSplit DEF RecInv, GetConfigMap
<1>2. PICK c \in Auths : c = cur
  BY <1>1, WorkerFacts
<1>3. /\ auth' = auth /\ cm' = cm /\ ds' = ds /\ rbac' = rbac /\ lives' = lives
      /\ rbacOwner' = rbacOwner /\ disturbances' = disturbances /\ queue' = queue
      /\ cur' = c /\ kind' = kind /\ a11r' = a11r /\ fresh' = fresh
      /\ \/ rpc' \in {"createCm", "updateCm"}
         \/ rpc' = "getRbac" /\ Cached(cm[c]) # None /\ Cached(cm[c]).content = a11r.spec
  BY <1>2 DEF GetConfigMap, cluster, owned
<1>4. ObjectsOK'
  BY Zenon, <1>1, <1>3 DEF ObjectsOK, VersionsOK
<1>5. ControlOK'
  BY <1>1, <1>2, <1>3 DEF ControlOK, Steps
<1>6. kind = 1
  BY <1>1 DEF WorkerOK, CmSteps
<1>7. WorkerOK'
  BY <1>1, <1>2, <1>3, <1>6 DEF WorkerOK
<1>8. CmAt(c)'
  <2>1. CASE rpc' \in {"createCm", "updateCm"}
    BY <1>3, <2>1 DEF CmAt, CmSteps
  <2>2. CASE Cached(cm[c]) # None /\ Cached(cm[c]).content = a11r.spec
    <3>1. Len(cm[c]) = 1 => Cached(cm[c]) = Stored(cm[c])
      BY <1>1, ValueFacts
    <3>2. c \notin queue /\ Len(auth[c]) = 1 => a11r = Stored(auth[c])
      BY <1>1, <1>2, WorkerFacts
    <3>3. QED  BY <1>3, <2>2, <3>1, <3>2 DEF CmAt, Unprompted, Fits
  <2>3. QED  BY <1>3, <2>1, <2>2
<1>9. DsAt(c)'
  BY <1>3 DEF DsAt
<1>10. ASSUME NEW k \in Kinds PROVE RbacAt(c, k)'
  BY <1>3, <1>6 DEF RbacAt, CmSteps, Kinds
<1>11. QED  BY Zenon, <1>1, <1>2, <1>3, <1>4, <1>5, <1>7, <1>8, <1>9, <1>10, CallKeeps

(* Reconcile is done with the ConfigMap and goes on to the first of the    *)
(* RBAC objects.                                                           *)
LEMMA ConfigMapWritten ==
  ASSUME RecInv, rpc \in {"createCm", "updateCm"}, NEW c \in Auths, c = cur,
         NEW v \in CmValues(c), v # None, Stored(cm[c]) = None \/ v.owner = None,
         cm' = [cm EXCEPT ![c] = Write(@, v)], rpc' = "getRbac",
         UNCHANGED <<queue, cur, kind, a11r, fresh>>,
         UNCHANGED <<cluster, ds, rbac, rbacOwner, disturbances>>
  PROVE  RecInv'
<1>1. ObjectsOK /\ ControlOK /\ WorkerOK /\ rpc # "idle"
  BY TypeSplit DEF RecInv
<1>2. cm[c] \in CmVersions(c) /\ Stored(cm[c]) \in CmValues(c)
  BY Zenon, <1>1, ValueFacts DEF ObjectsOK, VersionsOK
<1>3. <<Stored(cm[c]), v>> \in CmChanges(c)
  BY <1>2 DEF CmChanges
<1>4. /\ Write(cm[c], v) \in CmVersions(c) /\ Stored(Write(cm[c], v)) = v
      /\ Stored(cm[c]) = None => Len(Write(cm[c], v)) # 1
  BY <1>2, <1>3, CmWrite
<1>5. /\ ObjectsOK' /\ cm'[c] = Write(cm[c], v)
      /\ \A a \in Auths \ {c} : cm'[a] = cm[a]
  BY Zenon, <1>1, <1>4, CmSet DEF cluster
<1>6. ControlOK'
  BY <1>1 DEF ControlOK, Steps, cluster
<1>7. kind = 1
  BY <1>1 DEF WorkerOK, CmSteps
<1>8. WorkerOK'
  BY <1>1, <1>7 DEF WorkerOK, CmSteps, cluster
<1>9. CmAt(c)'
  <2>1. CASE Stored(cm[c]) = None
    BY <1>4, <1>5, <2>1 DEF CmAt, Unprompted
  <2>2. CASE v.owner = None
    <3>1. ASSUME Stored(auth'[c]) # None PROVE Stored(auth'[c]).uid # None
      <4>1. auth' = auth
        BY DEF cluster
      <4>2. Stored(auth[c]) \in AuthValues(c)
        BY <1>1, ValueFacts
      <4>3. QED  BY <3>1, <4>1, <4>2, UidFacts DEF AuthValues
    <3>2. QED  BY <1>4, <1>5, <2>2, <3>1 DEF CmAt, Unprompted, Fits
  <2>3. QED  BY <2>1, <2>2
<1>10. DsAt(c)'
  BY DEF DsAt
<1>11. ASSUME NEW k \in Kinds PROVE RbacAt(c, k)'
  BY SMTT(20), <1>7 DEF RbacAt, Kinds
<1>12. auth' = auth /\ ds' = ds
  BY DEF cluster
<1>13. QED  BY <1>1, <1>5, <1>6, <1>8, <1>9, <1>10, <1>11, <1>12, CallKeeps

LEMMA ConfigMapKeeps ==
  ASSUME RecInv, CreateConfigMap \/ UpdateConfigMap
  PROVE  RecInv'
<1>1. rpc \in {"createCm", "updateCm"}
  BY DEF CreateConfigMap, UpdateConfigMap
<1>2. PICK c \in Auths : c = cur
  BY <1>1, WorkerFacts
<1>3. a11r.uid \in Uids /\ a11r.uid[1] = c /\ a11r.spec \in Specs
  BY <1>1, <1>2, WorkerFacts
<1>4. ASSUME Fail, UNCHANGED cm, UNCHANGED <<cluster, ds, rbac, rbacOwner, disturbances>>
      PROVE  RecInv'
  <2>1. rbacOwner \in [Kinds -> Uids \cup {None}] /\ disturbances \in 0 .. MaxDisturbances
    BY TypeSplit DEF RecInv, ControlOK
  <2>2. QED  BY <1>1, <1>4, <2>1, FailKeeps DEF owned
<1>5. CASE CreateConfigMap /\ Stored(cm[cur]) = None
  <2>1. PICK v : v = [content |-> a11r.spec, owner |-> a11r.uid]
    OBVIOUS
  <2>2. v \in Objects(Uids \cup {None}) /\ v.owner[1] = c
    BY <1>3, <2>1 DEF Objects
  <2>3. v \in CmValues(c) /\ v # None
    BY Zenon, <2>2, UidFacts DEF CmValues
  <2>4. QED  BY <1>1, <1>2, <1>5, <2>1, <2>3, ConfigMapWritten DEF CreateConfigMap
<1>6. CASE UpdateConfigMap /\ Stored(cm[cur]) # None
  <2>1. PICK v : v = [content |-> a11r.spec, owner |-> None]
    OBVIOUS
  <2>2. v \in Objects(Uids \cup {None}) /\ v.owner = None
    BY <1>3, <2>1 DEF Objects
  <2>3. v \in CmValues(c) /\ v # None
    BY Zenon, <2>2, UidFacts DEF CmValues
  <2>4. QED  BY <1>1, <1>2, <1>6, <2>1, <2>2, <2>3, ConfigMapWritten DEF UpdateConfigMap
<1>7. QED  BY Zenon, <1>4, <1>5, <1>6 DEF CreateConfigMap, UpdateConfigMap

(* The RBAC objects before the next kind are there, or a request for the   *)
(* Authenticator is on its way.                                            *)
LEMMA RbacPassed ==
  ASSUME RecInv, rpc \in {"getRbac", "createRbac"}, NEW c \in Auths, c = cur,
         ObjectsOK', ControlOK', WorkerOK', NextKind,
         UNCHANGED <<queue, cur, a11r, fresh>>, UNCHANGED <<cluster, cm, ds, disturbances>>,
         Len(rbac'[NsOf[c]][kind]) = 1 => Stored(rbac'[NsOf[c]][kind]) # None,
         \A k \in Kinds \ {kind} : rbac'[NsOf[c]][k] = rbac[NsOf[c]][k]
  PROVE  RecInv'
<1>1. rpc # "idle" /\ WakeInv /\ kind \in Kinds
  BY Zenon, TypeSplit DEF RecInv, ControlOK
<1>2. auth' = auth /\ cm' = cm /\ ds' = ds /\ queue' = queue /\ cur' = c
  BY DEF cluster
<1>3. rpc' \in {"getRbac", "getDs"}
  BY DEF NextKind
<1>4. CmAt(c)'
  <2>1. CmAt(c)
    BY <1>1 DEF WakeInv
  <2>2. QED  BY <1>2, <2>1 DEF CmAt, Unprompted, CmSteps
<1>5. DsAt(c)'
  BY <1>2, <1>3 DEF DsAt
<1>6. ASSUME Auths = {c}, NEW k \in Kinds PROVE RbacAt(c, k)'
  <2>1. CASE k = kind
    BY <2>1 DEF RbacAt, Unprompted
  <2>2. CASE k # kind /\ kind <= k
    <3>1. rpc' = "getRbac" /\ kind' <= k
      BY <1>1, <2>2, RecBoundsAssumption DEF NextKind, Kinds
    <3>2. QED  BY <1>2, <3>1 DEF RbacAt
  <2>3. CASE k # kind /\ ~(kind <= k)
    <3>1. RbacAt(c, k)
      BY <1>1, <1>6 DEF WakeInv
    <3>2. rbac'[NsOf[c]][k] = rbac[NsOf[c]][k]
      BY <2>3
    <3>3. QED  BY <1>2, <2>3, <3>1, <3>2 DEF RbacAt, Unprompted, CmSteps
  <2>4. QED  BY <2>1, <2>2, <2>3
<1>7. QED  BY Zenon, <1>1, <1>2, <1>4, <1>5, <1>6, CallKeeps

LEMMA GetRbacKeeps ==
  ASSUME RecInv, GetRbac
  PROVE  RecInv'
<1>1. ObjectsOK /\ ControlOK /\ WorkerOK /\ WakeInv /\ rpc = "getRbac" /\ kind \in Kinds
  BY TypeSplit DEF RecInv, GetRbac, ControlOK
<1>2. PICK c \in Auths : c = cur
  BY <1>1, WorkerFacts
<1>3. NsOf[c] \in Namespaces
  BY NsAssumption
<1>4. /\ auth' = auth /\ cm' = cm /\ ds' = ds /\ rbac' = rbac /\ lives' = lives
      /\ rbacOwner' = rbacOwner /\ disturbances' = disturbances /\ queue' = queue
      /\ cur' = cur /\ a11r' = a11r /\ fresh' = fresh
  BY DEF GetRbac, cluster, owned
<1>5. ObjectsOK'
  BY Zenon, <1>1, <1>4 DEF ObjectsOK, VersionsOK
<1>6. CASE Cached(rbac[NsOf[cur]][kind]) = None
  <2>1. rpc' = "createRbac" /\ kind' = kind
    BY <1>6 DEF GetRbac
  <2>2. ControlOK'
    BY <1>1, <1>4, <2>1 DEF ControlOK, Steps
  <2>3. WorkerOK'
    BY <1>1, <1>4, <2>1 DEF WorkerOK, CmSteps
  <2>4. CmAt(c) /\ (Auths = {c} => \A k \in Kinds : RbacAt(c, k))
    BY <1>1 DEF WakeInv
  <2>5. CmAt(c)'
    BY <1>1, <1>4, <2>4 DEF CmAt, Unprompted, CmSteps
  <2>6. DsAt(c)'
    BY <1>2, <1>4, <2>1 DEF DsAt
  <2>7. ASSUME Auths = {c}, NEW k \in Kinds PROVE RbacAt(c, k)'
    BY <1>1, <1>4, <2>1, <2>4, <2>7 DEF RbacAt, Unprompted, CmSteps
  <2>8. QED  BY <1>1, <1>2, <1>4, <1>5, <2>2, <2>3, <2>5, <2>6, <2>7, CallKeeps
<1>7. CASE Cached(rbac[NsOf[cur]][kind]) # None
  <2>1. NextKind
    BY <1>7 DEF GetRbac
  <2>2. kind' \in Kinds /\ rpc' \in {"getRbac", "getDs"}
    BY <1>1, <2>1, RecBoundsAssumption DEF NextKind, Kinds
  <2>3. ControlOK'
    BY <1>1, <1>4, <2>2 DEF ControlOK, Steps
  <2>4. WorkerOK'
    BY <1>1, <1>4, <2>2 DEF WorkerOK, CmSteps
  <2>5. Len(rbac'[NsOf[c]][kind]) = 1 => Stored(rbac'[NsOf[c]][kind]) # None
    BY <1>1, <1>2, <1>3, <1>4, <1>7, RbacFacts
  <2>6. QED  BY <1>1, <1>2, <1>4, <1>5, <2>1, <2>3, <2>4, <2>5, RbacPassed DEF cluster
<1>8. QED  BY <1>6, <1>7

(* The reference in memory names some Authenticator from then on.          *)
LEMMA ReferenceSet ==
  ASSUME RecInv, rpc # "idle", SetControllerReference
  PROVE  rbacOwner' \in [Kinds -> Uids \cup {None}] /\ rbacOwner'[kind] \in Uids
<1>1. rbacOwner \in [Kinds -> Uids \cup {None}] /\ kind \in Kinds
  BY TypeSplit DEF RecInv, ControlOK
<1>2. a11r.uid \in Uids
  BY WorkerFacts
<1>3. QED  BY <1>1, <1>2 DEF SetControllerReference

LEMMA CreateRbacKeeps ==
  ASSUME RecInv, CreateRbac
  PROVE  RecInv'
<1>1. ObjectsOK /\ ControlOK /\ WorkerOK /\ rpc = "createRbac" /\ kind \in Kinds
  BY TypeSplit DEF RecInv, CreateRbac, ControlOK
<1>2. PICK c \in Auths : c = cur
  BY <1>1, WorkerFacts
<1>3. PICK n \in Namespaces : n = NsOf[c]
  BY NsAssumption
<1>4. rbacOwner' \in [Kinds -> Uids \cup {None}] /\ rbacOwner'[kind] \in Uids
  BY <1>1, ReferenceSet DEF CreateRbac
<1>5. UNCHANGED <<cluster, cm, ds, disturbances>>
  BY DEF CreateRbac
<1>6. CASE Stored(rbac[NsOf[cur]][kind]) # None
  <2>1. Fail /\ UNCHANGED <<cluster, owned>>
    BY <1>5, <1>6 DEF CreateRbac, owned
  <2>2. disturbances' \in 0 .. MaxDisturbances
    BY <1>1, <1>5 DEF ControlOK
  <2>3. QED  BY <1>1, <1>4, <2>1, <2>2, FailKeeps
<1>7. CASE Stored(rbac[NsOf[cur]][kind]) = None
  <2>1. PICK j \in Kinds, u \in Uids : j = kind /\ u = rbacOwner'[kind]
    BY <1>1, <1>4
  <2>2. /\ rbac' = [rbac EXCEPT ![n][j] = Write(rbac[n][j], u)]
        /\ NextKind /\ UNCHANGED <<queue, cur, a11r, fresh>>
    BY <1>2, <1>3, <1>7, <2>1 DEF CreateRbac
  <2>3. rbac[n][j] \in RbacVersions /\ Stored(rbac[n][j]) = None
    BY <1>1, <1>2, <1>3, <1>7, <2>1 DEF ObjectsOK, VersionsOK
  <2>4. u # None /\ u \in RbacValues /\ <<Stored(rbac[n][j]), u>> \in Deletes(RbacValues)
    BY <2>3, UidFacts DEF RbacValues, Deletes
  <2>5. Write(rbac[n][j], u) \in RbacVersions /\ Stored(Write(rbac[n][j], u)) = u
    BY SMTT(20), <2>3, <2>4, WriteKeeps DEF RbacVersions
  <2>6. /\ rbac' \in [Namespaces -> [Kinds -> Seq(Uids \cup {None})]]
        /\ rbac'[n][j] = Write(rbac[n][j], u)
        /\ \A m \in Namespaces, k \in Kinds : <<m, k>> # <<n, j>> => rbac'[m][k] = rbac[m][k]
    <3>1. /\ rbac \in [Namespaces -> [Kinds -> Seq(Uids \cup {None})]]
          /\ Write(rbac[n][j], u) \in Seq(Uids \cup {None})
      BY <1>1, <2>5, RbacType DEF ObjectsOK
    <3>2. QED  BY <2>2, <3>1
  <2>7. ObjectsOK'
    BY <1>1, <1>5, <2>5, <2>6, RbacSet DEF cluster
  <2>8. kind' \in Kinds /\ rpc' \in {"getRbac", "getDs"}
    BY <1>1, <2>2, RecBoundsAssumption DEF NextKind, Kinds
  <2>9. ControlOK'
    BY <1>1, <1>4, <1>5, <2>2, <2>8 DEF ControlOK, Steps, cluster
  <2>10. WorkerOK'
    BY <1>1, <1>5, <2>2, <2>8 DEF WorkerOK, CmSteps, cluster
  <2>11. Stored(rbac'[NsOf[c]][kind]) # None
    BY <1>3, <2>1, <2>4, <2>5, <2>6
  <2>12. \A k \in Kinds \ {kind} : rbac'[NsOf[c]][k] = rbac[NsOf[c]][k]
    BY <1>3, <2>1, <2>6
  <2>13. QED  BY <1>1, <1>2, <1>5, <2>2, <2>7, <2>9, <2>10, <2>11, <2>12, RbacPassed
<1>8. QED  BY <1>6, <1>7

(* Reconcile has seen to the ConfigMap and to the RBAC objects.            *)
LEMMA ObjectsPassed ==
  ASSUME RecInv, rpc \in {"getDs", "createDs", "updateDs"}, NEW c \in Auths, c = cur,
         auth' = auth, queue' = queue, cm' = cm, rbac' = rbac
  PROVE  CmAt(c)' /\ (Auths = {c} => \A k \in Kinds : RbacAt(c, k)')
<1>1. CmAt(c) /\ (Auths = {c} => \A k \in Kinds : RbacAt(c, k))
  BY DEF RecInv, WakeInv
<1>2. CmAt(c)'
  BY <1>1 DEF CmAt, Unprompted, CmSteps
<1>3. ASSUME Auths = {c}, NEW k \in Kinds PROVE RbacAt(c, k)'
  BY <1>1, <1>3 DEF RbacAt, Unprompted, CmSteps
<1>4. QED  BY <1>2, <1>3

LEMMA GetDaemonSetKeeps ==
  ASSUME RecInv, GetDaemonSet
  PROVE  RecInv'
<1>1. ObjectsOK /\ ControlOK /\ WorkerOK /\ rpc = "getDs"
  BY TypeSplit DEF RecInv, GetDaemonSet
<1>2. PICK c \in Auths : c = cur
  BY <1>1, WorkerFacts
<1>3. /\ auth' = auth /\ cm' = cm /\ ds' = ds /\ rbac' = rbac /\ lives' = lives
      /\ rbacOwner' = rbacOwner /\ disturbances' = disturbances /\ queue' = queue
      /\ cur' = cur /\ kind' = kind /\ a11r' = a11r /\ fresh' \in BOOLEAN
      /\ rpc' \in {"createDs", "updateDs"}
  BY DEF GetDaemonSet, cluster, owned
<1>4. ObjectsOK'
  BY Zenon, <1>1, <1>3 DEF ObjectsOK, VersionsOK
<1>5. ControlOK'
  BY <1>1, <1>3 DEF ControlOK, Steps
<1>6. WorkerOK'
  BY <1>1, <1>3 DEF WorkerOK, CmSteps
<1>7. CmAt(c)' /\ (Auths = {c} => \A k \in Kinds : RbacAt(c, k)')
  BY <1>1, <1>2, <1>3, ObjectsPassed
<1>8. DsAt(c)'
  BY <1>2, <1>3 DEF DsAt
<1>9. QED  BY <1>1, <1>2, <1>3, <1>4, <1>5, <1>6, <1>7, <1>8, CallKeeps

(* Reconcile ends with a DaemonSet that has the spec it read.              *)
LEMMA DaemonSetWritten ==
  ASSUME RecInv, rpc \in {"createDs", "updateDs"}, NEW c \in Auths, c = cur,
         NEW v \in DsValues(c), v # None, v.content = a11r.spec,
         ds' = [ds EXCEPT ![c] = Write(@, v)], Idle, UNCHANGED queue,
         UNCHANGED <<cluster, cm, rbac, rbacOwner, disturbances>>
  PROVE  RecInv'
<1>1. ObjectsOK /\ ControlOK /\ WorkerOK /\ rpc # "idle"
  BY TypeSplit DEF RecInv
<1>2. ds[c] \in DsVersions(c) /\ Stored(ds[c]) \in DsValues(c)
  BY Zenon, <1>1, ValueFacts DEF ObjectsOK, VersionsOK
<1>3. <<Stored(ds[c]), v>> \in Deletes(DsValues(c))
  BY <1>2 DEF Deletes
<1>4. Write(ds[c], v) \in DsVersions(c) /\ Stored(Write(ds[c], v)) = v
  BY <1>2, <1>3, DsWrite
<1>5. /\ ObjectsOK' /\ ds'[c] = Write(ds[c], v)
      /\ \A a \in Auths \ {c} : ds'[a] = ds[a]
  BY Zenon, <1>1, <1>4, DsSet DEF cluster
<1>6. ControlOK'
  <2>1. 1 \in Kinds /\ "idle" \in Steps
    BY IdleTypes
  <2>2. QED  BY Zenon, <1>1, <2>1 DEF ControlOK, Idle, cluster
<1>7. WorkerOK'
  BY DEF WorkerOK, Idle
<1>8. auth' = auth /\ cm' = cm /\ rbac' = rbac
  BY DEF cluster
<1>9. CmAt(c)' /\ (Auths = {c} => \A k \in Kinds : RbacAt(c, k)')
  BY Zenon, <1>8, ObjectsPassed
<1>10. DsAt(c)'
  <2>1. c \notin queue /\ Len(auth[c]) = 1 => a11r = Stored(auth[c])
    BY <1>1, WorkerFacts
  <2>2. QED  BY <1>4, <1>5, <1>8, <2>1 DEF DsAt, Unprompted, Fits
<1>11. QED  BY Zenon, <1>1, <1>5, <1>6, <1>7, <1>8, <1>9, <1>10, CallKeeps

LEMMA DaemonSetKeeps ==
  ASSUME RecInv, CreateDaemonSet \/ UpdateDaemonSet
  PROVE  RecInv'
<1>1. rpc \in {"createDs", "updateDs"}
  BY Zenon DEF CreateDaemonSet, UpdateDaemonSet
<1>2. PICK c \in Auths : c = cur
  BY <1>1, WorkerFacts
<1>3. a11r.uid \in Uids /\ a11r.uid[1] = c /\ a11r.spec \in Specs
  BY <1>1, <1>2, WorkerFacts
<1>4. ASSUME Fail, UNCHANGED ds, UNCHANGED <<cluster, cm, rbac, rbacOwner, disturbances>>
      PROVE  RecInv'
  <2>1. rbacOwner \in [Kinds -> Uids \cup {None}] /\ disturbances \in 0 .. MaxDisturbances
    BY TypeSplit DEF RecInv, ControlOK
  <2>2. QED  BY <1>1, <1>4, <2>1, FailKeeps DEF owned
<1>5. CASE CreateDaemonSet /\ Stored(ds[cur]) = None
  <2>1. PICK v : v = [content |-> a11r.spec, owner |-> a11r.uid]
    OBVIOUS
  <2>2. v \in Objects(Uids) /\ v.owner[1] = c /\ v.content = a11r.spec
    BY <1>3, <2>1 DEF Objects
  <2>3. v \in DsValues(c) /\ v # None
    BY <2>2, UidFacts DEF DsValues
  <2>4. QED  BY <1>1, <1>2, <1>5, <2>1, <2>2, <2>3, DaemonSetWritten DEF CreateDaemonSet
<1>6. CASE UpdateDaemonSet /\ fresh /\ Stored(ds[cur]) # None
  <2>1. Stored(ds[c]) \in Objects(Uids) /\ Stored(ds[c]).owner[1] = c
    <3>1. Stored(ds[c]) \in DsValues(c)
      BY TypeSplit, ValueFacts DEF RecInv
    <3>2. QED  BY <1>2, <1>6, <3>1 DEF DsValues
  <2>2. PICK v : v = [content |-> a11r.spec, owner |-> Owner(Stored(ds[c]))]
    OBVIOUS
  <2>3. v \in Objects(Uids) /\ v.owner[1] = c /\ v.content = a11r.spec
    BY <1>2, <1>3, <1>6, <2>1, <2>2 DEF Objects, Owner
  <2>4. v \in DsValues(c) /\ v # None
    BY <2>3, UidFacts DEF DsValues
  <2>5. /\ ds' = [ds EXCEPT ![c] = Write(@, v)] /\ Idle /\ UNCHANGED queue
        /\ UNCHANGED <<cluster, cm, rbac, rbacOwner, disturbances>>
    BY <1>2, <1>6, <2>2 DEF UpdateDaemonSet
  <2>6. QED  BY Zenon, <1>1, <1>2, <2>3, <2>4, <2>5, DaemonSetWritten
<1>7. QED  BY <1>4, <1>5, <1>6 DEF CreateDaemonSet, UpdateDaemonSet

LEMMA CallFailsKeeps ==
  ASSUME RecInv, CallFails
  PROVE  RecInv'
<1>1. rpc # "idle" /\ Fail /\ UNCHANGED <<cluster, owned>>
  BY DEF CallFails
<1>2. rbacOwner \in [Kinds -> Uids \cup {None}] /\ disturbances \in 0 .. MaxDisturbances
  BY TypeSplit DEF RecInv, ControlOK
<1>3. disturbances' \in 0 .. MaxDisturbances
  BY <1>2, RecBoundsAssumption DEF CallFails, Disturb
<1>4. rbacOwner' \in [Kinds -> Uids \cup {None}]
  <2>1. CASE SetControllerReference
    BY <1>1, <2>1, ReferenceSet
  <2>2. CASE UNCHANGED rbacOwner
    BY <1>2, <2>2
  <2>3. QED  BY <2>1, <2>2 DEF CallFails
<1>5. QED  BY <1>1, <1>3, <1>4, FailKeeps

(* A restart loses the worker's place and asks for every Authenticator.    *)
LEMMA RestartKeeps ==
  ASSUME RecInv, OperatorRestarts
  PROVE  RecInv'
<1>1. ObjectsOK /\ ControlOK
  BY TypeSplit DEF RecInv
<1>2. ASSUME NEW a \in Auths
      PROVE  /\ auth'[a] \in AuthVersions(a) /\ cm'[a] \in CmVersions(a)
             /\ ds'[a] \in DsVersions(a) /\ Stored(auth'[a]) = Stored(auth[a])
  <2>1. auth'[a] = Relist(auth[a]) /\ cm'[a] = Relist(cm[a]) /\ ds'[a] = Relist(ds[a])
    BY Zenon DEF OperatorRestarts
  <2>2. auth[a] \in AuthVersions(a) /\ cm[a] \in CmVersions(a) /\ ds[a] \in DsVersions(a)
    BY <1>1 DEF ObjectsOK, VersionsOK
  <2>3. Relist(auth[a]) \in AuthVersions(a) /\ Stored(Relist(auth[a])) = Stored(auth[a])
    BY <2>2, RelistKeeps DEF AuthVersions
  <2>4. Relist(cm[a]) \in CmVersions(a)
    BY <2>2, RelistKeeps DEF CmVersions
  <2>5. Relist(ds[a]) \in DsVersions(a)
    BY <2>2, RelistKeeps DEF DsVersions
  <2>6. QED  BY <2>1, <2>3, <2>4, <2>5
<1>3. ASSUME NEW n \in Namespaces, NEW k \in Kinds PROVE rbac'[n][k] \in RbacVersions
  <2>1. rbac'[n][k] = Relist(rbac[n][k])
    BY Zenon DEF OperatorRestarts
  <2>2. rbac[n][k] \in RbacVersions
    BY <1>1 DEF ObjectsOK, VersionsOK
  <2>3. QED  BY <2>1, <2>2, RelistKeeps DEF RbacVersions
<1>4. ObjectsOK'
  <2>1. auth' \in [Auths -> Seq(Incarnations \cup {None})]
    BY Zenon, <1>2, VersionTypes DEF OperatorRestarts
  <2>2. cm' \in [Auths -> Seq(Objects(Uids \cup {None}) \cup {None})]
    BY Zenon, <1>2, VersionTypes DEF OperatorRestarts
  <2>3. ds' \in [Auths -> Seq(Objects(Uids) \cup {None})]
    BY Zenon, <1>2, VersionTypes DEF OperatorRestarts
  <2>4. rbac' \in [Namespaces -> [Kinds -> Seq(Uids \cup {None})]]
    BY Zenon, <1>3, RbacType DEF OperatorRestarts
  <2>5. QED  BY Zenon, <1>2, <1>3, <2>1, <2>2, <2>3, <2>4 DEF ObjectsOK, VersionsOK
<1>5. queue' \subseteq Auths
  <2>1. \A a \in Auths : /\ Owner(Stored(cm[a])) \in Uids \cup {None}
                         /\ Owner(Stored(ds[a])) \in Uids \cup {None}
    <3>1. ASSUME NEW a \in Auths
          PROVE  Stored(cm[a]) \in CmValues(a) /\ Stored(ds[a]) \in DsValues(a)
      BY <1>1, ValueFacts
    <3>2. QED  BY Zenon, <3>1, UidFacts DEF Owner, CmValues, DsValues
  <2>2. \A n \in Namespaces, k \in Kinds : Stored(rbac[n][k]) \in Uids \cup {None}
    BY <1>1, RbacFacts DEF RbacValues
  <2>3. \A n : \A o \in Uids \cup {None} : OwnerIn(n, o) \subseteq Auths
    BY OwnerFacts
  <2> DEFINE B == UNION {OwnerIn(NsOf[a], Owner(Stored(cm[a]))) : a \in Auths}
             C == UNION {OwnerIn(NsOf[a], Owner(Stored(ds[a]))) : a \in Auths}
             D == UNION {OwnerIn(x[1], Stored(rbac[x[1]][x[2]])) : x \in Namespaces \X Kinds}
  <2>4. B \subseteq Auths /\ C \subseteq Auths
    BY <2>1, <2>3
  <2>5. D \subseteq Auths
    <3>1. ASSUME NEW x \in Namespaces \X Kinds
          PROVE  OwnerIn(x[1], Stored(rbac[x[1]][x[2]])) \subseteq Auths
      BY <2>2, <2>3
    <3>2. QED  BY <3>1
  <2>6. queue' = {a \in Auths : Exists(a)} \cup B \cup C \cup D
    BY Zenon DEF OperatorRestarts
  <2> HIDE DEF B, C, D
  <2>7. QED  BY <2>4, <2>5, <2>6
<1>6. ControlOK'
  <2>1. 1 \in Kinds /\ "idle" \in Steps
    BY IdleTypes
  <2>2. disturbances' \in 0 .. MaxDisturbances
    <3>1. Disturb
      BY Zenon DEF OperatorRestarts
    <3>2. QED  BY <1>1, <3>1, RecBoundsAssumption DEF ControlOK, Disturb
  <2>3. rbacOwner' \in [Kinds -> Uids \cup {None}]
    BY Zenon DEF OperatorRestarts, RetrieveResources
  <2>4. QED  BY Zenon, <1>1, <1>5, <2>1, <2>2, <2>3 DEF ControlOK, OperatorRestarts, Idle
<1>7. WorkerOK'
  BY DEF WorkerOK, OperatorRestarts, Idle
<1>8. WakeInv'
  <2>1. \A a \in Auths : Stored(auth'[a]) # None => a \in queue'
    BY <1>2 DEF OperatorRestarts, Exists
  <2>2. QED  BY <2>1 DEF WakeInv, CmAt, DsAt, RbacAt, Unprompted
<1>9. QED  BY <1>4, <1>6, <1>7, <1>8, TypeSplitPrimed DEF RecInv

-----------------------------------------------------------------------------
(* The theorems.                                                           *)

LEMMA RecInvInit == RecInit => RecInv
<1>1. SUFFICES ASSUME RecInit PROVE RecInv
  OBVIOUS
<1>2. ASSUME NEW S, None \in S PROVE <<None>> \in Seq(S) /\ Stored(<<None>>) = None
  BY <1>2 DEF Stored
<1>3. \A S, R : None \in S => <<None>> \in Histories(S, R)
  BY <1>2 DEF Histories
<1>4. \A a \in Auths : /\ <<None>> \in AuthVersions(a) /\ <<None>> \in CmVersions(a)
                       /\ <<None>> \in DsVersions(a) /\ <<None>> \in RbacVersions
  <2>1. \A a \in Auths : None \in AuthValues(a) /\ None \in CmValues(a) /\ None \in DsValues(a)
    BY DEF AuthValues, CmValues, DsValues
  <2>2. QED  BY Zenon, <1>3, <2>1 DEF AuthVersions, CmVersions, DsVersions, RbacVersions, RbacValues
<1>5. <<None>> \in RbacVersions
  BY <1>3 DEF RbacVersions, RbacValues
<1>6. VersionsOK
  BY <1>1, <1>4, <1>5 DEF VersionsOK, RecInit
<1>7. /\ auth \in [Auths -> Seq(Incarnations \cup {None})]
      /\ cm \in [Auths -> Seq(Objects(Uids \cup {None}) \cup {None})]
      /\ ds \in [Auths -> Seq(Objects(Uids) \cup {None})]
      /\ rbac \in [Namespaces -> [Kinds -> Seq(Uids \cup {None})]]
  BY <1>1, <1>2 DEF RecInit
<1>8. ControlOK
  <2>1. 1 \in Kinds /\ "idle" \in Steps /\ 0 \in 0 .. MaxLives /\ 0 \in 0 .. MaxDisturbances
    BY RecBoundsAssumption DEF Kinds, Steps
  <2>2. rbacOwner \in [Kinds -> Uids \cup {None}]
    BY <1>1 DEF RecInit, RetrieveResources
  <2>3. QED  BY Zenon, <1>1, <2>1, <2>2 DEF ControlOK, RecInit
<1>9. WorkerOK
  BY <1>1 DEF WorkerOK, RecInit
<1>10. WakeInv
  <2>1. \A a \in Auths : Stored(auth[a]) = None
    BY Zenon, <1>1, <1>2 DEF RecInit
  <2>2. QED  BY Zenon, <2>1 DEF WakeInv, CmAt, DsAt, RbacAt, Unprompted
<1>11. QED  BY Zenon, <1>6, <1>7, <1>8, <1>9, <1>10, TypeSplit DEF RecInv, ObjectsOK

LEMMA RecInvNext == RecInv /\ [RecNext]_recVars => RecInv'
<1>1. SUFFICES ASSUME RecInv, [RecNext]_recVars PROVE RecInv'
  OBVIOUS
<1>2. CASE UNCHANGED recVars
  BY Zenon, <1>1, <1>2 DEF RecInv, RecTypeOK, VersionsOK, WorkerOK, WakeInv, CmAt, DsAt, RbacAt,
     Unprompted, recVars, cluster, owned, worker
<1>3. CASE Reconcile
  BY <1>1, <1>3, GetAuthenticatorKeeps, GetConfigMapKeeps, ConfigMapKeeps, GetRbacKeeps,
     CreateRbacKeeps, GetDaemonSetKeeps, DaemonSetKeeps DEF Reconcile
<1>4. CASE InformAuths
  BY <1>1, <1>4, InformAuthKeeps DEF InformAuths
<1>5. CASE InformOwned
  BY <1>1, <1>5, InformCmKeeps, InformDsKeeps, InformRbacKeeps DEF InformOwned
<1>6. CASE GarbageCollector
  BY <1>1, <1>6, DeletionKeeps, RbacDeleteKeeps DEF GarbageCollector
<1>7. CASE Users
  BY <1>1, <1>7, AuthenticatorKeeps, DeletionKeeps, StatusWrittenKeeps
     DEF Users, UserChanges
<1>8. QED  BY <1>1, <1>2, <1>3, <1>4, <1>5, <1>6, <1>7, CallFailsKeeps, RestartKeeps DEF RecNext

(* With nothing to collect, an object a names as its owner is owned by the *)
(* incarnation of a that exists.                                           *)
LEMMA NotGarbage ==
  ASSUME NEW n, NEW o \in Uids, ~Garbage(n, o)
  PROVE  Exists(o[1]) /\ o = Stored(auth[o[1]]).uid
<1>1. o # None
  BY UidFacts
<1>2. QED  BY Zenon, <1>1 DEF Garbage, Current

LEMMA RestInSync == RecInv => NoLostWakeup
<1>1. SUFFICES ASSUME RecInv, AtRest, NEW a \in Auths PROVE InSync(a)
  BY Zenon DEF NoLostWakeup
<1>2. ObjectsOK /\ WakeInv
  BY <1>1, TypeSplit DEF RecInv
<1>3. /\ Stored(cm[a]) \in CmValues(a) /\ Stored(ds[a]) \in DsValues(a)
      /\ Len(auth[a]) = 1 /\ Len(cm[a]) = 1 /\ Len(ds[a]) = 1
      /\ ~Garbage(NsOf[a], Owner(Stored(cm[a]))) /\ ~Garbage(NsOf[a], Owner(Stored(ds[a])))
      /\ a \notin queue /\ rpc = "idle"
  BY Zenon, <1>1, <1>2, ValueFacts DEF AtRest, Delivered, GarbageCm, GarbageDs
<1>4. Stored(ds[a]) # None =>
         /\ Stored(ds[a]) \in Objects(Uids) /\ Owner(Stored(ds[a])) = Stored(ds[a]).owner
         /\ Stored(ds[a]).owner \in Uids /\ Stored(ds[a]).owner[1] = a
  BY <1>3, UidFacts DEF DsValues, Owner
<1>5. Stored(ds[a]) # None => Exists(a) /\ Stored(ds[a]).owner = Stored(auth[a]).uid
  BY <1>3, <1>4, NotGarbage
<1>6. CASE ~Exists(a)
  BY <1>5, <1>6 DEF InSync
<1>7. CASE Exists(a)
  <2>1. CmAt(a) /\ DsAt(a) /\ (Auths = {a} => \A k \in Kinds : RbacAt(a, k))
    BY <1>2 DEF WakeInv
  <2>2. Fits(Stored(cm[a]), Stored(auth[a]))
    BY Zenon, <1>3, <1>7, <2>1 DEF CmAt, Unprompted, CmSteps, Exists
  <2>3. Fits(Stored(ds[a]), Stored(auth[a]))
    BY Zenon, <1>3, <1>7, <2>1 DEF DsAt, Unprompted, Exists
  <2>4. Owner(Stored(cm[a])) # None => Stored(cm[a]).owner = Stored(auth[a]).uid
    <3>1. Owner(Stored(cm[a])) # None =>
             /\ Owner(Stored(cm[a])) = Stored(cm[a]).owner
             /\ Stored(cm[a]).owner \in Uids /\ Stored(cm[a]).owner[1] = a
      BY Zenon, <1>3, UidFacts DEF CmValues, Owner
    <3>2. QED  BY Zenon, <1>3, <3>1, NotGarbage
  <2>5. Stored(ds[a]) = [content |-> Stored(auth[a]).spec, owner |-> Stored(auth[a]).uid]
    <3>1. /\ Stored(ds[a]) \in Objects(Uids) /\ Stored(ds[a]).owner = Stored(auth[a]).uid
          /\ Stored(ds[a]).content = Stored(auth[a]).spec
      BY <1>4, <1>5, <2>3 DEF Fits
    <3>2. QED  BY <3>1 DEF Objects
  <2>6. Auths = {a} => \A k \in Kinds : Stored(rbac[NsOf[a]][k]) # None
    <3>1. \A k \in Kinds : Len(rbac[NsOf[a]][k]) = 1
      BY <1>1, NsAssumption DEF AtRest, Delivered
    <3>2. QED  BY Zenon, <1>3, <1>7, <2>1, <3>1 DEF RbacAt, Unprompted, CmSteps, Exists
  <2>7. QED  BY <1>7, <2>2, <2>4, <2>5, <2>6 DEF InSync, Fits
<1>8. QED  BY <1>6, <1>7

(* Every variable of the reconcile loop keeps its type, for any number of  *)
(* Authenticators and any bounds: whatever the calls of Reconcile, the     *)
(* watches, the users and the garbage collector interleave to, a DaemonSet *)
(* always has an owner.                                                    *)
THEOREM RecTypeCorrect == RecSpec => []RecTypeOK
<1>1. RecInv => RecTypeOK
  BY DEF RecInv
<1>2. QED  BY <1>1, RecInvInit, RecInvNext, PTL DEF RecSpec

(* Reconcile loses no wake-up, for any number of Authenticators and        *)
(* namespaces, however far the cache lags behind and whatever is edited,   *)
(* deleted by hand, recreated, collected, fails or restarts between two of *)
(* its calls: at rest every Authenticator is in sync.                      *)
THEOREM WakeupSafety == RecSpec => []NoLostWakeup
  BY RestInSync, RecInvInit, RecInvNext, PTL DEF RecSpec

-----------------------------------------------------------------------------
(* A settled cluster is left alone.                                        *)

(* The part of Settled about the objects, and that about Reconcile.        *)
ObjectsSettled ==
    /\ Delivered
    /\ \A a \in Auths : Exists(a) =>
          /\ InSync(a) /\ Stored(cm[a]).content = Stored(auth[a]).spec
          /\ \A k \in Kinds : Stored(rbac[NsOf[a]][k]) # None

WorkerSettled ==
    rpc # "idle" =>
        /\ a11r = Stored(auth[cur])
        /\ rpc \in {"getCm", "getRbac", "getDs", "updateDs"}
        /\ rpc = "updateDs" => fresh

LEMMA SettledSplit ==
  /\ Settled <=> ObjectsSettled /\ WorkerSettled
  /\ Settled' <=> ObjectsSettled' /\ WorkerSettled'
  BY Zenon DEF Settled, ObjectsSettled, WorkerSettled

LEMMA SettledFrame ==
  ASSUME ObjectsSettled, UNCHANGED <<auth, cm, ds, rbac>>, WorkerSettled'
  PROVE  Settled' /\ UNCHANGED owned
<1>1. ObjectsSettled'
  BY Zenon DEF ObjectsSettled, Delivered, InSync, Exists, GarbageCm, GarbageDs, GarbageRbac,
               Garbage, Current
<1>2. QED  BY Zenon, <1>1, SettledSplit DEF owned

(* What Reconcile reads of a settled cluster.                              *)
LEMMA SettledReads ==
  ASSUME RecInv, Settled, rpc # "idle"
  PROVE  /\ cur \in Auths /\ NsOf[cur] \in Namespaces /\ kind \in Kinds
         /\ Cached(cm[cur]) # None /\ Cached(cm[cur]).content = a11r.spec
         /\ Cached(rbac[NsOf[cur]][kind]) # None
         /\ Cached(ds[cur]) # None /\ Len(ds[cur]) = 1
         /\ Stored(ds[cur]) = [content |-> a11r.spec, owner |-> a11r.uid]
<1>1. ObjectsOK /\ ControlOK
  BY TypeSplit DEF RecInv
<1>2. cur \in Auths /\ a11r \in Incarnations /\ a11r # None
  BY WorkerFacts, UidFacts
<1>3. NsOf[cur] \in Namespaces /\ kind \in Kinds
  BY <1>1, <1>2, NsAssumption DEF ControlOK
<1>4. a11r = Stored(auth[cur]) /\ ObjectsSettled
  BY SettledSplit DEF WorkerSettled
<1>5. Exists(cur)
  BY <1>2, <1>4 DEF Exists
<1>6. /\ Len(cm[cur]) = 1 /\ Len(ds[cur]) = 1 /\ Len(rbac[NsOf[cur]][kind]) = 1
      /\ InSync(cur) /\ Stored(cm[cur]).content = a11r.spec
      /\ Stored(rbac[NsOf[cur]][kind]) # None
  BY Zenon, <1>2, <1>3, <1>4, <1>5 DEF ObjectsSettled, Delivered
<1>7. /\ Stored(cm[cur]) # None
      /\ Stored(ds[cur]) = [content |-> a11r.spec, owner |-> a11r.uid]
  BY Zenon, <1>4, <1>5, <1>6 DEF InSync
<1>8. /\ Cached(cm[cur]) = Stored(cm[cur]) /\ Cached(ds[cur]) = Stored(ds[cur])
      /\ Cached(rbac[NsOf[cur]][kind]) = Stored(rbac[NsOf[cur]][kind])
  BY Zenon, <1>1, <1>2, <1>3, <1>6, ValueFacts, RbacFacts
<1>9. Stored(ds[cur]) # None
  <2>1. [content |-> a11r.spec, owner |-> a11r.uid] \in Objects(Uids)
    BY <1>2, UidFacts DEF Objects
  <2>2. QED  BY <1>7, <2>1, UidFacts
<1>10. QED  BY Zenon, <1>2, <1>3, <1>6, <1>7, <1>8, <1>9

LEMMA SettledReconcile ==
  ASSUME RecInv, Settled, Reconcile
  PROVE  Settled' /\ UNCHANGED owned
<1>1. ObjectsSettled /\ WorkerSettled /\ ObjectsOK
  BY SettledSplit, TypeSplit DEF RecInv
<1>2. ASSUME NEW a \in Auths, GetAuthenticator(a) PROVE Settled' /\ UNCHANGED owned
  <2>1. UNCHANGED <<auth, cm, ds, rbac>>
    BY <1>2 DEF GetAuthenticator, cluster, owned
  <2>2. Cached(auth[a]) = Stored(auth[a])
    BY <1>1, ValueFacts DEF ObjectsSettled, Delivered
  <2>3. WorkerSettled'
    BY Zenon, <1>2, <2>1, <2>2 DEF GetAuthenticator, WorkerSettled, worker
  <2>4. QED  BY <1>1, <2>1, <2>3, SettledFrame
<1>3. CASE GetConfigMap
  <2>1. UNCHANGED <<auth, cm, ds, rbac>> /\ rpc # "idle"
    BY <1>3 DEF GetConfigMap, cluster, owned
  <2>2. rpc' = "getRbac" /\ UNCHANGED <<cur, a11r>>
    BY Zenon, <1>3, <2>1, SettledReads DEF GetConfigMap
  <2>3. WorkerSettled'
    BY <1>1, <2>1, <2>2 DEF WorkerSettled, Stored
  <2>4. QED  BY <1>1, <2>1, <2>3, SettledFrame
<1>4. CASE GetRbac
  <2>1. UNCHANGED <<auth, cm, ds, rbac>> /\ rpc # "idle"
    BY <1>4 DEF GetRbac, cluster, owned
  <2>2. rpc' \in {"getRbac", "getDs"} /\ UNCHANGED <<cur, a11r>>
    BY <1>4, <2>1, SettledReads DEF GetRbac, NextKind
  <2>3. WorkerSettled'
    BY <1>1, <2>1, <2>2 DEF WorkerSettled, Stored
  <2>4. QED  BY <1>1, <2>1, <2>3, SettledFrame
<1>5. CASE GetDaemonSet
  <2>1. UNCHANGED <<auth, cm, ds, rbac>> /\ rpc # "idle"
    BY <1>5 DEF GetDaemonSet, cluster, owned
  <2>2. rpc' = "updateDs" /\ fresh' /\ UNCHANGED <<cur, a11r>>
    BY Zenon, <1>5, <2>1, SettledReads DEF GetDaemonSet
  <2>3. WorkerSettled'
    BY <1>1, <2>1, <2>2 DEF WorkerSettled, Stored
  <2>4. QED  BY <1>1, <2>1, <2>3, SettledFrame
<1>6. CASE UpdateDaemonSet
  <2>1. UNCHANGED <<auth, cm, rbac>> /\ rpc = "updateDs" /\ (rpc' = "idle")
    BY <1>6 DEF UpdateDaemonSet, cluster, Idle, Fail
  <2>2. cur \in Auths /\ Stored(ds[cur]) = [content |-> a11r.spec, owner |-> a11r.uid]
    BY <2>1, SettledReads
  <2>3. Write(ds[cur], Stored(ds[cur])) = ds[cur]
    BY DEF Write
  <2>4. Stored(ds[cur]) # None => Owner(Stored(ds[cur])) = a11r.uid
    <3>1. PICK obj : obj = Stored(ds[cur])
      OBVIOUS
    <3>2. PICK spec, uid : spec = a11r.spec /\ uid = a11r.uid
      OBVIOUS
    <3>3. obj = [content |-> spec, owner |-> uid]
      BY <2>2, <3>1, <3>2
    <3>4. obj # None => Owner(obj) = uid
      BY <3>3 DEF Owner
    <3>5. QED  BY <3>1, <3>2, <3>4
  <2>5. \/ UNCHANGED ds
        \/ /\ Stored(ds[cur]) # None
           /\ ds' = [ds EXCEPT ![cur] = Write(ds[cur], [content |-> a11r.spec,
                                                        owner |-> Owner(Stored(ds[cur]))])]
    BY Zenon, <1>6 DEF UpdateDaemonSet
  <2>6. ds' = ds \/ ds' = [ds EXCEPT ![cur] = ds[cur]]
    BY Zenon, <2>2, <2>3, <2>4, <2>5
  <2>7. ds' = ds
    <3>1. ds \in [Auths -> Seq(Objects(Uids) \cup {None})]
      BY <1>1 DEF ObjectsOK
    <3>2. QED  BY <2>2, <2>6, <3>1
  <2>8. WorkerSettled'
    BY <2>1 DEF WorkerSettled
  <2>9. QED  BY <1>1, <2>1, <2>7, <2>8, SettledFrame
<1>7. CASE CreateConfigMap \/ UpdateConfigMap \/ CreateRbac \/ CreateDaemonSet
  BY Zenon, <1>1, <1>7 DEF WorkerSettled, CreateConfigMap, UpdateConfigMap, CreateRbac,
                           CreateDaemonSet
<1>8. QED
  BY Zenon, <1>2, <1>3, <1>4, <1>5, <1>6, <1>7 DEF Reconcile

(* A relist of what the cache has seen changes nothing.                    *)
LEMMA SettledRestart ==
  ASSUME RecInv, ObjectsSettled, OperatorRestarts
  PROVE  UNCHANGED <<auth, cm, ds, rbac>>
<1>1. ObjectsOK /\ Delivered
  BY TypeSplit DEF RecInv, ObjectsSettled
<1>2. ASSUME NEW S, NEW vs \in Seq(S), Len(vs) = 1 PROVE Relist(vs) = vs
  <2>1. PICK w : w = Relist(vs)
    OBVIOUS
  <2>2. vs # <<>>
    BY <1>2
  <2>3. w \in Seq(S) /\ Len(w) = 1 /\ w[1] = vs[1]
    BY <1>2, <2>1, <2>2, RelistFacts, VersionsFacts
  <2>4. w = vs
    BY <1>2, <2>3, SeqEqual
  <2>5. QED  BY <2>1, <2>4
<1>3. auth' = auth
  <2>1. auth \in [Auths -> Seq(Incarnations \cup {None})] /\ \A a \in Auths : Len(auth[a]) = 1
    BY Zenon, <1>1 DEF ObjectsOK, Delivered
  <2>2. \A a \in Auths : auth[a] \in Seq(Incarnations \cup {None})
    BY Zenon, <2>1
  <2>3. \A a \in Auths : Relist(auth[a]) = auth[a]
    BY Zenon, <1>2, <2>1, <2>2
  <2>4. auth' = [a \in Auths |-> Relist(auth[a])]
    BY DEF OperatorRestarts
  <2>5. QED  BY <2>1, <2>3, <2>4
<1>4. cm' = cm
  <2>1. /\ cm \in [Auths -> Seq(Objects(Uids \cup {None}) \cup {None})]
        /\ \A a \in Auths : Len(cm[a]) = 1
    BY Zenon, <1>1 DEF ObjectsOK, Delivered
  <2>2. \A a \in Auths : cm[a] \in Seq(Objects(Uids \cup {None}) \cup {None})
    BY Zenon, <2>1
  <2>3. \A a \in Auths : Relist(cm[a]) = cm[a]
    BY Zenon, <1>2, <2>1, <2>2
  <2>4. cm' = [a \in Auths |-> Relist(cm[a])]
    BY DEF OperatorRestarts
  <2>5. QED  BY <2>1, <2>3, <2>4
<1>5. ds' = ds
  <2>1. ds \in [Auths -> Seq(Objects(Uids) \cup {None})] /\ \A a \in Auths : Len(ds[a]) = 1
    BY Zenon, <1>1 DEF ObjectsOK, Delivered
  <2>2. \A a \in Auths : ds[a] \in Seq(Objects(Uids) \cup {None})
    BY Zenon, <2>1
  <2>3. \A a \in Auths : Relist(ds[a]) = ds[a]
    BY Zenon, <1>2, <2>1, <2>2
  <2>4. ds' = [a \in Auths |-> Relist(ds[a])]
    BY DEF OperatorRestarts
  <2>5. QED  BY <2>1, <2>3, <2>4
<1>6. rbac' = rbac
  <2>1. /\ rbac \in [Namespaces -> [Kinds -> Seq(Uids \cup {None})]]
        /\ \A n \in Namespaces, k \in Kinds : Len(rbac[n][k]) = 1
    BY Zenon, <1>1 DEF ObjectsOK, Delivered
  <2>2. \A n \in Namespaces : rbac[n] \in [Kinds -> Seq(Uids \cup {None})]
    BY <2>1
  <2>3. \A n \in Namespaces, k \in Kinds : rbac[n][k] \in Seq(Uids \cup {None})
    BY <2>2
  <2>4. \A n \in Namespaces, k \in Kinds : Relist(rbac[n][k]) = rbac[n][k]
    BY Zenon, <1>2, <2>1, <2>3
  <2>5. \A n \in Namespaces : [k \in Kinds |-> Relist(rbac[n][k])] = rbac[n]
    BY <2>2, <2>4
  <2>6. rbac' = [n \in Namespaces |-> [k \in Kinds |-> Relist(rbac[n][k])]]
    BY DEF OperatorRestarts
  <2>7. QED  BY <2>1, <2>5, <2>6
<1>7. QED  BY <1>3, <1>4, <1>5, <1>6

LEMMA SettledStep ==
  ASSUME RecInv, [RecNext]_recVars, Settled, ~UserChanges
  PROVE  Settled' /\ UNCHANGED owned
<1>1. ObjectsSettled /\ WorkerSettled /\ Delivered
  BY SettledSplit DEF ObjectsSettled
<1>2. CASE UNCHANGED recVars
  <2>1. UNCHANGED <<auth, cm, ds, rbac>> /\ WorkerSettled'
    BY Zenon, <1>1, <1>2 DEF recVars, cluster, owned, worker, WorkerSettled
  <2>2. QED  BY <1>1, <2>1, SettledFrame
<1>3. CASE Reconcile
  BY <1>3, SettledReconcile
<1>4. CASE InformAuths \/ InformOwned
  <2>1. \A len : ~(len = 1 /\ len > 1)
    OBVIOUS
  <2>2. QED
    BY Zenon, <1>1, <1>4, <2>1 DEF Delivered, InformAuths, InformOwned, InformAuth, InformCm,
                                   InformDs, InformRbac
<1>5. CASE GarbageCollector
  BY Zenon, <1>1, <1>5 DEF Delivered, GarbageCollector, Collect, CollectRbac
<1>6. ASSUME NEW a \in Auths, StatusWritten(a) PROVE Settled' /\ UNCHANGED owned
  <2>1. UNCHANGED <<auth, cm, ds, rbac>> /\ WorkerSettled'
    BY Zenon, <1>1, <1>6 DEF StatusWritten, cluster, owned, worker, WorkerSettled
  <2>2. QED  BY <1>1, <2>1, SettledFrame
<1>7. CASE CallFails
  <2>1. UNCHANGED <<auth, cm, ds, rbac>> /\ rpc' = "idle"
    BY <1>7 DEF CallFails, Fail, Idle, cluster, owned
  <2>2. QED  BY <1>1, <2>1, SettledFrame DEF WorkerSettled
<1>8. CASE OperatorRestarts
  <2>1. UNCHANGED <<auth, cm, ds, rbac>> /\ rpc' = "idle"
    BY Zenon, <1>1, <1>8, SettledRestart DEF OperatorRestarts, Idle
  <2>2. QED  BY <1>1, <2>1, SettledFrame DEF WorkerSettled
<1>9. QED
  BY Zenon, <1>2, <1>3, <1>4, <1>5, <1>6, <1>7, <1>8 DEF RecNext, Users

(* A settled cluster is left alone, for any number of Authenticators: a    *)
(* Reconcile for a status write, a retry or a restart writes what is       *)
(* there, makes no version, and so is not the cause of another Reconcile.  *)
THEOREM SettledSafety == RecSpec => SettledStays
<1>1. RecInv /\ [RecNext]_recVars
        => [Settled /\ ~UserChanges => Settled' /\ UNCHANGED owned]_recVars
  BY SettledStep
<1>2. QED  BY <1>1, RecInvInit, RecInvNext, PTL DEF RecSpec, SettledStays
=============================================================================
