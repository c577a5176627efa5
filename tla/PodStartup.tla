----------------------------- MODULE PodStartup -----------------------------
(***************************************************************************)
(* From an Authenticator to the filters on its interfaces: the pod         *)
(* template and the hostapd.conf that configgen generates, the arguments   *)
(* monitor/main.go reads back from them, the tc filters initInterfaces     *)
(* installs before any client has authenticated, and the files hostapd     *)
(* finds when it starts.                                                   *)
(*                                                                         *)
(* A string is a sequence of tokens: the names and numbers it is joined    *)
(* from and the separators between them.                                   *)
(***************************************************************************)
EXTENDS Naturals, SequencesExt

CONSTANTS
    PFs,            \* interfaces that are SR-IOV physical functions
    Plain,          \* interfaces that are not
    VFsOf,          \* the VF netdevs of each interface, in the host's namespace
    Ports,          \* port numbers
    NoPort,         \* the port of a frame that has none
    AuthNamespace, AuthName,   \* the key of the Authenticator
    SecretFiles,    \* files of hostapd that come from secrets, all treated alike
    Keys,           \* keys of a secret
    MaxList,        \* bound: length of the lists of an Authenticator
    StartFaults     \* "tc": a tc command may fail; "k8s": no client can be made

Comma == ","
Space == " "
Equals == "="
Quote == "quote"

Interfaces == PFs \cup Plain
VFNetdevs == UNION {{VFsOf[i][k] : k \in DOMAIN VFsOf[i]} : i \in Interfaces}
AllNetdevs == Interfaces \cup VFNetdevs

ASSUME KindsAssumption == PFs \cap Plain = {} /\ Interfaces \cap VFNetdevs = {}
ASSUME PlainAssumption == \A i \in Plain : VFsOf[i] = <<>>
ASSUME VFsAssumption == \A i \in Interfaces : VFsOf[i] \in Seq(VFNetdevs)
ASSUME MaxListAssumption == MaxList \in Nat

(* Names and numbers hold no separator.                                    *)
ASSUME SeparatorAssumption ==
    /\ {Comma, Space} \cap (Interfaces \cup Ports) = {}
    /\ Equals \notin {AuthNamespace, AuthName}

Lists(S) == {s \in SeqOf(S, MaxList) : IsInjective(s)}

Eapol == [proto |-> "eapol", ip |-> 0, port |-> NoPort]
Frames == {Eapol} \cup [proto: {"tcp", "udp"}, ip: {4, 6}, port: Ports]

VARIABLES
    a11r,      \* the Authenticator's spec
    conf,      \* the files hostapd.conf names, in the ConfigMap ...
    mounted,   \* ... and in the pod's volume
    template,  \* the pod template of the DaemonSet, of which the pod is made
    args,      \* what the monitor's main makes of it
    startPc,   \* where the monitor container is
    netdevs,   \* netdevs initInterfaces still has to visit
    filters,   \* tc filters of each netdev: preference, frames, action
    hostapd,   \* the hostapd container
    refused    \* ghost: netdevs for which tc did not take every port's filter

configVars == <<a11r, conf, mounted, template>>
mainVars == <<args, startPc, netdevs, refused>>
startVars == <<configVars, mainVars, filters, hostapd>>

NoSecrets == [f \in {} |-> ""]
NoArgs == [ifaces |-> <<>>, tcp |-> <<>>, udp |-> <<>>, auth |-> NoSecrets]

(* Secrets: the key of each secret the spec refers to, "" if it gives none.*)
Secrets == UNION {[S -> Keys \cup {""}] : S \in SUBSET SecretFiles}

(* The instances vary the lists or the secrets, not both.                  *)
Specs ==
    [ifaces: Lists(Interfaces), tcp: Lists(Ports), udp: Lists(Ports), enabled: BOOLEAN,
     secrets: {NoSecrets}]
    \cup [ifaces: {<<i>> : i \in Plain}, tcp: {<<>>}, udp: {<<>>}, enabled: BOOLEAN,
          secrets: Secrets]

-----------------------------------------------------------------------------
(* Strings                                                                 *)

(* strings.Join, and the loop of parsePorts.                               *)
Join(parts, sep) ==
    [i \in 1 .. (IF parts = <<>> THEN 0 ELSE 2 * Len(parts) - 1) |->
        IF i % 2 = 1 THEN parts[(i + 1) \div 2] ELSE sep]

(* strings.Split: the fields between the separators.                       *)
Split(str, sep) ==
    LET cuts == {i \in DOMAIN str : str[i] = sep} \cup {0, Len(str) + 1}
        Cut(k) == CHOOSE i \in cuts : Cardinality({j \in cuts : j < i}) = k
    IN [k \in 1 .. (Cardinality(cuts) - 1) |-> SubSeq(str, Cut(k - 1) + 1, Cut(k) - 1)]

TrimSpace(str) ==
    LET text == {i \in DOMAIN str : str[i] # Space}
    IN IF text = {} THEN <<>> ELSE SubSeq(str, Min(text), Max(text))

(* Faulty: only the first field is kept.                                   *)
ParseStringsArgsFirst(str) ==
    IF str = <<>> THEN <<>> ELSE <<TrimSpace(Split(str, Comma)[1])>>

ParseStringsArgs(str) ==
    IF str = <<>> THEN <<>>
    ELSE [k \in DOMAIN Split(str, Comma) |-> TrimSpace(Split(str, Comma)[k])]

(* strconv.Atoi accepts a field that is one number.                        *)
IsNumber(field) == Len(field) = 1

ParseFails(str) == \E k \in DOMAIN ParseStringsArgs(str) : ~IsNumber(ParseStringsArgs(str)[k])

Values(str) == [k \in DOMAIN ParseStringsArgs(str) |-> ParseStringsArgs(str)[k][1]]

(* GetAuthNamespacedName: the last line key="value" counts; lines without  *)
(* exactly one = are skipped. Label values hold no blank or backslash.     *)
LabelValue(lines, key) ==
    LET hits == {i \in DOMAIN lines : /\ Len(Split(lines[i], Equals)) = 2
                                      /\ Split(lines[i], Equals)[1] = <<key>>}
        quoted == Split(lines[Max(hits)], Equals)[2]
    IN IF hits = {} THEN <<>> ELSE SubSeq(quoted, 2, Len(quoted) - 1)

GetAuthNamespacedName(lines) ==
    [namespace |-> LabelValue(lines, "authenticator-namespace"),
     name |-> LabelValue(lines, "authenticator-name")]

NoAuthKey(lines) == <<>> \in {LabelValue(lines, k) : k \in {"authenticator-namespace",
                                                           "authenticator-name"}}

-----------------------------------------------------------------------------
(* The operator                                                            *)

(* ConfigMap: hostapd.conf names the file of every secret.                 *)
HostapdConf(a) == DOMAIN a.secrets

(* The downward API writes a label as key="value".                         *)
Label(key, value) == <<key, Equals, Quote, value, Quote>>

Labels == <<Label("app", "authenticator.eapol"), Label("authenticator-name", AuthName),
            Label("authenticator-namespace", AuthNamespace)>>

(* Faulty: a secret that gives no key is not projected.                    *)
ProjectedNeedsKey(a) == [f \in {g \in DOMAIN a.secrets : a.secrets[g] # ""} |-> a.secrets[f]]

(* The files of the config volume, each with its key of the secret: the    *)
(* name of the file if the spec gives none.                                *)
Projected(a) == [f \in DOMAIN a.secrets |-> IF a.secrets[f] = "" THEN f ELSE a.secrets[f]]

(* A disabled Authenticator gets a node selector no node has.              *)
Daemonset(a) ==
    [ifaces |-> Join(a.ifaces, Comma), tcp |-> Join(a.tcp, Space), udp |-> Join(a.udp, Space),
     labels |-> Labels, files |-> Projected(a), scheduled |-> a.enabled]

StartInit ==
    /\ a11r \in Specs
    /\ conf = HostapdConf(a11r)
    /\ mounted = conf
    /\ template = Daemonset(a11r)
    /\ args = NoArgs
    /\ startPc = IF a11r.enabled THEN "main" ELSE "unscheduled"
    /\ netdevs = <<>>
    /\ filters = [d \in AllNetdevs |-> {}]
    /\ hostapd = IF a11r.enabled THEN "starting" ELSE "off"
    /\ refused = {}

(* The DaemonSet is written: a pod of the old template is killed, and a    *)
(* new one may mount a hostapd.conf the kubelet still has in its cache.    *)
Rollout(a) ==
    /\ template' = Daemonset(a)
    /\ mounted' \in {mounted, conf}
    /\ args' = NoArgs
    /\ startPc' = IF a.enabled THEN "main" ELSE "unscheduled"
    /\ netdevs' = <<>>
    /\ refused' = {}
    /\ hostapd' = IF a.enabled THEN "starting" ELSE "off"
    /\ UNCHANGED filters

RolledOut == template = Daemonset(a11r)

(* The user edits the ports: Reconcile, one step here (Reconciler has its  *)
(* calls), has only the DaemonSet to write.                                *)
EditPorts(tcp, udp) ==
    /\ startPc \in {"exited", "monitoring"}
    /\ a11r.secrets = NoSecrets
    /\ <<tcp, udp>> # <<a11r.tcp, a11r.udp>>
    /\ a11r' = [a11r EXCEPT !.tcp = tcp, !.udp = udp]
    /\ Rollout(a11r')
    /\ UNCHANGED conf

(* The user edits the secrets: Reconcile writes the ConfigMap, which the   *)
(* running pod has mounted, before the DaemonSet.                          *)
UpdateConfigMap(secrets) ==
    /\ RolledOut
    /\ a11r.tcp = <<>> /\ a11r.udp = <<>> /\ ToSet(a11r.ifaces) \subseteq Plain
    /\ a11r' = [a11r EXCEPT !.secrets = secrets]
    /\ conf' = HostapdConf(a11r')
    /\ UNCHANGED <<mounted, template, mainVars, filters, hostapd>>

UpdateDaemonSet ==
    /\ ~RolledOut
    /\ Rollout(a11r)
    /\ UNCHANGED <<a11r, conf>>

-----------------------------------------------------------------------------
(* The containers                                                          *)

KubeletSyncs ==
    /\ mounted # conf
    /\ mounted' = conf
    /\ UNCHANGED <<a11r, conf, template, mainVars, filters, hostapd>>

(* hostapd exits if a file it is told to read is missing.                  *)
HostapdStarts ==
    /\ hostapd = "starting"
    /\ hostapd' = IF mounted \subseteq DOMAIN template.files THEN "running" ELSE "failed"
    /\ UNCHANGED <<configVars, mainVars, filters>>

(* It failed, or crashes, and the kubelet restarts it.                     *)
HostapdRestarts ==
    /\ hostapd \in {"running", "failed"}
    /\ hostapd' = "starting"
    /\ UNCHANGED <<configVars, mainVars, filters>>

(* main up to initInterfaces. Interface names hold no separator.           *)
ParseArgs ==
    /\ startPc = "main"
    /\ IF \/ template.ifaces = <<>>
          \/ ParseFails(template.tcp) \/ ParseFails(template.udp)
          \/ NoAuthKey(template.labels)
       THEN startPc' = "exited" /\ UNCHANGED <<args, netdevs>>
       ELSE /\ args' = [ifaces |-> Values(template.ifaces), tcp |-> Values(template.tcp),
                        udp |-> Values(template.udp),
                        auth |-> GetAuthNamespacedName(template.labels)]
            /\ netdevs' = FlattenSeq([k \in DOMAIN args'.ifaces |->
                                        <<args'.ifaces[k]>> \o VFsOf[args'.ifaces[k]]])
            /\ startPc' = "reset"
    /\ UNCHANGED <<configVars, filters, hostapd, refused>>

(* GetClient and EventRecorder come next; without them main exits.         *)
ClientFails ==
    /\ "k8s" \in StartFaults
    /\ startPc = "main"
    /\ startPc' = "exited"
    /\ UNCHANGED <<configVars, args, netdevs, filters, hostapd, refused>>

AddFilters(S) == filters' = [filters EXCEPT ![netdevs[1]] = @ \cup S]

NextNetdev ==
    /\ netdevs' = Tail(netdevs)
    /\ startPc' = IF Len(netdevs) > 1 THEN "reset" ELSE "monitoring"

(* Faulty: the filters of the last run are kept.                           *)
ResetInterfaceKeeps ==
    /\ startPc = "reset"
    /\ startPc' = "drop"
    /\ UNCHANGED <<configVars, args, netdevs, filters, hostapd, refused>>

(* ResetInterface ignores a qdisc that cannot be deleted, and clsact is    *)
(* then added anew.                                                        *)
ResetInterface ==
    /\ startPc = "reset"
    /\ filters' = [filters EXCEPT ![netdevs[1]] = {}]
    /\ startPc' = "drop"
    /\ UNCHANGED <<configVars, args, netdevs, hostapd, refused>>

(* The last filter drops everything; a netdev that is not a PF gets no     *)
(* other.                                                                  *)
DropAll ==
    /\ startPc = "drop"
    /\ AddFilters({[pref |-> 10001, match |-> Frames, action |-> "drop"]})
    /\ IF netdevs[1] \in PFs
       THEN startPc' = "eapol" /\ UNCHANGED netdevs
       ELSE NextNetdev
    /\ UNCHANGED <<configVars, args, hostapd, refused>>

AcceptEapol ==
    /\ startPc = "eapol"
    /\ AddFilters({[pref |-> 10000, match |-> {Eapol}, action |-> "ok"]})
    /\ startPc' = "ports"
    /\ UNCHANGED <<configVars, args, netdevs, hostapd, refused>>

(* Faulty: the UDP ports are looked at only if there are TCP ports.        *)
UnprotectsUdpWithTcp(f) ==
    IF f.ip = 6 THEN f.port \in ToSet(args.tcp) \cup ToSet(args.udp)
    ELSE /\ f.ip = 4 /\ args.tcp # <<>>
         /\ f.port \in ToSet(IF f.proto = "tcp" THEN args.tcp ELSE args.udp)

(* The frames some filter is for. The IPv6 filters are for the ports of    *)
(* both lists, under any protocol.                                         *)
Unprotects(f) ==
    IF f.ip = 6 THEN f.port \in ToSet(args.tcp) \cup ToSet(args.udp)
    ELSE /\ f.ip = 4
         /\ f.port \in ToSet(IF f.proto = "tcp" THEN args.tcp ELSE args.udp)

(* The filter that lets f in.                                              *)
PortFilter(f) ==
    [pref |-> 9999, action |-> "ok",
     match |-> {g \in Frames : g.ip = f.ip /\ g.port = f.port /\ (f.ip = 6 \/ g.proto = f.proto)}]

PortFilters == {PortFilter(f) : f \in {g \in Frames \ {Eapol} : Unprotects(g)}}

(* UnprotectPorts and UnprotectIPv6Ports log a filter that cannot be added *)
(* and go on.                                                              *)
UnprotectPorts ==
    /\ startPc = "ports"
    /\ \E S \in (IF "tc" \in StartFaults THEN SUBSET PortFilters ELSE {PortFilters}) :
          /\ AddFilters(S)
          /\ refused' = IF S = PortFilters THEN refused ELSE refused \cup {netdevs[1]}
    /\ NextNetdev
    /\ UNCHANGED <<configVars, args, hostapd>>

(* Any other tc that fails ends the process.                               *)
TcFails ==
    /\ "tc" \in StartFaults
    /\ startPc \in {"reset", "drop", "eapol"}
    /\ startPc' = "exited"
    /\ netdevs' = <<>>
    /\ UNCHANGED <<configVars, args, filters, hostapd, refused>>

(* The process exited, or crashes here, and the kubelet restarts the       *)
(* container; the filters outlive it.                                      *)
ContainerRestarts ==
    /\ startPc \notin {"main", "unscheduled"}
    /\ startPc' = "main"
    /\ args' = NoArgs
    /\ netdevs' = <<>>
    /\ refused' = {}
    /\ UNCHANGED <<configVars, filters, hostapd>>

Operator ==
    \/ UpdateDaemonSet
    \/ \E tcp, udp \in Lists(Ports) : EditPorts(tcp, udp)
    \/ \E secrets \in Secrets : UpdateConfigMap(secrets)

Monitor ==
    \/ ParseArgs \/ ClientFails
    \/ ResetInterface \/ DropAll \/ AcceptEapol \/ UnprotectPorts
    \/ TcFails \/ ContainerRestarts

StartNext == Operator \/ Monitor \/ KubeletSyncs \/ HostapdStarts \/ HostapdRestarts

StartSpec == StartInit /\ [][StartNext]_startVars

-----------------------------------------------------------------------------
(* What tc does with a frame: the first filter that matches decides, and a *)
(* frame none matches passes.                                              *)
Matching(d, f) == {x \in filters[d] : f \in x.match}
Accepts(d, f) ==
    \/ Matching(d, f) = {}
    \/ \E x \in Matching(d, f) : x.action = "ok" /\ \A y \in Matching(d, f) : x.pref <= y.pref

Protected == UNION {{i} \cup ToSet(VFsOf[i]) : i \in ToSet(a11r.ifaces)}

(* The monitor protects the interfaces of the Authenticator, opens its     *)
(* ports and writes to its status, or exits: parseIntArgs never takes one  *)
(* list for another, and the labels give the key of the Authenticator.     *)
ArgsRoundTrip ==
    startPc \in {"reset", "drop", "eapol", "ports", "monitoring"} =>
        args = [ifaces |-> a11r.ifaces, tcp |-> a11r.tcp, udp |-> a11r.udp,
                auth |-> [namespace |-> <<AuthNamespace>>, name |-> <<AuthName>>]]

(* hostapd.conf and the config volume are generated apart and reach the    *)
(* pod apart, and yet agree: hostapd misses a file only if it starts while *)
(* an edit has not reached the DaemonSet or the mounted volume.            *)
HostapdFindsFiles ==
    [][hostapd = "starting" /\ hostapd' = "failed" => ~RolledOut \/ mounted # conf]_startVars

(* The spec's lists are per protocol (Ports, authenticator_types.go).      *)
Listed(f) == f.port \in ToSet(IF f.proto = "tcp" THEN a11r.tcp ELSE a11r.udp)

(* A limit of the code: UnprotectIPv6Ports gets both lists as one and its  *)
(* filters name no protocol, so a port of one list is open for the other   *)
(* protocol over IPv6.                                                     *)
OpenOverIPv6(f) == f.ip = 6 /\ f.port \in ToSet(a11r.tcp) \cup ToSet(a11r.udp)

(* When monitoring starts, no interface of the spec and no VF of one lets  *)
(* a frame in that is neither EAPOL nor to a port the spec lists for its   *)
(* protocol, the IPv6 limit apart; whatever filters an earlier run of the  *)
(* pod, with other ports, or one that died half way has left.              *)
OnlyUnprotectedPass ==
    startPc = "monitoring" =>
        \A d \in Protected, f \in Frames \ {Eapol} :
            Accepts(d, f) => Listed(f) \/ OpenOverIPv6(f)

(* When monitoring starts, every PF of the spec lets EAPOL in, for         *)
(* hostapd, and the frames to the ports the spec lists, over IPv4 and      *)
(* IPv6, unless tc refused one of the PF's filters, which is only logged.  *)
(* A limit of the code: an interface that is not a PF lets nothing in.     *)
UnprotectedPass ==
    startPc = "monitoring" =>
        \A d \in Protected \cap PFs :
            /\ Accepts(d, Eapol)
            /\ d \notin refused => \A f \in Frames \ {Eapol} : Listed(f) => Accepts(d, f)

(* README, example: an Authenticator may name several unprotected ports,   *)
(* and its monitor runs.                                                   *)
MonitorStarts == a11r.ifaces # <<>> => startPc # "exited"
=============================================================================
