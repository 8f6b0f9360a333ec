------------------------------- MODULE IpvsSink -------------------------------
(***************************************************************************)
(* backends/ipvs-as-sink, for one address family: the backend that         *)
(* programs IPVS virtual servers, destinations and ip sets at each event   *)
(* of the service listener in front of it, and iptables rules at Sync.     *)
(* Nothing is computed anew: what the kernel holds is what the events      *)
(* added up to.  The state is one record, since one call runs many events: *)
(*   svcs, svcEPMap, servicePorts, endpoints, portMap, refs   the process; *)
(*   vs (destinations and persistence of each virtual server), sets,       *)
(*   addrs (of kube-ipvs0), ipt (iptables)                    the kernel;  *)
(*   up, crashed; and as history spoilt, the services a known defect has   *)
(*   met, restarted, and synced, that nothing has come since a good Sync.  *)
(* A service is a record [type, ips, ports, internal, local, affinity,     *)
(* ranges], a port [name, proto, port, node, target], an endpoint          *)
(* [ip, local, over].                                                      *)
(***************************************************************************)
EXTENDS BackendFeed, ServiceEvents, IpvsSinkRules, Integers, Functions

CONSTANTS NodeIPs,      \* nodeAddresses, a sequence
          PortPrefix    \* the pairs of ports where the digits of one begin the other's

VARIABLE st

ipvsSinkVars == <<st>>

SetNames == {"KUBE-LOOP-BACK", "KUBE-CLUSTER-IP", "KUBE-EXTERNAL-IP", "KUBE-LOAD-BALANCER",
             "KUBE-LOAD-BALANCER-LOCAL", "KUBE-LOAD-BALANCER-FW", "KUBE-LOAD-BALANCER-SOURCE-CIDR",
             "KUBE-NODE-PORT-TCP", "KUBE-NODE-PORT-UDP"}
protocolIPSetMap == [TCP |-> "KUBE-NODE-PORT-TCP", UDP |-> "KUBE-NODE-PORT-UDP"]

IpvsSinkInit ==
    st = [svcs |-> [s \in Services |-> None], svcEPMap |-> [s \in Services |-> 0],
          servicePorts |-> <<>>, endpoints |-> <<>>, portMap |-> <<>>,
          refs |-> [x \in SetNames |-> 0], sets |-> [x \in SetNames |-> {}],
          vs |-> <<>>, addrs |-> {}, ipt |-> NoRules, up |-> TRUE, crashed |-> FALSE,
          spoilt |-> {}, restarted |-> FALSE, synced |-> FALSE]

Spoil(b, S) == [b EXCEPT !.spoilt = @ \cup S]
Without(f, K) == [x \in DOMAIN f \ K |-> f[x]]
-----------------------------------------------------------------------------
(* Service ports, virtual servers and destinations.                        *)

NewBaseServicePortInfo(v, port, ip, type) ==
    [ip |-> ip, type |-> type, port |-> port.port, node |-> port.node, proto |-> port.proto,
     target |-> port.target, name |-> port.name, affinity |-> v.affinity]

ToService(i) == <<i.ip, IF i.type = "NodePort" THEN i.node ELSE i.port, i.proto>>

ipvsDestination(ep, i) ==
    <<ep.ip, IF i.target # 0 THEN i.target
             ELSE IF i.name \in DOMAIN ep.over THEN ep.over[i.name] ELSE 0>>

getServicePortKey(s, ip, port) == <<s, ip, port.proto, port.port>>
PortsOfService(b, s) == {k \in DOMAIN b.servicePorts : k[1] = s}
EndpointsOfService(b, s) == {e \in DOMAIN b.endpoints : ServiceOf[e] = s}

\* The keys that begin with the text of key k: also those of longer port numbers.
ByPrefix(b, k) ==
    {x \in DOMAIN b.servicePorts :
        x = k \/ (Len(x) = 4 /\ SubSeq(x, 1, 3) = SubSeq(k, 1, 3) /\ <<k[4], x[4]>> \in PortPrefix)}

\* Set of a light diff store, with hash 0: a key that is there keeps its value.
SetKept(f, k, v) == IF k \in DOMAIN f THEN f ELSE f @@ (k :> v)

\* Adding a virtual server that exists changes nothing.
addVirtualServer(b, i) ==
    [b EXCEPT !.vs = SetKept(@, ToService(i), [affinity |-> i.affinity, dests |-> {}])]

AddDestinations(b, infos, eps) ==
    [b EXCEPT !.vs = [x \in DOMAIN @ |-> [@[x] EXCEPT !.dests = @ \cup
        {ipvsDestination(ep, i) : ep \in eps, i \in {j \in infos : ToService(j) = x}}]]]

DeleteDestinations(b, infos, eps) ==
    [b EXCEPT !.vs = [x \in DOMAIN @ |-> [@[x] EXCEPT !.dests = @ \
        {ipvsDestination(ep, i) : ep \in eps, i \in {j \in infos : ToService(j) = x}}]]]
-----------------------------------------------------------------------------
(* The ip sets.  A call names a set and the entries; each counts once.     *)

AddEntries(b, call) == [b EXCEPT !.sets[call[1]] = @ \cup call[2], !.refs[call[1]] = @ + 1]
DelEntriesCounted(b, call) == [b EXCEPT !.refs[call[1]] = @ - 1]
DelEntries(b, call) == [b EXCEPT !.sets[call[1]] = @ \ call[2], !.refs[call[1]] = @ - 1]

AddOrDelEndPointInIPSet(b, e, port, add) ==
    IF ~b.endpoints[e].local THEN b
    ELSE LET call == <<"KUBE-LOOP-BACK", {<<b.endpoints[e].ip, port.proto, port.target>>}>>
         IN IF add THEN AddEntries(b, call) ELSE DelEntries(b, call)

LoopBack(b, s, port, times, add) ==
    FoldLeft(LAMBDA a, e : AddOrDelEndPointInIPSet(a, e, port, add), b,
             FlattenSeq([n \in 1..times |-> SetToSeq(EndpointsOfService(b, s))]))

getIPSetEntry(i) == {<<i.ip, i.proto, i.port>>}
ClusterIPCall(i) == <<"KUBE-CLUSTER-IP", getIPSetEntry(i)>>
ExternalIPCall(i) == <<"KUBE-EXTERNAL-IP", getIPSetEntry(i)>>
NodePortCall(port) == <<protocolIPSetMap[port.proto], {<<port.node>>}>>

\* The entry for a source range has the type of an entry without one: it loses the
\* range when it is written, and the set of ranges does not take it.
LbIPCalls(v, i) ==
    <<<<"KUBE-LOAD-BALANCER", getIPSetEntry(i)>>>>
    \o (IF v.local THEN <<<<"KUBE-LOAD-BALANCER-LOCAL", getIPSetEntry(i)>>>> ELSE <<>>)
    \o [n \in 1..v.ranges |-> <<"KUBE-LOAD-BALANCER-SOURCE-CIDR", {}>>]
    \o (IF v.ranges > 0 THEN <<<<"KUBE-LOAD-BALANCER-FW", getIPSetEntry(i)>>>> ELSE <<>>)
-----------------------------------------------------------------------------
(* AddIPPort and DeleteIPPort.  They are told apart by the service's type: *)
(* which virtual servers and which entries stand for an address and port.  *)

\* infos are the virtual servers, calls the entries of i, the address and port itself.
NodeInfos(v, port) ==
    [n \in DOMAIN NodeIPs |-> NewBaseServicePortInfo(v, port, NodeIPs[n], "NodePort")]

ClusterIPService(v, ip, port, i) ==
    [infos |-> <<NewBaseServicePortInfo(v, port, ip, "ClusterIP")>>, calls |-> <<ClusterIPCall(i)>>]

ExternalIP(v, ip, port, i) ==
    [infos |-> <<NewBaseServicePortInfo(v, port, ip, "ClusterIP")>>, calls |-> <<ExternalIPCall(i)>>]

NodePortService(v, ip, port, i) ==
    [infos |-> NodeInfos(v, port) \o <<NewBaseServicePortInfo(v, port, ip, "ClusterIP")>>,
     calls |-> <<NodePortCall(port), ClusterIPCall(i)>>]

LbService(v, ip, kind, port, i) ==
    CASE kind = "ClusterIP" ->
           [infos |-> <<NewBaseServicePortInfo(v, port, ip, "ClusterIP")>> \o NodeInfos(v, port),
            calls |-> <<ClusterIPCall(i), NodePortCall(port)>>]
      [] kind = "LoadBalancerIP" ->
           [infos |-> <<NewBaseServicePortInfo(v, port, ip, "LoadBalancer")>>, calls |-> LbIPCalls(v, i)]
      [] OTHER -> [infos |-> <<>>, calls |-> <<>>]

Handled(v, ip, kind, port, i) ==
    CASE v.type = "ClusterIP" /\ kind = "ClusterIP" -> ClusterIPService(v, ip, port, i)
      [] v.type = "ClusterIP" /\ kind = "ExternalIP" -> ExternalIP(v, ip, port, i)
      [] v.type = "NodePort" -> NodePortService(v, ip, port, i)
      [] v.type = "LoadBalancer" -> LbService(v, ip, kind, port, i)
      [] OTHER -> [infos |-> <<>>, calls |-> <<>>]

Infos(v, ip, kind, port) ==
    Handled(v, ip, kind, port, NewBaseServicePortInfo(v, port, ip, "ClusterIP")).infos
Calls(v, ip, kind, port, i) == Handled(v, ip, kind, port, i).calls

isServiceUpdatedNever(b, s) == FALSE
isServiceUpdated(b, s) == b.svcEPMap[s] >= 1

PortKey(port) == <<port.proto, port.port>>
SetInPortMap(b, s, port) ==
    [b EXCEPT !.portMap =
        (s :> ((PortKey(port) :> port) @@ (IF s \in DOMAIN @ THEN @[s] ELSE <<>>))) @@ @]

\* An external address of a ClusterIP service leaves the port map alone.
OnlyExternal(v, kind) == v.type = "ClusterIP" /\ kind = "ExternalIP"

\* A new service's virtual servers and entries; of an updated one also the
\* destinations and the entries of its endpoints.
ProgramPort(b, s, v, ip, kind, port, updated) ==
    LET infos == Infos(v, ip, kind, port)
        own == NewBaseServicePortInfo(v, port, ip, "ClusterIP")
        ported == IF OnlyExternal(v, kind) THEN b ELSE SetInPortMap(b, s, port)
        served == FoldLeft(LAMBDA a, i :
                      addVirtualServer([a EXCEPT !.servicePorts =
                          SetKept(@, getServicePortKey(s, i.ip, port), i)], i), ported, infos)
        entered == FoldLeft(AddEntries, served, Calls(v, ip, kind, port, own))
        linked == AddDestinations(entered, ToSet(infos),
                      {b.endpoints[e] : e \in EndpointsOfService(b, s)})
    IN IF ~updated THEN entered
       ELSE IF OnlyExternal(v, kind) THEN linked
       ELSE LoopBack(linked, s, port, Len(infos), TRUE)

\* getLbIPForIPFamily: an updated load balancer uses its first address.
LbAddress(v, ip, kind, updated) ==
    IF updated /\ v.type = "LoadBalancer" /\ kind = "LoadBalancerIP"
    THEN Head(v.ips["LoadBalancerIP"]) ELSE ip

\* An updated service that the port map has lost is not programmed; a load
\* balancer's nil map is written to.
AddIPPort(b0, s, v, ip, kind, port) ==
    LET b == [b0 EXCEPT !.svcs[s] = v]
        updated == isServiceUpdated(b, s)
        lost == updated /\ ~OnlyExternal(v, kind) /\ s \notin DOMAIN b.portMap
    IN CASE v.type = "ClusterIP" /\ kind = "LoadBalancerIP" -> b
         [] lost /\ v.type = "LoadBalancer" -> [b EXCEPT !.crashed = TRUE]
         [] lost /\ v.type # "LoadBalancer" -> Spoil(b, {s})
         [] OTHER -> LET at == LbAddress(v, ip, kind, updated)
                     IN ProgramPort(IF at = ip THEN b ELSE Spoil(b, {s}), s, v, at, kind, port, updated)

deletePortFromPortMap(b, s, port) ==
    IF s \notin DOMAIN b.portMap THEN b
    ELSE LET left == Without(b.portMap[s], {PortKey(port)})
         IN [b EXCEPT !.portMap = IF left = <<>> THEN Without(@, {s}) ELSE (s :> left) @@ @]

\* The first service port that is found by prefix goes with all of them; there
\* must be one.
PortInfo(b, s, ip, port) ==
    LET own == getServicePortKey(s, ip, port)
        found == ByPrefix(b, own)
    IN b.servicePorts[IF own \in found THEN own ELSE CHOOSE x \in found : TRUE]

DropPort(b, s, ip, port) ==
    LET own == getServicePortKey(s, ip, port)
        found == ByPrefix(b, own)
    IN IF found = {} THEN [b EXCEPT !.crashed = TRUE]
       ELSE [b EXCEPT !.servicePorts = Without(@, found),
                      !.vs = Without(@, {ToService(PortInfo(b, s, ip, port))}),
                      !.spoilt = IF found = {own} THEN @ ELSE @ \cup {s}]

\* deleteClusterIPService adds the endpoints' entries where the others delete them.
\* The node ports of a service go with whichever of its addresses goes first.
DeleteIPPort(b0, s, v, ip, kind, port) ==
    LET b == [b0 EXCEPT !.svcs[s] = v]
        infos == Infos(v, ip, kind, port)
        own == PortInfo(b, s, ip, port)
        dropped == FoldLeft(LAMBDA a, i : IF a.crashed THEN a ELSE DropPort(a, s, i.ip, port), b, infos)
        left == FoldLeft(DelEntries, dropped, Calls(v, ip, kind, port, own))
        looped == LoopBack(left, s, port, Len(infos), v.type = "ClusterIP")
    IN IF dropped.crashed THEN dropped
       ELSE Spoil(deletePortFromPortMap(looped, s, port),
                  IF v.type = "NodePort" /\ kind # "ClusterIP" THEN {s} ELSE {})
-----------------------------------------------------------------------------
(* The other events, and the calls of the sink.                            *)

\* The service port is stored again under the service's own key, where it stays.
SessionAffinity(b, s, on) ==
    LET ks == PortsOfService(b, s)
        named == {ToService(b.servicePorts[k]) : k \in ks}
        first == b.servicePorts[CHOOSE k \in ks : TRUE]
    IN IF ks = {} THEN b
       ELSE [b EXCEPT !.vs = [x \in DOMAIN @ |-> IF x \in named THEN [@[x] EXCEPT !.affinity = on] ELSE @[x]],
                      !.servicePorts = SetKept(@, <<s>>, [first EXCEPT !.affinity = on])]

AllIPs(v) == UNION {ToSet(v.ips[kind]) : kind \in ToSet(IPKinds)}

\* Without the interface the process gives up.
AddIP(b, ip) == IF b.up THEN [b EXCEPT !.addrs = @ \cup {ip}] ELSE [b EXCEPT !.crashed = TRUE]

\* The interface does not count who uses an address.
DeleteIP(b, s, curr, ip) ==
    Spoil([b EXCEPT !.addrs = @ \ {ip}],
          {t \in KnownSvcs \ {s} : ip \in AllIPs(toldSvc[t])} \cup {t \in {s} : ip \in AllIPs(curr)})

OnEvent(b, s, prev, curr, ev) ==
    IF b.crashed THEN b
    ELSE CASE ev.op = "AddIP" -> AddIP(b, ev.what)
           [] ev.op = "DeleteIP" -> DeleteIP(b, s, curr, ev.what)
           [] ev.op = "AddIPPort" -> AddIPPort(b, s, curr, ev.what[1], ev.kind, ev.what[2])
           [] ev.op = "DeleteIPPort" -> DeleteIPPort(b, s, prev, ev.what[1], ev.kind, ev.what[2])
           [] ev.op = "EnableSessionAffinity" -> SessionAffinity(b, s, TRUE)
           [] ev.op = "DisableSessionAffinity" -> SessionAffinity(b, s, FALSE)
           [] OTHER -> b

Unsynced(b) == [b EXCEPT !.synced = FALSE]

Listen(s, prev, curr) ==
    FoldLeft(LAMBDA b, ev : OnEvent(b, s, prev, curr, ev), Unsynced(st), diff(prev, curr))

OrNoService(v) == IF v = None THEN NoService ELSE v

\* EnableTrafficPolicy and DisableTrafficPolicy do nothing here, and a change of the
\* source ranges is no event: the sets keep what the old policy put there.
Repolicied(prev, v) == /\ prev # None /\ prev.type = "LoadBalancer" /\ v.type = "LoadBalancer"
                       /\ <<prev.local, prev.ranges>> # <<v.local, v.ranges>>

IpvsSinkSetService(s, v) == /\ ~st.crashed /\ CallSetService(s, v)
                            /\ st' = Spoil(Listen(s, OrNoService(toldSvc[s]), v),
                                           IF Repolicied(toldSvc[s], v) THEN {s} ELSE {})

IpvsSinkDeleteService(s) == /\ ~st.crashed /\ CallDeleteService(s)
                            /\ st' = Listen(s, toldSvc[s], NoService)

Ports(b, s) == IF s \in DOMAIN b.portMap THEN SetToSeq(Range(b.portMap[s])) ELSE <<>>

\* An endpoint that is set again keeps its old value, and is counted again.
addRealServer(b, s, e, v) ==
    LET stored == [b EXCEPT !.endpoints = SetKept(@, e, v), !.svcEPMap[s] = @ + 1,
                            !.spoilt = IF e \in DOMAIN b.endpoints THEN @ \cup {s} ELSE @]
        linked == AddDestinations(stored, {b.servicePorts[k] : k \in PortsOfService(b, s)}, {v})
    IN FoldLeft(LAMBDA a, port :
           IF ~v.local THEN a
           ELSE AddEntries(a, <<"KUBE-LOOP-BACK", {<<v.ip, port.proto, port.target>>}>>),
           linked, Ports(b, s))

deleteRealServer(b, s, e) ==
    LET counted == [b EXCEPT !.svcEPMap[s] = @ - 1]
        unlinked == DeleteDestinations(counted, {b.servicePorts[k] : k \in PortsOfService(b, s)},
                                       {b.endpoints[e]})
        left == FoldLeft(LAMBDA a, port : AddOrDelEndPointInIPSet(a, e, port, FALSE),
                         unlinked, Ports(b, s))
    IN IF e \notin DOMAIN b.endpoints THEN counted
       ELSE [left EXCEPT !.endpoints = Without(@, {e})]

\* A service that was never programmed has no endpoints here (a headless one).
IpvsSinkSetEndpoint(e, v) ==
    /\ ~st.crashed /\ CallSetEndpoint(e, v)
    /\ st' = IF st.svcs[ServiceOf[e]] = None THEN Spoil(Unsynced(st), {ServiceOf[e]})
             ELSE addRealServer(Unsynced(st), ServiceOf[e], e, v)

IpvsSinkDeleteEndpoint(e) ==
    /\ ~st.crashed /\ CallDeleteEndpoint(e)
    /\ st' = IF st.svcs[ServiceOf[e]] = None THEN Unsynced(st)
             ELSE deleteRealServer(Unsynced(st), ServiceOf[e], e)

\* A Sync in which ensuring chain n fails, or none, and the restore may fail: what
\* fails is logged and left until the next Sync.
IpvsSinkSync(n, ok) ==
    /\ ~st.crashed /\ CallSync
    /\ st' = IF st.up THEN [st EXCEPT !.ipt = syncIPTableRules(@, st.refs, n, ok),
                                      !.synced = ok /\ n = AllEnsured]
             ELSE st

\* The settings without which Setup gives up, silently; the one for reuse only on
\* kernels that have it and need it.  kernel.fails holds what cannot be set.
initializeKernelConfig(kernel) ==
    kernel.fails \cap ({"conntrack", "version", "expire_nodest_conn", "expire_quiescent_template", "ip_forward"}
                       \cup (IF kernel.reuse THEN {"conn_reuse_mode"} ELSE {})) = {}

\* Without its interface the process ends.
createIPVSDummyInterface(kernel) == "kube-ipvs0" \notin kernel.fails

\* The process starts again, and Setup finds what the kernel holds: the sets are
\* created if they do not exist and keep their entries.
IpvsSinkRestart(kernel) ==
    /\ CallReset
    /\ st' = [st EXCEPT !.svcs = [s \in Services |-> None], !.svcEPMap = [s \in Services |-> 0],
                        !.servicePorts = <<>>, !.endpoints = <<>>, !.portMap = <<>>,
                        !.refs = [x \in SetNames |-> 0], !.up = initializeKernelConfig(kernel),
                        !.crashed = initializeKernelConfig(kernel) /\ ~createIPVSDummyInterface(kernel),
                        !.restarted = TRUE, !.synced = FALSE]

IpvsSinkPurge == ~st.crashed /\ PurgeStarts /\ UNCHANGED st
-----------------------------------------------------------------------------
(***************************************************************************)
(* What is promised of a service that no known defect has met.             *)
(***************************************************************************)
Portals(v) == UNION {UNION {ToSet(Infos(v, pair[1], kind, pair[2])) : pair \in ToSet(combine(v, kind))} :
                        kind \in ToSet(IPKinds)}

\* The virtual servers of a told service are there, with the persistence it asks
\* for and with exactly its endpoints as destinations, after every call: AddIPPort,
\* DeleteIPPort and the endpoint calls, in whatever order the events run them,
\* never leave a destination out or behind.  Its addresses are on kube-ipvs0.
\* Excepted are the services that lost their port map while they had endpoints,
\* that had an endpoint set again or before their first address, a port whose
\* digits begin those of another, a second address where one is assumed or an
\* address that another service gave up, or whose policy changed in place.  After
\* a restart what an earlier process left may be there besides.
SinkServes ==
    ~st.crashed =>
        \A s \in KnownSvcs \ st.spoilt :
            /\ AllIPs(toldSvc[s]) \subseteq st.addrs
            /\ \A i \in Portals(toldSvc[s]) :
                  /\ ToService(i) \in DOMAIN st.vs
                  /\ LET told == {ipvsDestination(toldEp[e], i) : e \in EpsOf(s)}
                         vs == st.vs[ToService(i)]
                     IN /\ told \subseteq vs.dests
                        /\ ~st.restarted => /\ vs.dests = told
                                            /\ vs.affinity = toldSvc[s].affinity

ToldPortals == UNION {Portals(toldSvc[s]) : s \in KnownSvcs}
ToldEntries(x) ==
    {call[2] : call \in {c \in UNION {UNION {UNION
        {ToSet(Calls(toldSvc[s], pair[1], kind, pair[2],
                     NewBaseServicePortInfo(toldSvc[s], pair[2], pair[1], "ClusterIP"))) :
            pair \in ToSet(combine(toldSvc[s], kind))} : kind \in ToSet(IPKinds)} :
            s \in KnownSvcs} : c[1] = x}}

\* The increments add up to what the services as told would give anew: no virtual
\* server outlives the addresses and ports it stood for, the sets of cluster,
\* external and load balancer addresses and of node ports hold exactly theirs, and
\* each of these sets that is not empty counts for the rules of the next Sync.
NothingLeftOver ==
    ~st.crashed /\ ~st.restarted /\ st.spoilt = {} =>
        /\ DOMAIN st.vs = {ToService(i) : i \in ToldPortals}
        /\ \A x \in {"KUBE-CLUSTER-IP", "KUBE-EXTERNAL-IP", "KUBE-LOAD-BALANCER",
                      "KUBE-NODE-PORT-TCP", "KUBE-NODE-PORT-UDP"} :
              /\ st.sets[x] = UNION ToldEntries(x)
              /\ st.sets[x] # {} => st.refs[x] # 0

PacketTo(i, off) ==
    [off |-> off,
     sets |-> {x \in SetNames : getIPSetEntry(i) \subseteq st.sets[x]}
              \cup {x \in {protocolIPSetMap[i.proto]} : <<ToService(i)[2]>> \in st.sets[x]}]

\* After a Sync in which nothing failed, a packet from off the machine is marked for
\* masquerading when it is for a node port or the external address of a ClusterIP
\* service, when it is for a load balancer that may send it to another node, and
\* when it is for a cluster address if all traffic is masqueraded; and only a load
\* balancer with source ranges drops any.  The counts of the sets decide which
\* rules are written, so a count that has drifted shows here.
MarkedAsTold ==
    st.synced /\ ~st.crashed /\ ~st.restarted /\ st.spoilt = {} =>
        \A s \in KnownSvcs : \A i \in Portals(toldSvc[s]) :
            LET fate == Fate(st.ipt, PacketTo(i, TRUE))
                external == /\ toldSvc[s].type = "ClusterIP"
                            /\ i.ip \in ToSet(toldSvc[s].ips["ExternalIP"])
            IN /\ fate.mark = \/ i.type = "NodePort"
                              \/ external
                              \/ i.type = "LoadBalancer" /\ ~toldSvc[s].local
                              \/ i.type = "ClusterIP" /\ masqueradeAll
               /\ fate.drop => i.type = "LoadBalancer" /\ toldSvc[s].ranges > 0
=============================================================================
