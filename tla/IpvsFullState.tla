---------------------------- MODULE IpvsFullState ----------------------------
(***************************************************************************)
(* backends/ipvsfullstate: a Callback breaks every service down into       *)
(* virtual servers, destinations, addresses of the dummy interface and     *)
(* ipset entries, leaves each kind to a diffstore, and applies what the    *)
(* stores call new, updated or deleted.  The iptables rules written once   *)
(* by Setup decide from the sets whether a packet is masqueraded or        *)
(* dropped.  Errors of the kernel are logged and nothing is tried again.   *)
(*                                                                         *)
(* A group is what the fullstate sink hands over for a service.  IPv4 only,*)
(* as the code.  (Definitions no action uses are faulty variants.)         *)
(***************************************************************************)
EXTENDS DiffStore, FiniteSets, Naturals, Sequences, SequencesExt

CONSTANTS NodeAddresses,     \* the flag --node-addresses
          V4,                \* the IPv4 addresses
          NoEntry

VARIABLES serverStore,       \* <<proto, ip, port>> to timeout
          destinationStore,  \* <<server, ip, port>>
          ipBindStore,       \* addresses
          entryStore,        \* entries to the ipset named last
          ipvs,              \* kernel: servers to timeout
          dests, bound,      \* kernel: destinations, addresses of kube-ipvs0
          sets,              \* kernel: <<ipset, entry>>
          hurt,              \* servers an operation failed for and not removed since
          misplaced,         \* entries that were wanted in one set, then in another
          restarted,         \* the process has lost its stores
          lastGroups         \* what the last Callback got

ipvsVars == <<serverStore, destinationStore, ipBindStore, entryStore, ipvs, dests,
              bound, sets, hurt, misplaced, restarted, lastGroups>>

Nothing == [k \in {} |-> 0]

IpvsInit == /\ serverStore = Nothing /\ destinationStore = {} /\ ipBindStore = {}
            /\ entryStore = Nothing /\ ipvs = Nothing /\ dests = {} /\ bound = {}
            /\ sets = {} /\ hurt = {} /\ misplaced = {} /\ restarted = FALSE
            /\ lastGroups = <<>>

-----------------------------------------------------------------------------
(* What the handlers ask for.                                              *)

getTargetPort(ep, p) ==
    IF p.target # 0 THEN p.target
    ELSE IF p.name \in DOMAIN ep.over THEN ep.over[p.name] ELSE 0

newVirtualServer(ip, p) == <<p.proto, ip, p.port>>
newVirtualServerForNodePort(ip, p) == <<p.proto, ip, p.node>>

\* The addresses each handler makes a server for, by the type of the service.
ClusterServers(svc, p) == {newVirtualServer(ip, p) : ip \in (svc.cluster \cup svc.ext) \cap V4}
NodePortServers(svc, p) == IF svc.type = "ClusterIP" THEN {}
                           ELSE {newVirtualServerForNodePort(ip, p) : ip \in NodeAddresses}
LoadBalancerServers(svc, p) == IF svc.type # "LoadBalancer" THEN {}
                               ELSE {newVirtualServer(ip, p) : ip \in svc.lbs \cap V4}
Servers(svc, p) ==
    ClusterServers(svc, p) \cup NodePortServers(svc, p) \cup LoadBalancerServers(svc, p)

newIpvsDestination(ip, ep, p) == <<ip, getTargetPort(ep, p)>>

Backends(g, p) == UNION {{newIpvsDestination(ip, e.value, p) : ip \in e.value.ips \cap V4} :
                            e \in ToSet(g.eps)}

Handled(g) == g.value.type \in {"ClusterIP", "NodePort", "LoadBalancer"}
GroupPorts(gs) == {<<i, j>> \in (1..Len(gs)) \X (1..4) :
                      Handled(gs[i]) /\ j <= Len(gs[i].value.ports)}
PortOf(gs, x) == gs[x[1]].value.ports[x[2]]

\* Two services that ask for one server: the later Set stands.
ApplyServers(gs) ==
    LET add(acc, g) == IF ~Handled(g) THEN acc ELSE
            [k \in UNION {Servers(g.value, g.value.ports[j]) : j \in 1..Len(g.value.ports)} |->
                g.value.affinity] @@ acc
    IN  FoldLeft(add, Nothing, gs)

AddDestinations(gs) ==
    UNION {{<<s, d[1], d[2]>> : s \in Servers(gs[x[1]].value, PortOf(gs, x)),
                                d \in Backends(gs[x[1]], PortOf(gs, x))} : x \in GroupPorts(gs)}

BindServers(gs) ==
    UNION {(gs[x[1]].value.cluster \cup gs[x[1]].value.ext) \cap V4 : x \in GroupPorts(gs)}

(***************************************************************************)
(* The ipset entries, in the order in which the handlers add them: an      *)
(* entry as Entry.String() writes it, and the set it is for.               *)
(***************************************************************************)
HashIPPort(ip, p) == <<"ip,port", ip, p.proto, p.port>>
newEntryForLocalEndpoint(ip, ep, p) == <<"ip,port,ip", ip, p.proto, getTargetPort(ep, p)>>
newEntryForNodePort(ip, p) == IF p.proto = "SCTP" THEN <<"ip,port", ip, "SCTP", p.node>>
                              ELSE <<"port", p.node>>
newEntryForLoadBalancerSourceRange(ip, net, p) == <<"ip,port,net", ip, p.proto, p.port, net>>

Adds(S, set) == SetToSeq({<<e, set>> : e \in S})

LocalEndpoints(g, p) ==
    UNION {{newEntryForLocalEndpoint(ip, e.value, p) : ip \in e.value.ips \cap V4} :
              e \in {x \in ToSet(g.eps) : x.value.local}}

ClusterIPEntries(g, p) ==
    LET ext == {HashIPPort(ip, p) : ip \in g.value.ext \cap V4}
    IN  Adds({HashIPPort(ip, p) : ip \in g.value.cluster \cap V4}, <<"CLUSTER-IP">>)
        \o Adds(ext, <<"EXTERNAL-IP">>)
        \o (IF g.value.local THEN Adds(ext, <<"EXTERNAL-IP-LOCAL">>) ELSE <<>>)
        \o (IF (g.value.cluster \cup g.value.ext) \cap V4 = {} THEN <<>>
            ELSE Adds(LocalEndpoints(g, p), <<"LOOP-BACK">>))

NodePortEntries(g, p) ==
    LET nodes == {newEntryForNodePort(ip, p) : ip \in NodeAddresses}
    IN  IF g.value.type = "ClusterIP" THEN <<>>
        ELSE Adds(nodes, <<"NODE-PORT", p.proto>>)
             \o (IF g.value.local THEN Adds(nodes, <<"NODE-PORT-LOCAL", p.proto>>) ELSE <<>>)

LoadBalancerEntries(g, p) ==
    LET lbs == {HashIPPort(ip, p) : ip \in g.value.lbs \cap V4}
    IN  IF g.value.type # "LoadBalancer" THEN <<>>
        ELSE Adds(lbs, <<"LOAD-BALANCER">>)
             \o (IF g.value.local THEN Adds(lbs, <<"LOAD-BALANCER-LOCAL">>) ELSE <<>>)
             \o Adds({newEntryForLoadBalancerSourceRange(ip, net, p) :
                         ip \in g.value.lbs \cap V4, net \in g.value.ranges}, <<"SOURCE-CIDR">>)
             \o (IF g.value.ranges # {} THEN Adds(lbs, <<"LOAD-BALANCER-FW">>) ELSE <<>>)

EntriesOf(g) ==
    LET ports == g.value.ports
    IN  IF ~Handled(g) THEN <<>>
        ELSE FlattenSeq([j \in 1..Len(ports) |-> ClusterIPEntries(g, ports[j])])
             \o FlattenSeq([j \in 1..Len(ports) |-> NodePortEntries(g, ports[j])])
             \o FlattenSeq([j \in 1..Len(ports) |-> LoadBalancerEntries(g, ports[j])])

Wanted(gs) == FlattenSeq([i \in 1..Len(gs) |-> EntriesOf(gs[i])])

AddEntryKeepsFirst(store, add) == store @@ (add[1] :> add[2])

\* AddEntry keys the store by the entry alone, and remembers the set.
AddEntry(store, add) == (add[1] :> add[2]) @@ store

AddEntries(gs) == FoldLeft(AddEntry, Nothing, Wanted(gs))
-----------------------------------------------------------------------------
(* Apply.  F and G are the servers and destinations whose operation fails. *)

Gone(gs, F) == Deleted(serverStore, ApplyServers(gs)) \ F

ServersLeft(gs, F) == [k \in DOMAIN ipvs \ Gone(gs, F) |-> ipvs[k]]

\* AddService of a server that exists fails; UpdateService changes one that exists.
ServersApplied(gs, F) ==
    LET cur == ApplyServers(gs)
        left == ServersLeft(gs, F)
        added == Created(serverStore, cur) \ (F \cup DOMAIN left)
        updated == (Changed(serverStore, cur) \ (Created(serverStore, cur) \cup F)) \cap DOMAIN left
    IN  [k \in added \cup updated |-> cur[k]] @@ left

\* DeleteService takes the destinations along; one is added only to a server that exists.
DestsKeptBehind(gs, F, G) == dests \cup (AddDestinations(gs) \ (destinationStore \cup G))

DestsApplied(gs, F, G) ==
    LET cur == AddDestinations(gs)
        left == {d \in dests \ ((destinationStore \ cur) \ G) : d[1] \notin Gone(gs, F)}
    IN  left \cup {d \in cur \ (destinationStore \cup G) : d[1] \in DOMAIN ServersApplied(gs, F)}

BoundApplied(gs) == (bound \ (ipBindStore \ BindServers(gs))) \cup (BindServers(gs) \ ipBindStore)

\* Equality of entries is hard-coded to true: only creations and deletions are applied.
SetsApplied(gs) ==
    LET cur == AddEntries(gs)
    IN  (sets \cup {<<cur[e], e>> : e \in Created(entryStore, cur)})
        \ {<<entryStore[e], e>> : e \in Deleted(entryStore, cur)}

Moved(gs) == {e \in DOMAIN entryStore \cap DOMAIN AddEntries(gs) :
                entryStore[e] # AddEntries(gs)[e]}

IpvsCallback(gs, F, G) ==
    /\ ipvs' = ServersApplied(gs, F) /\ dests' = DestsApplied(gs, F, G)
    /\ bound' = BoundApplied(gs) /\ sets' = SetsApplied(gs)
    /\ serverStore' = ApplyServers(gs) /\ destinationStore' = AddDestinations(gs)
    /\ ipBindStore' = BindServers(gs) /\ entryStore' = AddEntries(gs)
    /\ hurt' = (hurt \ Gone(gs, F)) \cup F \cup ({d[1] : d \in G} \ Gone(gs, F))
    /\ misplaced' = misplaced \cup Moved(gs)
    /\ lastGroups' = gs /\ UNCHANGED restarted

\* The operations that a Callback performs, any of which the kernel may refuse.
ServerOps(gs) == Deleted(serverStore, ApplyServers(gs)) \cup Changed(serverStore, ApplyServers(gs))
DestOps(gs) == (AddDestinations(gs) \ destinationStore) \cup (destinationStore \ AddDestinations(gs))

\* The process starts over: Setup flushes nothing of IPVS, the interface or the sets.
IpvsRestart == /\ serverStore' = Nothing /\ destinationStore' = {} /\ ipBindStore' = {}
               /\ entryStore' = Nothing /\ restarted' = TRUE
               /\ UNCHANGED <<ipvs, dests, bound, sets, hurt, misplaced, lastGroups>>
-----------------------------------------------------------------------------
(***************************************************************************)
(* GetNatRules: the marks a packet to the entry gets on its way through    *)
(* KUBE-SERVICES.  pk: the entries it matches by destination (vip), by     *)
(* node port (port), by destination and source (src), whether it comes     *)
(* from a service's own address (selfSrc) and goes to one of the node      *)
(* (dstLocal).                                                             *)
(***************************************************************************)
In(set, e) == <<set, e>> \in sets

KubeFirewall(pk) == IF \E e \in pk.src : In(<<"SOURCE-CIDR">>, e) THEN {} ELSE {"drop"}

KubeLoadBalancer(pk) ==
    (IF In(<<"LOAD-BALANCER-FW">>, pk.vip) THEN KubeFirewall(pk) ELSE {})
    \cup (IF In(<<"LOAD-BALANCER-LOCAL">>, pk.vip) THEN {} ELSE {"masq"})

KubeNodePort(pk) == IF In(<<"NODE-PORT", pk.proto>>, pk.port) THEN {"masq"} ELSE {}

\* The ACCEPT rules of the external sets, for a packet from outside the node.
AcceptedExternal(pk) == In(<<"EXTERNAL-IP">>, pk.vip) \/ In(<<"EXTERNAL-IP-LOCAL">>, pk.vip)

KubeServices(pk) ==
    (IF In(<<"LOAD-BALANCER">>, pk.vip) THEN KubeLoadBalancer(pk) ELSE {})
    \cup (IF pk.selfSrc /\ In(<<"CLUSTER-IP">>, pk.vip) THEN {"masq"} ELSE {})
    \cup (IF In(<<"EXTERNAL-IP">>, pk.vip) THEN {"masq"} ELSE {})
    \cup (IF pk.dstLocal /\ ~AcceptedExternal(pk) THEN KubeNodePort(pk) ELSE {})

\* KUBE-POSTROUTING: an endpoint that reaches itself through a service, or a marked packet.
KubePostrouting(e, marks) == In(<<"LOOP-BACK">>, e) \/ "masq" \in marks
-----------------------------------------------------------------------------
ServerDests(k) == {d \in dests : d[1] = k}
WantedDests(k) == {d \in AddDestinations(lastGroups) : d[1] = k}

(***************************************************************************)
(* After every Callback each virtual server of the kernel is one the last  *)
(* state asks for, with its timeout and exactly its destinations, except   *)
(* for the servers an operation failed for: a failure never spreads to     *)
(* another server and is over once the server is deleted.  After a restart *)
(* everything asked for is still served, next to what was left behind.     *)
(***************************************************************************)
ServersConfined ==
    LET cur == ApplyServers(lastGroups)
    IN  /\ \A k \in DOMAIN cur \ hurt :
              k \in DOMAIN ipvs /\ WantedDests(k) \subseteq ServerDests(k)
        /\ ~restarted =>
              /\ \A k \in DOMAIN ipvs \ hurt :
                    k \in DOMAIN cur /\ ipvs[k] = cur[k] /\ ServerDests(k) = WantedDests(k)
              /\ bound = BindServers(lastGroups)

PacketTo(e, dstLocal) == [vip |-> e, port |-> NoEntry, src |-> {}, proto |-> "TCP",
                          selfSrc |-> FALSE, dstLocal |-> dstLocal]
NodePacket(e, proto) == [vip |-> NoEntry, port |-> e, src |-> {}, proto |-> proto,
                         selfSrc |-> FALSE, dstLocal |-> TRUE]

(***************************************************************************)
(* Traffic from outside to an external IP, a load balancer without source  *)
(* ranges or a node port is masqueraded under the Cluster policy and keeps *)
(* its source under the Local one, as long as the entry never had to move  *)
(* from one set to another and the process did not restart; an endpoint of *)
(* the node that reaches itself through its service is masqueraded.        *)
(***************************************************************************)
MasqueradeFollowsPolicy ==
    ~restarted => \A x \in GroupPorts(lastGroups) :
      LET svc == lastGroups[x[1]].value
          p == PortOf(lastGroups, x)
          expected == IF svc.local THEN {} ELSE {"masq"}
      IN  /\ \A ip \in svc.ext \cap V4 : HashIPPort(ip, p) \notin misplaced =>
                KubeServices(PacketTo(HashIPPort(ip, p), TRUE)) = expected
          /\ (svc.type = "LoadBalancer" /\ svc.ranges = {}) =>
                \A ip \in svc.lbs \cap V4 : HashIPPort(ip, p) \notin misplaced =>
                   KubeServices(PacketTo(HashIPPort(ip, p), FALSE)) = expected
          /\ svc.type # "ClusterIP" =>
                \A ip \in NodeAddresses : newEntryForNodePort(ip, p) \notin misplaced =>
                   KubeServices(NodePacket(newEntryForNodePort(ip, p), p.proto)) = expected
          /\ (svc.cluster \cup svc.ext) \cap V4 # {} =>
                \A e \in LocalEndpoints(lastGroups[x[1]], p) : KubePostrouting(e, {})

=============================================================================
