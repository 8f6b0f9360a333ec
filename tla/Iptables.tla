------------------------------ MODULE Iptables ------------------------------
(***************************************************************************)
(* The iptables backend, for one address family: the change trackers the   *)
(* sink's callbacks fill, and sync, which merges them, computes every nat  *)
(* and filter rule anew, hands them to iptables-restore and swaps the      *)
(* sockets that hold local ports.  The kernel's tables outlive the process *)
(* (a restart starts with them and an empty memory).  A service value is a *)
(* record [cluster, ports, ext, lbs, local, affinity, ranges] (cluster is  *)
(* None for a headless service, ports maps a port's name to its            *)
(* [port, node, target, named]); an endpoint value is [ip, local, over]    *)
(* (ip is None without an address of this family, over maps port names to  *)
(* the endpoint's numbers).  Rules are [chain, dst, src, maybe, to].       *)
(***************************************************************************)
EXTENDS BackendFeed, Integers, Sequences, SequencesExt

CONSTANTS LocalIPs,              \* GetLocalAddrSet: the node's own addresses
          NodeIP,                \* one of them; as a rule's destination, --dst-type LOCAL
          SrcNode,               \* a packet's source when the node sent it (--src-type LOCAL)
          Loopback,              \* ... and used 127.0.0.0/8
          Sources                \* the packets' sources, each a set of matches that hold of it

ASSUME IptAssumption == NodeIP \in LocalIPs /\ None \notin LocalIPs /\ None \notin {SrcNode, Loopback}

VARIABLES serviceChanges,        \* ServiceChangeTracker.items: service -> value or None
          endpointsChanges,      \* EndpointsCache.trackerByServiceMap: endpoint -> value or None
          serviceMap,            \* ServicesSnapshot
          endpointsMap,          \* EndpointsMap: endpoint -> value
          portsMap,              \* LocalPort -> a socket is held (FALSE: a nil Closeable)
          sockets,               \* the LocalPorts the process holds a socket for
          nat, filter,           \* the kernel's tables: chain -> rules; the rejected portals
          outcome,               \* of the last sync, "pending" once a callback came after it
          nilPort,               \* a LocalPort could not be opened in this process' life
          crashed                \* the process panicked

memVars == <<serviceChanges, endpointsChanges, serviceMap, endpointsMap, portsMap, sockets>>
iptVars == <<memVars, nat, filter, outcome, nilPort, crashed>>

Empty == [x \in {} |-> None]
KubeServices == <<"KUBE-SERVICES">>
KubeNodePorts == <<"KUBE-NODEPORTS">>
MarkMasq == <<"KUBE-MARK-MASQ">>
MarkDrop == <<"KUBE-MARK-DROP">>
TopLevel == {KubeServices, KubeNodePorts, MarkMasq}
Svc(sp) == <<"KUBE-SVC", sp>>
Xlb(sp) == <<"KUBE-XLB", sp>>
Fw(sp) == <<"KUBE-FW", sp>>
Sep(sp, ip) == <<"KUBE-SEP", sp, ip>>
IsOurs(c) == Head(c) \in {"KUBE-SVC", "KUBE-XLB", "KUBE-FW", "KUBE-SEP"}

Put(f, x, v) == [y \in DOMAIN f \cup {x} |-> IF y = x THEN v ELSE f[y]]
Cat(f) == FoldLeft(LAMBDA acc, x : acc \o f[x], <<>>, SetToSeq(DOMAIN f))
Portal(ip, port) == [ip |-> ip, port |-> port]
Anywhere == Portal(None, 0)
Rule(chain, dst, src, to) == [chain |-> chain, dst |-> dst, src |-> src, maybe |-> FALSE, to |-> to]

IptInit == /\ serviceChanges = Empty /\ endpointsChanges = Empty
           /\ serviceMap = Empty /\ endpointsMap = Empty /\ portsMap = Empty /\ sockets = {}
           /\ nat = [c \in TopLevel |-> <<>>] /\ filter = {}
           /\ outcome = "pending" /\ nilPort = FALSE /\ crashed = FALSE

-----------------------------------------------------------------------------
(* The sink's callbacks.                                                   *)

\* A headless service yields no service port (serviceToServiceMap).
serviceToServiceMap(v) == IF v.cluster = None THEN [v EXCEPT !.ports = Empty] ELSE v

IptSetService(s, v) == /\ ~crashed /\ CallSetService(s, v)
                       /\ serviceChanges' = Put(serviceChanges, s, serviceToServiceMap(v))
                       /\ outcome' = "pending"
                       /\ UNCHANGED <<endpointsChanges, serviceMap, endpointsMap, portsMap, sockets,
                                      nat, filter, nilPort, crashed>>

IptDeleteService(s) == /\ ~crashed /\ CallDeleteService(s)
                       /\ serviceChanges' = Put(serviceChanges, s, None)
                       /\ outcome' = "pending"
                       /\ UNCHANGED <<endpointsChanges, serviceMap, endpointsMap, portsMap, sockets,
                                      nat, filter, nilPort, crashed>>

IptSetEndpoint(e, v) == /\ ~crashed /\ CallSetEndpoint(e, v)
                        /\ endpointsChanges' = Put(endpointsChanges, e, v)
                        /\ outcome' = "pending"
                        /\ UNCHANGED <<serviceChanges, serviceMap, endpointsMap, portsMap, sockets,
                                       nat, filter, nilPort, crashed>>

IptDeleteEndpoint(e) == /\ ~crashed /\ CallDeleteEndpoint(e)
                        /\ endpointsChanges' = Put(endpointsChanges, e, None)
                        /\ outcome' = "pending"
                        /\ UNCHANGED <<serviceChanges, serviceMap, endpointsMap, portsMap, sockets,
                                       nat, filter, nilPort, crashed>>

-----------------------------------------------------------------------------
(* Merging the changes into the maps.                                      *)

MergeAll(map, changes) == [x \in (DOMAIN map \cup DOMAIN changes)
                                   \ {y \in DOMAIN changes : changes[y] = None} |->
                             IF x \in DOMAIN changes THEN changes[x] ELSE map[x]]

\* EndpointsMap.merge deletes through the service's map, which is nil when the
\* service has no endpoint; the pending entries come in the order of a Go map.
Missing(s) == {e \in DOMAIN endpointsChanges \ DOMAIN endpointsMap :
                  ServiceOf[e] = s /\ endpointsChanges[e] = None}
Held(s) == {e \in DOMAIN endpointsMap : ServiceOf[e] = s}
Added(s) == {e \in DOMAIN endpointsChanges : ServiceOf[e] = s /\ endpointsChanges[e] # None}
Removed(s) == {e \in Held(s) \cap DOMAIN endpointsChanges : endpointsChanges[e] = None}
MergeMayPanic == \E s \in Services : Missing(s) # {} /\ Held(s) \subseteq Removed(s)
MergeMustPanic == \E s \in Services : Missing(s) # {} /\ Held(s) = {} /\ Added(s) = {}

-----------------------------------------------------------------------------
(* The rules of one service port sp = <<service, port name>>, from its     *)
(* value v, its port p and the endpoints E of its service.                 *)

PortOf(v, sp) == v.ports[sp[2]]
Addressed(E) == {e \in DOMAIN E : E[e].ip # None}
SepChains(sp, E) == LET order == SetToSeq(Addressed(E)) IN [i \in DOMAIN order |-> Sep(sp, E[order[i]].ip)]

\* PortMapping is asked without the port's name, so only an override for the
\* unnamed port is found.
PortMapping(ep, p) == IF "" \in DOMAIN ep.over THEN ep.over[""] ELSE p.target
getTargetPort(p, ep) == IF p.named THEN PortMapping(ep, p) ELSE p.target

createOnlyWithAddress(sp, v, E) ==
    {Sep(sp, E[e].ip) : e \in Addressed(E)}
        \cup {c \in {Svc(sp)} : Addressed(E) # {}}
        \cup {c \in {Xlb(sp)} : v.local}
        \cup {c \in {Fw(sp)} : v.lbs # {}}

createServiceSpecificChains(sp, v, E) ==
    {Sep(sp, E[e].ip) : e \in Addressed(E)}
        \cup {c \in {Svc(sp)} : DOMAIN E # {}}
        \cup {c \in {Xlb(sp)} : v.local}
        \cup {c \in {Fw(sp)} : v.lbs # {}}

\* masqueradeAll is never set and the local detector is the no-op one.
writeClusterIPRules(sp, v, E) ==
    IF DOMAIN E = {} THEN <<>>
    ELSE <<Rule(KubeServices, Portal(v.cluster, PortOf(v, sp).port), None, Svc(sp))>>

writeExternalIPRules(sp, v, E) ==
    IF DOMAIN E = {} THEN <<>>
    ELSE Cat([ip \in v.ext |->
           LET dst == Portal(ip, PortOf(v, sp).port)
           IN IF v.local THEN <<Rule(KubeServices, dst, None, Xlb(sp))>>
              ELSE <<Rule(Svc(sp), dst, None, MarkMasq), Rule(KubeServices, dst, None, Svc(sp))>>])

\* The firewall chain is written once for every load balancer address; nodeIP is
\* never set, so no range contains it.
writeLoadBalancerRules(sp, v, E) ==
    IF DOMAIN E = {} THEN <<>>
    ELSE Cat([ip \in v.lbs |->
           LET chosen == IF v.local THEN Xlb(sp) ELSE Svc(sp)
           IN <<Rule(KubeServices, Portal(ip, PortOf(v, sp).port), None, Fw(sp))>>
              \o (IF v.local THEN <<>> ELSE <<Rule(Fw(sp), Anywhere, None, MarkMasq)>>)
              \o (IF v.ranges = {} THEN <<Rule(Fw(sp), Anywhere, None, chosen)>>
                  ELSE Cat([r \in v.ranges |-> <<Rule(Fw(sp), Anywhere, r, chosen)>>]))
              \o <<Rule(Fw(sp), Anywhere, None, MarkDrop)>>])

writeNodePortsRules(sp, v, E) ==
    LET dst == Portal(None, PortOf(v, sp).node)
    IN IF dst.port = 0 \/ DOMAIN E = {} THEN <<>>
       ELSE IF v.local THEN <<Rule(KubeNodePorts, dst, Loopback, MarkMasq),
                              Rule(KubeNodePorts, dst, None, Xlb(sp))>>
            ELSE <<Rule(Svc(sp), dst, None, MarkMasq), Rule(KubeNodePorts, dst, None, Svc(sp))>>

\* One rule per chain of the list, all but the last one a chance to match; before
\* them, with affinity, one that matches a client the chain saw lately.
LBRules(chain, chains, affinity) ==
    LET Step(i, maybe) == [Rule(chain, Anywhere, None, chains[i]) EXCEPT !.maybe = maybe]
    IN (IF affinity THEN [i \in DOMAIN chains |-> Step(i, TRUE)] ELSE <<>>)
           \o [i \in DOMAIN chains |-> Step(i, i < Len(chains))]

\* endpointPortMap is keyed by address; a chain without a target port has no DNAT rule.
writeDNATRules(sp, v, E) ==
    Cat([e \in Addressed(E) |->
           LET ip == E[e].ip
               port == getTargetPort(PortOf(v, sp), E[e])
           IN <<Rule(Sep(sp, ip), Anywhere, ip, MarkMasq)>>
              \o (IF port = 0 THEN <<>>
                  ELSE <<Rule(Sep(sp, ip), Anywhere, None, <<"DNAT", ip, port>>)>>)])

writeEndpointRules(sp, v, E) ==
    LBRules(Svc(sp), SepChains(sp, E), v.affinity) \o writeDNATRules(sp, v, E)

writeAllToXlb(sp, v, E) ==
    <<Rule(Xlb(sp), Anywhere, SrcNode, MarkMasq), Rule(Xlb(sp), Anywhere, SrcNode, Svc(sp))>>
       \o LBRules(Xlb(sp), SepChains(sp, E), v.affinity)

writeLocalExtTrafficPolicyRules(sp, v, E) ==
    LET locals == SepChains(sp, [e \in {d \in DOMAIN E : E[d].local} |-> E[e]])
    IN <<Rule(Xlb(sp), Anywhere, SrcNode, MarkMasq), Rule(Xlb(sp), Anywhere, SrcNode, Svc(sp))>>
       \o (IF locals = <<>> THEN <<Rule(Xlb(sp), Anywhere, None, MarkDrop)>>
           ELSE LBRules(Xlb(sp), locals, v.affinity))

\* The filter table's REJECTs, written for a service without endpoints.
Rejects(sp, v, E) ==
    IF DOMAIN E # {} THEN {}
    ELSE LET p == PortOf(v, sp)
         IN {Portal(ip, p.port) : ip \in {v.cluster} \cup v.ext \cup v.lbs}
                \cup {Portal(NodeIP, n) : n \in {p.node} \ {0}}

-----------------------------------------------------------------------------
(* All of the rules, from the two maps.                                    *)

SvcPorts(sm) == UNION {{<<s, n>> : n \in DOMAIN sm[s].ports} : s \in DOMAIN sm}
EndpointsOf(sp, em) == [e \in {d \in DOMAIN em : ServiceOf[d] = sp[1]} |-> em[e]]

ServiceRules(sp, v, E) ==
    writeClusterIPRules(sp, v, E) \o writeExternalIPRules(sp, v, E)
        \o writeLoadBalancerRules(sp, v, E) \o writeNodePortsRules(sp, v, E)
        \o (IF DOMAIN E = {} THEN <<>> ELSE writeEndpointRules(sp, v, E))
        \o (IF DOMAIN E = {} \/ ~v.local THEN <<>> ELSE writeLocalExtTrafficPolicyRules(sp, v, E))

\* The jump to the node ports is the last rule of KUBE-SERVICES: the node
\* addresses are the zero CIDRs.
natRules(sm, em) ==
    Cat([sp \in SvcPorts(sm) |-> ServiceRules(sp, sm[sp[1]], EndpointsOf(sp, em))])
        \o <<Rule(KubeServices, Portal(NodeIP, 0), None, KubeNodePorts)>>

activeNATChains(sm, em) ==
    UNION {createServiceSpecificChains(sp, sm[sp[1]], EndpointsOf(sp, em)) : sp \in SvcPorts(sm)}

filterRules(sm, em) == UNION {Rejects(sp, sm[sp[1]], EndpointsOf(sp, em)) : sp \in SvcPorts(sm)}

deleteNoEndpointChain(existing, active) == {c \in existing \ active : IsOurs(c) /\ Len(c) = 2}

\* deleteStaleChains: of the chains iptables-save listed.
deleteStaleChains(existing, active) == {c \in existing \ active : IsOurs(c)}

-----------------------------------------------------------------------------
(* iptables-restore --noflush: the chains with a chain line are flushed,   *)
(* created if need be, and given their rules; the stale ones are deleted.  *)

Restored(active, stale, rules) ==
    [c \in (DOMAIN nat \cup active) \ stale |->
        IF c \in TopLevel \cup active THEN SelectSeq(rules, LAMBDA r : r.chain = c) ELSE nat[c]]

\* It refuses a rule in, or a jump to, a chain that does not exist, and the
\* deletion of a chain a rule still jumps to.
Accepts(new, rules) ==
    /\ \A i \in DOMAIN rules : rules[i].chain \in DOMAIN new
    /\ \A c \in DOMAIN new : \A i \in DOMAIN new[c] :
          new[c][i].to \in DOMAIN new \/ Head(new[c][i].to) \in {"DNAT", "KUBE-MARK-DROP"}

-----------------------------------------------------------------------------
(* The sockets that keep other processes off a local external IP's port.   *)

LocalPorts(sm) == UNION {{[sp |-> sp, dst |-> Portal(ip, PortOf(sm[sp[1]], sp).port)] :
                            ip \in sm[sp[1]].ext \cap LocalIPs} : sp \in SvcPorts(sm)}
Exclusive(S) == \A lp, lq \in S : lp.dst = lq.dst => lp = lq
NonNil(ports) == {lp \in DOMAIN ports : ports[lp]}

\* What openPortLocally leaves in replacementPortsMap when the LocalPorts of O
\* could be opened: a nil Closeable for one that could not.
openPortLocally(sm, O) == [lp \in LocalPorts(sm) |-> lp \in O \cup NonNil(portsMap)]

ClosedNone(repl) == {}

\* After a restore: close what is not in the replacement.  A nil panics.
ClosedOld(repl) == NonNil(portsMap) \ NonNil(repl)
ClosePanics(repl) == (DOMAIN portsMap \ NonNil(portsMap)) \ NonNil(repl) # {}

\* RevertPorts after a failed restore: close what was not open before.
RevertPorts(repl) == NonNil(repl) \ NonNil(portsMap)
RevertPanics(repl) == NonNil(repl) # DOMAIN repl

-----------------------------------------------------------------------------
(* sync.  save: iptables-save listed the chains; restore: "ok", "none" or  *)
(* "filter" (the filter table was committed before the nat table failed).  *)

IptSync(save, restore, O) ==
    LET sm == MergeAll(serviceMap, serviceChanges)
        em == MergeAll(endpointsMap, endpointsChanges)
        active == activeNATChains(sm, em)
        rules == natRules(sm, em)
        new == Restored(active, deleteStaleChains(IF save THEN DOMAIN nat ELSE {}, active), rules)
        repl == openPortLocally(sm, O)
        ok == restore = "ok" /\ Accepts(new, rules)
    IN /\ ~crashed /\ CallSync /\ ~MergeMustPanic
       /\ O \subseteq LocalPorts(sm) \ NonNil(portsMap)
       /\ Exclusive(O \cup sockets)
       /\ serviceMap' = sm /\ endpointsMap' = em
       /\ serviceChanges' = Empty /\ endpointsChanges' = Empty
       /\ nat' = IF ok THEN new ELSE nat
       /\ filter' = IF ok \/ restore = "filter" THEN filterRules(sm, em) ELSE filter
       /\ sockets' = (sockets \cup O) \ (IF ok THEN ClosedOld(repl) ELSE RevertPorts(repl))
       /\ portsMap' = IF ok THEN repl ELSE portsMap
       /\ nilPort' = (nilPort \/ NonNil(repl) # DOMAIN repl)
       /\ crashed' = IF ok THEN ClosePanics(repl) ELSE RevertPanics(repl)
       /\ outcome' = IF ok THEN (IF save THEN "ok" ELSE "nosave")
                     ELSE IF restore = "ok" THEN "refused" ELSE "failed"

\* EndpointsMap.merge follows a nil map.
IptSyncPanics == /\ ~crashed /\ CallSync /\ MergeMayPanic /\ crashed' = TRUE
                 /\ UNCHANGED <<memVars, nat, filter, outcome, nilPort>>

\* A new process: it knows nothing, the kernel keeps its tables.
IptRestart == /\ CallReset
              /\ serviceChanges' = Empty /\ endpointsChanges' = Empty
              /\ serviceMap' = Empty /\ endpointsMap' = Empty
              /\ portsMap' = Empty /\ sockets' = {}
              /\ outcome' = "pending" /\ nilPort' = FALSE /\ crashed' = FALSE
              /\ UNCHANGED <<nat, filter>>

IptCallback == \/ \E s \in Services : IptDeleteService(s) \/ \E v \in SvcVals[s] : IptSetService(s, v)
               \/ \E e \in Endpoints : IptDeleteEndpoint(e) \/ \E v \in EpVals[e] : IptSetEndpoint(e, v)
               \/ ~crashed /\ PurgeStarts /\ UNCHANGED iptVars

IptSyncs(save, restore) == \E O \in SUBSET LocalPorts(MergeAll(serviceMap, serviceChanges)) :
                              IptSync(save, restore, O)

-----------------------------------------------------------------------------
(* A packet's way through the nat chains.  It ends at the first DNAT; a    *)
(* "maybe" rule may or may not match.  Packets are [dst, port, src], src   *)
(* the set of source matches that hold of them.                            *)

Matches(r, pkt) == /\ r.dst.port \in {0, pkt.port}
                   /\ r.dst.ip \in {None, pkt.dst} \/ (r.dst.ip = NodeIP /\ pkt.dst \in LocalIPs)
                   /\ r.src \in {None} \cup pkt.src

Untouched == [to |-> None, masq |-> FALSE, drop |-> FALSE]

RECURSIVE Walk(_, _, _)
Walk(rules, pkt, st) ==
    IF rules = <<>> \/ st.to # None THEN {st}
    ELSE LET r == Head(rules)
             hit == CASE r.to = MarkMasq -> {[st EXCEPT !.masq = TRUE]}
                      [] r.to = MarkDrop -> {[st EXCEPT !.drop = TRUE]}
                      [] Head(r.to) = "DNAT" -> {[st EXCEPT !.to = <<r.to[2], r.to[3]>>]}
                      [] OTHER -> Walk(nat[r.to], pkt, st)
             after == IF ~Matches(r, pkt) THEN {st} ELSE IF r.maybe THEN hit \cup {st} ELSE hit
         IN UNION {Walk(Tail(rules), pkt, t) : t \in after}

Fate(pkt) == Walk(nat[KubeServices], pkt, Untouched)

-----------------------------------------------------------------------------
(* What the services the sink was told promise to a packet.                *)

ToldPorts == UNION {{<<s, n>> : n \in DOMAIN serviceToServiceMap(toldSvc[s]).ports} : s \in KnownSvcs}

\* The portals of a service port, by kind.
PortalsOf(sp) ==
    LET v == toldSvc[sp[1]]
        p == PortOf(v, sp)
    IN [k \in {"cluster", "ext", "lb", "node"} |->
          CASE k = "cluster" -> {Portal(v.cluster, p.port)}
            [] k = "ext" -> {Portal(ip, p.port) : ip \in v.ext}
            [] k = "lb" -> {Portal(ip, p.port) : ip \in v.lbs}
            [] k = "node" -> {Portal(NodeIP, n) : n \in {p.node} \ {0}}]

AllPortals(sp) == UNION Range(PortalsOf(sp))
OnlyOf(sp, dst) == \A other \in ToldPorts \ {sp} : dst \notin AllPortals(other)

\* Packets from outside come to an external portal of a Local service's node
\* only for the local endpoints; everything else may reach every endpoint.
Reachable(sp, kind, src) ==
    LET v == toldSvc[sp[1]]
    IN {e \in EpsOf(sp[1]) : /\ toldEp[e].ip # None
                             /\ v.local /\ kind # "cluster" /\ SrcNode \notin src => toldEp[e].local}
Admitted(sp, kind, src) == LET v == toldSvc[sp[1]] IN
    kind = "lb" => v.ranges = {} \/ v.ranges \cap src # {}

\* A packet is masqueraded when it comes back to its own sender, when it enters
\* for a service that may send it to another node, and when the node sent it
\* to an external portal.
Masqueraded(sp, kind, src, ip) ==
    \/ ip \in src
    \/ kind # "cluster" /\ (~toldSvc[sp[1]].local \/ SrcNode \in src)

Promised(sp, kind, src) ==
    LET p == PortOf(toldSvc[sp[1]], sp)
    IN IF ~Admitted(sp, kind, src)
       THEN {[to |-> None, masq |-> ~toldSvc[sp[1]].local, drop |-> TRUE]}
       ELSE {[to |-> <<toldEp[e].ip, getTargetPort(p, toldEp[e])>>,
              masq |-> Masqueraded(sp, kind, src, toldEp[e].ip), drop |-> FALSE] :
                 e \in Reachable(sp, kind, src)}

\* A portal no told service claims is left alone: no packet for it is sent
\* anywhere and none is rejected.
NothingElseServed ==
    \A dst \in UNION {UNION {{Portal(ip, v.ports[n].port) :
                               ip \in {v.cluster} \cup v.ext \cup v.lbs} :
                           n \in DOMAIN v.ports} : v \in UNION Range(SvcVals)} :
      (\A sp \in ToldPorts : dst \notin AllPortals(sp)) =>
        /\ dst \notin filter
        /\ Fate([dst |-> dst.ip, port |-> dst.port, src |-> {}]) = {Untouched}

\* After a sync that restored the rules, the fates of a packet for a portal that
\* one service port claims are those the told service and endpoints promise it:
\* every ready endpoint and no other, the source ranges, the Local policy and the
\* masquerading; and it is rejected exactly when the service has no endpoint.
\* (An endpoint without a target port, or with no endpoint of this family, is not
\* promised anything.)  Whatever came before: failed saves and restores, purges,
\* restarts over the old tables.  And nothing else is served.
DeliveredAsTold ==
    outcome \in {"ok", "nosave"} =>
      /\ NothingElseServed
      /\ \A sp \in ToldPorts : \A kind \in DOMAIN PortalsOf(sp) : \A dst \in PortalsOf(sp)[kind] :
          OnlyOf(sp, dst) =>
            /\ dst \in filter <=> EpsOf(sp[1]) = {}
            /\ \A src \in Sources :
                 LET pkt == [dst |-> dst.ip, port |-> dst.port, src |-> src]
                     promised == Promised(sp, kind, src)
                     silent == \E e \in Reachable(sp, kind, src) :
                                   getTargetPort(PortOf(toldSvc[sp[1]], sp), toldEp[e]) = 0
                 IN IF EpsOf(sp[1]) = {} THEN Fate(pkt) = {Untouched}
                    ELSE IF promised = {}
                    THEN \A f \in Fate(pkt) :
                           /\ f.to = None
                           /\ kind = "lb" \/ (toldSvc[sp[1]].local /\ kind # "cluster") => f.drop
                    ELSE ~silent => Fate(pkt) = promised

\* Chains do not pile up in the kernel: after a sync that could list them, each
\* of the backend's chains belongs to a told service port, and each endpoint
\* chain to an address that one of its endpoints has now, leftovers of earlier
\* syncs and of an earlier process included.
NoStaleChains ==
    outcome = "ok" =>
        \A c \in DOMAIN nat : IsOurs(c) =>
            /\ c[2] \in ToldPorts
            /\ Head(c) = "KUBE-SEP" => \E e \in EpsOf(c[2][1]) : toldEp[e].ip = c[3]

\* iptables-restore is never given rules that it must refuse: the chains that
\* sync declares are the chains its rules are in and jump to, and the chains it
\* deletes are jumped to from nowhere, also by a sync whose iptables-save failed.
NeverRefused == outcome # "refused"

\* No socket leaks: the process holds exactly the ones in portsMap, also after a
\* failed restore; and after a restore each is one that a told service needs.
SocketsAccounted ==
    /\ ~crashed => sockets = NonNil(portsMap)
    /\ ~crashed /\ outcome \in {"ok", "nosave"} =>
          sockets \subseteq LocalPorts([s \in KnownSvcs |-> serviceToServiceMap(toldSvc[s])])

=============================================================================
