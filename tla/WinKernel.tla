------------------------------- MODULE WinKernel -------------------------------
(***************************************************************************)
(* backends/windows/kernelspace, for one address family: the sink's calls  *)
(* note changes in two trackers, and the proxier's own goroutine applies   *)
(* them and programs load balancers in HNS, the host network service.  The *)
(* trackers are not locked, so a call may come between the pass over a     *)
(* tracker and its replacement by an empty one.                            *)
(* A service is a record [cluster, ext, ports, preserve], a port           *)
(* [name, proto, port, node, target], an endpoint [ip, local].             *)
(***************************************************************************)
EXTENDS BackendFeed, SequencesExt, Functions

CONSTANTS Overlay,       \* the HNS network is an overlay, not an L2 bridge
          RemoteSubnets, \* the overlay's routes, each [dest, provider]: addresses and their node
          Gone           \* a nil entry of a tracker

VARIABLES svcItems, epItems,          \* serviceChanges.items, endpointsCache.trackerByServiceMap
          serviceMap, endpointsMap,   \* what syncProxyRules last applied
          hns,                        \* the addresses with an endpoint, and the load balancers
          sync,                       \* where syncProxyRules is
          initialized, dead,
          raced,                      \* history: a call came while a tracker was being emptied
          clean,                      \* history: nothing failed in the sync since the last call
          extFailed                   \* history: an external address was refused

winVars == <<svcItems, epItems, serviceMap, endpointsMap, hns, sync, initialized, dead,
             raced, clean, extFailed>>

WinInit(up, started) ==
           /\ svcItems = <<>> /\ epItems = <<>> /\ serviceMap = <<>> /\ endpointsMap = <<>>
           /\ hns = [eps |-> up, lbs |-> {}] /\ sync = "idle"
           /\ initialized = FALSE /\ dead = ~started
           /\ raced = FALSE /\ clean = FALSE /\ extFailed = FALSE

LessKeys(f, K) == [x \in DOMAIN f \ K |-> f[x]]
-----------------------------------------------------------------------------
(* The calls of the sink.                                                  *)

\* newServiceInfo for each port, with no policy applied; none without a cluster IP.
newServiceInfo(v) == [svc |-> v, applied |-> FALSE, lbs |-> {}, vipEndpoint |-> FALSE]
serviceToServiceMap(v) ==
    IF v.cluster = None THEN <<>> ELSE [p \in ToSet(v.ports) |-> newServiceInfo(v)]

\* A write to a map another goroutine is ranging over may also end the process.
Racing(window, panics) == /\ raced' = (raced \/ sync = window)
                          /\ dead' \in {panics} \cup {d \in {TRUE} : sync = window}
                          /\ clean' = FALSE

\* Update writes through the pointer it finds, which Delete has made nil.
trackService(s, item) == /\ svcItems' = (s :> item) @@ svcItems
                         /\ Racing("services merged",
                                   item # Gone /\ s \in DOMAIN svcItems /\ svcItems[s] = Gone)
                         /\ UNCHANGED <<epItems, serviceMap, endpointsMap, hns, sync, initialized,
                                        extFailed>>

updatePending(e, item) == /\ epItems' = (e :> item) @@ epItems
                          /\ Racing("endpoints merged", FALSE)
                          /\ UNCHANGED <<svcItems, serviceMap, endpointsMap, hns, sync, initialized,
                                         extFailed>>

WinSetService(s, v) == ~dead /\ CallSetService(s, v) /\ trackService(s, serviceToServiceMap(v))
WinDeleteService(s) == ~dead /\ CallDeleteService(s) /\ trackService(s, Gone)
WinSetEndpoint(e, v) == ~dead /\ CallSetEndpoint(e, v) /\ updatePending(e, v)
WinDeleteEndpoint(e) == ~dead /\ CallDeleteEndpoint(e) /\ updatePending(e, Gone)
WinPurge == ~dead /\ PurgeStarts /\ UNCHANGED winVars

\* Sync only wakes the other goroutine, which also wakes by itself from time to time.
WinSync == /\ ~dead /\ CallSync /\ initialized' = TRUE
           /\ UNCHANGED <<svcItems, epItems, serviceMap, endpointsMap, hns, sync, dead, raced, clean,
                          extFailed>>
-----------------------------------------------------------------------------
(* HNS, as the proxier uses it, and what is torn down when its network is  *)
(* not the one it was.                                                     *)

Identifier(lb) == <<lb.proto, lb.in, lb.out, lb.vip, Cardinality(lb.eps)>>

\* A second load balancer for an address, protocol and port is refused.
HnsTakes(h, lb) == ~\E x \in h.lbs : x.vip = lb.vip /\ x.proto = lb.proto /\ x.out = lb.out

HasEndpoints(em, s) == \E e \in DOMAIN em : ServiceOf[e] = s

\* The errors of the deletions are only logged, and the identifiers forgotten.
deleteAllHnsLoadBalancerPolicy(h, info) == [h EXCEPT !.lbs = @ \ info.lbs]
\* Only the endpoint for the service's own address counts its single reference: the
\* others are given a new record each time, which counts none.
Cleanup(h, info) == [h EXCEPT !.eps = @ \ (IF info.vipEndpoint THEN {info.svc.cluster} ELSE {})]

InfosOf(sm) == UNION {{<<s, p>> : p \in DOMAIN sm[s]} : s \in DOMAIN sm}

cleanupAllPolicies(w, em, ok) ==
    LET cleaned == {i \in InfosOf(w.map) : HasEndpoints(em, i[1])}
        CleanedUp(h, i) == LET info == w.map[i[1]][i[2]]
                           IN Cleanup(deleteAllHnsLoadBalancerPolicy(h, info), info)
    IN [w EXCEPT !.hns = IF ok THEN FoldLeft(CleanedUp, @, SetToSeq(cleaned)) ELSE @,
                 !.map = [s \in DOMAIN @ |-> [p \in DOMAIN @[s] |->
                             IF <<s, p>> \in cleaned THEN newServiceInfo(@[s][p].svc) ELSE @[s][p]]]]
-----------------------------------------------------------------------------
(* syncProxyRules programs each service port that has no policy yet.       *)

LoadBalancer(vip, p, out, ips, src) ==
    [vip |-> vip, proto |-> p.proto, in |-> p.target, out |-> out, eps |-> ips, src |-> src]

\* The last route to an address counts; an address without one is public.
findRemoteSubnetProviderAddress(ip) ==
    FoldLeft(LAMBDA p, rs : IF ip \in rs.dest \cup {rs.provider} THEN rs.provider ELSE p,
             None, RemoteSubnets)

\* The node's address is the source when an endpoint is a node's or a public one.
sourceVip(eps) ==
    LET outside == {ep \in eps : ~ep.local /\ findRemoteSubnetProviderAddress(ep.ip) \in {None, ep.ip}}
    IN IF Overlay /\ outside # {} THEN "node" ELSE "vip"

\* In the order they are made; without the first kinds the others are not.
WantedLBs(v, p, eps) ==
    LET ips(E) == {ep.ip : ep \in E}
        onNode == IF v.preserve THEN {ep \in eps : ep.local} ELSE eps
    IN <<LoadBalancer(v.cluster, p, p.port, ips(eps), sourceVip(eps))>>
       \o (IF p.node > 0 /\ onNode # {}
           THEN <<LoadBalancer(None, p, p.node, ips(onNode), sourceVip(eps))>> ELSE <<>>)
       \o [n \in DOMAIN v.ext |-> LoadBalancer(v.ext[n], p, p.port, ips(eps), sourceVip(eps))]
Required(v, lb) == lb.vip \notin ToSet(v.ext)

\* An existing load balancer is found by its identifier: endpoints are counted, not compared.
getLoadBalancer(acc, v, lb, fault) ==
    LET found == {x \in acc.hns.lbs : Identifier(x) = Identifier(lb)}
        refused == fault \in {"createLb", lb.vip} \/ ~HnsTakes(acc.hns, lb)
    IN CASE acc.stop -> acc
         [] ~acc.stop /\ found # {} -> [acc EXCEPT !.lbs = @ \cup found]
         [] ~acc.stop /\ found = {} /\ refused ->
                IF Required(v, lb) THEN [acc EXCEPT !.stop = TRUE] ELSE [acc EXCEPT !.failed = TRUE]
         [] OTHER -> [acc EXCEPT !.hns.lbs = @ \cup {lb}, !.lbs = @ \cup {lb}]

\* A policy counts as applied even if a load balancer was refused.
ApplyPolicyAnyway(w, s, p, eps, fault) ==
    LET info == w.map[s][p]
        done == FoldLeft(LAMBDA acc, lb : getLoadBalancer(acc, info.svc, lb, fault),
                         [hns |-> w.hns, lbs |-> info.lbs, stop |-> FALSE, failed |-> FALSE],
                         WantedLBs(info.svc, p, eps))
    IN [w EXCEPT !.hns = done.hns, !.map[s][p].lbs = done.lbs, !.map[s][p].applied = TRUE]

ApplyPolicy(w, s, p, eps, fault) ==
    LET info == w.map[s][p]
        done == FoldLeft(LAMBDA acc, lb : getLoadBalancer(acc, info.svc, lb, fault),
                         [hns |-> w.hns, lbs |-> info.lbs, stop |-> FALSE, failed |-> FALSE],
                         WantedLBs(info.svc, p, eps))
    IN [w EXCEPT !.hns = done.hns, !.failed = @ \/ done.failed,
                 !.map[s][p].lbs = done.lbs, !.map[s][p].applied = ~done.stop]

createEndpoint(w, ip) == [w EXCEPT !.hns.eps = @ \cup {ip}]

\* On an overlay the service's own address has an endpoint.
VipMissing(w, s, p) == Overlay /\ w.map[s][p].svc.cluster \notin w.hns.eps
WithVip(w, s, p) == IF VipMissing(w, s, p)
                    THEN [createEndpoint(w, w.map[s][p].svc.cluster) EXCEPT !.map[s][p].vipEndpoint = TRUE]
                    ELSE w

\* Endpoints that HNS does not have are created if they are remote, and passed over
\* if they are local or cannot be created.
EndpointsOf(em, s) == {em[e] : e \in {x \in DOMAIN em : ServiceOf[x] = s}}
Missing(w, em, s) == {ep \in EndpointsOf(em, s) : ~ep.local /\ ep.ip \notin w.hns.eps}
WithRemotes(w, em, s, fault) ==
    IF fault = "createEndpoint" THEN w
    ELSE FoldLeft(LAMBDA a, ep : createEndpoint(a, ep.ip), w, SetToSeq(Missing(w, em, s)))

ProgramPort(w, em, s, p, fault) ==
    LET w1 == WithVip(w, s, p)
        w2 == WithRemotes(w1, em, s, fault)
        present == {ep \in EndpointsOf(em, s) : ep.ip \in w2.hns.eps}
        skipped == w.aborted \/ w.map[s][p].applied
    IN CASE skipped -> w
         [] ~skipped /\ VipMissing(w, s, p) /\ fault = "createEndpoint" -> w
         [] ~skipped /\ Overlay /\ Missing(w1, em, s) # {} /\ fault = "network" ->
                [cleanupAllPolicies(w1, em, TRUE) EXCEPT !.aborted = TRUE]
         [] OTHER -> IF present = {} THEN w2 ELSE ApplyPolicy(w2, s, p, present, fault)

Program(em, fault) ==
    FoldLeft(LAMBDA w, i : ProgramPort(w, em, i[1], i[2], fault),
             [hns |-> hns, map |-> serviceMap, aborted |-> FALSE, failed |-> FALSE],
             SetToSeq(InfosOf(serviceMap)))

\* merge: a nil entry deletes, and must find the service's endpoints, which are gone
\* once the last is deleted; the entries come in any order.
mergePanics(s) ==
    LET had == {e \in DOMAIN endpointsMap : ServiceOf[e] = s}
        items == {e \in DOMAIN epItems : ServiceOf[e] = s}
        nils == {e \in items : epItems[e] = Gone}
    IN IF nils \subseteq had \/ ~(had \subseteq nils) THEN {FALSE}
       ELSE IF had = {} /\ nils = items THEN {TRUE} ELSE BOOLEAN

mergeItems(em, items) ==
    LET gone == {e \in DOMAIN items : items[e] = Gone}
    IN LessKeys(items, gone) @@ LessKeys(em, gone)

\* The changes are taken before the network is looked up.
WinSyncWithoutNetworkLate(ok) ==
    /\ ~dead /\ sync = "idle" /\ initialized
    /\ svcItems' = <<>> /\ epItems' = <<>> /\ clean' = FALSE
    /\ UNCHANGED <<serviceMap, endpointsMap, hns, sync, initialized, dead, raced, extFailed>>

\* A start that the network's state ends: what was programmed is cleaned up, the
\* changes wait for the next start.
WinSyncWithoutNetwork(ok) ==
    /\ ~dead /\ sync = "idle" /\ initialized
    /\ LET w == cleanupAllPolicies([hns |-> hns, map |-> serviceMap], endpointsMap, ok)
       IN hns' = w.hns /\ serviceMap' = w.map
    /\ clean' = FALSE
    /\ UNCHANGED <<svcItems, epItems, endpointsMap, sync, initialized, dead, raced, extFailed>>

WinMergeServices ==
    /\ ~dead /\ sync = "idle" /\ initialized
    /\ serviceMap' = mergeItems(serviceMap, svcItems)
    /\ sync' = "services merged"
    /\ UNCHANGED <<svcItems, epItems, endpointsMap, hns, initialized, dead, raced, clean, extFailed>>

WinMergeEndpoints ==
    /\ ~dead /\ sync = "services merged"
    /\ svcItems' = <<>>
    /\ \E panics \in [Services -> BOOLEAN] : /\ \A s \in Services : panics[s] \in mergePanics(s)
                                            /\ dead' = \E s \in Services : panics[s]
    /\ endpointsMap' = mergeItems(endpointsMap, epItems)
    /\ sync' = "endpoints merged"
    /\ UNCHANGED <<epItems, serviceMap, hns, initialized, raced, clean, extFailed>>

\* The queries of HNS may fail, and the source address of an overlay may be refused.
WinProgram(fault) ==
    /\ ~dead /\ sync = "endpoints merged"
    /\ epItems' = <<>>
    /\ IF fault = "query" THEN UNCHANGED <<hns, serviceMap, extFailed>>
       ELSE LET w == Program(endpointsMap, fault)
            IN hns' = w.hns /\ serviceMap' = w.map /\ extFailed' = (extFailed \/ w.failed)
    /\ sync' = "idle"
    /\ clean' = (fault = "none" /\ svcItems = <<>>)
    /\ UNCHANGED <<svcItems, endpointsMap, initialized, dead, raced>>

\* The network plugin adds the endpoint of a local pod, or removes it.
WinLocalEndpoint(ip) ==
    /\ hns' = [hns EXCEPT !.eps = IF ip \in @ THEN @ \ {ip} ELSE @ \cup {ip}]
    /\ clean' = FALSE
    /\ UNCHANGED <<svcItems, epItems, serviceMap, endpointsMap, sync, initialized, dead, raced, extFailed>>

\* NewProxier waits for the network.  It fails without a network's name; and, once
\* the load balancers are deleted, if an overlay is not found again after a pause,
\* or what was asked for is not supported, or an overlay has no source address.
NewProxierFails(cfg) == \/ ~cfg.named
                        \/ Overlay /\ ~cfg.foundAgain
                        \/ cfg.dsr /\ ~cfg.dsrSupported
                        \/ Overlay /\ ~(cfg.subnetsSupported /\ cfg.sourceVip)
WinRestart(cfg) ==
    /\ CallReset
    /\ svcItems' = <<>> /\ epItems' = <<>> /\ serviceMap' = <<>> /\ endpointsMap' = <<>>
    /\ hns' = [hns EXCEPT !.lbs = IF cfg.named THEN {} ELSE @] /\ sync' = "idle"
    /\ initialized' = FALSE /\ dead' = NewProxierFails(cfg) /\ raced' = FALSE
    /\ clean' = FALSE /\ extFailed' = FALSE
-----------------------------------------------------------------------------
Agrees(map, items, told) ==
    \A s \in Services :
        LET known == told[s] # None /\ told[s].cluster # None
            last == IF s \in DOMAIN items THEN items[s] ELSE IF s \in DOMAIN map THEN map[s] ELSE Gone
        IN IF ~known THEN last \in {Gone, <<>>}
           ELSE /\ last # Gone /\ DOMAIN last = ToSet(told[s].ports)
                /\ \A p \in DOMAIN last : last[p].svc = told[s]

\* What the proxier was told is what its maps and the changes it has not applied
\* add up to, at every moment: no change is lost or applied twice, whatever the
\* syncs that are cut short and the calls between their steps; unless a call came
\* while syncProxyRules was between a tracker's last entry and the empty tracker.
ChangesKept ==
    ~dead /\ ~raced =>
        /\ Agrees(serviceMap, IF sync = "services merged" THEN <<>> ELSE svcItems, toldSvc)
        /\ \A e \in Endpoints :
              LET items == IF sync = "endpoints merged" THEN <<>> ELSE epItems
                  last == IF e \in DOMAIN items THEN items[e]
                          ELSE IF e \in DOMAIN endpointsMap THEN endpointsMap[e] ELSE Gone
              IN last = IF toldEp[e] = None THEN Gone ELSE toldEp[e]

\* After a sync in which nothing failed, and with no call since, every port of every
\* service that has an endpoint HNS knows has the load balancers it should, for the
\* cluster address, the node port and the external addresses, with exactly those
\* endpoints; unless one is in the way that was made for other endpoints or ports
\* and that nothing removes.
ServedUnlessObstructed ==
    sync = "idle" /\ clean /\ ~raced /\ ~dead =>
        \A s \in KnownSvcs : toldSvc[s].cluster # None =>
            LET usable == {ep \in {toldEp[e] : e \in EpsOf(s)} : ep.ip \in hns.eps}
            IN usable # {} => \A p \in ToSet(toldSvc[s].ports) :
                   LET want == {lb \in ToSet(WantedLBs(toldSvc[s], p, usable)) :
                                   ~extFailed \/ Required(toldSvc[s], lb)}
                       inTheWay == {x \in hns.lbs \ want : ~HnsTakes([lbs |-> want], x)}
                   IN inTheWay = {} => want \subseteq hns.lbs
=============================================================================
