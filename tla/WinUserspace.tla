----------------------------- MODULE WinUserspace -----------------------------
(***************************************************************************)
(* backends/windows/userspace: a proxier that opens a portal, a listening  *)
(* socket and an address of an interface, for each address and port of     *)
(* each service, and a round-robin balancer.  The backend in front of it   *)
(* keeps its services in a map it never makes, so that its first           *)
(* SetService ends the process: the calls here are those that the Provider *)
(* interface describes, made by a backend that has its map.                *)
(* A service is a record [cluster, ext, ports, affinity], a port           *)
(* [name, proto, port, node, target], an endpoint [ip].                    *)
(***************************************************************************)
EXTENDS BackendFeed, RoundRobin, Functions

CONSTANT AllInterfaces     \* allAvailableInterfaces

VARIABLES services,      \* the backend's, as last set
          portals,       \* proxier.serviceMap, by <<service, port name, address>>
          addrs,         \* the addresses netsh added
          lb,            \* LoadBalancerRR.services, by <<service, port name>>
          held,          \* the endpoints of the backend's services
          refused,       \* history: the portals whose last opening failed
          doubled        \* history: the balancer was given an address twice

winUserVars == <<services, portals, addrs, lb, held, refused, doubled>>

WinUserInit == /\ services = <<>> /\ portals = <<>> /\ addrs = {} /\ lb = <<>> /\ held = <<>>
               /\ refused = {} /\ doubled = FALSE

Dropped(f, K) == [x \in DOMAIN f \ K |-> f[x]]
-----------------------------------------------------------------------------
(* Portals.                                                                *)

\* The addresses a port is served on, each with the port it listens on there.
getListenIPPortMap(v, p) ==
    [ip \in ToSet(v.cluster) \cup ToSet(v.ext) |-> p.port] @@
    (IF p.node # 0 THEN AllInterfaces :> p.node ELSE <<>>)

\* The affinities are compared as pointers, the wrong way round: a service without
\* affinity is never the same, one that was just decoded always is.
sameConfig(info, v, p, port) ==
    info.proto = p.proto /\ info.port = port /\ (info.affinity \/ v.affinity)

\* Errors leave the address, and only the socket's end the closing early.
closeServicePortPortal(w, k, fault) ==
    [w EXCEPT !.portals = Dropped(@, {k}), !.addrs = IF fault = "close" THEN @ ELSE @ \ {k[3]}]

\* A socket on an address and port that another portal listens on is refused.
newProxySocketFails(w, k, p, port, fault) ==
    \/ fault = "open" \/ p.proto = "SCTP"
    \/ \E x \in DOMAIN w.portals : x[3] = k[3] /\ w.portals[x].port = port /\ w.portals[x].proto = p.proto

addServicePortPortal(w, k, v, p, port, fault) ==
    LET w1 == IF k[3] = AllInterfaces THEN w ELSE [w EXCEPT !.addrs = @ \cup {k[3]}]
    IN IF fault = "address" /\ k[3] # AllInterfaces THEN [w EXCEPT !.refused = @ \cup {k}]
       ELSE IF newProxySocketFails(w, k, p, port, fault) THEN [w1 EXCEPT !.refused = @ \cup {k}]
       ELSE [w1 EXCEPT !.portals = (k :> [proto |-> p.proto, port |-> port, affinity |-> v.affinity]) @@ @,
                       !.refused = @ \ {k}]

mergePortal(w, k, v, p, port, fault) ==
    LET exists == k \in DOMAIN w.portals
    IN IF exists /\ sameConfig(w.portals[k], v, p, port) THEN w
       ELSE addServicePortPortal(IF exists THEN closeServicePortPortal(w, k, fault) ELSE w,
                                 k, v, p, port, fault)

PortalsOf(s, v) == UNION {{<<s, p.name, ip>> : ip \in DOMAIN getListenIPPortMap(v, p)} : p \in ToSet(v.ports)}

\* A service without the field for cluster addresses is passed over.
mergeService(w, s, v, fault) ==
    LET onPort(a, p) ==
            LET ports == getListenIPPortMap(v, p)
                opened == FoldLeft(LAMBDA b, ip : mergePortal(b, <<s, p.name, ip>>, v, p, ports[ip], fault),
                                   a, SetToSeq(DOMAIN ports))
            IN IF ports = <<>> THEN a
               ELSE [opened EXCEPT !.lb = newServiceInternal(@, <<s, p.name>>, v.affinity)]
    IN IF v.cluster = None THEN w ELSE FoldLeft(onPort, w, v.ports)

Existing(s, v) == IF v.cluster = None THEN {} ELSE PortalsOf(s, v)

\* The existing portals are not looked at: what is merged is closed again.
unmergeServiceAll(w, s, v, existing, fault) ==
    LET closed == FoldLeft(LAMBDA b, k : closeServicePortPortal(b, k, fault), w,
                           SetToSeq(PortalsOf(s, v) \cap DOMAIN w.portals))
    IN IF v.cluster = None THEN w ELSE closed

\* The portals of the service as it was that are not among the existing ones.
unmergeService(w, s, v, existing, fault) ==
    LET gone == PortalsOf(s, v) \ existing
        closed == FoldLeft(LAMBDA b, k : closeServicePortPortal(b, k, fault), w,
                           SetToSeq(gone \cap DOMAIN w.portals))
    IN IF v.cluster = None THEN w
       ELSE [closed EXCEPT !.lb = Dropped(@, {<<s, p.name>> : p \in ToSet(v.ports)}
                                             \ {<<k[1], k[2]>> : k \in existing}),
                           !.refused = @ \ gone]

Proxier == [portals |-> portals, addrs |-> addrs, lb |-> lb, refused |-> refused]
Becomes(w) == /\ portals' = w.portals /\ addrs' = w.addrs /\ lb' = w.lb /\ refused' = w.refused

OnServiceAdd(s, v, fault) == Becomes(mergeService(Proxier, s, v, fault))
OnServiceUpdate(s, old, v, fault) ==
    Becomes(unmergeService(mergeService(Proxier, s, v, fault), s, old, Existing(s, v), fault))
OnServiceDelete(s, old, fault) == Becomes(unmergeService(Proxier, s, old, {}, fault))
-----------------------------------------------------------------------------
(* The balancer: only what this copy of LoadBalancerRR does differently.   *)

AddressesOf(v, p, ep) == IF p.port > 0 THEN <<<<ep.ip, p.target>>>> ELSE <<>>

\* Only addresses that are new end their sessions.
updateAffinityMapNew(st, new) ==
    [st EXCEPT !.sessions = Dropped(@, {c \in DOMAIN @ : @[c].endpoint \notin ToSet(st.endpoints)})]

\* How often an address is listed, among the new endpoints once: with a count of one
\* its sessions end.
Listed(new, old, a) == (IF a \in ToSet(new) THEN 1 ELSE 0) + Cardinality({i \in DOMAIN old : old[i] = a})
updateAffinityMap(st, new) ==
    [st EXCEPT !.sessions = Dropped(@, {c \in DOMAIN @ : Listed(new, st.endpoints, @[c].endpoint) = 1})]
SetEndpoints(b, sp, affinity, new) ==
    LET made == IF sp \in DOMAIN b THEN [b EXCEPT ![sp] = updateAffinityMap(@, new)]
                ELSE newServiceInternal(b, sp, affinity)
        made2 == newServiceInternal(made, sp, affinity)
    IN {[made2 EXCEPT ![sp].endpoints = s, ![sp].index = 0] : s \in ShuffleStrings(new)}

OnEndpointsAdd(b, s, v, ep) ==
    FoldLeft(LAMBDA B, p : UNION {SetEndpoints(x, <<s, p.name>>, v.affinity,
                                      AddressesOf(v, p, ep)
                                      \o (IF <<s, p.name>> \in DOMAIN x THEN x[<<s, p.name>>].endpoints ELSE <<>>))
                                  : x \in B}, {b}, v.ports)

OnEndpointsDelete(b, s, v, ep) ==
    FoldLeft(LAMBDA B, p : UNION {IF <<s, p.name>> \notin DOMAIN x THEN {x}
                                  ELSE SetEndpoints(x, <<s, p.name>>, v.affinity,
                                           SelectSeq(x[<<s, p.name>>].endpoints,
                                                     LAMBDA a : a \notin ToSet(AddressesOf(v, p, ep))))
                                  : x \in B}, {b}, v.ports)
-----------------------------------------------------------------------------
(* The backend's calls.  SetService forgets the endpoints it held.         *)

WinUserSetService(s, v, fault) ==
    /\ CallSetService(s, v)
    /\ IF s \in DOMAIN services THEN OnServiceUpdate(s, services[s], v, fault) ELSE OnServiceAdd(s, v, fault)
    /\ services' = (s :> v) @@ services
    /\ held' = Dropped(held, {e \in DOMAIN held : ServiceOf[e] = s})
    /\ UNCHANGED doubled

WinUserDeleteService(s, fault) ==
    /\ CallDeleteService(s)
    /\ OnServiceDelete(s, services[s], fault)
    /\ services' = Dropped(services, {s})
    /\ held' = Dropped(held, {e \in DOMAIN held : ServiceOf[e] = s})
    /\ UNCHANGED doubled

\* AddEndpoint appends, so that GetEndpoint goes on finding the first value.
WinUserSetEndpoint(e, v) ==
    /\ CallSetEndpoint(e, v)
    /\ held' = held @@ (e :> v)
    /\ lb' \in OnEndpointsAdd(lb, ServiceOf[e], services[ServiceOf[e]], v)
    /\ doubled' = (doubled \/ \E sp \in DOMAIN lb' : ~IsInjective(lb'[sp].endpoints))
    /\ UNCHANGED <<services, portals, addrs, refused>>

\* After its service went, or a SetService, the endpoint is not found.
WinUserDeleteEndpoint(e) ==
    /\ CallDeleteEndpoint(e) /\ ServiceOf[e] \in DOMAIN services
    /\ lb' \in (IF e \in DOMAIN held THEN OnEndpointsDelete(lb, ServiceOf[e], services[ServiceOf[e]], held[e])
                ELSE {lb})
    /\ held' = Dropped(held, {e})
    /\ UNCHANGED <<services, portals, addrs, refused, doubled>>

WinUserSync == /\ CallSync
               /\ lb' = FoldLeft(CleanupStaleStickySessions, lb,
                                 SetToSeq({<<k[1], k[2]>> : k \in DOMAIN portals}))
               /\ UNCHANGED <<services, portals, addrs, held, refused, doubled>>

\* tryConnect: the first attempt may stick to a session, the later ones do not.
tryConnect(k, c, fails) ==
    LET sp == <<k[1], k[2]>>
    IN /\ k \in DOMAIN portals /\ sp \in DOMAIN lb /\ lb[sp].endpoints # <<>>
       /\ lb' = FoldLeft(LAMBDA b, n : NextEndpoint(b, sp, c, n > 1), lb, [n \in 1..(fails + 1) |-> n])
       /\ UNCHANGED <<services, portals, addrs, held, refused, doubled>>

SessionExpires(sp, c) == /\ sp \in DOMAIN lb /\ c \in DOMAIN lb[sp].sessions
                         /\ lb[sp].sessions[c].fresh
                         /\ lb' = Expire(lb, sp, c)
                         /\ UNCHANGED <<services, portals, addrs, held, refused, doubled>>
-----------------------------------------------------------------------------
\* The portals that are open are those of the services as they were last told, each
\* on the port and protocol told, and none of a service that went or of a port or
\* address it lost: whatever was opened, closed and reopened on the way.  What is
\* missing was refused when it was last tried.
PortalsMatch ==
    LET want == UNION {Existing(s, services[s]) : s \in DOMAIN services}
    IN /\ DOMAIN portals = want \ refused
       /\ \A k \in DOMAIN portals : \E p \in ToSet(services[k[1]].ports) :
             /\ p.name = k[2] /\ portals[k].proto = p.proto
             /\ portals[k].port = getListenIPPortMap(services[k[1]], p)[k[3]]

\* A client's session names an endpoint that the balancer still has, whatever was
\* added, deleted and shuffled since it began; unless an address was listed twice,
\* which updateAffinityMap takes for one that stays.
SessionsLive ==
    ~doubled => \A sp \in DOMAIN lb : \A c \in DOMAIN lb[sp].sessions :
                    lb[sp].sessions[c].endpoint \in ToSet(lb[sp].endpoints)
=============================================================================
