---------------------------- MODULE UserspaceProxier ----------------------------
(***************************************************************************)
(* backends/userspacelin: the sink (sink.go, service.go) that records      *)
(* changes of services as they are received, syncProxyRules, which applies *)
(* them at Sync with one proxy socket, some iptables rules and some        *)
(* claimed ports for each service port, and the connections that           *)
(* meanwhile ask the load balancer for an endpoint.  The two or three      *)
(* iptables rules of a portal are opened and closed together and are one   *)
(* rule here.  NewCustomProxier always ends up with the allocator of       *)
(* random ports, so the kernel chooses any proxy port that is not open.    *)
(* The frequency runner is never looped, so only Sync applies changes.     *)
(* (Definitions that no action uses are faulty variants.)                  *)
(***************************************************************************)
EXTENDS BackendFeed, RoundRobin

CONSTANTS ProxyPorts,       \* the ports the kernel may give to proxy sockets
          LocalIPs,         \* the addresses of the node
          NodeIP,           \* stands for the nil address of a node port
          DialTimeouts,     \* Len(EndpointDialTimeouts)
          MaxAddresses      \* bound: addresses in a list of the balancer, records of a service

VARIABLES services,         \* Backend.services: the service and its eps
          changes,          \* serviceChanges
          ready,            \* {"services", "endpoints"} as far as synced
          serviceMap, portMap, rules, sockets, localAddrs,
          sync,             \* progress of syncProxyRules
          lb, lbLock,       \* loadBalancer.services and who holds its lock
          dial,             \* TryConnectEndpoints of each client
          crashed,          \* the process died of a panic
          clean             \* history: no failure or port conflict so far

proxierVars == <<services, changes, ready, serviceMap, portMap, rules, sockets, localAddrs,
                 sync, lb, lbLock, dial, crashed, clean>>
kernelVars == <<serviceMap, portMap, rules, sockets, localAddrs>>
vars == <<feedVars, proxierVars>>

Idle == [todo |-> <<>>, cur |-> None, left |-> {}, gone |-> {}, new |-> None, busy |-> FALSE]

Init == /\ FeedInit
        /\ services = <<>> /\ changes = <<>> /\ ready = {}
        /\ serviceMap = <<>> /\ portMap = <<>> /\ rules = {} /\ sockets = <<>> /\ localAddrs = {}
        /\ sync = Idle /\ lb = <<>> /\ lbLock = None
        /\ dial = [c \in Clients |-> None]
        /\ crashed = FALSE /\ clean = TRUE

Running == ~crashed /\ ~sync.busy
Without(f, x) == [y \in DOMAIN f \ {x} |-> f[y]]
ShouldSkipService(v) == v = None \/ v.skip
PortsOf(v) == IF ShouldSkipService(v) THEN {} ELSE DOMAIN v.ports
initialized == ready = {"services", "endpoints"}
-----------------------------------------------------------------------------
(***************************************************************************)
(* serviceChange: the oldest previous service stays until the next sync; a *)
(* change that comes back to where it began is dropped.                    *)
(***************************************************************************)
serviceChangeLatest(s, previous, current) ==
    IF previous = current THEN Without(changes, s)
    ELSE (s :> [previous |-> previous, current |-> current]) @@ changes

serviceChange(s, previous, current) ==
    LET first == IF s \in DOMAIN changes THEN changes[s].previous ELSE previous
    IN  IF first = current THEN Without(changes, s)
        ELSE (s :> [previous |-> first, current |-> current]) @@ changes

SetService(s, v) ==
    /\ Running /\ CallSetService(s, v)
    /\ changes' = serviceChange(s, IF s \in DOMAIN services THEN services[s].svc ELSE None, v)
    /\ ready' = IF s \in DOMAIN services THEN ready ELSE ready \cup {"services"}
    /\ services' = (s :> [svc |-> v, eps |-> <<>>]) @@ services
    /\ UNCHANGED <<kernelVars, sync, lb, lbLock, dial, crashed, clean>>

DeleteService(s) ==
    /\ Running /\ CallDeleteService(s)
    /\ changes' = serviceChange(s, services[s].svc, None)
    /\ services' = Without(services, s)
    /\ UNCHANGED <<kernelVars, ready, sync, lb, lbLock, dial, crashed, clean>>

\* OnEndpointsAdd, for every port name of the endpoint.
OnEndpointsAdd(s, affinity, map) ==
    FoldLeft(LAMBDA B, n : UNION {AddToPort(b, <<s, n>>, affinity, map[n]) : b \in B},
             {lb}, SetToSeq(DOMAIN map))

SetEndpoint(e, overrides) ==
    LET s == ServiceOf[e]
        map == buildPortsToEndpointsMap(e, overrides)
    IN  /\ Running /\ lbLock = None /\ CallSetEndpoint(e, overrides)
        /\ Len(services[s].eps) < MaxAddresses
        /\ \A sp \in DOMAIN lb : Len(lb[sp].endpoints) < MaxAddresses
        /\ services' = [services EXCEPT ![s].eps = Append(@, [key |-> e, ep |-> overrides])]
        /\ ready' = ready \cup {"endpoints"}
        /\ lb' \in OnEndpointsAdd(s, services[s].svc.affinity, map)
        /\ UNCHANGED <<changes, kernelVars, sync, lbLock, dial, crashed, clean>>

(***************************************************************************)
(* DeleteEndpoint: the first record with the key says which address goes,  *)
(* the address of its first port, from the lists of all of its ports.  The *)
(* record itself stays.  A service that is gone is a nil pointer.          *)
(***************************************************************************)
GetEndpoint(s, e) == SelectSeq(services[s].eps, LAMBDA r : r.key = e)

DeleteEndpoint(e) ==
    LET s == ServiceOf[e]
        found == GetEndpoint(s, e)
        overrides == found[1].ep
        names == {n \in {overrides[i].name : i \in DOMAIN overrides} : <<s, n>> \in DOMAIN lb}
        d == <<e, overrides[1].port>>
    IN  /\ Running /\ lbLock = None /\ CallDeleteEndpoint(e)
        /\ IF s \notin DOMAIN services
           THEN crashed' = TRUE /\ UNCHANGED lb
           ELSE IF found = <<>> THEN UNCHANGED <<lb, crashed>>
           ELSE /\ crashed' = \E n \in names : DeleteLoop(lb[<<s, n>>].endpoints, d).panics
                /\ lb' = [sp \in DOMAIN lb |-> IF sp \in {<<s, n>> : n \in names}
                                               THEN DeleteFromPort(lb, sp, d)[sp] ELSE lb[sp]]
        /\ UNCHANGED <<services, changes, ready, kernelVars, sync, lbLock, dial, clean>>
-----------------------------------------------------------------------------
(***************************************************************************)
(* A service port that is proxied, and its portals in the order openPortal *)
(* goes through them.                                                      *)
(***************************************************************************)
Info(s, v, n, proxy) == [ip |-> s, port |-> v.ports[n].port, node |-> v.ports[n].node,
                         ext |-> v.ext, lbs |-> v.lbs, proxy |-> proxy]

sameConfig(info, s, v, n) == /\ info.port = v.ports[n].port /\ info.node = v.ports[n].node
                             /\ info.ip = s /\ info.ext = v.ext

Portals(info) == LET at(ips) == [i \in DOMAIN ips |-> [ip |-> ips[i], port |-> info.port]]
                 IN  at(<<info.ip>>) \o at(info.ext) \o at(info.lbs)
                       \o IF info.node = 0 THEN <<>> ELSE <<[ip |-> NodeIP, port |-> info.node]>>

RuleOf(portal, info, sp) == [at |-> portal, proxy |-> info.proxy, owner |-> sp]
Claimable(portal) == portal.ip \in localAddrs \cup {NodeIP}

(***************************************************************************)
(* openPortal stops at the first portal whose port another service claims; *)
(* closePortal goes on, and reports an error when it may not release a     *)
(* claim, or when iptables failed to delete a rule.                        *)
(***************************************************************************)
openPortal(st, sp, info, local) ==
    LET open(t, portal) ==
          LET claim == portal.ip \in local \cup {NodeIP}
              free == portal \notin DOMAIN t.portMap \/ t.portMap[portal] = sp
          IN  IF ~t.ok \/ (claim /\ ~free) THEN [t EXCEPT !.ok = FALSE]
              ELSE [t EXCEPT !.portMap = IF claim THEN (portal :> sp) @@ @ ELSE @,
                             !.rules = @ \cup {RuleOf(portal, info, sp)}]
    IN  FoldLeft(open, [st EXCEPT !.ok = TRUE], Portals(info))

closePortalKeepsClaims(sp, info, fails) ==
    LET portals == {Portals(info)[i] : i \in DOMAIN Portals(info)}
        held == {p \in portals : Claimable(p) /\ p \in DOMAIN portMap}
    IN  [portMap |-> portMap,
         rules |-> IF fails THEN rules ELSE rules \ {RuleOf(p, info, sp) : p \in portals},
         ok |-> ~fails /\ \A p \in held : portMap[p] = sp]

closePortal(sp, info, fails) ==
    LET portals == {Portals(info)[i] : i \in DOMAIN Portals(info)}
        held == {p \in portals : Claimable(p) /\ p \in DOMAIN portMap}
    IN  [portMap |-> [p \in DOMAIN portMap \ {q \in held : portMap[q] = sp} |-> portMap[p]],
         rules |-> IF fails THEN rules ELSE rules \ {RuleOf(p, info, sp) : p \in portals},
         ok |-> ~fails /\ \A p \in held : portMap[p] = sp]

\* cleanupPortalAndProxy: the proxy is only stopped when the portal is closed.
cleanupPortalAndProxy(sp, fails) ==
    LET info == serviceMap[sp]
        closed == closePortal(sp, info, fails)
    IN  [portMap |-> closed.portMap, rules |-> closed.rules, ok |-> closed.ok,
         serviceMap |-> IF closed.ok THEN Without(serviceMap, sp) ELSE serviceMap,
         sockets |-> IF closed.ok THEN Without(sockets, info.proxy) ELSE sockets]

Untouched == [portMap |-> portMap, rules |-> rules, ok |-> TRUE,
              serviceMap |-> serviceMap, sockets |-> sockets]

Apply(st) == /\ portMap' = st.portMap /\ rules' = st.rules
             /\ serviceMap' = st.serviceMap /\ sockets' = st.sockets
             /\ UNCHANGED localAddrs
-----------------------------------------------------------------------------
(***************************************************************************)
(* syncProxyRules.  The changes are taken at once; each is then merged     *)
(* port by port, and the ports the service no longer has are stopped.      *)
(***************************************************************************)
SyncIgnored == /\ Running /\ CallSync /\ ~initialized
               /\ UNCHANGED proxierVars

SyncBegin == /\ Running /\ CallSync /\ initialized
             /\ sync' = [Idle EXCEPT !.todo = changes, !.busy = TRUE]
             /\ changes' = <<>>
             /\ UNCHANGED <<services, ready, kernelVars, lb, lbLock, dial, crashed, clean>>

Syncing == ~crashed /\ sync.busy
Between == sync.left = {} /\ sync.gone = {} /\ sync.new = None

NextChange(s) ==
    /\ Syncing /\ Between /\ s \in DOMAIN sync.todo
    /\ LET c == sync.todo[s]
       IN  sync' = [sync EXCEPT !.todo = Without(@, s), !.cur = [s |-> s, v |-> c.current],
                                !.left = PortsOf(c.current),
                                !.gone = PortsOf(c.previous) \ PortsOf(c.current)]
    /\ UNCHANGED <<feedVars, services, changes, ready, kernelVars, lb, lbLock, dial,
                   crashed, clean>>

\* A bound: one failure, of a rule to be deleted or a socket to be opened, per behaviour.
MayFail(failure) == failure => clean

\* One port of mergeService; starts says whether the proxy socket can be opened.
MergePort(n, fails, starts) ==
    LET s == sync.cur.s
        v == sync.cur.v
        sp == <<s, n>>
        known == sp \in DOMAIN serviceMap
        st == IF known THEN cleanupPortalAndProxy(sp, fails) ELSE Untouched
    IN  /\ Syncing /\ n \in sync.left /\ MayFail(fails \/ ~starts)
        /\ \/ /\ known /\ sameConfig(serviceMap[sp], s, v, n)
              /\ sync' = [sync EXCEPT !.left = @ \ {n}]
              /\ UNCHANGED <<kernelVars, clean>>
           \/ /\ ~(known /\ sameConfig(serviceMap[sp], s, v, n)) /\ ~starts
              /\ sync' = [sync EXCEPT !.left = @ \ {n}]
              /\ Apply(st) /\ clean' = FALSE
           \/ /\ ~(known /\ sameConfig(serviceMap[sp], s, v, n)) /\ starts
              /\ sync' = [sync EXCEPT !.left = @ \ {n}, !.new = sp]
              /\ \E proxy \in ProxyPorts \ DOMAIN st.sockets :
                   LET info == Info(s, v, n, proxy)
                       opened == openPortal(st, sp, info, localAddrs)
                   IN  /\ Apply([opened EXCEPT !.serviceMap = (sp :> info) @@ @,
                                               !.sockets = @ @@ (proxy :> sp)])
                       /\ clean' = (clean /\ st.ok /\ opened.ok)
        /\ UNCHANGED <<feedVars, services, changes, ready, lb, lbLock, dial, crashed>>

(***************************************************************************)
(* NewService takes the lock and gives it back before it writes: a         *)
(* connection that holds the lock then reads the map meanwhile, and the Go *)
(* runtime may notice and abort.                                           *)
(***************************************************************************)
NewService == /\ Syncing /\ sync.new # None
              /\ lb' = newServiceInternal(lb, sync.new, sync.cur.v.affinity)
              /\ sync' = [sync EXCEPT !.new = None]
              /\ crashed' \in IF lbLock = None THEN {FALSE} ELSE BOOLEAN
              /\ UNCHANGED <<feedVars, services, changes, ready, kernelVars, lbLock, dial,
                             clean>>

UnmergePort(n, fails) ==
    LET sp == <<sync.cur.s, n>>
        st == IF sp \in DOMAIN serviceMap THEN cleanupPortalAndProxy(sp, fails) ELSE Untouched
    IN  /\ Syncing /\ sync.left = {} /\ sync.new = None /\ n \in sync.gone /\ lbLock = None
        /\ MayFail(fails)
        /\ sync' = [sync EXCEPT !.gone = @ \ {n}]
        /\ Apply(st) /\ clean' = (clean /\ st.ok)
        /\ lb' = IF sp \in DOMAIN serviceMap THEN DeleteServiceRR(lb, sp) ELSE lb
        /\ UNCHANGED <<feedVars, services, changes, ready, lbLock, dial, crashed>>

\* ensurePortals, over the map in any order, and cleanupStaleStickySessions.
SyncEnd ==
    /\ Syncing /\ Between /\ sync.todo = <<>> /\ lbLock = None
    /\ localAddrs' = LocalIPs
    /\ \E order \in SetToSeqs(DOMAIN serviceMap) :
          /\ LET each(t, sp) == LET o == openPortal(t, sp, serviceMap[sp], LocalIPs)
                                IN  [o EXCEPT !.bad = @ \/ ~o.ok]
                 st == FoldLeft(each, [portMap |-> portMap, rules |-> rules, ok |-> TRUE,
                                       bad |-> FALSE], order)
             IN  portMap' = st.portMap /\ rules' = st.rules /\ clean' = (clean /\ ~st.bad)
    /\ lb' = FoldLeft(CleanupStaleStickySessions, lb, SetToSeq(DOMAIN serviceMap))
    /\ sync' = Idle
    /\ UNCHANGED <<feedVars, services, changes, ready, serviceMap, sockets, lbLock, dial,
                   crashed>>
-----------------------------------------------------------------------------
(***************************************************************************)
(* ProxyLoop and TryConnectEndpoints: a connection to a proxy socket asks  *)
(* for an endpoint, dials it, and asks again when that fails, now without  *)
(* regard to the session.                                                  *)
(***************************************************************************)
quietVars == <<feedVars, services, changes, ready, kernelVars, sync, clean>>

Accept(c, sp) == /\ ~crashed /\ dial[c] = None /\ \E p \in DOMAIN sockets : sockets[p] = sp
                 /\ dial' = [dial EXCEPT ![c] = [sp |-> sp, tries |-> 0, endpoint |-> None]]
                 /\ UNCHANGED <<quietVars, lb, lbLock, crashed>>

NextLocks(c) == /\ ~crashed /\ dial[c] # None /\ dial[c].endpoint = None /\ lbLock = None
                /\ lbLock' = c
                /\ UNCHANGED <<quietVars, lb, dial, crashed>>

NextReturns(c) ==
    LET sp == dial[c].sp
        reset == dial[c].tries > 0
    IN  /\ ~crashed /\ lbLock = c /\ lbLock' = None
        /\ IF ServiceHasEndpoints(lb, sp)
           THEN /\ lb' = NextEndpoint(lb, sp, c, reset)
                /\ dial' = [dial EXCEPT ![c].endpoint = Picked(lb[sp], c, reset)]
           ELSE dial' = [dial EXCEPT ![c] = None] /\ UNCHANGED lb
        /\ UNCHANGED <<quietVars, crashed>>

Connected(c) == /\ ~crashed /\ dial[c] # None /\ dial[c].endpoint # None
                /\ dial' = [dial EXCEPT ![c] = None]
                /\ UNCHANGED <<quietVars, lb, lbLock, crashed>>

DialFails(c) == /\ ~crashed /\ dial[c] # None /\ dial[c].endpoint # None
                /\ dial' = [dial EXCEPT ![c] =
                       IF @.tries + 1 = DialTimeouts THEN None
                       ELSE [@ EXCEPT !.tries = @ + 1, !.endpoint = None]]
                /\ UNCHANGED <<quietVars, lb, lbLock, crashed>>

SessionExpires(sp, c) == /\ ~crashed /\ lbLock = None /\ sp \in DOMAIN lb
                         /\ c \in DOMAIN lb[sp].sessions /\ lb[sp].sessions[c].fresh
                         /\ lb' = Expire(lb, sp, c)
                         /\ UNCHANGED <<quietVars, dial, lbLock, crashed>>

Purge == Running /\ PurgeStarts /\ UNCHANGED proxierVars

PortNames == UNION {DOMAIN v.ports : v \in UNION {SvcVals[s] : s \in Services}}
SvcPorts == Services \X PortNames

Next == \/ \E s \in Services : \E v \in SvcVals[s] : SetService(s, v)
        \/ \E s \in Services : DeleteService(s) \/ NextChange(s)
        \/ \E e \in Endpoints : \E v \in EpVals[e] : SetEndpoint(e, v)
        \/ \E e \in Endpoints : DeleteEndpoint(e)
        \/ Purge \/ SyncIgnored \/ SyncBegin \/ SyncEnd \/ NewService
        \/ \E n \in PortNames, fails, starts \in BOOLEAN : MergePort(n, fails, starts)
        \/ \E n \in PortNames, fails \in BOOLEAN : UnmergePort(n, fails)
        \/ \E c \in Clients : \/ NextLocks(c) \/ NextReturns(c) \/ Connected(c) \/ DialFails(c)
                              \/ \E sp \in SvcPorts : Accept(c, sp) \/ SessionExpires(sp, c)

Spec == Init /\ [][Next]_vars
-----------------------------------------------------------------------------
(***************************************************************************)
(* Between two syncs, once every change is applied and as long as nothing  *)
(* failed, the service ports that are proxied are exactly those of the     *)
(* services the sink was told of, with their configuration (load balancer  *)
(* addresses and affinity, which sameConfig ignores, apart): collapsing    *)
(* changes into the oldest previous and the latest current loses nothing.  *)
(***************************************************************************)
Settled == ~crashed /\ ~sync.busy /\ changes = <<>>

ProxiedAsTold ==
    Settled /\ clean =>
      /\ DOMAIN serviceMap = {sp \in SvcPorts : sp[2] \in PortsOf(toldSvc[sp[1]])}
      /\ \A sp \in DOMAIN serviceMap : sameConfig(serviceMap[sp], sp[1], toldSvc[sp[1]], sp[2])

(***************************************************************************)
(* As long as nothing failed, an iptables rule leads to a socket that is   *)
(* open and proxies for the service the rule is for, although the kernel   *)
(* gives a closed proxy port to another service later; and a claim on a    *)
(* port of the node is held for a portal that its owner still has.         *)
(***************************************************************************)
RulesReachOwner ==
    ~crashed /\ clean =>
      /\ \A r \in rules : r.proxy \in DOMAIN sockets /\ sockets[r.proxy] = r.owner
      /\ \A p \in DOMAIN portMap : /\ portMap[p] \in DOMAIN serviceMap
                                   /\ \E i \in DOMAIN Portals(serviceMap[portMap[p]]) :
                                          Portals(serviceMap[portMap[p]])[i] = p

\* NextEndpoint never indexes beyond the list, whatever was added and deleted.
IndexInRange == ~crashed => \A sp \in DOMAIN lb : \/ lb[sp].endpoints = <<>>
                                                 \/ lb[sp].index < Len(lb[sp].endpoints)

(***************************************************************************)
(* The process only dies when a purge deletes an endpoint after its        *)
(* service, when an endpoint goes whose address the balancer holds twice   *)
(* (it was set twice, or left behind by an update of its service), or when *)
(* NewService writes under a connection that holds the lock.               *)
(***************************************************************************)
HeldTwice == \E sp \in DOMAIN lb : ~IsInjective(lb[sp].endpoints)

CrashNeedsCause == [][crashed' /\ ~crashed => phase = "purge" \/ HeldTwice \/ lbLock # None]_vars

(***************************************************************************)
(* After a failed dial the next attempt goes to an endpoint in the list:   *)
(* a session that sticks to a deleted endpoint costs one attempt at most.  *)
(***************************************************************************)
RetryLeavesDeleted ==
    [][\A c \in Clients : /\ dial[c] # None /\ dial[c].tries > 0
                          /\ dial'[c] # None /\ dial[c].endpoint = None /\ dial'[c].endpoint # None
          => \E i \in DOMAIN lb[dial[c].sp].endpoints :
                lb[dial[c].sp].endpoints[i] = dial'[c].endpoint]_vars
=============================================================================
