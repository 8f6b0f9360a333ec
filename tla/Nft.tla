---------------------------------- MODULE Nft ----------------------------------
(***************************************************************************)
(* backends/nft: a Callback renders the whole state into chains, one       *)
(* buffer per chain, for an IPv4 and an IPv6 table; a diffstore of buffers *)
(* says which chains changed, and one nft transaction flushes and rewrites *)
(* those.  The first run, and the run after a failure, replace the tables  *)
(* instead (fullResync).  Deleted chains are flushed and stay, empty       *)
(* (canDeleteChains is false).                                             *)
(*                                                                         *)
(* A chain is named by a tuple and holds a sequence of rules [when, do];   *)
(* protocols, masks and comments are left out, and two services never      *)
(* share an address.  (Definitions no action uses are faulty variants.)    *)
(***************************************************************************)
EXTENDS DiffStore, FiniteSets, Naturals, Sequences, SequencesExt

CONSTANTS Family,            \* [ip |-> IPv4 addresses, ip6 |-> IPv6 addresses]
          clusterCIDRs       \* whether the flag --cluster-cidrs is given

Tables == DOMAIN Family

VARIABLES chains,            \* per table: the diffstore, what the last round rendered
          kernelNft,         \* per table: the chains of the kernel
          fullResync,
          missed,            \* chains deleted in a round that applied nothing
          nftGroups          \* what the last Callback that was applied got

nftVars == <<chains, kernelNft, fullResync, missed, nftGroups>>

NoChains == [c \in {} |-> <<>>]

NftInit == /\ chains = [t \in Tables |-> NoChains]
           /\ kernelNft = [t \in Tables |-> NoChains]
           /\ fullResync = TRUE /\ missed = {} /\ nftGroups = <<>>

-----------------------------------------------------------------------------
(* Rendering.                                                              *)

Port(n) == <<"port", n>>
NodePortMatch(n) == <<"nodeport", n>>
Always == <<"always">>
Rule(when, do) == [when |-> when, do |-> do]

nftPortMapping(ep, p) ==
    IF p.named /\ p.name \in DOMAIN ep.over THEN ep.over[p.name] ELSE p.target

\* epIPs: the endpoints with an address of the family, by their first one.
epIPs(g, t) ==
    LET has(e) == e.value.ips \cap Family[t] # {}
    IN  [i \in 1..Len(SelectSeq(g.eps, has)) |->
            LET e == SelectSeq(g.eps, has)[i].value
            IN  [ip |-> CHOOSE x \in e.ips \cap Family[t] : TRUE, ep |-> e]]

epChainName(g, x) == <<"ep", g.svc, x.ip>>

SrcPorts(p) == SelectSeq(<<Port(p.port), NodePortMatch(p.node)>>, LAMBDA w : w[2] # 0)

\* addEndpointChain: the cluster ports first, then the node ports.
EndpointRules(g, x) ==
    LET ports == SelectSeq(g.value.ports, LAMBDA p : nftPortMapping(x.ep, p) # 0)
        dnat(w, p) == Rule(w, <<"dnat", x.ip, nftPortMapping(x.ep, p)>>)
        rules == [i \in 1..Len(ports) |-> dnat(Port(ports[i].port), ports[i])]
                 \o [i \in 1..Len(ports) |-> dnat(NodePortMatch(ports[i].node), ports[i])]
    IN  (IF g.value.affinity # 0 THEN <<Rule(Always, <<"update", epChainName(g, x)>>)>> ELSE <<>>)
        \o SelectSeq(rules, LAMBDA r : r.when[2] # 0)

\* Endpoints with one address share a chain, in which each writes.
EndpointChains(g, t) ==
    LET xs == epIPs(g, t)
        write(acc, x) == (epChainName(g, x) :>
             ((IF epChainName(g, x) \in DOMAIN acc THEN acc[epChainName(g, x)] ELSE <<>>)
              \o EndpointRules(g, x))) @@ acc
    IN  FoldLeft(write, NoChains, xs)

\* writeEndpointsVmap: one of the endpoint chains, at random.
Vmap(g, xs) == <<Rule(Always, <<"vmap", {epChainName(g, xs[i]) : i \in DOMAIN xs}>>)>>

Subset(xs, p) == SelectSeq(xs, LAMBDA x : nftPortMapping(x.ep, p) # 0)

VmapName(g, xs, p) == IF Len(Subset(xs, p)) # Len(xs) THEN <<"eps", g.svc, p.name>> ELSE <<"eps", g.svc>>

AffinityRules(g, xs) == IF g.value.affinity = 0 THEN <<>>
    ELSE [i \in DOMAIN xs |-> Rule(<<"recent", epChainName(g, xs[i])>>, <<"jump", epChainName(g, xs[i])>>)]

\* addSvcChain: a port that some endpoint has is dispatched, any other rejected.
DnatRules(g, t) ==
    LET xs == epIPs(g, t)
        rules(p) == IF Subset(xs, p) = <<>> THEN <<>>
                    ELSE [i \in DOMAIN SrcPorts(p) |-> Rule(SrcPorts(p)[i], <<"jump", VmapName(g, xs, p)>>)]
    IN  AffinityRules(g, xs) \o FlattenSeq([i \in DOMAIN g.value.ports |-> rules(g.value.ports[i])])

FilterRules(g, t) ==
    LET rules(p) == IF Subset(epIPs(g, t), p) # <<>> THEN <<>>
                    ELSE [i \in DOMAIN SrcPorts(p) |-> Rule(SrcPorts(p)[i], <<"reject">>)]
    IN  FlattenSeq([i \in DOMAIN g.value.ports |-> rules(g.value.ports[i])])

ServiceChains(g, t) ==
    LET xs == epIPs(g, t)
        partial == {p \in ToSet(g.value.ports) : Len(Subset(xs, p)) \notin {0, Len(xs)}}
    IN  EndpointChains(g, t)
        @@ (<<"svc", g.svc, "dnat">> :> DnatRules(g, t))
        @@ (<<"svc", g.svc, "filter">> :> FilterRules(g, t))
        @@ (IF xs = <<>> THEN NoChains ELSE <<"eps", g.svc>> :> Vmap(g, xs))
        @@ [c \in {<<"eps", g.svc, p.name>> : p \in partial} |->
               Vmap(g, Subset(xs, CHOOSE p \in partial : p.name = c[3]))]

Ips(g, t) == (g.value.cluster \cup g.value.ext) \cap Family[t]

\* The vmap of all service addresses, to the chains that hold rules.
Dispatch(gs, t, kind) ==
    LET targets(g) == LET rules == IF kind = "dnat" THEN DnatRules(g, t) ELSE FilterRules(g, t)
                      IN  IF rules = <<>> THEN {} ELSE {<<ip, <<"svc", g.svc, kind>>>> : ip \in Ips(g, t)}
        all == UNION {targets(gs[i]) : i \in DOMAIN gs}
    IN  IF all = {} THEN NoChains
        ELSE <<"dispatch", kind>> :> <<Rule(Always, <<"dispatch", all>>)>>

\* recordNodePort
NodePorts(gs, t, kind) ==
    LET of(g) == LET rules == SelectSeq(IF kind = "dnat" THEN DnatRules(g, t) ELSE FilterRules(g, t),
                                        LAMBDA r : r.when[1] = "nodeport")
                 IN  [i \in DOMAIN rules |-> Rule(rules[i].when, <<"jump", <<"svc", g.svc, kind>>>>)]
        all == FlattenSeq([i \in DOMAIN gs |-> of(gs[i])])
    IN  IF all = <<>> THEN NoChains ELSE <<"nodeports", kind>> :> all

\* addDispatchChains
DispatchAll(body, kind) ==
    (IF <<"dispatch", kind>> \in DOMAIN body THEN <<Rule(Always, <<"jump", <<"dispatch", kind>>>>)>> ELSE <<>>)
    \o (IF <<"nodeports", kind>> \in DOMAIN body THEN <<Rule(<<"local">>, <<"jump", <<"nodeports", kind>>>>)>> ELSE <<>>)

addDispatchChains(body) ==
    LET dnat == DispatchAll(body, "dnat")
    IN  (<<"all", "dnat">> :> dnat) @@ (<<"all", "filter">> :> DispatchAll(body, "filter"))
        @@ (<<"hook", "filter">> :> <<Rule(Always, <<"jump", <<"all", "filter">>>>)>>)
        @@ (IF dnat = <<>> THEN NoChains ELSE <<"hook", "dnat">> :> <<Rule(Always, <<"jump", <<"all", "dnat">>>>)>>)

addPostroutingChain(gs, t) ==
    LET locals == UNION {UNION {e.value.ips \cap Family[t] :
                           e \in {x \in ToSet(gs[i].eps) : x.value.local}} : i \in DOMAIN gs}
    IN  IF ~clusterCIDRs /\ locals = {} THEN NoChains
        ELSE <<"hook", "postrouting">> :> <<Rule(Always, <<"masquerade", clusterCIDRs, locals>>)>>

Render(all, t) ==
    LET gs == SelectSeq(all, LAMBDA g : g.value.type # "ExternalName")
        merge(acc, g) == ServiceChains(g, t) @@ acc
        body == FoldLeft(merge, NoChains, gs) @@ Dispatch(gs, t, "dnat") @@ Dispatch(gs, t, "filter")
                @@ NodePorts(gs, t, "dnat") @@ NodePorts(gs, t, "filter")
    IN  body @@ addDispatchChains(body) @@ addPostroutingChain(gs, t)
-----------------------------------------------------------------------------
(* Applying.                                                               *)

\* renderNftables, incremental: a new chain is appended to whatever has its name.
IncrementalNoFlush(old, prev, cur) ==
    [c \in Changed(prev, cur) |-> (IF c \in DOMAIN old THEN old[c] ELSE <<>>) \o cur[c]] @@ old

Incremental(old, prev, cur) ==
    LET flushed == Deleted(prev, cur) \cup (Changed(prev, cur) \ Created(prev, cur))
        base(c) == IF c \in DOMAIN old /\ c \notin flushed THEN old[c] ELSE <<>>
    IN  [c \in DOMAIN old \cup Changed(prev, cur) |->
            IF c \in Changed(prev, cur) THEN base(c) \o cur[c] ELSE base(c)]

NothingToApply(cur) == ~fullResync /\ \A t \in Tables : ~HasChanges(chains[t], cur[t])

NftApplies(cur, ok) ==
    \/ /\ ok /\ fullResync' = FALSE
       /\ kernelNft' = [t \in Tables |->
             IF fullResync THEN cur[t] ELSE Incremental(kernelNft[t], chains[t], cur[t])]
    \/ ~ok /\ fullResync' = TRUE /\ UNCHANGED kernelNft

\* The Reset of the tables is deferred: the stores move on whatever happened.
NftCallback(gs, ok) ==
    LET cur == [t \in Tables |-> Render(gs, t)]
    IN  /\ chains' = cur
        /\ \/ /\ NothingToApply(cur) /\ ok
              /\ missed' = missed \cup UNION {{<<t, c>> : c \in Deleted(chains[t], cur[t])} : t \in Tables}
              /\ nftGroups' = gs /\ UNCHANGED <<kernelNft, fullResync>>
           \/ /\ ~NothingToApply(cur) /\ NftApplies(cur, ok)
              /\ missed' = IF fullResync /\ ok THEN {} ELSE missed
              /\ nftGroups' = IF ok THEN gs ELSE nftGroups

\* The process starts over; the tables stay.
NftRestart == /\ chains' = [t \in Tables |-> NoChains] /\ fullResync' = TRUE
              /\ UNCHANGED <<kernelNft, missed, nftGroups>>
-----------------------------------------------------------------------------
(* What the kernel does with a packet (external): the set of fates of one  *)
(* that enters a chain; "return" when no rule decides.                     *)

MatchesNft(r, pk) ==
    \/ r.when[1] = "always"
    \/ r.when[1] = "port" /\ r.when[2] = pk.port
    \/ r.when[1] = "nodeport" /\ pk.local /\ r.when[2] = pk.port
    \/ r.when[1] = "local" /\ pk.local
    \/ r.when[1] = "recent" /\ pk.recent = r.when[2]

RECURSIVE FatesFrom(_, _, _, _)
FatesFrom(k, c, i, pk) ==
    IF c \notin DOMAIN k \/ i > Len(k[c]) THEN {<<"return">>}
    ELSE LET r == k[c][i]
             next == FatesFrom(k, c, i + 1, pk)
             via(S) == UNION {LET f == FatesFrom(k, x, 1, pk)
                              IN  IF <<"return">> \in f THEN (f \ {<<"return">>}) \cup next ELSE f : x \in S}
         IN  IF ~MatchesNft(r, pk) THEN next
             ELSE CASE r.do[1] = "jump" -> via({r.do[2]})
                    [] r.do[1] = "vmap" -> via(r.do[2])
                    [] r.do[1] = "dispatch" ->
                         LET hit == {x[2] : x \in {y \in r.do[2] : y[1] = pk.ip}}
                         IN  IF hit = {} THEN next ELSE via(hit)
                    [] r.do[1] \in {"update", "masquerade"} -> next
                    [] OTHER -> {r.do}

Fates(t, pk) ==
    LET k == kernelNft[t]
        dnat == FatesFrom(k, <<"hook", "dnat">>, 1, pk)
    IN  IF dnat # {<<"return">>} THEN dnat ELSE FatesFrom(k, <<"hook", "filter">>, 1, pk)

Targets(g, t, p) ==
    LET xs == Subset(epIPs(g, t), p)
    IN  IF xs = <<>> THEN {<<"reject">>}
        ELSE {<<"dnat", xs[i].ip, nftPortMapping(xs[i].ep, p)>> : i \in DOMAIN xs}

NoRecent == <<"none">>
Packet(ip, port, local) == [ip |-> ip, port |-> port, local |-> local, recent |-> NoRecent]

(***************************************************************************)
(* After every Callback that nft accepts, a connection to an address and   *)
(* port of a service, or to its node port, goes to exactly the endpoints   *)
(* that offer the port, and is rejected when there is none; a client that  *)
(* the affinity set remembers goes to its endpoint.  (As long as no chain  *)
(* missed its flush.)                                                      *)
(***************************************************************************)
NftDelivers ==
    missed = {} => \A i \in DOMAIN nftGroups : LET g == nftGroups[i] IN
      g.value.type # "ExternalName" => \A t \in Tables : \A p \in ToSet(g.value.ports) :
        /\ \A ip \in Ips(g, t) : Fates(t, Packet(ip, p.port, FALSE)) = Targets(g, t, p)
        /\ p.node # 0 => Fates(t, Packet(NoRecent, p.node, TRUE)) = Targets(g, t, p)
        /\ g.value.affinity # 0 => \A ip \in Ips(g, t) : \A x \in ToSet(Subset(epIPs(g, t), p)) :
             Fates(t, [Packet(ip, p.port, FALSE) EXCEPT !.recent = epChainName(g, x)])
               = {<<"dnat", x.ip, nftPortMapping(x.ep, p)>>}

=============================================================================
