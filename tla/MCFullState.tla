----------------------------- MODULE MCFullState -----------------------------
(***************************************************************************)
(* The fullstate sink in front of one of its three backends: each Sync is  *)
(* a Callback with the groups the sink walked.  A behaviour is that of one *)
(* world: a backend and what it may be told.  The paths are those of the   *)
(* services "a" and "a-b", whose order only kv.Less gets right.            *)
(***************************************************************************)
EXTENDS FullState, Nft, IpvsFullState, Ebpf

CONSTANTS c1, c2, x1, l1, n1, ip1, ip2, six, r1

VARIABLES world, faults,
          sent                     \* calls since the last Sync
CONSTANTS Worlds, MaxSent
allVars == <<stateVars, nftVars, ipvsVars, ebpfVars, world, faults, sent>>

\* '-' < '/' < letters
a == <<6>>
ab == <<6, 4, 7>>
ax == <<6, 5, 8>>
ay == <<6, 5, 9>>
abx == <<6, 4, 7, 5, 8>>

MCServices == {a, ab}
MCEndpoints == {ax, ay, abx}
MCServiceOf == ax :> a @@ ay :> a @@ abx :> ab
MCFamily == [ip |-> {c1, c2, x1, ip1, ip2}, ip6 |-> {six}]

P(proto, port, node) == [name |-> "a", proto |-> proto, port |-> port, node |-> node, target |-> 8, named |-> FALSE]
Web == P("TCP", 80, 0)
NodeWeb == P("TCP", 80, 30)
NamedWeb == [name |-> "b", proto |-> "TCP", port |-> 81, node |-> 0, target |-> 0, named |-> TRUE]
Plain == [type |-> "ClusterIP", cluster |-> {c1}, ext |-> {}, lbs |-> {}, ports |-> <<Web>>,
          local |-> FALSE, affinity |-> 0, ranges |-> {}]
Other == [Plain EXCEPT !.cluster = {c2}, !.ext = {x1}]
Headless == [Plain EXCEPT !.cluster = {}]
Exposed == [Plain EXCEPT !.type = "NodePort", !.cluster = {c1, six}, !.ports = <<NodeWeb>>, !.affinity = 1]
TwoPorts == [Plain EXCEPT !.ports = <<Web, NamedWeb>>]
Balanced == [Exposed EXCEPT !.type = "LoadBalancer", !.lbs = {l1}]
BalancedLocal == [Balanced EXCEPT !.local = TRUE]
Ranged == [Balanced EXCEPT !.ranges = {r1}]
OtherLocal == [Other EXCEPT !.local = TRUE]
Alias == [Plain EXCEPT !.type = "ExternalName", !.cluster = {}]

\* The ebpf backend adds addresses and ports up.
Num(ip, port) == [Plain EXCEPT !.cluster = {ip}, !.ports = <<P("TCP", port, 0)>>]
NumTwice == [Num(1, 80) EXCEPT !.ports = <<P("TCP", 80, 0), P("UDP", 80, 0)>>]
NumRetargeted == [Num(1, 80) EXCEPT !.ports[1].target = 9]

Ep(ips, local) == [ips |-> ips, local |-> local, over |-> "b" :> 9]
EpNoB(ips) == [ips |-> ips, local |-> FALSE, over |-> [x \in {} |-> 0]]

MCSvcVals == a :> {Plain, Exposed, TwoPorts, Headless, Balanced, BalancedLocal, Ranged, Alias,
                   Num(1, 80), Num(3, 80), NumTwice, NumRetargeted}
             @@ ab :> {Other, OtherLocal, Num(2, 80), Num(2, 81)}
MCEpVals == ax :> {Ep({ip1, six}, TRUE), Ep({ip1}, FALSE), Ep({10}, FALSE), Ep({11}, FALSE)}
            @@ ay :> {EpNoB({ip2}), Ep({11}, FALSE)}
            @@ abx :> {Ep({ip2}, FALSE), Ep({10}, FALSE)}

World(part, svcs, eps, max) == [part |-> part, svcs |-> svcs, eps |-> eps, max |-> max]
PassWorlds ==
    {World("nft", {Exposed, Other}, {Ep({ip1, six}, TRUE), Ep({ip2}, FALSE)}, 1),
     World("nft", {Exposed, Headless}, {Ep({ip1, six}, TRUE)}, 1),
     World("nft", {TwoPorts, Alias}, {Ep({ip1}, FALSE), EpNoB({ip2})}, 2),
     World("ipvs", {Balanced, BalancedLocal}, {Ep({ip1, six}, TRUE), EpNoB({ip2})}, 1),
     World("ipvs", {Ranged, Other}, {Ep({ip1, six}, TRUE)}, 2),
     World("ipvs", {Plain, TwoPorts, OtherLocal}, {Ep({ip1}, FALSE), Ep({ip2}, FALSE)}, 1),
     World("ebpf", {Num(1, 80), Num(2, 80)}, {Ep({10}, FALSE)}, 1),
     World("ebpf", {Num(1, 80), Num(3, 80)}, {Ep({10}, FALSE), Ep({11}, FALSE)}, 0),
     World("ebpf", {Num(1, 80), NumRetargeted}, {Ep({10}, FALSE)}, 1),
     World("ebpf", {NumTwice, Headless, Num(2, 81)}, {Ep({10}, FALSE)}, 1)}

InWorld == /\ \A s \in KnownSvcs : toldSvc[s] \in world.svcs
           /\ \A e \in KnownEps : toldEp[e] \in world.eps

Init == StateInit /\ NftInit /\ IpvsInit /\ EbpfInit /\ world \in Worlds /\ faults = 0 /\ sent = 0

Others(part) == /\ part # "nft" => UNCHANGED nftVars
                /\ part # "ipvs" => UNCHANGED ipvsVars
                /\ part # "ebpf" => UNCHANGED ebpfVars

\* A chain that missed its flush would grow for ever: nothing is sent after that.
Feed == /\ ebpfCrash = "no" /\ missed = {} /\ sent < MaxSent /\ sent' = sent + 1
        /\ UNCHANGED <<nftVars, ipvsVars, ebpfVars, faults>>
        /\ \/ \E s \in Services : \E v \in SvcVals[s] \cap world.svcs : SendSet(s, v)
           \/ \E e \in Endpoints : \E v \in EpVals[e] \cap world.eps : SendSet(e, v)
           \/ \E p \in Services \cup Endpoints : SendDelete(p)

Callback == /\ SendSync /\ Others(world.part) /\ UNCHANGED faults
            /\ \/ world.part = "nft" /\ NftCallback(groups', TRUE)
               \/ world.part = "ipvs" /\ IpvsCallback(groups', {}, {})
               \/ world.part = "ebpf" /\ EbpfCallback(groups')

\* nft refuses a transaction, or the kernel one server or one destination.
CallbackFails ==
    /\ SendSync /\ Others(world.part)
    /\ \/ world.part = "nft" /\ NftCallback(groups', FALSE)
       \/ world.part = "ipvs" /\ \/ \E k \in ServerOps(groups') : IpvsCallback(groups', {k}, {})
                                 \/ \E d \in DestOps(groups') : IpvsCallback(groups', {}, {d})

Restart == /\ Reset /\ Others(world.part)
           /\ \/ world.part = "nft" /\ NftRestart
              \/ world.part = "ipvs" /\ IpvsRestart
              \/ world.part = "ebpf" /\ EbpfRestart

\* The connection to the server is lost and made again.
Reconnect == ebpfCrash = "no" /\ Reset /\ UNCHANGED <<nftVars, ipvsVars, ebpfVars>>

Next == /\ UNCHANGED world
        /\ \/ Feed
           \/ Callback /\ sent' = 0
           \/ /\ faults < world.max /\ faults' = faults + 1 /\ sent' = 0
              /\ CallbackFails \/ Restart \/ Reconnect

Spec == Init /\ [][Next]_allVars
=============================================================================
