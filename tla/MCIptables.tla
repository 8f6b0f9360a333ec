----------------------------- MODULE MCIptables -----------------------------
(***************************************************************************)
(* The iptables backend on two services: one with two endpoints that is    *)
(* exposed in turn as a Cluster service on an external IP of the node and  *)
(* a node port, as a Local load balancer with a source range, and with a   *)
(* named target port; one that may claim the same external IP.             *)
(***************************************************************************)
EXTENDS Iptables, TLC

CONSTANTS s1, s2, e1, e2, f1, c1, c2, x1, l1, l2, ip1, ip2, ip3, r1

MCServiceOf == e1 :> s1 @@ e2 :> s1 @@ f1 :> s2
Plain == [cluster |-> c1, ports |-> "a" :> [port |-> 80, node |-> 0, target |-> 8, named |-> FALSE],
          ext |-> {}, lbs |-> {}, local |-> FALSE, affinity |-> FALSE, ranges |-> {}]
Exposed == [Plain EXCEPT !.ext = {x1}, !.ports = "a" :> [port |-> 80, node |-> 30, target |-> 8, named |-> FALSE]]
LocalOnly == [Exposed EXCEPT !.ext = {}, !.lbs = {l1}, !.local = TRUE, !.affinity = TRUE, !.ranges = {r1}]
Named == [Plain EXCEPT !.ports = "" :> [port |-> 80, node |-> 0, target |-> 0, named |-> TRUE]]
Headless == [Plain EXCEPT !.cluster = None]
Other == [Plain EXCEPT !.cluster = c2, !.ext = {x1}, !.lbs = {l1, l2}, !.ranges = {r1}]

MCSvcVals == s1 :> {Exposed, LocalOnly, Named, Headless} @@ s2 :> {Other}
Ready(ip, local) == [ip |-> ip, local |-> local, over |-> "" :> 9]
MCEpVals == e1 :> {Ready(ip1, TRUE), Ready(None, TRUE)} @@ e2 :> {Ready(ip2, FALSE)}
                @@ f1 :> {Ready(ip3, TRUE)}
MCSources == {{}, {r1}, {ip1}, {SrcNode}, {SrcNode, Loopback}}

\* What a behaviour may be told: one of three worlds, chosen at the start; and
\* how many of its syncs and restarts go wrong.
VARIABLES world, faults
MaxFaults == 1
Worlds == {[svcs |-> {Exposed, Other}, eps |-> {e1, f1}, ips |-> {ip1, ip3, None}],
           [svcs |-> {Exposed, LocalOnly}, eps |-> {e1, e2}, ips |-> {ip1, ip2}],
           [svcs |-> {Named, Headless, LocalOnly}, eps |-> {e1}, ips |-> {ip1}]}
InWorld == /\ \A s \in KnownSvcs : toldSvc[s] \in world.svcs
           /\ \A e \in KnownEps : e \in world.eps /\ toldEp[e].ip \in world.ips

Init == FeedInit /\ IptInit /\ world \in Worlds /\ faults = 0
Fault == \/ \E save \in BOOLEAN, restore \in {"none", "filter"} : IptSyncs(save, restore)
         \/ IptSyncs(FALSE, "ok")
         \/ IptRestart
Next == /\ UNCHANGED world
        /\ \/ (IptCallback \/ IptSyncs(TRUE, "ok") \/ IptSyncPanics) /\ UNCHANGED faults
           \/ Fault /\ faults < MaxFaults /\ faults' = faults + 1
        /\ InWorld'
Spec == Init /\ [][Next]_<<feedVars, iptVars, world, faults>>
=============================================================================
