------------------------------ MODULE MCIpvsSink ------------------------------
(***************************************************************************)
(* The event-driven IPVS backend on two services, in one of four worlds:   *)
(* ports and affinity of a ClusterIP service that come and go, ports whose *)
(* digits begin each other's, a service that changes its type and policy,  *)
(* and two services that share an external address.                        *)
(***************************************************************************)
EXTENDS IpvsSink

CONSTANTS s1, s2, e1, e2, f1, c1, c2, x1, l1, l2, n1, n2, ip1, ip2, ip3

MCServiceOf == e1 :> s1 @@ e2 :> s1 @@ f1 :> s2
MCNodeIPs == <<n1, n2>>
MCPortPrefix == {<<80, 8080>>}

IPs(c, x, l) == "ClusterIP" :> c @@ "ExternalIP" :> x @@ "LoadBalancerIP" :> l
P80 == [name |-> "a", proto |-> "TCP", port |-> 80, node |-> 0, target |-> 8]
P8080 == [P80 EXCEPT !.name = "b", !.port = 8080]
P53 == [name |-> "u", proto |-> "UDP", port |-> 53, node |-> 0, target |-> 0]
N80 == [P80 EXCEPT !.node = 30]
N53 == [P53 EXCEPT !.node = 32]
Plain == [type |-> "ClusterIP", ips |-> IPs(<<c1>>, <<>>, <<>>), ports |-> <<P80, P53>>,
          internal |-> FALSE, local |-> FALSE, affinity |-> FALSE, ranges |-> 0]
Sticky == [Plain EXCEPT !.affinity = TRUE, !.ips = IPs(<<c1>>, <<x1>>, <<>>), !.ports = <<P80>>]
Swapped == [Plain EXCEPT !.ports = <<P53>>]
Digits == [Plain EXCEPT !.ports = <<P80, P8080>>]
Long == [Plain EXCEPT !.ports = <<P8080>>]
OnNodes == [Plain EXCEPT !.type = "NodePort", !.ports = <<N80, N53>>]
Balanced == [OnNodes EXCEPT !.type = "LoadBalancer", !.ips = IPs(<<c1>>, <<>>, <<l1>>),
                            !.local = TRUE, !.ranges = 2]
Anywhere == [Balanced EXCEPT !.local = FALSE, !.ranges = 0]
Twice == [Balanced EXCEPT !.ips = IPs(<<c1>>, <<x1>>, <<l1, l2>>), !.ports = <<N80>>]
Other == [Plain EXCEPT !.ips = IPs(<<c2>>, <<x1>>, <<>>), !.ports = <<P53>>]
NodesToo == [Other EXCEPT !.type = "NodePort", !.ports = <<N53>>]
Headless == [Plain EXCEPT !.ips = IPs(<<>>, <<>>, <<>>)]

MCSvcVals == s1 :> {Plain, Sticky, Swapped, Digits, Long, OnNodes, Balanced, Anywhere, Twice, Headless}
             @@ s2 :> {Other, NodesToo}
Ep(ip, local) == [ip |-> ip, local |-> local, over |-> "u" :> 9]
MCEpVals == e1 :> {Ep(ip1, TRUE), Ep(ip3, TRUE)} @@ e2 :> {Ep(ip2, FALSE)} @@ f1 :> {Ep(ip3, TRUE)}

\* What a behaviour may be told, chosen at the start, how much of it, and
\* how many syncs and restarts go wrong.
VARIABLES world, sent, faults
MaxSent == 4
MaxFaults == 1
Worlds == {[svcs |-> {Plain, Sticky, Swapped}, eps |-> {e1, e2}, ips |-> {ip1, ip2}],
           [svcs |-> {Digits, Long, Headless}, eps |-> {e1}, ips |-> {ip1, ip3}],
           [svcs |-> {OnNodes, Balanced, Anywhere, Twice}, eps |-> {e1}, ips |-> {ip1}],
           [svcs |-> {Sticky, Other, NodesToo}, eps |-> {e1, f1}, ips |-> {ip1, ip3}]}

Tell == \/ \E s \in Services : \E v \in SvcVals[s] \cap world.svcs : IpvsSinkSetService(s, v)
        \/ \E e \in Endpoints \cap world.eps :
              \E v \in {w \in EpVals[e] : w.ip \in world.ips} : IpvsSinkSetEndpoint(e, v)

Init == FeedInit /\ IpvsSinkInit /\ world \in Worlds /\ sent = 0 /\ faults = 0
Fault == \/ \E n \in {0, 3, AllEnsured}, ok \in BOOLEAN : (n < AllEnsured \/ ~ok) /\ IpvsSinkSync(n, ok)
         \/ \E fails \in {{"conn_reuse_mode"}, {"ip_forward"}, {"kube-ipvs0"}} :
               IpvsSinkRestart([reuse |-> FALSE, fails |-> fails])
Next == /\ UNCHANGED world
        /\ \/ Tell /\ sent < MaxSent /\ sent' = sent + 1 /\ UNCHANGED faults
           \/ /\ \/ \E s \in Services : IpvsSinkDeleteService(s)
                 \/ \E e \in Endpoints : IpvsSinkDeleteEndpoint(e)
                 \/ IpvsSinkPurge
                 \/ IpvsSinkSync(AllEnsured, TRUE)
              /\ UNCHANGED <<sent, faults>>
           \/ Fault /\ faults < MaxFaults /\ faults' = faults + 1 /\ UNCHANGED sent
Spec == Init /\ [][Next]_<<feedVars, ipvsSinkVars, world, sent, faults>>
=============================================================================
