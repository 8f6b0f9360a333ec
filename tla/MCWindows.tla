------------------------------- MODULE MCWindows -------------------------------
(***************************************************************************)
(* The two Windows backends, each by itself: the kernel proxier on an      *)
(* overlay network in three worlds, the user-space one in a world of its   *)
(* own.                                                                    *)
(***************************************************************************)
EXTENDS WinKernel, WinUserspace

CONSTANTS s1, s2, e1, e2, f1, c1, c2, x1, ip1, ip2, ip3, cl1

MCServiceOf == e1 :> s1 @@ e2 :> s1 @@ f1 :> s2
MCRemoteSubnets == <<[dest |-> {ip1}, provider |-> c2], [dest |-> {ip1, ip2}, provider |-> c1]>>
Works == [named |-> TRUE, foundAgain |-> TRUE, dsr |-> FALSE, dsrSupported |-> FALSE,
          subnetsSupported |-> TRUE, sourceVip |-> TRUE]

P80 == [name |-> "a", proto |-> "TCP", port |-> 80, node |-> 30, target |-> 8]
P53 == [name |-> "u", proto |-> "UDP", port |-> 53, node |-> 0, target |-> 0]

\* The kernel proxier's services have one address of its family or none.
Both == [cluster |-> c1, ext |-> <<x1>>, ports |-> <<P80, P53>>, preserve |-> TRUE]
Single == [Both EXCEPT !.ports = <<P53>>]
Headless == [Both EXCEPT !.cluster = None]
Other == [cluster |-> c2, ext |-> <<>>, ports |-> <<P53>>, preserve |-> FALSE]

\* The user-space proxier's have all of them.
Listening == [cluster |-> <<c1>>, ext |-> <<x1>>, ports |-> <<P80, P53>>, affinity |-> FALSE]
Sticky == [Listening EXCEPT !.ports = <<P80>>, !.affinity = TRUE]
Renamed == [Sticky EXCEPT !.ports = <<[P80 EXCEPT !.name = "b"]>>]
Nowhere == [Listening EXCEPT !.cluster = None]
Neighbour == [Listening EXCEPT !.cluster = <<c2>>, !.ports = <<P53>>]

MCSvcVals == s1 :> {Both, Single, Headless, Listening, Sticky, Renamed, Nowhere}
             @@ s2 :> {Other, Neighbour}
Remote(ip) == [ip |-> ip, local |-> FALSE]
MCEpVals == e1 :> {Remote(ip1), Remote(ip3)} @@ e2 :> {[ip |-> ip2, local |-> TRUE], Remote(ip3)}
            @@ f1 :> {Remote(ip1)}

\* What may be told, chosen at the start, how much of it, and how much goes wrong.
VARIABLES world, sent, faults
MaxSent == 4
MaxFaults == 1
World(part, svcs, eps, vals) == [part |-> part, svcs |-> svcs, eps |-> eps, vals |-> vals]
Worlds == {World("kernel", {Both}, {e1, e2}, {Remote(ip1), [ip |-> ip2, local |-> TRUE]}),
           World("kernel", {Single, Headless}, {e1}, {Remote(ip1), Remote(ip3)}),
           World("kernel", {Single, Other}, {e1, f1}, {Remote(ip1)}),
           World("user", {Listening, Sticky, Renamed, Nowhere, Neighbour}, {e1, e2},
                 {Remote(ip1), Remote(ip3)})}

Init == /\ world \in Worlds /\ sent = 0 /\ faults = 0
        /\ FeedInit /\ WinUserInit
        /\ \E up \in SUBSET {ip2} : WinInit(up, world.part = "kernel") /\ (world.part = "user" => up = {})

SetsService(s, v) == v \in SvcVals[s] \cap world.svcs
SetsEndpoint(e, v) == e \in world.eps /\ v \in EpVals[e] \cap world.vals

KernelTold == \/ \E s \in Services : \E v \in SvcVals[s] : SetsService(s, v) /\ WinSetService(s, v)
              \/ \E e \in Endpoints : \E v \in EpVals[e] : SetsEndpoint(e, v) /\ WinSetEndpoint(e, v)
              \/ \E s \in Services : WinDeleteService(s)
              \/ \E e \in Endpoints : WinDeleteEndpoint(e)
KernelSyncs == WinMergeServices \/ WinMergeEndpoints \/ WinProgram("none")
KernelFails == \/ \E f \in {"query", "createEndpoint", "createLb", "network", x1} :
                     WinProgram(f) /\ UNCHANGED feedVars
               \/ \E ok \in BOOLEAN : WinSyncWithoutNetwork(ok) /\ UNCHANGED feedVars
               \/ WinLocalEndpoint(ip2) /\ UNCHANGED feedVars
               \/ \E cfg \in {Works, [Works EXCEPT !.named = FALSE], [Works EXCEPT !.sourceVip = FALSE]} :
                     WinRestart(cfg)
KernelNext == /\ world.part = "kernel" /\ UNCHANGED <<winUserVars, world>>
              /\ \/ KernelTold /\ sent < MaxSent /\ sent' = sent + 1 /\ UNCHANGED faults
                 \/ (WinPurge \/ WinSync) /\ UNCHANGED <<sent, faults>>
                 \/ KernelSyncs /\ UNCHANGED <<feedVars, sent, faults>>
                 \/ KernelFails /\ faults < MaxFaults /\ faults' = faults + 1 /\ UNCHANGED sent

UserServices(f) == \/ \E s \in Services : \E v \in SvcVals[s] : SetsService(s, v) /\ WinUserSetService(s, v, f)
                   \/ \E s \in Services : WinUserDeleteService(s, f)
UserEndpoints == \/ \E e \in Endpoints : \E v \in EpVals[e] : SetsEndpoint(e, v) /\ WinUserSetEndpoint(e, v)
                 \/ \E e \in Endpoints : WinUserDeleteEndpoint(e)
UserServes == \/ \E k \in DOMAIN portals, n \in 0..1 : tryConnect(k, cl1, n)
              \/ \E sp \in DOMAIN lb : SessionExpires(sp, cl1)
UserNext == /\ world.part = "user" /\ UNCHANGED <<winVars, world>>
            /\ \/ /\ UserServices("none") \/ UserEndpoints
                  /\ sent < MaxSent /\ sent' = sent + 1 /\ UNCHANGED faults
               \/ /\ \E f \in {"open", "close", "address"} : UserServices(f)
                  /\ faults < MaxFaults /\ faults' = faults + 1
                  /\ sent < MaxSent /\ sent' = sent + 1
               \/ WinUserSync /\ UNCHANGED <<sent, faults>>
               \/ UserServes /\ UNCHANGED <<feedVars, sent, faults>>

Next == KernelNext \/ UserNext
Spec == Init /\ [][Next]_<<feedVars, winVars, winUserVars, world, sent, faults>>
=============================================================================
