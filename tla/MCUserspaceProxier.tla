-------------------------- MODULE MCUserspaceProxier --------------------------
EXTENDS UserspaceProxier

CONSTANTS s1, s2, e1, e2, x, c1, q1, q2, q3, q4

MCServices == {s1, s2}
MCEndpoints == {e1, e2}
MCServiceOf == e1 :> s1 @@ e2 :> s1

Svc(skip, ports, ext, affinity) ==
    [skip |-> skip, ports |-> ports, ext |-> ext, lbs |-> <<>>, affinity |-> affinity]
Ports(n) == n :> [port |-> 1, node |-> 0]
MCSvcVals == s1 :> {Svc(FALSE, Ports("a"), <<>>, TRUE), Svc(FALSE, Ports("b"), <<x>>, FALSE)}
          @@ s2 :> {Svc(FALSE, Ports("a"), <<x>>, FALSE)}
MCEpVals == e1 :> {<<[name |-> "a", port |-> 1]>>} @@ e2 :> {<<[name |-> "a", port |-> 1]>>,
                   <<[name |-> "b", port |-> 2], [name |-> "a", port |-> 1]>>}
\* Connections are explored while nothing has failed and there is one service
\* port only, and so is a second endpoint.
ConnectionsAlone == \/ /\ \A c \in Clients : dial[c] = None
                       /\ \A sp \in DOMAIN lb : lb[sp].sessions = <<>>
                    \/ /\ clean /\ s2 \notin DOMAIN services
                       /\ \A sp \in DOMAIN serviceMap : sp = <<s1, "a">>
EndpointsAlone == e1 \in KnownEps => /\ s2 \notin DOMAIN services /\ clean
                                     /\ \A sp \in DOMAIN serviceMap : sp = <<s1, "a">>
PortSymmetry == Permutations({q1, q2, q3, q4})
=============================================================================
