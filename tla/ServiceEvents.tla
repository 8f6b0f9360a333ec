----------------------------- MODULE ServiceEvents -----------------------------
(***************************************************************************)
(* client/serviceevents: what the listener in front of a backend makes of  *)
(* a service that was set or deleted, the sequence of finer events (ports, *)
(* addresses, address and port pairs, traffic policies, session affinity)  *)
(* by which it differs from the service as it was.  A service is a record  *)
(* [ips, ports, internal, local, affinity, ...]; ips maps each kind to a   *)
(* sequence of addresses.                                                  *)
(***************************************************************************)
EXTENDS Naturals, Sequences, SequencesExt

IPKinds == <<"ClusterIP", "ExternalIP", "LoadBalancerIP">>

\* What a nil service counts as.
NoService == [ips |-> [k \in ToSet(IPKinds) |-> <<>>], ports |-> <<>>,
              internal |-> FALSE, local |-> FALSE, affinity |-> FALSE]

Event(op, kind, what) == [op |-> op, kind |-> kind, what |-> what]
NotIn(xs, ys) == SelectSeq(xs, LAMBDA x : x \notin ToSet(ys))
Tag(op, kind, xs) == [n \in DOMAIN xs |-> Event(op, kind, xs[n])]

\* Diff.SlicesLen: what is gone, then what is new, each in its own order.
SlicesLen(add, del, kind, prev, curr) ==
    Tag(del, kind, NotIn(prev, curr)) \o Tag(add, kind, NotIn(curr, prev))

\* combine: every address with every port.
combine(v, kind) ==
    FlattenSeq([n \in DOMAIN v.ips[kind] |->
                   [k \in DOMAIN v.ports |-> <<v.ips[kind][n], v.ports[k]>>]])

PolicyEvents(kind, before, now) ==
    (IF ~before /\ now THEN <<Event("EnableTrafficPolicy", kind, <<>>)>> ELSE <<>>)
    \o (IF before /\ ~now THEN <<Event("DisableTrafficPolicy", kind, <<>>)>> ELSE <<>>)

AffinityEvents(before, now) ==
    (IF ~before /\ now THEN <<Event("EnableSessionAffinity", "", <<>>)>> ELSE <<>>)
    \o (IF before /\ ~now THEN <<Event("DisableSessionAffinity", "", <<>>)>> ELSE <<>>)

ForKinds(f) == f[1] \o f[2] \o f[3]

\* An address is removed only after everything else, whatever its kind.
diff(prev, curr) ==
    SlicesLen("AddPort", "DeletePort", "", prev.ports, curr.ports)
    \o ForKinds([n \in 1..3 |-> Tag("AddIP", IPKinds[n],
                                    NotIn(curr.ips[IPKinds[n]], prev.ips[IPKinds[n]]))])
    \o ForKinds([n \in 1..3 |-> SlicesLen("AddIPPort", "DeleteIPPort", IPKinds[n],
                                    combine(prev, IPKinds[n]), combine(curr, IPKinds[n]))])
    \o PolicyEvents("TrafficPolicyInternal", prev.internal, curr.internal)
    \o PolicyEvents("TrafficPolicyExternal", prev.local, curr.local)
    \o AffinityEvents(prev.affinity, curr.affinity)
    \o ForKinds([n \in 1..3 |-> Tag("DeleteIP", IPKinds[n],
                                    NotIn(prev.ips[IPKinds[n]], curr.ips[IPKinds[n]]))])
=============================================================================
