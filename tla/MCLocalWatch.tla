----------------------------- MODULE MCLocalWatch -----------------------------
\* Two services, the first with an endpoint of a pod and, in Full, one without.
EXTENDS LocalWatch

CONSTANTS s1, s2, n1, a1, h1, h2

OneHash == {h1}
TwoHashes == {h1, h2}

TwoServices == {s1, s2}
NamedOnly == {n1}
NoAnonymous == {}
OneAnonymous == {a1}

FullKey == {s1, s2, n1, a1}
FullSvcOf == [p \in {n1, a1} |-> s1]
FullHashOf == [p \in {a1} |-> h1]

SmallKey == {s1, s2, n1}
SmallSvcOf == [p \in {n1} |-> s1]
SmallHashOf == [p \in {} |-> h1]

\* A run explores two worlds: one with a single service where the server restarts,
\* and one of both services, with values that change, where only connections break.
VARIABLE world

Single(c) == c.svcs[s1] # h2 /\ c.svcs[s2] = NoHash /\ \A i \in 1..NSources, p \in Anonymous : c.slices[i][p] = NoHash

WorldInit == Init /\ world \in {"breaks", "restarts"}
WorldNext == /\ Next
             /\ world = "breaks" => restarts' = 0 /\ content'.svcs[s2] # h2
             /\ world = "restarts" => Single(content')
             /\ UNCHANGED world

WorldSpec == /\ WorldInit /\ [][WorldNext]_<<vars, world>>
             /\ WF_vars(JobWait) /\ WF_vars(JobView)
             /\ WF_vars(Connect \/ Request \/ Lost \/ Recv \/ Purge)
=============================================================================
