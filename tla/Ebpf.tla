---------------------------------- MODULE Ebpf ----------------------------------
(***************************************************************************)
(* backends/ebpf: a Callback puts every port of every ClusterIP service    *)
(* in a lightdiffstore and, when the store reports a change, writes two    *)
(* BPF maps: from address, port and slot to a backend id (slot 0 holds the *)
(* number of slots), and from backend ids to addresses.  The hash of an    *)
(* item is that of the JSON of the service port and the endpoints; the     *)
(* fields of the service are unexported, so that it covers the endpoints   *)
(* only.  A failed map operation is fatal; the maps go with the process.   *)
(*                                                                         *)
(* Addresses and ports are numbers: an id is their sum.  (Definitions no   *)
(* action uses are faulty variants.)                                       *)
(***************************************************************************)
EXTENDS FiniteSets, Naturals, Sequences, SequencesExt, TLC

CONSTANT EbpfV4              \* the IPv4 addresses

VARIABLES svcMap,            \* service port keys to [hash, value, state]
          V4SvcMap,          \* <<address, port, slot>> to a count or an id
          V4BackendMap,      \* ids to <<address, port>>
          ebpfCrash,         \* how the process ended: "no", "panic" or "fatal"
          written,           \* the service info that the maps have, for each key
          clashed,           \* map keys that two entries of the store had at once
          ebpfGroups         \* what the last Callback got

ebpfVars == <<svcMap, V4SvcMap, V4BackendMap, ebpfCrash, written, clashed, ebpfGroups>>

NoEntries == [k \in {} |-> 0]

EbpfEmpty == /\ svcMap = NoEntries /\ V4SvcMap = NoEntries /\ V4BackendMap = NoEntries
             /\ written = NoEntries /\ clashed = {}

EbpfInit == EbpfEmpty /\ ebpfCrash = "no" /\ ebpfGroups = <<>>

\* newBaseServiceInfo; a service without an IPv4 cluster IP has a nil one (0).
newBaseServiceInfo(svc, p) ==
    [clusterIP |-> IF svc.cluster \cap EbpfV4 = {} THEN 0 ELSE CHOOSE x \in svc.cluster \cap EbpfV4 : TRUE,
     port |-> p.port, targetPort |-> p.target]

\* What the Callback sets: key to the service's info and its endpoints.
SvcPorts(gs) ==
    LET clusterIP == SelectSeq(gs, LAMBDA g : g.value.type = "ClusterIP")
        add(acc, g) == [k \in {<<g.svc, p.port, p.proto>> : p \in ToSet(g.value.ports)} |->
              LET p == CHOOSE x \in ToSet(g.value.ports) : x.port = k[2] /\ x.proto = k[3]
              IN  [svc |-> newBaseServiceInfo(g.value, p),
                   eps |-> [i \in DOMAIN g.eps |-> g.eps[i].value]]] @@ acc
    IN  FoldLeft(add, NoEntries, clusterIP)

\* Reset(ItemDeleted) followed by the Sets.
ResetSetNoHash(gs) ==
    LET want == SvcPorts(gs) IN
    [k \in DOMAIN want |-> [hash |-> want[k].eps, value |-> want[k],
        state |-> IF k \in DOMAIN svcMap THEN "Unchanged" ELSE "Changed"]]
    @@ [k \in {x \in DOMAIN svcMap : svcMap[x].state # "Deleted"} |->
           [svcMap[k] EXCEPT !.state = "Deleted"]]

ResetSet(gs) ==
    LET kept == {k \in DOMAIN svcMap : svcMap[k].state # "Deleted"}
        want == SvcPorts(gs)
        set(k) == [hash |-> want[k].eps, value |-> want[k],
                   state |-> IF k \in kept /\ svcMap[k].hash = want[k].eps THEN "Unchanged" ELSE "Changed"]
    IN  [k \in DOMAIN want \cup kept |->
            IF k \in DOMAIN want THEN set(k) ELSE [svcMap[k] EXCEPT !.state = "Deleted"]]

UpdatedPorts(m) == {k \in DOMAIN m : m[k].state = "Changed"}
DeletedPorts(m) == {k \in DOMAIN m : m[k].state = "Deleted"}

-----------------------------------------------------------------------------
(* makeEbpfMaps                                                            *)

addresses(v) == FlattenSeq([i \in DOMAIN v.eps |-> SetToSeq(v.eps[i].ips \cap EbpfV4)])

BackendID(a, v) == a + v.svc.port

Slots(v) == [i \in 0..Len(addresses(v)) |-> <<v.svc.clusterIP, v.svc.port, i>>]

SvcEntries(v) ==
    [k \in {Slots(v)[i] : i \in DOMAIN Slots(v)} |->
        IF k[3] = 0 THEN Len(addresses(v)) ELSE BackendID(addresses(v)[k[3]], v)]

BackendKeys(v) == [i \in DOMAIN addresses(v) |-> BackendID(addresses(v)[i], v)]

BackendEntries(v) ==
    [id \in ToSet(BackendKeys(v)) |->
        <<addresses(v)[CHOOSE i \in DOMAIN addresses(v) : BackendKeys(v)[i] = id], v.svc.targetPort>>]

\* The map keys of service ports K that Sync deletes; an id may occur twice.
DeletedSvcKeys(m, K) == UNION {DOMAIN SvcEntries(m[k].value) : k \in K}
DeletedIds(m, K) == UNION {ToSet(BackendKeys(m[k].value)) : k \in K}

Panics(m) == \E k \in UpdatedPorts(m) \cup DeletedPorts(m) : m[k].value.svc.clusterIP = 0

\* BatchDelete fails on a key that the map does not hold, or not any more.
DeleteFails(m) ==
    LET K == DeletedPorts(m) IN
    \/ \E k \in K : \/ \E x \in DOMAIN SvcEntries(m[k].value) : x \notin DOMAIN V4SvcMap
                    \/ \E id \in ToSet(BackendKeys(m[k].value)) : id \notin DOMAIN V4BackendMap
                    \/ Len(BackendKeys(m[k].value)) # Cardinality(ToSet(BackendKeys(m[k].value)))
    \/ \E k, l \in K : k # l /\ (ToSet(BackendKeys(m[k].value)) \cap ToSet(BackendKeys(m[l].value)) # {}
                                 \/ DOMAIN SvcEntries(m[k].value) \cap DOMAIN SvcEntries(m[l].value) # {})

SvcUpdates(m) == LET add(k, acc) == SvcEntries(m[k].value) @@ acc
                 IN  FoldSet(add, NoEntries, UpdatedPorts(m))
BackendUpdates(m) == LET add(k, acc) == BackendEntries(m[k].value) @@ acc
                     IN  FoldSet(add, NoEntries, UpdatedPorts(m))

Written(old, gone, new) == new @@ [k \in DOMAIN old \ gone |-> old[k]]

\* The map keys of a service port; two of a store's are one only by accident.
Held(m) == UNION {{<<k, i>> : i \in 0..Len(BackendKeys(m[k].value))} : k \in DOMAIN m \ DeletedPorts(m)}
KeyOf(m, h) == LET v == m[h[1]].value
               IN  IF h[2] = 0 THEN <<"svc", v.svc.clusterIP, v.svc.port>> ELSE <<"id", BackendKeys(v)[h[2]]>>
Clashes(m) == {KeyOf(m, h) : h \in {x \in Held(m) : \E y \in Held(m) \ {x} : KeyOf(m, x) = KeyOf(m, y)}}

(***************************************************************************)
(* Callback and, when the store reports a change, Sync: deletions first.   *)
(***************************************************************************)
EbpfCallback(gs) ==
    LET m == ResetSet(gs)
        gone == DeletedPorts(m)
    IN  /\ ebpfCrash = "no" /\ ebpfGroups' = gs /\ clashed' = clashed \cup Clashes(m)
        /\ ebpfCrash' = IF DeleteFails(m) THEN "fatal" ELSE IF Panics(m) THEN "panic" ELSE "no"
        /\ IF ebpfCrash' # "no" THEN UNCHANGED <<svcMap, V4SvcMap, V4BackendMap, written>>
           ELSE /\ svcMap' = m
                /\ V4SvcMap' = Written(V4SvcMap, DeletedSvcKeys(m, gone), SvcUpdates(m))
                /\ V4BackendMap' = Written(V4BackendMap, DeletedIds(m, gone), BackendUpdates(m))
                /\ written' = Written(written, gone, [k \in UpdatedPorts(m) |-> m[k].value.svc])

\* The next process: new maps, and a stream that starts over.
EbpfRestart == /\ svcMap' = NoEntries /\ V4SvcMap' = NoEntries /\ V4BackendMap' = NoEntries
               /\ written' = NoEntries /\ clashed' = {} /\ ebpfCrash' = "no" /\ ebpfGroups' = <<>>
-----------------------------------------------------------------------------
(***************************************************************************)
(* __sock4_fwd: the backends a connection may be sent to; <<>> is none.    *)
(* The remainder of a division by 0 is the dividend: with a count of 0     *)
(* every slot is possible.                                                 *)
(***************************************************************************)
SockFwd(ip, port) ==
    LET count == V4SvcMap[<<ip, port, 0>>]
        slots == IF count # 0 THEN 1..count
                 ELSE {k[3] : k \in {x \in DOMAIN V4SvcMap : x[1] = ip /\ x[2] = port /\ x[3] # 0}}
        backend(i) == IF <<ip, port, i>> \notin DOMAIN V4SvcMap THEN <<>>
                      ELSE IF V4SvcMap[<<ip, port, i>>] \notin DOMAIN V4BackendMap THEN <<>>
                      ELSE V4BackendMap[V4SvcMap[<<ip, port, i>>]]
    IN  IF <<ip, port, 0>> \notin DOMAIN V4SvcMap THEN {} ELSE {backend(i) : i \in slots}

ToldBackends(v) == {<<a, v.svc.targetPort>> : a \in ToSet(addresses(v))}

\* Nothing else in the store ever had one of the map keys of v.
OwnKeys(v) == /\ <<"svc", v.svc.clusterIP, v.svc.port>> \notin clashed
              /\ \A id \in ToSet(BackendKeys(v)) : <<"id", id>> \notin clashed

(***************************************************************************)
(* A connection to a port of a ClusterIP service that has endpoints goes   *)
(* to exactly their addresses, at the target port, whatever services and   *)
(* endpoints came and went, as long as the port has its map keys for       *)
(* itself and what the maps have of the service is not out of date (a      *)
(* change of the service alone does not change the hash).                  *)
(***************************************************************************)
EbpfServes ==
    ebpfCrash = "no" => LET want == SvcPorts(ebpfGroups) IN \A k \in DOMAIN want :
        (ToldBackends(want[k]) # {} /\ OwnKeys(want[k]) /\ written[k] = want[k].svc) =>
            SockFwd(want[k].svc.clusterIP, want[k].svc.port) = ToldBackends(want[k])

=============================================================================
