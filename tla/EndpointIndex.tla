----------------------------- MODULE EndpointIndex -----------------------------
(***************************************************************************)
(* How the store keeps endpoints (server/proxystore/proxystore.go): every  *)
(* endpoint of a source (an endpoint slice) is entered twice in the        *)
(* ordered tree, under its service and under its source alone, with a key  *)
(* made from the hash of its address, conditions and topology.  The        *)
(* handlers of server/jobs/kube2store/slice-event-handler.go drive it; one *)
(* namespace.  (Definitions that no action uses are faulty variants that   *)
(* show a property failing.)                                               *)
(***************************************************************************)
EXTENDS Naturals

CONSTANTS NServices, NSources, NAddresses,
          Rest,         \* what is not hashed of an endpoint: pod name and hints
          Labels,       \* Labels[src]: the services a slice may be labelled with
          None

\* Names of services and sources, and what is hashed of an endpoint, are numbered
\* in the order KV.Less has them in; the empty name comes first.
NoName == 0
Service == 1..NServices
Source == 1..NSources
Address == 1..NAddresses
EntryKey == (Service \cup {NoName}) \X Source \X Address

Info == [svc : Service, rest : Rest]
Slice == [svc : Service, rest : [Address -> Rest \cup {None}]]

ASSUME IndexAssumption == /\ NServices \in Nat /\ NSources \in Nat /\ NAddresses \in Nat
                          /\ Labels \in [Source -> SUBSET Service]
                          /\ None \notin Rest \cup Info \cup Slice

VARIABLES tree,         \* Store.tree, the set Endpoints: what each key holds
          slice,        \* history: the last version of each source
          relabelled    \* history: sources that changed their service while they existed

vars == <<tree, slice, relabelled>>

IndexTypeOK == /\ tree \in [EntryKey -> Info \cup {None}]
               /\ slice \in [Source -> Slice \cup {None}]
               /\ relabelled \subseteq Source

Init == /\ tree = [k \in EntryKey |-> None]
        /\ slice = [src \in Source |-> None] /\ relabelled = {}
-----------------------------------------------------------------------------
\* KV.Less: by name, then by source, then by hash.
Less(j, k) == \/ j[1] < k[1]
              \/ j[1] = k[1] /\ j[2] < k[2]
              \/ j[1] = k[1] /\ j[2] = k[2] /\ j[3] < k[3]

(***************************************************************************)
(* AscendGreaterOrEqual from before the first of a source's own entries,   *)
(* up to the first entry the callback refuses.                             *)
(***************************************************************************)
Scan(src, accepted) ==
    LET kvs == {k \in EntryKey : tree[k] # None /\ ~Less(k, <<NoName, src, 0>>)}
    IN  {k \in kvs : \A j \in kvs : Less(j, k) \/ j = k => j \in accepted}

OfEverySource(src) == Scan(src, EntryKey)

OfSource(src) == Scan(src, {k \in EntryKey : k[2] = src})

OwnOfSource(src) == Scan(src, {k \in EntryKey : k[1] = NoName /\ k[2] = src})

\* The scanned entries K, and for each the reference in its service.
WithReferences(K) == K \cup {<<tree[k].svc, k[2], k[3]>> : k \in K}

(***************************************************************************)
(* SetEndpointsOfSource: entries whose hash is not in the slice leave;     *)
(* endpoints the service does not have are entered twice; tx.set leaves an *)
(* entry alone whose hash is the same, which the key implies here.         *)
(***************************************************************************)
SetEndpointsOfSource(src, svc, rest) ==
    LET gone == WithReferences({k \in OfSource(src) : rest[k[3]] = None})
        kept(k) == IF k \in gone THEN None ELSE tree[k]
        added == {a \in Address : rest[a] # None /\ kept(<<svc, src, a>>) = None}
    IN  [k \in EntryKey |->
            IF k[2] = src /\ k[1] \in {svc, NoName} /\ k[3] \in added /\ kept(k) = None
            THEN [svc |-> svc, rest |-> rest[k[3]]] ELSE kept(k)]

DelEndpointsOfSource(src) ==
    LET gone == WithReferences(OwnOfSource(src))
    IN  [k \in EntryKey |-> IF k \in gone THEN None ELSE tree[k]]

\* The slice handlers: OnAdd, which is OnUpdate too, and OnDelete.
OnAdd(src, svc, rest) ==
    /\ tree' = SetEndpointsOfSource(src, svc, rest)
    /\ slice' = [slice EXCEPT ![src] = [svc |-> svc, rest |-> rest]]
    /\ relabelled' = IF slice[src] \in Slice /\ slice[src].svc # svc
                     THEN relabelled \cup {src} ELSE relabelled

OnDelete(src) ==
    /\ slice[src] # None
    /\ tree' = DelEndpointsOfSource(src)
    /\ slice' = [slice EXCEPT ![src] = None]
    /\ UNCHANGED relabelled

Next == \E src \in Source :
          \/ \E svc \in Labels[src], rest \in [Address -> Rest \cup {None}] :
               OnAdd(src, svc, rest)
          \/ OnDelete(src)

Spec == Init /\ [][Next]_vars

\* EachEndpointOfService: what a watch job is given for a service.
EachEndpointOfService(svc) == {k \in EntryKey : k[1] = svc /\ tree[k] # None}
-----------------------------------------------------------------------------
InSlice(svc, src, a) ==
    slice[src] # None /\ slice[src].svc = svc /\ slice[src].rest[a] # None

(***************************************************************************)
(* "SetEndpointsOfSource replaces ALL endpoints of a single source (add    *)
(* new, update existing, delete removed)": of the sources that kept their  *)
(* service, a service has the endpoints of the slices labelled with it and *)
(* no others, whatever the order of the names makes a scan run into, and   *)
(* whatever became of the other sources.  A source that changes its        *)
(* service leaves entries behind, and is not meant here.                   *)
(***************************************************************************)
Kept == Source \ relabelled

ReplacesAll == \A svc \in Service :
    {k \in EachEndpointOfService(svc) : k[2] \in Kept} =
        {k \in EntryKey : k[1] = svc /\ k[2] \in Kept /\ InSlice(svc, k[2], k[3])}

(***************************************************************************)
(* What keeps it true: the entries of such a source are its slice's, each  *)
(* under its service and under the source alone, and both name the service.*)
(***************************************************************************)
EntriesOf(src) == \A k \in EntryKey : k[2] = src =>
    IF /\ slice[src] # None /\ slice[src].rest[k[3]] # None
       /\ k[1] \in {NoName, slice[src].svc}
    THEN tree[k] # None /\ tree[k].svc = slice[src].svc
    ELSE tree[k] = None

IndexInv == IndexTypeOK /\ \A src \in Kept : EntriesOf(src)

\* "... update existing ...": what the store holds is what the slice says.
UpdatesExisting == \A svc \in Service : \A k \in EachEndpointOfService(svc) :
    InSlice(svc, k[2], k[3]) => tree[k].rest = slice[k[2]].rest[k[3]]
=============================================================================
