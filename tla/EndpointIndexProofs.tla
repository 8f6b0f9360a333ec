-------------------------- MODULE EndpointIndexProofs --------------------------
(***************************************************************************)
(* A service has the endpoints of the slices labelled with it, for any     *)
(* number of services, slices and addresses: IndexInv, that every endpoint *)
(* of a slice is entered under its service and under its source, is        *)
(* inductive.                                                              *)
(***************************************************************************)
EXTENDS EndpointIndex, TLAPS

LEMMA KeyParts ==
  /\ \A k \in EntryKey : /\ k[1] \in Service \cup {NoName} /\ k[2] \in Source /\ k[3] \in Address
                         /\ k = <<k[1], k[2], k[3]>>
  /\ \A n \in Service \cup {NoName}, src \in Source, a \in Address :
       /\ <<n, src, a>> \in EntryKey
       /\ <<n, src, a>>[1] = n /\ <<n, src, a>>[2] = src /\ <<n, src, a>>[3] = a
  BY DEF EntryKey

\* A scan stays with its source, and finds all of the source's own entries: in
\* the order of the keys nothing of another source comes before them.
LEMMA ScannedOfSource ==
  ASSUME NEW src \in Source, NEW k
  PROVE  /\ k \in OfSource(src) => k \in EntryKey /\ tree[k] # None /\ k[2] = src
         /\ k \in OwnOfSource(src) => k \in EntryKey /\ tree[k] # None /\ k[2] = src
  BY DEF OfSource, OwnOfSource, Scan

LEMMA OwnAreScanned ==
  ASSUME NEW src \in Source, NEW a \in Address, tree[<<NoName, src, a>>] # None
  PROVE  <<NoName, src, a>> \in OfSource(src) /\ <<NoName, src, a>> \in OwnOfSource(src)
<1> DEFINE o == <<NoName, src, a>>
           kvs == {k \in EntryKey : tree[k] # None /\ ~Less(k, <<NoName, src, 0>>)}
<1>1. src \in Nat /\ a \in Nat /\ a > 0 BY DEF Source, Address
<1>2. o \in EntryKey /\ o[1] = NoName /\ o[2] = src /\ o[3] = a BY KeyParts
<1>3. o \in kvs BY <1>1, <1>2 DEF Less, NoName
<1>4. ASSUME NEW j \in kvs, Less(j, o) \/ j = o
      PROVE  j \in EntryKey /\ j[1] = NoName /\ j[2] = src
  <2>1. j[1] \in Nat /\ j[2] \in Nat /\ j[3] \in Nat
    BY KeyParts, IndexAssumption DEF Service, Source, Address, NoName
  <2>2. ~Less(j, <<NoName, src, 0>>) OBVIOUS
  <2>3. CASE Less(j, o) BY <1>1, <2>1, <2>2, <2>3 DEF Less, NoName
  <2>4. CASE j = o BY <1>2, <2>4
  <2> QED BY <1>4, <2>3, <2>4
<1> HIDE DEF o
<1>5. o \in {k \in kvs : \A j \in kvs : Less(j, k) \/ j = k => j \in {i \in EntryKey : i[2] = src}}
  BY <1>3, <1>4
<1>6. o \in {k \in kvs : \A j \in kvs : Less(j, k) \/ j = k =>
                                          j \in {i \in EntryKey : i[1] = NoName /\ i[2] = src}}
  BY <1>3, <1>4
<1> QED BY <1>5, <1>6, Zenon DEF OfSource, OwnOfSource, Scan, o

\* SetEndpointsOfSource touches the entries of its source only; what the slice
\* no longer has leaves with its reference, what is new to the service comes.
LEMMA Replaced ==
  ASSUME IndexTypeOK, NEW src \in Source, NEW svc \in Service,
         NEW rest \in [Address -> Rest \cup {None}],
         NEW T, T = SetEndpointsOfSource(src, svc, rest)
  PROVE  /\ T \in [EntryKey -> Info \cup {None}]
         /\ \A k \in EntryKey : k[2] # src => T[k] = tree[k]
         /\ \A k \in EntryKey : k[2] = src /\ rest[k[3]] = None =>
              /\ T[k] \in {None, tree[k]}
              /\ tree[<<NoName, src, k[3]>>] # None
                 /\ k[1] \in {NoName, tree[<<NoName, src, k[3]>>].svc} => T[k] = None
         /\ \A k \in EntryKey : k[2] = src /\ rest[k[3]] # None =>
              T[k] = IF k[1] \in {svc, NoName} /\ tree[<<svc, src, k[3]>>] = None /\ tree[k] = None
                     THEN [svc |-> svc, rest |-> rest[k[3]]] ELSE tree[k]
<1> DEFINE K == {k \in OfSource(src) : rest[k[3]] = None}
           gone == WithReferences(K)
           kept(k) == IF k \in gone THEN None ELSE tree[k]
           added == {a \in Address : rest[a] # None /\ kept(<<svc, src, a>>) = None}
           new(k) == k[2] = src /\ k[1] \in {svc, NoName} /\ k[3] \in added /\ kept(k) = None
<1>1. T = [k \in EntryKey |-> IF new(k) THEN [svc |-> svc, rest |-> rest[k[3]]] ELSE kept(k)]
  BY DEF SetEndpointsOfSource
<1>2. ASSUME NEW g \in gone PROVE g[2] = src /\ rest[g[3]] = None
  <2>1. CASE g \in K BY <2>1, ScannedOfSource
  <2>2. ASSUME NEW k \in K, g = <<tree[k].svc, k[2], k[3]>> PROVE g[2] = src /\ rest[g[3]] = None
    BY <2>2, ScannedOfSource
  <2> QED BY <2>1, <2>2 DEF WithReferences
<1>3. ASSUME NEW a \in Address, rest[a] = None, tree[<<NoName, src, a>>] # None
      PROVE  <<NoName, src, a>> \in gone /\ <<tree[<<NoName, src, a>>].svc, src, a>> \in gone
  <2> DEFINE o == <<NoName, src, a>>
  <2>1. o[2] = src /\ o[3] = a OBVIOUS
  <2>2. o \in K BY <1>3, <2>1, OwnAreScanned
  <2> HIDE DEF o
  <2>3. o \in gone /\ <<tree[o].svc, o[2], o[3]>> \in gone BY <2>2 DEF WithReferences
  <2> QED BY <2>1, <2>3 DEF o
<1> HIDE DEF gone
<1>4. ASSUME NEW k \in EntryKey PROVE kept(k) \in Info \cup {None}
  BY DEF IndexTypeOK
<1>5. ASSUME NEW k \in EntryKey, new(k) PROVE [svc |-> svc, rest |-> rest[k[3]]] \in Info
  <2>1. rest[k[3]] \in Rest BY <1>5
  <2> QED BY <2>1 DEF Info
<1>6. T \in [EntryKey -> Info \cup {None}] BY <1>1, <1>4, <1>5
<1>7. ASSUME NEW k \in EntryKey, k[2] # src PROVE T[k] = tree[k]
  <2>1. ~new(k) /\ k \notin gone BY <1>2, <1>7
  <2> QED BY <1>1, <2>1
<1>8. ASSUME NEW k \in EntryKey, k[2] = src, rest[k[3]] = None
      PROVE  /\ T[k] \in {None, tree[k]}
             /\ tree[<<NoName, src, k[3]>>] # None
                /\ k[1] \in {NoName, tree[<<NoName, src, k[3]>>].svc} => T[k] = None
  <2>1. ~new(k) BY <1>8
  <2>2. T[k] = kept(k) BY <1>1, <2>1
  <2>3. ASSUME tree[<<NoName, src, k[3]>>] # None, k[1] \in {NoName, tree[<<NoName, src, k[3]>>].svc}
        PROVE  k \in gone
    <3>1. k[3] \in Address /\ k = <<k[1], src, k[3]>> BY <1>8, KeyParts
    <3>2. <<NoName, src, k[3]>> \in gone /\ <<tree[<<NoName, src, k[3]>>].svc, src, k[3]>> \in gone
      BY <1>3, <1>8, <2>3, <3>1
    <3> QED BY <2>3, <3>1, <3>2, Zenon
  <2> QED BY <2>2, <2>3
<1>9. ASSUME NEW k \in EntryKey, k[2] = src, rest[k[3]] # None
      PROVE  T[k] = IF k[1] \in {svc, NoName} /\ tree[<<svc, src, k[3]>>] = None /\ tree[k] = None
                    THEN [svc |-> svc, rest |-> rest[k[3]]] ELSE tree[k]
  <2>1. k[3] \in Address /\ <<svc, src, k[3]>>[3] = k[3] BY KeyParts
  <2>2. k \notin gone /\ <<svc, src, k[3]>> \notin gone BY <1>2, <1>9, <2>1
  <2>3. kept(k) = tree[k] /\ kept(<<svc, src, k[3]>>) = tree[<<svc, src, k[3]>>] BY <2>2
  <2>4. new(k) <=> k[1] \in {svc, NoName} /\ tree[<<svc, src, k[3]>>] = None /\ tree[k] = None
    BY <1>9, <2>1, <2>3
  <2> QED BY <1>1, <2>3, <2>4, Zenon
<1> QED BY <1>6, <1>7, <1>8, <1>9

\* DelEndpointsOfSource touches the entries of its source only and removes its own
\* entries with their references.
LEMMA Deleted ==
  ASSUME IndexTypeOK, NEW src \in Source, NEW T, T = DelEndpointsOfSource(src)
  PROVE  /\ T \in [EntryKey -> Info \cup {None}]
         /\ \A k \in EntryKey : k[2] # src => T[k] = tree[k]
         /\ \A k \in EntryKey : k[2] = src =>
              /\ T[k] \in {None, tree[k]}
              /\ tree[<<NoName, src, k[3]>>] # None
                 /\ k[1] \in {NoName, tree[<<NoName, src, k[3]>>].svc} => T[k] = None
<1> DEFINE K == OwnOfSource(src)
           gone == WithReferences(K)
<1>1. T = [k \in EntryKey |-> IF k \in gone THEN None ELSE tree[k]] BY DEF DelEndpointsOfSource
<1>2. ASSUME NEW g \in gone PROVE g[2] = src
  <2>1. CASE g \in K BY <2>1, ScannedOfSource
  <2>2. ASSUME NEW k \in K, g = <<tree[k].svc, k[2], k[3]>> PROVE g[2] = src
    BY <2>2, ScannedOfSource
  <2> QED BY <2>1, <2>2 DEF WithReferences
<1>3. ASSUME NEW k \in EntryKey, k[2] = src, tree[<<NoName, src, k[3]>>] # None,
             k[1] \in {NoName, tree[<<NoName, src, k[3]>>].svc}
      PROVE  k \in gone
  <2> DEFINE o == <<NoName, src, k[3]>>
  <2>1. k[3] \in Address /\ k = <<k[1], src, k[3]>> /\ o[2] = src /\ o[3] = k[3] BY <1>3, KeyParts
  <2>2. o \in K BY <1>3, <2>1, OwnAreScanned
  <2> HIDE DEF o
  <2>3. o \in gone /\ <<tree[o].svc, o[2], o[3]>> \in gone BY <2>2 DEF WithReferences
  <2> QED BY <1>3, <2>1, <2>3, Zenon DEF o
<1> HIDE DEF gone
<1>4. T \in [EntryKey -> Info \cup {None}] BY <1>1 DEF IndexTypeOK
<1> QED BY <1>1, <1>2, <1>3, <1>4

LEMMA OnAddStep ==
  ASSUME IndexInv, NEW src \in Source, NEW svc \in Labels[src],
         NEW rest \in [Address -> Rest \cup {None}], OnAdd(src, svc, rest)
  PROVE  IndexInv'
<1>1. /\ tree' = SetEndpointsOfSource(src, svc, rest)
      /\ slice' = [slice EXCEPT ![src] = [svc |-> svc, rest |-> rest]]
      /\ relabelled' = IF slice[src] \in Slice /\ slice[src].svc # svc
                       THEN relabelled \cup {src} ELSE relabelled
  BY DEF OnAdd
<1>2. IndexTypeOK /\ svc \in Service BY IndexAssumption DEF IndexInv
<1>3. /\ tree' \in [EntryKey -> Info \cup {None}]
      /\ \A k \in EntryKey : k[2] # src => tree'[k] = tree[k]
      /\ \A k \in EntryKey : k[2] = src /\ rest[k[3]] = None =>
           /\ tree'[k] \in {None, tree[k]}
           /\ tree[<<NoName, src, k[3]>>] # None
              /\ k[1] \in {NoName, tree[<<NoName, src, k[3]>>].svc} => tree'[k] = None
      /\ \A k \in EntryKey : k[2] = src /\ rest[k[3]] # None =>
           tree'[k] = IF k[1] \in {svc, NoName} /\ tree[<<svc, src, k[3]>>] = None /\ tree[k] = None
                      THEN [svc |-> svc, rest |-> rest[k[3]]] ELSE tree[k]
  BY <1>1, <1>2, Replaced
<1>4. /\ slice' \in [Source -> Slice \cup {None}] /\ slice'[src] = [svc |-> svc, rest |-> rest]
      /\ \A s \in Source : s # src => slice'[s] = slice[s]
  BY <1>1, <1>2 DEF IndexTypeOK, Slice
<1>5. slice'[src] # None /\ slice'[src].svc = svc /\ slice'[src].rest = rest
  BY <1>2, <1>4, IndexAssumption DEF Slice
<1>6. relabelled \subseteq relabelled' /\ relabelled' \subseteq Source
  BY <1>1, <1>2 DEF IndexTypeOK
<1>7. IndexTypeOK' BY <1>3, <1>4, <1>6 DEF IndexTypeOK
<1>8. ASSUME NEW s \in Kept', s # src PROVE EntriesOf(s)'
  <2>1. s \in Kept /\ s \in Source BY <1>6 DEF Kept
  <2>2. EntriesOf(s) BY <2>1 DEF IndexInv
  <2> QED BY <1>3, <1>4, <1>8, <2>1, <2>2 DEF EntriesOf
<1>9. ASSUME src \in Kept' PROVE EntriesOf(src)'
  <2>1. src \in Kept /\ ~(slice[src] \in Slice /\ slice[src].svc # svc)
    BY <1>1, <1>6, <1>9 DEF Kept
  <2>2. slice[src] # None => slice[src].svc = svc BY <1>2, <2>1 DEF IndexTypeOK
  <2>3. EntriesOf(src) BY <2>1 DEF IndexInv
  <2> SUFFICES ASSUME NEW k \in EntryKey, k[2] = src
               PROVE  IF rest[k[3]] # None /\ k[1] \in {NoName, svc}
                      THEN tree'[k] # None /\ tree'[k].svc = svc
                      ELSE tree'[k] = None
    BY <1>5, Zenon DEF EntriesOf
  <2> DEFINE o == <<NoName, src, k[3]>>
             r == <<svc, src, k[3]>>
  <2>4. /\ o \in EntryKey /\ o[1] = NoName /\ o[2] = src /\ o[3] = k[3]
        /\ r \in EntryKey /\ r[1] = svc /\ r[2] = src /\ r[3] = k[3]
    BY <1>2, KeyParts
  <2> HIDE DEF o, r
  <2>5. ASSUME tree[k] # None
        PROVE  /\ slice[src] # None /\ slice[src].rest[k[3]] # None /\ k[1] \in {NoName, svc}
               /\ tree[k].svc = svc /\ tree[o] # None /\ tree[o].svc = svc
               /\ tree[r] # None
    <3>1. slice[src] # None /\ slice[src].rest[k[3]] # None /\ k[1] \in {NoName, slice[src].svc}
      BY <2>3, <2>5 DEF EntriesOf
    <3>2. slice[src].svc = svc BY <2>2, <3>1
    <3>3. tree[k].svc = svc BY <2>3, <3>1, <3>2 DEF EntriesOf
    <3>4. tree[o] # None /\ tree[o].svc = svc BY <2>3, <2>4, <3>1, <3>2 DEF EntriesOf
    <3>5. tree[r] # None BY <2>3, <2>4, <3>1, <3>2 DEF EntriesOf
    <3> QED BY <3>1, <3>2, <3>3, <3>4, <3>5, Zenon
  <2>6. CASE rest[k[3]] = None
    <3>1. /\ tree'[k] \in {None, tree[k]}
          /\ tree[o] # None /\ k[1] \in {NoName, tree[o].svc} => tree'[k] = None
      BY <1>3, <2>6 DEF o
    <3> QED BY <2>5, <2>6, <3>1, Zenon
  <2>7. CASE rest[k[3]] # None
    <3>1. tree'[k] = IF k[1] \in {svc, NoName} /\ tree[r] = None /\ tree[k] = None
                     THEN [svc |-> svc, rest |-> rest[k[3]]] ELSE tree[k]
      BY <1>3, <2>7 DEF r
    <3>2. CASE tree[k] # None BY <2>5, <2>7, <3>1, <3>2
    <3>3. CASE tree[k] = None /\ k[1] \notin {NoName, svc} BY <3>1, <3>3
    <3>4. CASE tree[k] = None /\ k[1] \in {NoName, svc}
      <4>1. tree[r] = None
        <5>1. slice[src] = None \/ slice[src].rest[k[3]] = None
          BY <2>2, <2>3, <3>4 DEF EntriesOf
        <5> QED BY <2>3, <2>4, <5>1 DEF EntriesOf
      <4>2. tree'[k] = [svc |-> svc, rest |-> rest[k[3]]] BY <3>1, <3>4, <4>1
      <4>3. rest[k[3]] \in Rest BY <2>7, KeyParts
      <4>4. tree'[k] \in Info BY <1>2, <4>2, <4>3 DEF Info
      <4> QED BY <2>7, <3>4, <4>2, <4>4, IndexAssumption
    <3> QED BY <3>2, <3>3, <3>4
  <2> QED BY <2>6, <2>7
<1> QED BY <1>7, <1>8, <1>9 DEF IndexInv

LEMMA OnDeleteStep ==
  ASSUME IndexInv, NEW src \in Source, OnDelete(src)
  PROVE  IndexInv'
<1>1. /\ tree' = DelEndpointsOfSource(src) /\ slice' = [slice EXCEPT ![src] = None]
      /\ relabelled' = relabelled
  BY DEF OnDelete
<1>2. IndexTypeOK BY DEF IndexInv
<1>3. /\ tree' \in [EntryKey -> Info \cup {None}]
      /\ \A k \in EntryKey : k[2] # src => tree'[k] = tree[k]
      /\ \A k \in EntryKey : k[2] = src =>
           /\ tree'[k] \in {None, tree[k]}
           /\ tree[<<NoName, src, k[3]>>] # None
              /\ k[1] \in {NoName, tree[<<NoName, src, k[3]>>].svc} => tree'[k] = None
  BY <1>1, <1>2, Deleted
<1>4. /\ slice' \in [Source -> Slice \cup {None}] /\ slice'[src] = None
      /\ \A s \in Source : s # src => slice'[s] = slice[s]
  BY <1>1, <1>2 DEF IndexTypeOK
<1>5. IndexTypeOK' BY <1>1, <1>2, <1>3, <1>4 DEF IndexTypeOK
<1>6. ASSUME NEW s \in Kept', s # src PROVE EntriesOf(s)'
  <2>1. s \in Kept /\ s \in Source BY <1>1 DEF Kept
  <2>2. EntriesOf(s) BY <2>1 DEF IndexInv
  <2> QED BY <1>3, <1>4, <1>6, <2>1, <2>2 DEF EntriesOf
<1>7. ASSUME src \in Kept' PROVE EntriesOf(src)'
  <2>1. EntriesOf(src) BY <1>1, <1>7 DEF Kept, IndexInv
  <2> SUFFICES ASSUME NEW k \in EntryKey, k[2] = src PROVE tree'[k] = None
    BY <1>4, Zenon DEF EntriesOf
  <2> DEFINE o == <<NoName, src, k[3]>>
  <2>2. o \in EntryKey /\ o[1] = NoName /\ o[2] = src /\ o[3] = k[3] BY KeyParts
  <2>3. /\ tree'[k] \in {None, tree[k]}
        /\ tree[o] # None /\ k[1] \in {NoName, tree[o].svc} => tree'[k] = None
    BY <1>3
  <2> HIDE DEF o
  <2>4. CASE tree[k] = None BY <2>3, <2>4
  <2>5. CASE tree[k] # None
    <3>1. slice[src] # None /\ slice[src].rest[k[3]] # None /\ k[1] \in {NoName, slice[src].svc}
      BY <2>1, <2>5 DEF EntriesOf
    <3>2. tree[o] # None /\ tree[o].svc = slice[src].svc BY <2>1, <2>2, <3>1 DEF EntriesOf
    <3> QED BY <2>3, <3>1, <3>2, Zenon
  <2> QED BY <2>4, <2>5
<1> QED BY <1>5, <1>6, <1>7 DEF IndexInv

\* The entries of a source that kept its service are its slice's, under both keys.
THEOREM IndexInvariant == Spec => []IndexInv
<1>1. Init => IndexInv
  <2> SUFFICES ASSUME Init PROVE IndexInv OBVIOUS
  <2>1. IndexTypeOK BY DEF Init, IndexTypeOK
  <2>2. ASSUME NEW s \in Kept PROVE EntriesOf(s)
    <3>1. slice[s] = None BY DEF Init, Kept
    <3>2. \A k \in EntryKey : tree[k] = None BY DEF Init
    <3> QED BY <3>1, <3>2 DEF EntriesOf
  <2> QED BY <2>1, <2>2 DEF IndexInv
<1>2. IndexInv /\ [Next]_vars => IndexInv'
  <2> SUFFICES ASSUME IndexInv, [Next]_vars PROVE IndexInv' OBVIOUS
  <2>1. ASSUME NEW src \in Source, NEW svc \in Labels[src],
               NEW rest \in [Address -> Rest \cup {None}], OnAdd(src, svc, rest)
        PROVE  IndexInv'
    BY <2>1, OnAddStep
  <2>2. ASSUME NEW src \in Source, OnDelete(src) PROVE IndexInv' BY <2>2, OnDeleteStep
  <2>3. CASE UNCHANGED vars BY <2>3 DEF vars, IndexInv, IndexTypeOK, Kept, EntriesOf
  <2> QED BY <2>1, <2>2, <2>3, Zenon DEF Next
<1> QED BY <1>1, <1>2, PTL DEF Spec

\* Each service has exactly the endpoints of its slices, as far as these kept
\* their service.
THEOREM AllAreReplaced == Spec => []ReplacesAll
<1>1. IndexInv => ReplacesAll
  <2> SUFFICES ASSUME IndexInv, NEW svc \in Service, NEW k \in EntryKey, k[1] = svc, k[2] \in Kept
               PROVE  tree[k] # None <=> InSlice(svc, k[2], k[3])
    BY Zenon DEF ReplacesAll, EachEndpointOfService
  <2>1. EntriesOf(k[2]) BY DEF IndexInv
  <2>2. k[1] # NoName BY IndexAssumption DEF Service, NoName
  <2> QED BY <2>1, <2>2 DEF EntriesOf, InSlice
<1> QED BY <1>1, IndexInvariant, PTL
=============================================================================
