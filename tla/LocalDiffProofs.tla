---------------------------- MODULE LocalDiffProofs ----------------------------
(***************************************************************************)
(* For every set of paths, values and sources: the operations a diff is    *)
(* sent with carry every change, in an order that never leaves an endpoint *)
(* without its service, and Update gives the diff stores the node's view.  *)
(***************************************************************************)
EXTENDS LocalDiff, WellFoundedInduction, TLAPS

-----------------------------------------------------------------------------
(***************************************************************************)
(* Sequences.                                                              *)
(***************************************************************************)
LEMMA SeqEmpty ==
  ASSUME NEW S
  PROVE  /\ <<>> \in Seq(S) /\ Len(<<>>) = 0
         /\ \A s \in Seq(S) : s # <<>> => Len(s) \in Nat \ {0}
  OBVIOUS

LEMMA SeqLen ==
  ASSUME NEW S, NEW s \in Seq(S)
  PROVE  Len(s) \in Nat /\ s \in [1..Len(s) -> S] /\ DOMAIN s = 1..Len(s)
  OBVIOUS

LEMMA SeqConcat ==
  ASSUME NEW S, NEW s \in Seq(S), NEW t \in Seq(S)
  PROVE  /\ s \o t \in Seq(S) /\ Len(s \o t) = Len(s) + Len(t)
         /\ \A i \in 1..(Len(s) + Len(t)) :
               (s \o t)[i] = IF i <= Len(s) THEN s[i] ELSE t[i - Len(s)]
  OBVIOUS

LEMMA SeqPrefix ==
  ASSUME NEW S, NEW s \in Seq(S), NEW n \in 0..Len(s)
  PROVE  /\ SubSeq(s, 1, n) \in Seq(S) /\ Len(SubSeq(s, 1, n)) = n
         /\ \A i \in 1..n : SubSeq(s, 1, n)[i] = s[i]
  OBVIOUS

LEMMA SeqTail ==
  ASSUME NEW S, NEW s \in Seq(S), s # <<>>
  PROVE  /\ Head(s) \in S /\ Tail(s) \in Seq(S) /\ Len(Tail(s)) = Len(s) - 1
         /\ \A i \in 1..Len(Tail(s)) : Tail(s)[i] = s[i + 1]
  OBVIOUS

-----------------------------------------------------------------------------
(***************************************************************************)
(* The operations of a diff.                                               *)
(***************************************************************************)
LEMMA OrderLists ==
  ASSUME NEW S \in SUBSET Key
  PROVE  SomeOrder(S) \in Seq(S) /\ Range(SomeOrder(S)) = S
<1> DEFINE n == Cardinality(S)
           f == SomeOrder(S)
<1>1. n \in Nat /\ \E s \in [1..n -> S] : Range(s) = S BY ListAssumption
<1>2. f \in [1..n -> S] /\ Range(f) = S BY <1>1, Zenon DEF SomeOrder
<1> HIDE DEF f, n
<1>3. f \in Seq(S) BY <1>1, <1>2
<1> QED BY <1>2, <1>3 DEF f

LEMMA RangeOfConcat ==
  ASSUME NEW S, NEW s \in Seq(S), NEW t \in Seq(S)
  PROVE  s \o t \in Seq(S) /\ Range(s \o t) = Range(s) \cup Range(t)
<1>1. /\ s \o t \in Seq(S) /\ Len(s \o t) = Len(s) + Len(t)
      /\ \A i \in 1 .. Len(s) + Len(t) :
            (s \o t)[i] = IF i <= Len(s) THEN s[i] ELSE t[i - Len(s)]
  BY SeqConcat
<1>2. /\ Len(s) \in Nat /\ DOMAIN s = 1..Len(s)
      /\ Len(t) \in Nat /\ DOMAIN t = 1..Len(t)
      /\ DOMAIN (s \o t) = 1..(Len(s) + Len(t))
  BY <1>1, SeqLen
<1>3. Range(s \o t) \subseteq Range(s) \cup Range(t)
  BY <1>1, <1>2 DEF Range
<1>4. Range(s) \subseteq Range(s \o t)
  BY <1>1, <1>2 DEF Range
<1>5. ASSUME NEW j \in 1..Len(t) PROVE t[j] \in Range(s \o t)
  <2>1. Len(s) + j \in 1..(Len(s) + Len(t)) /\ (s \o t)[Len(s) + j] = t[j]
    BY <1>1, <1>2
  <2> QED BY <1>2, <2>1 DEF Range
<1> QED BY <1>1, <1>2, <1>3, <1>4, <1>5 DEF Range

LEMMA UpdatesSent ==
  ASSUME NEW t \in [Key -> Item], NEW S
  PROVE  /\ SendUpdates(t, S) \in Seq(OpItem)
         /\ Range(SendUpdates(t, S)) = {SetOp(p, t[p].hash) : p \in S \cap Updated(t)}
<1> DEFINE T == S \cap Updated(t)
           paths == SomeOrder(T)
<1>1. T \in SUBSET Key BY DEF Updated
<1>2. paths \in Seq(T) /\ Range(paths) = T BY <1>1, OrderLists
<1>3. ASSUME NEW p \in T PROVE SetOp(p, t[p].hash) \in OpItem
  <2>1. p \in Key /\ t[p] \in Item /\ t[p].state = "Changed" BY DEF Updated
  <2>2. t[p].hash \in Hash BY <2>1 DEF Item, AbsentItem
  <2> QED BY <2>1, <2>2 DEF OpItem
<1> HIDE DEF T, paths
<1>4. SendUpdates(t, S) = [i \in DOMAIN paths |-> SetOp(paths[i], t[paths[i]].hash)]
  BY DEF SendUpdates, paths, T
<1>5. Len(paths) \in Nat /\ DOMAIN paths = 1..Len(paths) /\ \A i \in 1..Len(paths) : paths[i] \in T
  BY <1>2, SeqLen
<1>6. SendUpdates(t, S) \in [1..Len(paths) -> OpItem] BY <1>3, <1>4, <1>5
<1>7. SendUpdates(t, S) \in Seq(OpItem) BY <1>5, <1>6
<1>8. Range(SendUpdates(t, S)) = {SetOp(p, t[p].hash) : p \in T}
  BY <1>2, <1>4, <1>5 DEF Range
<1> QED BY <1>7, <1>8 DEF T

LEMMA DeletesSent ==
  ASSUME NEW t \in [Key -> Item], NEW S
  PROVE  /\ SendDeletes(t, S) \in Seq(OpItem)
         /\ Range(SendDeletes(t, S)) = {DeleteOp(p) : p \in S \cap Deleted(t)}
<1> DEFINE T == S \cap Deleted(t)
           paths == SomeOrder(T)
<1>1. T \in SUBSET Key BY DEF Deleted
<1>2. paths \in Seq(T) /\ Range(paths) = T BY <1>1, OrderLists
<1>3. ASSUME NEW p \in T PROVE DeleteOp(p) \in OpItem
  BY DEF Deleted, OpItem
<1> HIDE DEF T, paths
<1>4. SendDeletes(t, S) = [i \in DOMAIN paths |-> DeleteOp(paths[i])]
  BY DEF SendDeletes, paths, T
<1>5. Len(paths) \in Nat /\ DOMAIN paths = 1..Len(paths) /\ \A i \in 1..Len(paths) : paths[i] \in T
  BY <1>2, SeqLen
<1>6. SendDeletes(t, S) \in [1..Len(paths) -> OpItem] BY <1>3, <1>4, <1>5
<1>7. SendDeletes(t, S) \in Seq(OpItem) BY <1>5, <1>6
<1>8. Range(SendDeletes(t, S)) = {DeleteOp(p) : p \in T}
  BY <1>2, <1>4, <1>5 DEF Range
<1> QED BY <1>7, <1>8 DEF T

\* Every operation of R comes before any operation that is not of R.
Leads(s, R) == \A i \in DOMAIN s, x \in R : s[i] \notin R => \E j \in 1..(i - 1) : s[j] = x

LEMMA LeadsConcat ==
  ASSUME NEW S, NEW s \in Seq(S), NEW t \in Seq(S), NEW R, R \subseteq Range(s), Leads(s, R)
  PROVE  Leads(s \o t, R)
<1> SUFFICES ASSUME NEW i \in DOMAIN (s \o t), (s \o t)[i] \notin R, NEW x \in R
             PROVE  \E j \in 1..(i - 1) : (s \o t)[j] = x
  BY DEF Leads
<1>1. /\ Len(s) \in Nat /\ DOMAIN s = 1..Len(s) /\ Len(t) \in Nat
      /\ DOMAIN (s \o t) = 1..(Len(s) + Len(t))
      /\ \A j \in 1..Len(s) : (s \o t)[j] = s[j]
  BY SeqConcat, SeqLen
<1>2. PICK j \in 1..Len(s) : s[j] = x BY <1>1 DEF Range
<1>3. CASE i > Len(s) BY <1>1, <1>2, <1>3
<1>4. CASE i <= Len(s)
  <2>1. i \in DOMAIN s /\ s[i] \notin R BY <1>1, <1>4
  <2>2. PICK k \in 1..(i - 1) : s[k] = x BY <2>1 DEF Leads
  <2> QED BY <1>1, <1>4, <2>2
<1> QED BY <1>1, <1>3, <1>4

LEMMA ConcatOps ==
  \A s, t \in Seq(OpItem) :
    /\ s \o t \in Seq(OpItem) /\ Range(s \o t) = Range(s) \cup Range(t)
    /\ \A R : R \subseteq Range(s) /\ Leads(s, R) => Leads(s \o t, R)
  BY RangeOfConcat, LeadsConcat

\* A diff carries every change, services first and last.
Carries(diff, t) ==
    /\ Range(diff) = {SetOp(p, t[p].hash) : p \in Updated(t)} \cup {DeleteOp(p) : p \in Deleted(t)}
    /\ \A i \in DOMAIN diff, p \in Endpoint, s \in Svc \cap Updated(t) :
          diff[i] = SetOp(p, t[p].hash) => \E j \in 1..(i - 1) : diff[j] = SetOp(s, t[s].hash)
    /\ \A i \in DOMAIN diff, s \in Svc, p \in Endpoint \cap Deleted(t) :
          diff[i] = DeleteOp(s) => \E j \in 1..(i - 1) : diff[j] = DeleteOp(p)

LEMMA DiffSent ==
  ASSUME NEW t \in [Key -> Item]
  PROVE  /\ SendDiff(t) \in Seq(OpItem)
         /\ Carries(SendDiff(t), t)
<1> DEFINE Sets(S) == {SetOp(p, t[p].hash) : p \in S \cap Updated(t)}
           Deletes(S) == {DeleteOp(p) : p \in S \cap Deleted(t)}
           Q == Seq(OpItem)
           diff == SendDiff(t)
<1>1. PICK a \in Q : a = SendUpdates(t, Svc) /\ Range(a) = Sets(Svc) BY UpdatesSent
<1>2. PICK b \in Q : b = SendDeletes(t, Anonymous) /\ Range(b) = Deletes(Anonymous) BY DeletesSent
<1>3. PICK c \in Q : c = SendUpdates(t, Named) /\ Range(c) = Sets(Named) BY UpdatesSent
<1>4. PICK d \in Q : d = SendDeletes(t, Named) /\ Range(d) = Deletes(Named) BY DeletesSent
<1>5. PICK e \in Q : e = SendUpdates(t, Anonymous) /\ Range(e) = Sets(Anonymous) BY UpdatesSent
<1>6. PICK f \in Q : f = SendDeletes(t, Svc) /\ Range(f) = Deletes(Svc) BY DeletesSent
<1> DEFINE ab == a \o b
           abc == ab \o c
           abcd == abc \o d
           pre == abcd \o e
<1> HIDE DEF Sets, Deletes, Q
<1>7. \A u, v \in Q : /\ u \o v \in Q /\ Range(u \o v) = Range(u) \cup Range(v)
                      /\ \A R : R \subseteq Range(u) /\ Leads(u, R) => Leads(u \o v, R)
  BY ConcatOps DEF Q
<1>8. diff = pre \o f
  BY <1>1, <1>2, <1>3, <1>4, <1>5, <1>6, Zenon DEF SendDiff
<1> HIDE DEF diff
<1>9. pre \in Q /\ Leads(pre, Sets(Svc))
      /\ Range(pre) = Sets(Svc) \cup Deletes(Anonymous) \cup Sets(Named)
                       \cup Deletes(Named) \cup Sets(Anonymous)
  <2>1. Leads(a, Sets(Svc)) BY <1>1 DEF Leads, Range
  <2>2. ab \in Q /\ Range(ab) = Range(a) \cup Range(b) /\ Leads(ab, Sets(Svc))
    BY <1>1, <1>7, <2>1, Zenon
  <2> HIDE DEF ab
  <2>3. abc \in Q /\ Range(abc) = Range(ab) \cup Range(c) /\ Leads(abc, Sets(Svc))
    <3>1. Sets(Svc) \subseteq Range(ab) BY <1>1, <2>2
    <3> QED BY <1>7, <2>2, <3>1, Zenon
  <2> HIDE DEF abc
  <2>4. abcd \in Q /\ Range(abcd) = Range(abc) \cup Range(d) /\ Leads(abcd, Sets(Svc))
    <3>1. Sets(Svc) \subseteq Range(abc) BY <1>1, <2>2, <2>3
    <3> QED BY <1>7, <2>3, <3>1, Zenon
  <2> HIDE DEF abcd
  <2>5. pre \in Q /\ Range(pre) = Range(abcd) \cup Range(e) /\ Leads(pre, Sets(Svc))
    <3>1. Sets(Svc) \subseteq Range(abcd) BY <1>1, <2>2, <2>3, <2>4
    <3> QED BY <1>7, <2>4, <3>1, Zenon
  <2> HIDE DEF pre
  <2> QED BY <1>1, <1>2, <1>3, <1>4, <1>5, <2>2, <2>3, <2>4, <2>5
<1> HIDE DEF pre
<1>10. /\ diff \in Q /\ Range(diff) = Range(pre) \cup Deletes(Svc)
       /\ Leads(diff, Sets(Svc)) /\ Leads(diff, Range(pre))
  <2>1. Sets(Svc) \subseteq Range(pre) /\ Leads(pre, Range(pre)) BY <1>9 DEF Leads, Range
  <2> QED BY <1>6, <1>7, <1>8, <1>9, <2>1, Zenon
<1>11. Updated(t) \subseteq Key /\ Deleted(t) \subseteq Key BY DEF Updated, Deleted
<1>12. Range(diff) = {SetOp(p, t[p].hash) : p \in Updated(t)} \cup {DeleteOp(p) : p \in Deleted(t)}
  <2>1. /\ Sets(Svc) \cup Sets(Named) \cup Sets(Anonymous) = {SetOp(p, t[p].hash) : p \in Updated(t)}
        /\ Deletes(Svc) \cup Deletes(Named) \cup Deletes(Anonymous) = {DeleteOp(p) : p \in Deleted(t)}
    BY <1>11, PathAssumption DEF Sets, Deletes, Endpoint
  <2> QED BY <1>9, <1>10, <2>1
<1>13. ASSUME NEW i \in DOMAIN diff, NEW p \in Endpoint, NEW s \in Svc \cap Updated(t),
              diff[i] = SetOp(p, t[p].hash)
       PROVE  \E j \in 1..(i - 1) : diff[j] = SetOp(s, t[s].hash)
  <2>1. SetOp(p, t[p].hash) \notin Sets(Svc) BY PathAssumption DEF Sets, SetOp
  <2>2. SetOp(s, t[s].hash) \in Sets(Svc) BY DEF Sets
  <2> QED BY <1>10, <1>13, <2>1, <2>2, Zenon DEF Leads
<1>14. ASSUME NEW i \in DOMAIN diff, NEW s \in Svc, NEW p \in Endpoint \cap Deleted(t),
              diff[i] = DeleteOp(s)
       PROVE  \E j \in 1..(i - 1) : diff[j] = DeleteOp(p)
  <2>1. /\ DeleteOp(s) \notin Sets(Svc) /\ DeleteOp(s) \notin Sets(Named)
        /\ DeleteOp(s) \notin Sets(Anonymous)
    BY DEF Sets, SetOp, DeleteOp
  <2>2. DeleteOp(s) \notin Deletes(Named) /\ DeleteOp(s) \notin Deletes(Anonymous)
    BY PathAssumption DEF Deletes, DeleteOp, Endpoint
  <2>3. DeleteOp(p) \in Deletes(Named) \cup Deletes(Anonymous) BY DEF Deletes, Endpoint
  <2>4. DeleteOp(s) \notin Range(pre) /\ DeleteOp(p) \in Range(pre)
    BY <1>9, <2>1, <2>2, <2>3
  <2> QED BY <1>10, <1>14, <2>4, Zenon DEF Leads
<1> QED BY <1>10, <1>12, <1>13, <1>14 DEF diff, Q, Carries

-----------------------------------------------------------------------------
(***************************************************************************)
(* What Update does to the diff stores.                                    *)
(***************************************************************************)
LEMMA LeastNat ==
  ASSUME NEW T, T \subseteq Nat, T # {}
  PROVE  \E x \in T : \A y \in T : x <= y
<1> DEFINE R == OpToRel(<, Nat)
<1>1. IsWellFoundedOn(R, Nat) BY NatLessThanWellFounded
<1> HIDE DEF R
<1>2. PICK x \in T : \A y \in T : ~(<<y, x>> \in R) BY <1>1, WFMin
<1>3. ASSUME NEW a \in Nat, NEW b \in Nat, b < a PROVE <<b, a>> \in R
  BY <1>3 DEF R, OpToRel
<1>4. ASSUME NEW y \in T PROVE x <= y
  <2>1. ~(y < x) BY <1>2, <1>3
  <2> QED BY <2>1
<1> QED BY <1>4

\* A path has the value of the last source that has it.
LEMMA LastSourceHas ==
  ASSUME NEW c \in Content, NEW p \in Endpoint,
         \E i \in 1..NSources : c.slices[i][p] # NoHash
  PROVE  LastSource(c, p) \in 1..NSources /\ c.slices[LastSource(c, p)][p] # NoHash
<1> DEFINE T == {n \in Nat : n < NSources /\ c.slices[NSources - n][p] # NoHash}
<1>1. PICK i \in 1..NSources : c.slices[i][p] # NoHash OBVIOUS
<1>2. NSources - i \in T BY <1>1, PathAssumption
<1>3. PICK m \in T : \A n \in T : m <= n BY <1>2, LeastNat
<1>4. NSources - m \in 1..NSources BY PathAssumption
<1>5. ASSUME NEW j \in (NSources - m + 1)..NSources PROVE c.slices[j][p] = NoHash
  <2>1. NSources - j \in Nat /\ NSources - j < m /\ NSources - (NSources - j) = j
    BY PathAssumption
  <2>2. c.slices[j][p] # NoHash => NSources - j \in T BY <2>1, PathAssumption
  <2> HIDE DEF T
  <2>3. m \in Nat BY DEF T
  <2>4. NSources - j \notin T BY <1>3, <2>1, <2>3
  <2> QED BY <2>2, <2>4
<1> QED BY <1>4, <1>5 DEF LastSource

LEMMA LastSetInView ==
  ASSUME NEW c \in Content, NEW p \in Key
  PROVE  /\ ValuesSet(c, p) \subseteq Hash
         /\ IF ValuesSet(c, p) = {} THEN LastSet(c, p) = NoHash
            ELSE LastSet(c, p) \in ValuesSet(c, p)
<1>1. CASE p \in Svc
  BY <1>1, PathAssumption DEF ValuesSet, LastSet, Content
<1>2. CASE p \in Endpoint
  <2>1. p \notin Svc /\ SvcOf[p] \in Svc BY <1>2, PathAssumption
  <2>2. \A i \in 1..NSources : c.slices[i][p] \in Hash \cup {NoHash}
    BY <1>2 DEF Content, Slice
  <2>3. ValuesSet(c, p) \subseteq Hash BY <2>1, <2>2 DEF ValuesSet
  <2>4. ASSUME ValuesSet(c, p) # {} PROVE LastSet(c, p) \in ValuesSet(c, p)
    <3>1. c.svcs[SvcOf[p]] # NoHash /\ \E i \in 1..NSources : c.slices[i][p] # NoHash
      BY <2>1, <2>4 DEF ValuesSet
    <3>2. LastSource(c, p) \in 1..NSources /\ c.slices[LastSource(c, p)][p] # NoHash
      BY <1>2, <3>1, LastSourceHas
    <3> QED BY <2>1, <2>4, <3>1, <3>2 DEF ValuesSet, LastSet
  <2> QED BY <2>3, <2>4 DEF LastSet
<1> QED BY <1>1, <1>2, PathAssumption

\* A node has no endpoint of a service it does not have.
LEMMA ViewHasService ==
  ASSUME NEW c \in Content, NEW p \in Endpoint, LastSet(c, p) # NoHash
  PROVE  LastSet(c, SvcOf[p]) # NoHash
<1>1. p \in Key /\ p \notin Svc /\ SvcOf[p] \in Svc BY PathAssumption
<1>2. ValuesSet(c, p) # {} BY DEF LastSet
<1>3. c.svcs[SvcOf[p]] # NoHash BY <1>1, <1>2 DEF ValuesSet
<1> QED BY <1>1, <1>3 DEF LastSet, ValuesSet

Marked == [Key -> [hash : Hash, state : {"Deleted"}] \cup {AbsentItem}]

\* t is the tree that an update of old with c gives, new the same after its reset.
Makes(c, old, t, new) ==
    \A p \in Key :
        /\ new[p].hash = LastSet(c, p)
        /\ p \in Updated(t) => t[p].hash = LastSet(c, p) /\ LastSet(c, p) # NoHash
        /\ p \in Deleted(t) => LastSet(c, p) = NoHash /\ old[p] # AbsentItem
        /\ p \notin Updated(t) /\ p \notin Deleted(t) => LastSet(c, p) = old[p].hash
        /\ old[p].hash # NoHash /\ LastSet(c, p) = NoHash => p \in Deleted(t)

LEMMA UpdateMakes ==
  ASSUME NEW c \in Content, NEW t \in Marked
  PROVE  /\ Update(t, c) \in [Key -> Item]
         /\ ResetItems(Update(t, c), "Deleted") \in Marked
         /\ Makes(c, t, Update(t, c), ResetItems(Update(t, c), "Deleted"))
<1> DEFINE u == Update(t, c)
<1>1. ASSUME NEW p \in Key
      PROVE  /\ u[p] \in Item
             /\ ResetItems(u, "Deleted")[p] \in [hash : Hash, state : {"Deleted"}] \cup {AbsentItem}
             /\ ResetItems(u, "Deleted")[p].hash = LastSet(c, p)
             /\ u[p].state = "Changed" => u[p].hash = LastSet(c, p) /\ LastSet(c, p) # NoHash
             /\ u[p].state = "Deleted" => LastSet(c, p) = NoHash /\ t[p] # AbsentItem
             /\ u[p].state # "Changed" /\ u[p].state # "Deleted" => LastSet(c, p) = t[p].hash
             /\ t[p].hash # NoHash /\ LastSet(c, p) = NoHash => u[p].state = "Deleted"
  <2>1. t[p] \in [hash : Hash, state : {"Deleted"}] \cup {AbsentItem} BY DEF Marked
  <2>2. CASE ValuesSet(c, p) = {}
    <3>1. u[p] = t[p] /\ LastSet(c, p) = NoHash
      BY <2>2, LastSetInView DEF Update
    <3>2. ResetItems(u, "Deleted")[p] = AbsentItem
      BY <2>1, <3>1 DEF ResetItems
    <3> QED BY <2>1, <3>1, <3>2, HashAssumption DEF Item, AbsentItem, ItemState
  <2>3. CASE ValuesSet(c, p) # {}
    <3>1. LastSet(c, p) \in ValuesSet(c, p) /\ LastSet(c, p) \in Hash
      BY <2>3, LastSetInView
    <3>2. CASE ValuesSet(c, p) = {t[p].hash}
      <4>1. LastSet(c, p) = t[p].hash /\ t[p].state = "Deleted"
        BY <2>1, <3>1, <3>2, HashAssumption DEF AbsentItem
      <4>2. u[p] = [hash |-> LastSet(c, p), state |-> "Unchanged"]
        BY <3>2, <2>3, <4>1 DEF Update, SetState
      <4> QED BY <3>1, <4>1, <4>2, HashAssumption DEF ResetItems, Item, ItemState, AbsentItem
    <3>3. CASE ValuesSet(c, p) # {t[p].hash}
      <4>1. u[p] = [hash |-> LastSet(c, p), state |-> "Changed"]
        BY <3>3, <2>3 DEF Update
      <4> QED BY <3>1, <4>1, HashAssumption DEF ResetItems, Item, ItemState, AbsentItem
    <3> QED BY <3>2, <3>3
  <2> QED BY <2>2, <2>3
<1>2. u \in [Key -> Item] BY <1>1 DEF Update
<1>3. ResetItems(u, "Deleted") \in Marked BY <1>1 DEF ResetItems, Marked
<1> HIDE DEF u
<1>4. \A p \in Key : /\ p \in Updated(u) <=> u[p].state = "Changed"
                     /\ p \in Deleted(u) <=> u[p].state = "Deleted"
  BY DEF Updated, Deleted
<1>5. Makes(c, t, u, ResetItems(u, "Deleted")) BY <1>1, <1>4 DEF Makes
<1> QED BY <1>2, <1>3, <1>5 DEF u
=============================================================================
