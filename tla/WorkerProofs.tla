------------------------------ MODULE WorkerProofs ------------------------------
(***************************************************************************)
(* Two concurrent parts of the backends, for every size: the allocator of  *)
(* proxy ports gives no port out twice and loses none, and the full state  *)
(* pipe returns only when every stage has worked on every item.            *)
(***************************************************************************)
EXTENDS PortAllocator, FullStatePipe, WellFoundedInduction, TLAPS

-----------------------------------------------------------------------------
(***************************************************************************)
(* port_allocator.go.                                                      *)
(***************************************************************************)
LEMMA SmallestPort ==
  ASSUME NEW S, S \subseteq Port
  PROVE  IF S = {} THEN First(S) = NoPort ELSE First(S) \in S
<1>1. CASE S = {} BY <1>1 DEF First
<1>2. CASE S # {}
  <2> DEFINE less == OpToRel(<, Nat)
  <2>1. IsWellFoundedOn(less, Nat) BY NatLessThanWellFounded
  <2>2. \A p, q \in Nat : q < p => <<q, p>> \in less BY DEF OpToRel
  <2> HIDE DEF less
  <2>3. S \subseteq Nat BY AllocAssumption DEF Port
  <2>4. PICK p \in S : \A q \in S : ~(<<q, p>> \in less) BY <1>2, <2>1, <2>3, WFMin
  <2>5. ASSUME NEW q \in S PROVE p <= q
    <3>1. p \in Nat /\ q \in Nat BY <2>3
    <3>2. ~(q < p) BY <2>2, <2>4, <3>1
    <3> QED BY <3>1, <3>2
  <2> QED BY <1>2, <2>5 DEF First
<1> QED BY <1>1, <1>2

LEMMA FreePort ==
  ASSUME NEW j \in Port
  PROVE  nextFreePort(j) \in (Port \ used) \cup {NoPort}
<1> DEFINE after == {p \in Port \ used : p >= j}
           S == IF after # {} THEN after ELSE Port \ used
<1>1. S \subseteq Port \ used OBVIOUS
<1>2. nextFreePort(j) = First(S) BY DEF nextFreePort
<1> HIDE DEF S
<1> QED BY <1>1, <1>2, SmallestPort

LEMMA PortSeq ==
  ASSUME NEW s \in Seq(Port)
  PROVE  /\ Len(s) \in Nat /\ DOMAIN s = 1..Len(s) /\ Range(s) \subseteq Port
         /\ \A x : x \in Range(s) <=> \E i \in 1..Len(s) : s[i] = x
  BY DEF Range

\* A port is put at the end of the channel, or taken from its front.
LEMMA PortSent ==
  ASSUME NEW s \in Seq(Port), NEW p \in Port, IsInjective(s), p \notin Range(s)
  PROVE  /\ Append(s, p) \in Seq(Port) /\ Len(Append(s, p)) = Len(s) + 1
         /\ IsInjective(Append(s, p)) /\ Range(Append(s, p)) = Range(s) \cup {p}
<1> DEFINE t == Append(s, p)
<1>1. /\ t \in Seq(Port) /\ Len(t) = Len(s) + 1 /\ t[Len(s) + 1] = p
      /\ \A i \in 1..Len(s) : t[i] = s[i]
  OBVIOUS
<1> HIDE DEF t
<1>2. DOMAIN t = 1..(Len(s) + 1) /\ DOMAIN s = 1..Len(s) /\ Len(s) \in Nat BY <1>1
<1>3. \A i \in 1..Len(s) : s[i] # p BY <1>2 DEF Range
<1>4. IsInjective(t)
  <2> SUFFICES ASSUME NEW a \in DOMAIN t, NEW b \in DOMAIN t, t[a] = t[b] PROVE a = b
    BY DEF IsInjective
  <2>1. CASE a \in 1..Len(s) /\ b \in 1..Len(s) BY <1>1, <1>2, <2>1 DEF IsInjective
  <2>2. CASE a = Len(s) + 1 \/ b = Len(s) + 1 BY <1>1, <1>2, <1>3, <2>2
  <2> QED BY <1>2, <2>1, <2>2
<1>5. Range(t) = Range(s) \cup {p} BY <1>1, <1>2 DEF Range
<1> QED BY <1>1, <1>4, <1>5 DEF t

LEMMA PortTaken ==
  ASSUME NEW s \in Seq(Port), IsInjective(s), s # <<>>
  PROVE  /\ Tail(s) \in Seq(Port) /\ Len(Tail(s)) = Len(s) - 1 /\ Head(s) \in Range(s)
         /\ IsInjective(Tail(s)) /\ Range(Tail(s)) = Range(s) \ {Head(s)}
<1> DEFINE t == Tail(s)
<1>1. /\ t \in Seq(Port) /\ Len(t) = Len(s) - 1 /\ Head(s) = s[1] /\ Len(s) >= 1
      /\ \A i \in 1..Len(t) : t[i] = s[i + 1]
  OBVIOUS
<1> HIDE DEF t
<1>2. DOMAIN t = 1..(Len(s) - 1) /\ DOMAIN s = 1..Len(s) /\ Len(s) \in Nat BY <1>1
<1>3. Head(s) \in Range(s) BY <1>1, <1>2 DEF Range
<1>4. IsInjective(t)
  <2> SUFFICES ASSUME NEW a \in DOMAIN t, NEW b \in DOMAIN t, t[a] = t[b] PROVE a = b
    BY DEF IsInjective
  <2>1. s[a + 1] = s[b + 1] /\ a + 1 \in DOMAIN s /\ b + 1 \in DOMAIN s BY <1>1, <1>2
  <2>2. a + 1 = b + 1 BY <2>1 DEF IsInjective
  <2> QED BY <1>2, <2>2
<1>5. ASSUME NEW x \in Range(t) PROVE x \in Range(s) \ {Head(s)}
  <2>1. PICK i \in 1..(Len(s) - 1) : t[i] = x BY <1>2 DEF Range
  <2>2. s[i + 1] = x /\ i + 1 \in DOMAIN s /\ i + 1 # 1 /\ 1 \in DOMAIN s BY <1>1, <1>2, <2>1
  <2>3. x # s[1] BY <2>2 DEF IsInjective
  <2> QED BY <1>1, <2>2, <2>3 DEF Range
<1>6. ASSUME NEW x \in Range(s) \ {Head(s)} PROVE x \in Range(t)
  <2>1. PICK i \in 1..Len(s) : s[i] = x BY <1>2 DEF Range
  <2>2. i - 1 \in DOMAIN t /\ t[i - 1] = x BY <1>1, <1>2, <1>6, <2>1
  <2> QED BY <2>2 DEF Range
<1> QED BY <1>1, <1>3, <1>4, <1>5, <1>6 DEF t

\* A port leaves the free ones and is on its way to the channel.
LEMMA FillNextStep ==
  ASSUME OnePlace, NEW j \in Port, FillNext(j)
  PROVE  OnePlace'
<1> DEFINE p == nextFreePort(j)
<1>1. /\ filling = NoPort /\ filling' = p /\ used' = used \cup ({p} \ {NoPort})
      /\ resting' = (p = NoPort) /\ UNCHANGED <<ports, asking, held>>
  BY DEF FillNext
<1>2. p \in (Port \ used) \cup {NoPort} BY FreePort
<1> HIDE DEF p
<1>3. resting' \in BOOLEAN BY <1>1
<1>4. AllocTypeOK' BY <1>1, <1>2, <1>3 DEF OnePlace, AllocTypeOK
<1>5. HeldPorts' = HeldPorts BY <1>1 DEF HeldPorts
<1>6. used = HeldPorts \cup Range(ports) BY <1>1 DEF OnePlace
<1>7. used' = HeldPorts \cup Range(ports) \cup ({filling'} \ {NoPort}) BY <1>1, <1>6
<1>8. NoPort \notin HeldPorts \cup Range(ports) BY <1>1 DEF OnePlace
<1>9. filling' \notin HeldPorts \cup Range(ports) BY <1>1, <1>2, <1>6, <1>8
<1> QED BY <1>1, <1>4, <1>5, <1>7, <1>9, Zenon DEF OnePlace

LEMMA FillSendStep ==
  ASSUME OnePlace, FillSend
  PROVE  OnePlace'
<1>1. /\ filling # NoPort /\ Len(ports) < BufSize /\ ports' = Append(ports, filling)
      /\ filling' = NoPort /\ UNCHANGED <<used, resting, asking, held>>
  BY DEF FillSend
<1>2. ports \in Seq(Port) /\ filling \in Port /\ IsInjective(ports) /\ filling \notin Range(ports)
  BY <1>1 DEF OnePlace, AllocTypeOK
<1>3. /\ ports' \in Seq(Port) /\ Len(ports') = Len(ports) + 1 /\ IsInjective(ports')
      /\ Range(ports') = Range(ports) \cup {filling}
  BY <1>1, <1>2, PortSent
<1>4. Len(ports') <= BufSize BY <1>1, <1>2, <1>3, PortSeq, AllocAssumption
<1>5. AllocTypeOK' BY <1>1, <1>3, <1>4 DEF OnePlace, AllocTypeOK
<1>6. HeldPorts' = HeldPorts BY <1>1 DEF HeldPorts
<1>7. used' = HeldPorts \cup Range(ports') \cup ({filling'} \ {NoPort})
  BY <1>1, <1>3 DEF OnePlace
<1>8. HeldPorts \cap Range(ports') = {} BY <1>3 DEF OnePlace
<1>9. NoPort \notin HeldPorts \cup Range(ports')
  <2>1. NoPort \notin Port BY AllocAssumption DEF Port
  <2> QED BY <1>3, <2>1, PortSeq DEF HeldPorts
<1> QED BY <1>1, <1>3, <1>5, <1>6, <1>7, <1>8, <1>9, Zenon DEF OnePlace

LEMMA AllocatedStep ==
  ASSUME OnePlace, NEW c \in Callers, Allocated(c), held[c] = NoPort
  PROVE  OnePlace'
<1> DEFINE p == Head(ports)
<1>1. /\ ports # <<>> /\ held' = [held EXCEPT ![c] = p] /\ ports' = Tail(ports)
      /\ asking' = asking \ {c} /\ UNCHANGED <<used, filling, resting>>
  BY DEF Allocated
<1>2. ports \in Seq(Port) /\ IsInjective(ports) /\ held \in [Callers -> Port \cup {NoPort}]
  BY DEF OnePlace, AllocTypeOK
<1>3. /\ ports' \in Seq(Port) /\ Len(ports') = Len(ports) - 1 /\ IsInjective(ports')
      /\ p \in Range(ports) /\ Range(ports') = Range(ports) \ {p}
  BY <1>1, <1>2, PortTaken
<1>4. Range(ports) \subseteq Port /\ Len(ports) \in Nat BY <1>2, PortSeq
<1> HIDE DEF p
<1>5. NoPort \notin Port BY AllocAssumption DEF Port
<1>6. AllocTypeOK'
  <2>1. Len(ports') <= BufSize BY <1>3, <1>4, AllocAssumption DEF OnePlace, AllocTypeOK
  <2> QED BY <1>1, <1>3, <1>4, <2>1 DEF OnePlace, AllocTypeOK
<1>7. held'[c] = p /\ \A d \in Callers : d # c => held'[d] = held[d] BY <1>1, <1>2
<1>8. HeldPorts' = HeldPorts \cup {p} BY <1>3, <1>4, <1>5, <1>7 DEF HeldPorts
<1>9. p \notin HeldPorts BY <1>3 DEF OnePlace
<1>10. ASSUME NEW a \in Callers, NEW b \in Callers, held'[a] = held'[b], held'[a] # NoPort
       PROVE  a = b
  <2>1. \A d \in Callers : held[d] # p BY <1>3, <1>4, <1>5, <1>9 DEF HeldPorts
  <2>2. CASE a = c BY <1>7, <1>10, <2>1, <2>2
  <2>3. CASE b = c BY <1>7, <1>10, <2>1, <2>3
  <2>4. CASE a # c /\ b # c BY <1>7, <1>10, <2>4 DEF OnePlace
  <2> QED BY <2>2, <2>3, <2>4
<1>11. used' = HeldPorts' \cup Range(ports') \cup ({filling'} \ {NoPort})
  BY <1>1, <1>3, <1>8 DEF OnePlace
<1>12. HeldPorts' \cap Range(ports') = {} BY <1>3, <1>8 DEF OnePlace
<1>13. filling' \notin HeldPorts' \cup Range(ports') BY <1>1, <1>3, <1>8 DEF OnePlace
<1> QED BY <1>3, <1>6, <1>10, <1>11, <1>12, <1>13, Zenon DEF OnePlace

LEMMA ReleaseStep ==
  ASSUME OnePlace, NEW c \in Callers, Release(c)
  PROVE  OnePlace'
<1> DEFINE p == held[c]
<1>1. /\ p # NoPort /\ used' = used \ {p} /\ held' = [held EXCEPT ![c] = NoPort]
      /\ UNCHANGED <<ports, filling, resting, asking>>
  BY DEF Release
<1>2. held \in [Callers -> Port \cup {NoPort}] BY DEF OnePlace, AllocTypeOK
<1>3. held'[c] = NoPort /\ \A d \in Callers : d # c => held'[d] = held[d] BY <1>1, <1>2
<1>4. \A d \in Callers : d # c => held[d] # p BY <1>1 DEF OnePlace
<1>5. HeldPorts' = HeldPorts \ {p} BY <1>1, <1>3, <1>4 DEF HeldPorts
<1>6. p \in HeldPorts BY <1>1 DEF HeldPorts
<1> HIDE DEF p
<1>7. AllocTypeOK' BY <1>1 DEF OnePlace, AllocTypeOK
<1>8. used' = HeldPorts' \cup Range(ports) \cup ({filling} \ {NoPort})
  BY <1>1, <1>5, <1>6 DEF OnePlace
<1>9. HeldPorts' \cap Range(ports) = {} /\ filling \notin HeldPorts' \cup Range(ports)
  BY <1>5 DEF OnePlace
<1>10. \A a, b \in Callers : held'[a] = held'[b] /\ held'[a] # NoPort => a = b
  BY <1>3 DEF OnePlace
<1> QED BY <1>1, <1>7, <1>8, <1>9, <1>10, Zenon DEF OnePlace

\* Only a caller that holds no port asks for one.
Asking == \A c \in asking : held[c] = NoPort

\* No port is given out twice and none is lost, for every size of the range, of
\* the channel and of the set of callers.
THEOREM PortsInOnePlace == AllocSpec => []OnePlace
<1>1. AllocInit => OnePlace /\ Asking
  <2> SUFFICES ASSUME AllocInit PROVE OnePlace /\ Asking OBVIOUS
  <2>1. ports \in Seq(Port) /\ Len(ports) = 0 /\ DOMAIN ports = {} BY DEF AllocInit
  <2>2. AllocTypeOK
    <3>1. resting \in BOOLEAN BY DEF AllocInit
    <3>2. Len(ports) <= BufSize BY <2>1, AllocAssumption
    <3> QED BY <2>1, <3>1, <3>2, Zenon DEF AllocInit, AllocTypeOK
  <2>3. HeldPorts = {}
    <3>1. \A c \in Callers : held[c] = NoPort BY DEF AllocInit
    <3> QED BY <3>1 DEF HeldPorts
  <2>4. Range(ports) = {} BY <2>1 DEF Range
  <2>5. IsInjective(ports) BY <2>1 DEF IsInjective
  <2> QED BY <2>2, <2>3, <2>4, <2>5 DEF AllocInit, OnePlace, Asking
<1>2. ASSUME OnePlace, Asking, AllocNext PROVE OnePlace' /\ Asking'
  <2>1. CASE \E j \in Port : FillNext(j)
    BY <1>2, <2>1, FillNextStep, Zenon DEF FillNext, Asking
  <2>2. CASE FillSend BY <1>2, <2>2, FillSendStep, Zenon DEF FillSend, Asking
  <2>3. CASE FillWakes
    BY <1>2, <2>3 DEF FillWakes, Asking, OnePlace, AllocTypeOK, HeldPorts
  <2>4. ASSUME NEW c \in Callers, AllocateNext(c) PROVE OnePlace' /\ Asking'
    BY <1>2, <2>4 DEF AllocateNext, Asking, OnePlace, AllocTypeOK, HeldPorts
  <2>5. ASSUME NEW c \in Callers, Allocated(c) PROVE OnePlace' /\ Asking'
    <3>1. held[c] = NoPort /\ held \in [Callers -> Port \cup {NoPort}] /\ asking \subseteq Callers
      BY <1>2, <2>5 DEF Allocated, Asking, OnePlace, AllocTypeOK
    <3>2. OnePlace' BY <1>2, <2>5, <3>1, AllocatedStep
    <3>3. Asking' BY <1>2, <2>5, <3>1 DEF Allocated, Asking
    <3> QED BY <3>2, <3>3
  <2>6. ASSUME NEW c \in Callers, TimesOut(c) PROVE OnePlace' /\ Asking'
    BY <1>2, <2>6 DEF TimesOut, Asking, OnePlace, AllocTypeOK, HeldPorts
  <2>7. ASSUME NEW c \in Callers, Release(c) PROVE OnePlace' /\ Asking'
    <3>1. held \in [Callers -> Port \cup {NoPort}] /\ asking \subseteq Callers
      BY <1>2 DEF OnePlace, AllocTypeOK
    <3>2. OnePlace' BY <1>2, <2>7, ReleaseStep
    <3>3. Asking' BY <1>2, <2>7, <3>1 DEF Release, Asking
    <3> QED BY <3>2, <3>3
  <2> QED BY <1>2, <2>1, <2>2, <2>3, <2>4, <2>5, <2>6, <2>7 DEF AllocNext, Fill
<1>3. OnePlace /\ Asking /\ UNCHANGED allocVars => OnePlace' /\ Asking'
  BY DEF OnePlace, Asking, AllocTypeOK, HeldPorts, allocVars
<1> QED BY <1>1, <1>2, <1>3, PTL DEF AllocSpec
-----------------------------------------------------------------------------
(***************************************************************************)
(* fullstatepipe.go.  A stage has received g, and b is in its channel.     *)
(***************************************************************************)
Numbered(g, b) == /\ g = [i \in 1..Len(g) |-> i]
                  /\ b = [i \in 1..Len(b) |-> Len(g) + i]

LEMMA SumIsNat == \A m, n \in Nat : m + n \in Nat
  OBVIOUS

LEMMA NatSeq == \A s \in Seq(Nat) : Len(s) \in Nat /\ s = [i \in 1..Len(s) |-> s[i]]
  OBVIOUS

LEMMA PlusOne == \A m, n \in Nat : m + n + 1 = m + (n + 1)
  OBVIOUS

LEMMA LastOrBefore == \A n \in Nat : \A i \in 1..(n + 1) : i \in 1..n \/ i = n + 1
  OBVIOUS

LEMMA OneLess ==
  ASSUME NEW m \in Nat, NEW n \in Nat, n > 0, NEW b, NEW t,
         \A i \in 1..n : b[i] = m + i, \A i \in 1..(n - 1) : t[i] = b[i + 1]
  PROVE  /\ \A i \in 1..(n - 1) : t[i] = (m + 1) + i
         /\ (m + 1) + (n - 1) = m + n
  OBVIOUS

\* A stage that receives from its channel goes on with the next item.
LEMMA ItemReceived ==
  ASSUME NEW g \in Seq(Nat), NEW b \in Seq(Nat), Numbered(g, b), b # <<>>
  PROVE  /\ Append(g, Head(b)) \in Seq(Nat) /\ Tail(b) \in Seq(Nat)
         /\ Numbered(Append(g, Head(b)), Tail(b))
         /\ Len(Append(g, Head(b))) + Len(Tail(b)) = Len(g) + Len(b)
<1> DEFINE h == Append(g, Head(b))
           t == Tail(b)
           m == Len(g)
           n == Len(b)
<1>1. m \in Nat /\ n \in Nat /\ n > 0 OBVIOUS
<1>2. \A i \in 1..m : g[i] = i BY DEF Numbered
<1>3. \A i \in 1..n : b[i] = m + i BY DEF Numbered
<1>4. Head(b) = m + 1 BY <1>1, <1>3
<1>5. h \in Seq(Nat) /\ Len(h) = m + 1 /\ h[m + 1] = Head(b) /\ \A i \in 1..m : h[i] = g[i]
  BY <1>1, <1>4
<1>6. t \in Seq(Nat) /\ Len(t) = n - 1 /\ \A i \in 1..(n - 1) : t[i] = b[i + 1]
  BY <1>1
<1>7. h = [i \in 1..Len(h) |-> h[i]] BY <1>5, NatSeq, Zenon
<1>8. t = [i \in 1..Len(t) |-> t[i]] BY <1>6, NatSeq, Zenon
<1> HIDE DEF h, t, m, n
<1>9. \A i \in 1..(m + 1) : h[i] = i BY <1>1, <1>2, <1>4, <1>5
<1>10. /\ \A i \in 1..(n - 1) : t[i] = (m + 1) + i
       /\ (m + 1) + (n - 1) = m + n
  BY <1>1, <1>3, <1>6, OneLess
<1>11. Numbered(h, t)
  <2>1. h = [i \in 1..Len(h) |-> i] BY <1>5, <1>7, <1>9, Zenon
  <2>2. t = [i \in 1..Len(t) |-> Len(h) + i] BY <1>5, <1>6, <1>8, <1>10, Zenon
  <2> QED BY <2>1, <2>2, Zenon DEF Numbered
<1>12. Len(h) + Len(t) = m + n BY <1>5, <1>6, <1>10, Zenon
<1> QED BY <1>5, <1>6, <1>11, <1>12 DEF h, t, m, n

\* The item after the last one sent is put in the channel.
LEMMA ItemSent ==
  ASSUME NEW g \in Seq(Nat), NEW b \in Seq(Nat), Numbered(g, b),
         NEW p \in Nat, p = Len(g) + Len(b) + 1
  PROVE  /\ Append(b, p) \in Seq(Nat) /\ Numbered(g, Append(b, p))
         /\ Len(g) + Len(Append(b, p)) = p
<1> DEFINE c == Append(b, p)
           m == Len(g)
           n == Len(b)
<1>1. m \in Nat /\ n \in Nat OBVIOUS
<1>2. \A i \in 1..n : b[i] = m + i BY DEF Numbered
<1>3. c \in Seq(Nat) /\ Len(c) = n + 1 /\ c[n + 1] = p /\ \A i \in 1..n : c[i] = b[i]
  OBVIOUS
<1>4. c = [i \in 1..Len(c) |-> c[i]] BY <1>3, NatSeq, Zenon
<1>5. p = m + n + 1 OBVIOUS
<1> HIDE DEF c, m, n
<1>6. p = m + (n + 1) BY <1>1, <1>5, PlusOne, Zenon
<1>7. \A i \in 1..(n + 1) : c[i] = m + i
  <2>1. \A i \in 1..n : c[i] = m + i BY <1>2, <1>3, Zenon
  <2>2. c[n + 1] = m + (n + 1) BY <1>3, <1>6, Zenon
  <2> QED BY <1>1, <2>1, <2>2, LastOrBefore, Zenon
<1>8. g = [i \in 1..Len(g) |-> i] BY DEF Numbered
<1>9. Numbered(g, c) BY <1>3, <1>4, <1>7, <1>8, Zenon DEF Numbered, m
<1>10. m + Len(c) = p BY <1>3, <1>6, Zenon
<1> QED BY <1>3, <1>9, <1>10 DEF c, m

LEMMA StageFacts ==
  ASSUME PipeTypeOK, NEW k \in Stages
  PROVE  /\ got[k] \in Seq(Nat) /\ buf[k] \in Seq(Nat)
         /\ Len(got[k]) \in Nat /\ Len(buf[k]) \in Nat /\ Sent(k) \in Nat
         /\ Sent(k) = Len(got[k]) + Len(buf[k])
         /\ InSequence(k) <=> Numbered(got[k], buf[k])
<1>1. got[k] \in Seq(Nat) /\ buf[k] \in Seq(Nat) BY DEF PipeTypeOK
<1>2. Len(got[k]) \in Nat /\ Len(buf[k]) \in Nat BY <1>1
<1>3. Sent(k) = Len(got[k]) + Len(buf[k]) BY DEF Sent
<1>4. Sent(k) \in Nat BY <1>2, <1>3, SumIsNat, Zenon
<1>5. InSequence(k) <=> Numbered(got[k], buf[k]) BY Zenon DEF InSequence, Numbered
<1> QED BY <1>1, <1>2, <1>3, <1>4, <1>5, Zenon

\* A step that leaves the channels alone.
LEMMA ChannelsKept ==
  ASSUME UNCHANGED <<buf, got>>, NEW k
  PROVE  Sent(k)' = Sent(k) /\ (InSequence(k) => InSequence(k)')
  BY DEF Sent, InSequence

\* The sink calls back, and Callback returns.
LEMMA CallStep ==
  ASSUME PipeInv, NEW n \in 0..NItems, Call(n)
  PROVE  PipeInv'
<1>1. /\ pc = "idle" /\ pc' = "range" /\ nitems' = n
      /\ stage' = [k \in Stages |-> IF strategy = "Sequence" THEN "off" ELSE "run"]
      /\ UNCHANGED <<strategy, item, to, buf, closed, got>>
  BY DEF Call
<1>2. \A k \in Stages : item = 0 /\ Sent(k) = 0 /\ k \notin closed
  BY <1>1 DEF PipeInv, Dispatched
<1>3. PipeTypeOK'
  <2>1. n \in Nat /\ item = 0 BY <1>2, PipeAssumption DEF Stages
  <2>2. item \in 0..n BY <2>1
  <2> QED BY <1>1, <2>1, <2>2 DEF PipeInv, PipeTypeOK
<1>4. StagesInOrder' BY <1>1 DEF StagesInOrder
<1>5. ASSUME NEW k \in Stages PROVE InSequence(k)' /\ RangedOver(k)' /\ Dispatched(k)'
  <2>1. Sent(k)' = Sent(k) /\ InSequence(k)' BY <1>1, ChannelsKept DEF PipeInv
  <2>2. RangedOver(k)' BY <1>1 DEF RangedOver
  <2>3. Dispatched(k)' BY <1>1, <1>2, <2>1 DEF Dispatched, Buffered, Untouched, Open
  <2> QED BY <2>1, <2>2, <2>3
<1> QED BY <1>3, <1>4, <1>5 DEF PipeInv

LEMMA ReturnStep ==
  ASSUME PipeInv, Return
  PROVE  PipeInv'
<1>1. /\ pc = "done" /\ pc' = "idle" /\ item' = 0 /\ to' = 1 /\ closed' = {}
      /\ got' = [k \in Stages |-> <<>>] /\ UNCHANGED <<strategy, nitems, buf, stage>>
  BY DEF Return
<1>2. ASSUME NEW k \in Stages PROVE stage[k] = "end" /\ buf[k] = <<>>
  BY <1>1 DEF PipeInv, Dispatched, Finished, RangedOver
<1>3. PipeTypeOK'
  <2>1. to' \in Stages BY <1>1, PipeAssumption DEF Stages
  <2>2. item' \in 0..nitems BY <1>1 DEF PipeInv, PipeTypeOK
  <2> QED BY <1>1, <2>1, <2>2 DEF PipeInv, PipeTypeOK
<1>4. StagesInOrder' BY <1>1 DEF PipeInv, StagesInOrder
<1>5. ASSUME NEW k \in Stages PROVE InSequence(k)' /\ RangedOver(k)' /\ Dispatched(k)'
  <2>1. got'[k] = <<>> /\ buf'[k] = <<>> BY <1>1, <1>2
  <2>2. Numbered(<<>>, <<>>) /\ Len(<<>>) + Len(<<>>) = 0 BY DEF Numbered
  <2>3. Sent(k)' = 0 BY <2>1, <2>2 DEF Sent
  <2>4. InSequence(k)' BY <2>1, <2>2 DEF InSequence, Numbered
  <2>5. RangedOver(k)' BY <1>1 DEF RangedOver
  <2>6. Dispatched(k)' BY <1>1, <1>2, <2>3 DEF Dispatched
  <2> QED BY <2>4, <2>5, <2>6
<1> QED BY <1>3, <1>4, <1>5 DEF PipeInv

\* The dispatcher ranges over the items and puts them in the channels.
LEMMA RangeItemStep ==
  ASSUME PipeInv, RangeItem
  PROVE  PipeInv'
<1>1. /\ pc = "range" /\ item < nitems /\ item' = item + 1 /\ to' = 1
      /\ pc' = IF Buffered THEN "range" ELSE "send"
      /\ UNCHANGED <<strategy, nitems, buf, closed, stage, got>>
  BY DEF RangeItem
<1>2. PipeTypeOK'
  <2>1. to' \in Stages BY <1>1, PipeAssumption DEF Stages
  <2>2. item' \in 0..nitems BY <1>1 DEF PipeInv, PipeTypeOK
  <2>3. pc' \in {"range", "send"} BY <1>1
  <2> QED BY <1>1, <2>1, <2>2, <2>3 DEF PipeInv, PipeTypeOK
<1>3. StagesInOrder' BY <1>1 DEF PipeInv, StagesInOrder
<1>4. ASSUME NEW k \in Stages PROVE InSequence(k)' /\ RangedOver(k)' /\ Dispatched(k)'
  <2>1. Sent(k)' = Sent(k) /\ InSequence(k)' BY <1>1, ChannelsKept DEF PipeInv
  <2>2. RangedOver(k)' BY <1>1 DEF PipeInv, RangedOver
  <2>3. item \in Nat /\ (item + 1) - 1 = item BY DEF PipeInv, PipeTypeOK
  <2>4. ~(k < 1) BY DEF Stages
  <2>5. ASSUME Buffered PROVE Dispatched(k)'
    <3>1. Untouched(k)' BY <1>1, <2>1, <2>5 DEF PipeInv, Dispatched, Untouched
    <3>2. pc' = "range" /\ strategy' = "Sequence" BY <1>1, <2>5 DEF Buffered
    <3> QED BY <3>1, <3>2 DEF Dispatched, Buffered
  <2>6. ASSUME ~Buffered PROVE Dispatched(k)'
    <3>1. Sent(k)' = item /\ Open(k)' BY <1>1, <2>1, <2>6 DEF PipeInv, Dispatched, Open
    <3>2. pc' = "send" /\ strategy' # "Sequence" BY <1>1, <2>6 DEF Buffered
    <3> QED BY <1>1, <2>3, <2>4, <3>1, <3>2 DEF Dispatched, Buffered
  <2> QED BY <2>1, <2>2, <2>5, <2>6, Zenon
<1> QED BY <1>2, <1>3, <1>4 DEF PipeInv

LEMMA RangeEndStep ==
  ASSUME PipeInv, RangeEnd
  PROVE  PipeInv'
<1>1. /\ pc = "range" /\ item = nitems /\ to' = 1
      /\ pc' = IF Buffered THEN "stage" ELSE "close"
      /\ UNCHANGED <<strategy, nitems, item, buf, closed, stage, got>>
  BY DEF RangeEnd
<1>2. PipeTypeOK'
  <2>1. to' \in Stages BY <1>1, PipeAssumption DEF Stages
  <2>2. pc' \in {"stage", "close"} BY <1>1
  <2> QED BY <1>1, <2>1, <2>2 DEF PipeInv, PipeTypeOK
<1>3. StagesInOrder' BY <1>1 DEF PipeInv, StagesInOrder
<1>4. ASSUME NEW k \in Stages PROVE InSequence(k)' /\ RangedOver(k)' /\ Dispatched(k)'
  <2>1. Sent(k)' = Sent(k) /\ InSequence(k)' BY <1>1, ChannelsKept DEF PipeInv
  <2>2. RangedOver(k)' BY <1>1 DEF PipeInv, RangedOver
  <2>3. ~(k < 1) /\ 0 <= item BY DEF Stages, PipeInv, PipeTypeOK
  <2>4. ASSUME Buffered PROVE Dispatched(k)'
    <3>1. Untouched(k)' BY <1>1, <2>1, <2>4 DEF PipeInv, Dispatched, Untouched
    <3>2. pc' = "stage" /\ strategy' = "Sequence" BY <1>1, <2>4 DEF Buffered
    <3> QED BY <1>1, <2>3, <3>1, <3>2 DEF Dispatched, Untouched, Buffered
  <2>5. ASSUME ~Buffered PROVE Dispatched(k)'
    <3>1. Sent(k)' = item /\ Open(k) BY <1>1, <2>1, <2>5 DEF PipeInv, Dispatched
    <3>2. pc' = "close" /\ strategy' # "Sequence" BY <1>1, <2>5 DEF Buffered
    <3> QED BY <1>1, <2>3, <3>1, <3>2 DEF Dispatched, Open, Buffered
  <2> QED BY <2>1, <2>2, <2>4, <2>5, Zenon
<1> QED BY <1>2, <1>3, <1>4 DEF PipeInv

LEMMA SendItemStep ==
  ASSUME PipeInv, SendItem
  PROVE  PipeInv'
<1>1. /\ pc = "send" /\ buf' = [buf EXCEPT ![to] = Append(buf[to], item)]
      /\ IF to < NStages THEN to' = to + 1 /\ pc' = pc ELSE to' = 1 /\ pc' = "range"
      /\ UNCHANGED <<strategy, nitems, item, closed, stage, got>>
  BY DEF SendItem
<1>2. PipeTypeOK BY DEF PipeInv
<1>3. to \in Stages /\ item \in Nat /\ nitems \in Nat BY <1>2 DEF PipeTypeOK
<1>4. ASSUME NEW k \in Stages
      PROVE  /\ strategy # "Sequence" /\ Open(k) /\ InSequence(k) /\ Sent(k) \in Nat
             /\ Sent(k) = IF k < to THEN item ELSE item - 1
  BY <1>1, <1>2, StageFacts DEF PipeInv, Dispatched, Buffered
<1>5. /\ Append(buf[to], item) \in Seq(Nat) /\ Numbered(got[to], Append(buf[to], item))
      /\ Len(got[to]) + Len(Append(buf[to], item)) = item
  <2>1. Sent(to) = item - 1 BY <1>3, <1>4 DEF Stages
  <2>2. Sent(to) + 1 = item BY <1>3, <2>1
  <2>3. item = Len(got[to]) + Len(buf[to]) + 1 BY <2>2, Zenon DEF Sent
  <2> QED BY <1>2, <1>3, <1>4, <2>3, StageFacts, ItemSent, Zenon
<1>6. /\ buf' \in [Stages -> Seq(Nat)] /\ buf'[to] = Append(buf[to], item)
      /\ \A k \in Stages : k # to => buf'[k] = buf[k]
  BY <1>1, <1>2, <1>5 DEF PipeTypeOK
<1>7. to' \in Stages /\ pc' \in {"send", "range"} BY <1>1, <1>3, PipeAssumption DEF Stages
<1>8. PipeTypeOK' BY <1>1, <1>2, <1>6, <1>7 DEF PipeTypeOK
<1>9. StagesInOrder' BY <1>1 DEF PipeInv, StagesInOrder
<1>10. ASSUME NEW k \in Stages PROVE InSequence(k)' /\ RangedOver(k)' /\ Dispatched(k)'
  <2>1. InSequence(k)' /\ Sent(k)' = IF k <= to THEN item ELSE item - 1
    <3>1. CASE k = to
      <4>1. buf'[k] = Append(buf[to], item) /\ got'[k] = got[to] BY <1>1, <1>6, <3>1
      <4>2. InSequence(k)' BY <1>5, <4>1, Zenon DEF InSequence, Numbered
      <4>3. Sent(k)' = item BY <1>5, <4>1, Zenon DEF Sent
      <4> QED BY <1>3, <3>1, <4>2, <4>3 DEF Stages
    <3>2. CASE k # to
      <4>1. InSequence(k)' BY <1>1, <1>4, <1>6, <3>2, Zenon DEF InSequence
      <4>2. Sent(k)' = Sent(k) BY <1>1, <1>6, <3>2, Zenon DEF Sent
      <4> QED BY <1>3, <1>4, <3>2, <4>1, <4>2 DEF Stages
    <3> QED BY <3>1, <3>2
  <2>2. Open(k)' /\ stage'[k] = "run" BY <1>1, <1>4 DEF Open
  <2>3. RangedOver(k)' BY <2>2 DEF RangedOver
  <2>4. strategy' # "Sequence" BY <1>1, <1>4
  <2>5. ASSUME to < NStages PROVE Dispatched(k)'
    <3>1. pc' = "send" /\ to' = to + 1 /\ item' = item BY <1>1, <2>5
    <3>2. k <= to <=> k < to + 1 BY <1>3 DEF Stages
    <3> QED BY <2>1, <2>2, <2>4, <3>1, <3>2 DEF Dispatched, Buffered
  <2>6. ASSUME ~(to < NStages) PROVE Dispatched(k)'
    <3>1. pc' = "range" /\ item' = item BY <1>1, <2>6
    <3>2. k <= to BY <1>3, <2>6, PipeAssumption DEF Stages
    <3> QED BY <2>1, <2>2, <2>4, <3>1, <3>2 DEF Dispatched, Buffered
  <2> QED BY <2>1, <2>3, <2>5, <2>6, Zenon
<1> QED BY <1>8, <1>9, <1>10 DEF PipeInv

\* The dispatcher closes the channels and waits for the stages.
LEMMA CloseStageStep ==
  ASSUME PipeInv, CloseStage
  PROVE  PipeInv'
<1>1. /\ pc = "close" /\ closed' = closed \cup {to}
      /\ IF strategy = "Parallel" /\ to < NStages THEN to' = to + 1 /\ pc' = pc
         ELSE pc' = "wait" /\ to' = IF strategy = "Parallel" THEN 1 ELSE to
      /\ UNCHANGED <<strategy, nitems, item, buf, stage, got>>
  BY DEF CloseStage
<1>2. PipeTypeOK BY DEF PipeInv
<1>3. to \in Stages BY <1>2 DEF PipeTypeOK
<1>4. to' \in Stages /\ pc' \in {"close", "wait"} BY <1>1, <1>3, PipeAssumption DEF Stages
<1>5. PipeTypeOK' BY <1>1, <1>2, <1>3, <1>4 DEF PipeTypeOK
<1>6. StagesInOrder' BY <1>1 DEF PipeInv, StagesInOrder
<1>7. ASSUME NEW k \in Stages PROVE InSequence(k)' /\ RangedOver(k)' /\ Dispatched(k)'
  <2>1. Sent(k)' = Sent(k) /\ InSequence(k)' BY <1>1, ChannelsKept DEF PipeInv
  <2>2. RangedOver(k)' BY <1>1 DEF PipeInv, RangedOver
  <2>3. /\ strategy # "Sequence" /\ item = nitems /\ Sent(k) = item /\ stage[k] # "off"
        /\ k \in closed <=> k < to
        /\ k < to /\ strategy # "Parallel" => stage[k] = "end"
    BY <1>1 DEF PipeInv, Dispatched, Buffered
  <2>4. /\ strategy' # "Sequence" /\ item' = nitems' /\ Sent(k)' = item' /\ stage'[k] # "off"
        /\ k \in closed' <=> k <= to
    BY <1>1, <1>3, <2>1, <2>3 DEF Stages
  <2>5. ASSUME strategy = "Parallel", to < NStages PROVE Dispatched(k)'
    <3>1. pc' = "close" /\ to' = to + 1 /\ strategy' = "Parallel" BY <1>1, <2>5
    <3>2. k <= to <=> k < to + 1 BY <1>3 DEF Stages
    <3> QED BY <2>4, <3>1, <3>2 DEF Dispatched, Buffered
  <2>6. ASSUME strategy = "Parallel", ~(to < NStages) PROVE Dispatched(k)'
    <3>1. pc' = "wait" /\ to' = 1 /\ strategy' = "Parallel" BY <1>1, <2>6
    <3>2. k <= to /\ ~(k < 1) BY <1>3, <2>6, PipeAssumption DEF Stages
    <3> QED BY <2>4, <3>1, <3>2 DEF Dispatched, Buffered
  <2>7. ASSUME strategy # "Parallel" PROVE Dispatched(k)'
    <3>1. pc' = "wait" /\ to' = to /\ strategy' # "Parallel" BY <1>1, <2>7
    <3>2. k <= to <=> k < to \/ k = to BY <1>3 DEF Stages
    <3>3. k < to => stage'[k] = "end" BY <1>1, <2>3, <2>7
    <3> QED BY <2>4, <3>1, <3>2, <3>3 DEF Dispatched, Buffered
  <2> QED BY <2>1, <2>2, <2>5, <2>6, <2>7, Zenon
<1> QED BY <1>5, <1>6, <1>7 DEF PipeInv

LEMMA WaitStageStep ==
  ASSUME PipeInv, WaitStage
  PROVE  PipeInv'
<1>1. /\ pc = "wait" /\ stage[to] = "end"
      /\ pc' = IF to = NStages THEN "done" ELSE IF strategy = "Parallel" THEN "wait" ELSE "close"
      /\ to' = IF to = NStages THEN to ELSE to + 1
      /\ UNCHANGED <<strategy, nitems, item, buf, closed, stage, got>>
  BY DEF WaitStage
<1>2. PipeTypeOK BY DEF PipeInv
<1>3. to \in Stages BY <1>2 DEF PipeTypeOK
<1>4. to' \in Stages /\ pc' \in {"close", "wait", "done"} BY <1>1, <1>3, PipeAssumption DEF Stages
<1>5. PipeTypeOK' BY <1>1, <1>2, <1>4 DEF PipeTypeOK
<1>6. StagesInOrder' BY <1>1 DEF PipeInv, StagesInOrder
<1>7. ASSUME NEW k \in Stages PROVE InSequence(k)' /\ RangedOver(k)' /\ Dispatched(k)'
  <2>1. Sent(k)' = Sent(k) /\ InSequence(k)' BY <1>1, ChannelsKept DEF PipeInv
  <2>2. RangedOver(k)' BY <1>1 DEF PipeInv, RangedOver
  <2>3. /\ strategy # "Sequence" /\ item = nitems /\ Sent(k) = item /\ stage[k] # "off"
        /\ k \in closed <=> k < to \/ strategy = "Parallel" \/ k = to
        /\ k < to => stage[k] = "end"
    BY <1>1 DEF PipeInv, Dispatched, Buffered
  <2>4. k <= to => stage'[k] = "end" BY <1>1, <1>3, <2>3 DEF Stages
  <2>5. /\ strategy' # "Sequence" /\ item' = nitems' /\ Sent(k)' = item' /\ stage'[k] # "off"
        /\ k \in closed' <=> k <= to \/ strategy = "Parallel"
    BY <1>1, <1>3, <2>1, <2>3 DEF Stages
  <2>6. ASSUME to = NStages PROVE Dispatched(k)'
    <3>1. pc' = "done" BY <1>1, <2>6
    <3>2. stage'[k] = "end" BY <2>4, <2>6 DEF Stages
    <3> QED BY <2>5, <3>1, <3>2 DEF Dispatched, Finished
  <2>7. ASSUME to # NStages PROVE Dispatched(k)'
    <3>1. to' = to + 1 /\ pc' = IF strategy = "Parallel" THEN "wait" ELSE "close" BY <1>1, <2>7
    <3>2. k <= to <=> k < to' BY <1>3, <3>1 DEF Stages
    <3>3. CASE strategy = "Parallel"
      <4>1. pc' = "wait" /\ strategy' = "Parallel" BY <1>1, <3>1, <3>3
      <4> QED BY <2>4, <2>5, <3>2, <3>3, <4>1 DEF Dispatched, Buffered
    <3>4. CASE strategy # "Parallel"
      <4>1. pc' = "close" /\ strategy' # "Parallel" BY <1>1, <3>1, <3>4
      <4> QED BY <2>4, <2>5, <3>2, <3>4, <4>1 DEF Dispatched, Buffered
    <3> QED BY <3>3, <3>4
  <2> QED BY <2>1, <2>2, <2>6, <2>7, Zenon
<1> QED BY <1>5, <1>6, <1>7 DEF PipeInv

\* Sequence: one stage after the other is started, fed and waited for.
LEMMA StartStageStep ==
  ASSUME PipeInv, StartStage
  PROVE  PipeInv'
<1>1. /\ pc = "stage" /\ stage[to] = "off" /\ stage' = [stage EXCEPT ![to] = "run"]
      /\ UNCHANGED <<strategy, pc, nitems, item, to, buf, closed, got>>
  BY DEF StartStage
<1>2. PipeTypeOK /\ StagesInOrder BY DEF PipeInv
<1>3. /\ to \in Stages /\ stage'[to] = "run" /\ \A k \in Stages : k # to => stage'[k] = stage[k]
      /\ stage' \in [Stages -> {"off", "run", "work", "end"}]
  BY <1>1, <1>2 DEF PipeTypeOK
<1>4. PipeTypeOK' BY <1>1, <1>2, <1>3 DEF PipeTypeOK
<1>5. StagesInOrder' BY <1>1, <1>2, <1>3 DEF StagesInOrder
<1>6. ASSUME NEW k \in Stages PROVE InSequence(k)' /\ RangedOver(k)' /\ Dispatched(k)'
  <2>1. Sent(k)' = Sent(k) /\ InSequence(k)' BY <1>1, ChannelsKept DEF PipeInv
  <2>2. RangedOver(k)' BY <1>1, <1>3 DEF PipeInv, RangedOver
  <2>3. Dispatched(k) /\ ~(to < to) BY <1>3 DEF PipeInv, Stages
  <2>4. Dispatched(k)'
    <3>1. CASE k = to
      <4>1. stage'[k] = "run" BY <1>3, <3>1
      <4> QED BY <1>1, <2>1, <2>3, <3>1, <4>1 DEF Dispatched, Buffered, Untouched
    <3>2. CASE k # to
      <4>1. stage'[k] = stage[k] BY <1>3, <3>2
      <4> QED BY <1>1, <2>1, <2>3, <3>2, <4>1 DEF Dispatched, Buffered, Untouched, Finished
    <3> QED BY <3>1, <3>2
  <2> QED BY <2>1, <2>2, <2>4
<1> QED BY <1>4, <1>5, <1>6 DEF PipeInv

LEMMA FeedStageStep ==
  ASSUME PipeInv, FeedStage
  PROVE  PipeInv'
<1>1. /\ pc = "stage" /\ stage[to] = "run" /\ to \notin closed
      /\ IF Sent(to) = item THEN closed' = closed \cup {to} /\ buf' = buf
         ELSE buf[to] = <<>> /\ buf' = [buf EXCEPT ![to] = <<Sent(to) + 1>>] /\ closed' = closed
      /\ UNCHANGED <<strategy, pc, nitems, item, to, stage, got>>
  BY DEF FeedStage, Sent
<1>2. PipeTypeOK /\ StagesInOrder BY DEF PipeInv
<1>3. to \in Stages /\ item \in Nat BY <1>2 DEF PipeTypeOK
<1>4. Sent(to) \in Nat /\ Sent(to) <= item BY <1>1, <1>2, <1>3, StageFacts DEF PipeInv, Dispatched
<1>5. StagesInOrder' BY <1>1, <1>2 DEF StagesInOrder
<1>6. CASE Sent(to) = item
  <2>1. closed' = closed \cup {to} /\ buf' = buf BY <1>1, <1>6
  <2>2. PipeTypeOK' BY <1>1, <1>2, <1>3, <2>1 DEF PipeTypeOK
  <2>3. ASSUME NEW k \in Stages PROVE InSequence(k)' /\ RangedOver(k)' /\ Dispatched(k)'
    <3>1. Sent(k)' = Sent(k) /\ InSequence(k)' BY <1>1, <2>1, ChannelsKept DEF PipeInv
    <3>2. RangedOver(k)' BY <1>1, <2>1 DEF PipeInv, RangedOver
    <3>3. Dispatched(k) /\ ~(to < to) BY <1>3 DEF PipeInv, Stages
    <3>4. Dispatched(k)'
      <4>1. CASE k = to
        <5>1. Sent(k)' = item /\ item <= item BY <1>3, <1>6, <3>1, <4>1
        <5> QED BY <1>1, <3>3, <4>1, <5>1 DEF Dispatched, Buffered
      <4>2. CASE k # to
        <5>1. k \in closed' <=> k \in closed BY <2>1, <4>2
        <5> QED BY <1>1, <3>1, <3>3, <4>2, <5>1 DEF Dispatched, Buffered, Untouched, Finished
      <4> QED BY <4>1, <4>2
    <3> QED BY <3>1, <3>2, <3>4
  <2> QED BY <1>5, <2>2, <2>3 DEF PipeInv
<1>7. CASE Sent(to) # item
  <2> DEFINE p == Sent(to) + 1
  <2>1. buf[to] = <<>> /\ buf' = [buf EXCEPT ![to] = <<p>>] /\ closed' = closed BY <1>1, <1>7
  <2>2. p \in Nat /\ p <= item BY <1>3, <1>4, <1>7
  <2>3. <<p>> = Append(buf[to], p) BY <2>1
  <2>4. p = Len(got[to]) + Len(buf[to]) + 1 BY Zenon DEF Sent
  <2> HIDE DEF p
  <2>5. /\ <<p>> \in Seq(Nat) /\ Numbered(got[to], <<p>>) /\ Len(got[to]) + Len(<<p>>) = p
    <3>1. InSequence(to) BY <1>3 DEF PipeInv
    <3>2. /\ got[to] \in Seq(Nat) /\ buf[to] \in Seq(Nat) /\ Numbered(got[to], buf[to])
      BY <1>2, <1>3, <3>1, StageFacts, Zenon
    <3>3. /\ Append(buf[to], p) \in Seq(Nat) /\ Numbered(got[to], Append(buf[to], p))
          /\ Len(got[to]) + Len(Append(buf[to], p)) = p
      BY <2>2, <2>4, <3>2, ItemSent, Zenon
    <3> QED BY <2>3, <3>3, Zenon
  <2>6. /\ buf' \in [Stages -> Seq(Nat)] /\ buf'[to] = <<p>>
        /\ \A k \in Stages : k # to => buf'[k] = buf[k]
    BY <1>2, <1>3, <2>1, <2>5 DEF PipeTypeOK
  <2>7. PipeTypeOK' BY <1>1, <1>2, <2>1, <2>6 DEF PipeTypeOK
  <2>8. ASSUME NEW k \in Stages PROVE InSequence(k)' /\ RangedOver(k)' /\ Dispatched(k)'
    <3>1. Dispatched(k) /\ RangedOver(k) /\ InSequence(k) /\ ~(to < to) BY <1>3 DEF PipeInv, Stages
    <3>2. CASE k = to
      <4>1. buf'[k] = <<p>> /\ got'[k] = got[to] BY <1>1, <2>6, <3>2
      <4>2. InSequence(k)' BY <2>5, <4>1, Zenon DEF InSequence, Numbered
      <4>3. Sent(k)' = p BY <2>5, <4>1, Zenon DEF Sent
      <4>4. RangedOver(k)' BY <1>1, <3>2 DEF RangedOver
      <4>5. k \notin closed' /\ stage'[k] = "run" BY <1>1, <2>1, <3>2
      <4>6. Dispatched(k)' BY <1>1, <2>2, <3>1, <3>2, <4>3, <4>5 DEF Dispatched, Buffered
      <4> QED BY <4>2, <4>4, <4>6
    <3>3. CASE k # to
      <4>1. buf'[k] = buf[k] /\ got' = got BY <1>1, <2>6, <3>3
      <4>2. InSequence(k)' BY <3>1, <4>1, Zenon DEF InSequence
      <4>3. Sent(k)' = Sent(k) BY <4>1, Zenon DEF Sent
      <4>4. RangedOver(k)' BY <1>1, <2>1, <3>1, <4>1 DEF RangedOver
      <4>5. Dispatched(k)'
        BY <1>1, <2>1, <3>1, <3>3, <4>3 DEF Dispatched, Buffered, Untouched, Finished
      <4> QED BY <4>2, <4>4, <4>5
    <3> QED BY <3>2, <3>3
  <2> QED BY <1>5, <2>7, <2>8 DEF PipeInv
<1> QED BY <1>6, <1>7

LEMMA StageReturnsStep ==
  ASSUME PipeInv, StageReturns
  PROVE  PipeInv'
<1>1. /\ pc = "stage" /\ stage[to] = "end"
      /\ IF to = NStages THEN pc' = "done" /\ to' = to ELSE to' = to + 1 /\ pc' = pc
      /\ UNCHANGED <<strategy, nitems, item, buf, closed, stage, got>>
  BY DEF StageReturns
<1>2. PipeTypeOK BY DEF PipeInv
<1>3. to \in Stages BY <1>2 DEF PipeTypeOK
<1>4. to' \in Stages /\ pc' \in {"stage", "done"} BY <1>1, <1>3, PipeAssumption DEF Stages
<1>5. PipeTypeOK' BY <1>1, <1>2, <1>4 DEF PipeTypeOK
<1>6. StagesInOrder' BY <1>1 DEF PipeInv, StagesInOrder
<1>7. Finished(to)
  <2>1. to \in closed BY <1>1, <1>3 DEF PipeInv, RangedOver
  <2> QED BY <1>1, <1>3, <2>1 DEF PipeInv, Dispatched, Finished
<1>8. ASSUME NEW k \in Stages PROVE InSequence(k)' /\ RangedOver(k)' /\ Dispatched(k)'
  <2>1. Sent(k)' = Sent(k) /\ InSequence(k)' BY <1>1, ChannelsKept DEF PipeInv
  <2>2. RangedOver(k)' BY <1>1 DEF PipeInv, RangedOver
  <2>3. /\ strategy = "Sequence" /\ item = nitems
        /\ k < to => Finished(k)
        /\ k > to => Untouched(k)
    BY <1>1 DEF PipeInv, Dispatched, Buffered
  <2>4. k <= to => Finished(k)' 
    <3>1. k <= to => Finished(k) BY <1>3, <1>7, <2>3 DEF Stages
    <3> QED BY <1>1, <2>1, <3>1 DEF Finished
  <2>5. k > to => Untouched(k)' BY <1>1, <2>1, <2>3 DEF Untouched
  <2>6. ASSUME to = NStages PROVE Dispatched(k)'
    <3>1. pc' = "done" /\ item' = nitems' BY <1>1, <2>3, <2>6
    <3>2. k <= to BY <2>6 DEF Stages
    <3> QED BY <2>4, <3>1, <3>2 DEF Dispatched
  <2>7. ASSUME to # NStages PROVE Dispatched(k)'
    <3>1. pc' = "stage" /\ to' = to + 1 /\ item' = nitems' /\ strategy' = "Sequence"
      BY <1>1, <2>3, <2>7
    <3>2. /\ k < to + 1 => k <= to
          /\ k = to + 1 => k > to
          /\ k > to + 1 => k > to
      BY <1>3 DEF Stages
    <3>3. k = to + 1 => Sent(k)' <= item' /\ k \notin closed'
      <4>1. item \in Nat BY <1>2 DEF PipeTypeOK
      <4> QED BY <1>1, <2>5, <3>2, <4>1 DEF Untouched
    <3> QED BY <2>4, <2>5, <3>1, <3>2, <3>3 DEF Dispatched, Buffered
  <2> QED BY <2>1, <2>2, <2>6, <2>7, Zenon
<1> QED BY <1>5, <1>6, <1>8 DEF PipeInv

\* A stage receives an item, finds its channel closed and empty, and returns.
LEMMA StageReceivesStep ==
  ASSUME PipeInv, NEW j \in Stages, StageReceives(j)
  PROVE  PipeInv'
<1>1. /\ stage[j] = "run" /\ buf[j] # <<>>
      /\ got' = [got EXCEPT ![j] = Append(got[j], Head(buf[j]))]
      /\ buf' = [buf EXCEPT ![j] = Tail(buf[j])]
      /\ UNCHANGED <<strategy, pc, nitems, item, to, closed, stage>>
  BY DEF StageReceives
<1>2. PipeTypeOK BY DEF PipeInv
<1>3. /\ Append(got[j], Head(buf[j])) \in Seq(Nat) /\ Tail(buf[j]) \in Seq(Nat)
      /\ Numbered(Append(got[j], Head(buf[j])), Tail(buf[j]))
      /\ Len(Append(got[j], Head(buf[j]))) + Len(Tail(buf[j])) = Len(got[j]) + Len(buf[j])
  <2>1. InSequence(j) BY DEF PipeInv
  <2>2. got[j] \in Seq(Nat) /\ buf[j] \in Seq(Nat) /\ Numbered(got[j], buf[j])
    BY <1>2, <2>1, StageFacts, Zenon
  <2> QED BY <1>1, <2>2, ItemReceived, Zenon
<1>4. /\ buf' \in [Stages -> Seq(Nat)] /\ buf'[j] = Tail(buf[j])
      /\ \A k \in Stages : k # j => buf'[k] = buf[k]
  BY <1>1, <1>2, <1>3 DEF PipeTypeOK
<1>5. /\ got' \in [Stages -> Seq(Nat)] /\ got'[j] = Append(got[j], Head(buf[j]))
      /\ \A k \in Stages : k # j => got'[k] = got[k]
  BY <1>1, <1>2, <1>3 DEF PipeTypeOK
<1>6. PipeTypeOK' BY <1>1, <1>2, <1>4, <1>5 DEF PipeTypeOK
<1>7. StagesInOrder' BY <1>1 DEF PipeInv, StagesInOrder
<1>8. ASSUME NEW k \in Stages PROVE InSequence(k)' /\ RangedOver(k)' /\ Dispatched(k)'
  <2>1. Dispatched(k) /\ RangedOver(k) /\ InSequence(k) BY DEF PipeInv
  <2>2. InSequence(k)' /\ Sent(k)' = Sent(k)
    <3>1. CASE k = j BY <1>3, <1>4, <1>5, <3>1, Zenon DEF InSequence, Sent, Numbered
    <3>2. CASE k # j BY <1>4, <1>5, <2>1, <3>2, Zenon DEF InSequence, Sent
    <3> QED BY <3>1, <3>2
  <2>3. RangedOver(k)' BY <1>1, <1>4, <2>1 DEF RangedOver
  <2>4. Dispatched(k)'
    BY <1>1, <2>1, <2>2 DEF Dispatched, Buffered, Untouched, Finished, Open
  <2> QED BY <2>2, <2>3, <2>4
<1> QED BY <1>6, <1>7, <1>8 DEF PipeInv

LEMMA StageDrainedStep ==
  ASSUME PipeInv, NEW j \in Stages, StageDrained(j)
  PROVE  PipeInv'
<1>1. /\ stage[j] = "run" /\ buf[j] = <<>> /\ j \in closed
      /\ stage' = [stage EXCEPT ![j] = "work"]
      /\ UNCHANGED <<strategy, pc, nitems, item, to, buf, closed, got>>
  BY DEF StageDrained
<1>2. PipeTypeOK /\ StagesInOrder BY DEF PipeInv
<1>3. /\ stage'[j] = "work" /\ \A k \in Stages : k # j => stage'[k] = stage[k]
      /\ stage' \in [Stages -> {"off", "run", "work", "end"}] /\ to \in Stages
  BY <1>1, <1>2 DEF PipeTypeOK
<1>4. PipeTypeOK' BY <1>1, <1>2, <1>3 DEF PipeTypeOK
<1>5. pc \in {"close", "wait", "stage"} /\ (strategy # "Parallel" => j = to)
  <2>1. Dispatched(j) BY DEF PipeInv
  <2> QED BY <1>1, <1>2, <1>3, <2>1
          DEF PipeTypeOK, Dispatched, Buffered, Untouched, Open, Finished, Stages
<1>6. ASSUME NEW k \in Stages, k < j, strategy # "Parallel" PROVE stage[k] = "end"
  <2>1. Dispatched(k) /\ k < to BY <1>5, <1>6 DEF PipeInv
  <2> QED BY <1>5, <1>6, <2>1 DEF Dispatched, Finished
<1>7. StagesInOrder'
  <2> SUFFICES ASSUME NEW a \in Stages, NEW b \in Stages, a < b, strategy' # "Parallel",
                      stage'[b] \in {"work", "end"}
               PROVE  stage'[a] = "end"
    BY DEF StagesInOrder
  <2>1. CASE b = j
    <3>1. a # j BY <2>1 DEF Stages
    <3> QED BY <1>1, <1>3, <1>6, <2>1, <3>1
  <2>2. CASE b # j
    <3>1. stage[a] = "end" BY <1>1, <1>2, <1>3, <2>2 DEF StagesInOrder
    <3> QED BY <1>1, <1>3, <3>1
  <2> QED BY <2>1, <2>2
<1>8. ASSUME NEW k \in Stages PROVE InSequence(k)' /\ RangedOver(k)' /\ Dispatched(k)'
  <2>1. Dispatched(k) /\ RangedOver(k) BY DEF PipeInv
  <2>2. Sent(k)' = Sent(k) /\ InSequence(k)' BY <1>1, ChannelsKept DEF PipeInv
  <2>3. RangedOver(k)' BY <1>1, <1>3, <2>1 DEF RangedOver
  <2>4. Dispatched(k)'
    <3>1. CASE k = j
      BY <1>1, <1>3, <1>5, <2>1, <2>2, <3>1 DEF Dispatched, Buffered, Untouched, Finished, Stages
    <3>2. CASE k # j
      <4>1. stage'[k] = stage[k] BY <1>3, <3>2
      <4> QED BY <1>1, <2>1, <2>2, <4>1 DEF Dispatched, Buffered, Untouched, Finished, Open
    <3> QED BY <3>1, <3>2
  <2> QED BY <2>2, <2>3, <2>4
<1> QED BY <1>4, <1>7, <1>8 DEF PipeInv

LEMMA StageEndsStep ==
  ASSUME PipeInv, NEW j \in Stages, StageEnds(j)
  PROVE  PipeInv'
<1>1. /\ stage[j] = "work" /\ stage' = [stage EXCEPT ![j] = "end"]
      /\ UNCHANGED <<strategy, pc, nitems, item, to, buf, closed, got>>
  BY DEF StageEnds
<1>2. PipeTypeOK /\ StagesInOrder BY DEF PipeInv
<1>3. /\ stage'[j] = "end" /\ \A k \in Stages : k # j => stage'[k] = stage[k]
      /\ stage' \in [Stages -> {"off", "run", "work", "end"}] /\ to \in Stages
  BY <1>1, <1>2 DEF PipeTypeOK
<1>4. PipeTypeOK' BY <1>1, <1>2, <1>3 DEF PipeTypeOK
<1>5. StagesInOrder' BY <1>1, <1>2, <1>3 DEF StagesInOrder
<1>6. ASSUME NEW k \in Stages PROVE InSequence(k)' /\ RangedOver(k)' /\ Dispatched(k)'
  <2>1. Dispatched(k) /\ RangedOver(k) BY DEF PipeInv
  <2>2. Sent(k)' = Sent(k) /\ InSequence(k)' BY <1>1, ChannelsKept DEF PipeInv
  <2>3. RangedOver(k)' BY <1>1, <1>3, <2>1 DEF RangedOver
  <2>4. Dispatched(k)'
    <3>1. CASE k = j
      BY <1>1, <1>3, <2>1, <2>2, <3>1 DEF Dispatched, Buffered, Untouched, Finished, Open
    <3>2. CASE k # j
      <4>1. stage'[k] = stage[k] BY <1>3, <3>2
      <4> QED BY <1>1, <2>1, <2>2, <4>1 DEF Dispatched, Buffered, Untouched, Finished, Open
    <3> QED BY <3>1, <3>2
  <2> QED BY <2>2, <2>3, <2>4
<1> QED BY <1>4, <1>5, <1>6 DEF PipeInv

\* Where the dispatcher is says what each stage was sent and whether it has
\* finished, for any number of stages and items and any capacity.
THEOREM PipeInvariant == PipeSpec => []PipeInv
<1>1. PipeInit => PipeInv
  <2> SUFFICES ASSUME PipeInit PROVE PipeInv OBVIOUS
  <2>1. PipeTypeOK
    <3>1. to \in Stages BY PipeAssumption DEF PipeInit, Stages
    <3> QED BY <3>1 DEF PipeInit, PipeTypeOK
  <2>2. StagesInOrder BY DEF PipeInit, StagesInOrder
  <2>3. ASSUME NEW k \in Stages PROVE InSequence(k) /\ RangedOver(k) /\ Dispatched(k)
    <3>1. got[k] = <<>> /\ buf[k] = <<>> /\ stage[k] = "off" BY DEF PipeInit
    <3>2. Numbered(<<>>, <<>>) /\ Len(<<>>) + Len(<<>>) = 0 BY DEF Numbered
    <3>3. Sent(k) = 0 BY <3>1, <3>2 DEF Sent
    <3>4. InSequence(k) BY <3>1, <3>2 DEF InSequence, Numbered
    <3>5. RangedOver(k) BY <3>1 DEF RangedOver
    <3>6. Dispatched(k) BY <3>1, <3>3 DEF PipeInit, Dispatched
    <3> QED BY <3>4, <3>5, <3>6
  <2> QED BY <2>1, <2>2, <2>3 DEF PipeInv
<1>2. PipeInv /\ [PipeNext]_pipeVars => PipeInv'
  <2> SUFFICES ASSUME PipeInv, [PipeNext]_pipeVars PROVE PipeInv' OBVIOUS
  <2>1. CASE \E n \in 0..NItems : Call(n) BY <2>1, CallStep
  <2>2. CASE Return BY <2>2, ReturnStep
  <2>3. CASE RangeItem BY <2>3, RangeItemStep
  <2>4. CASE SendItem BY <2>4, SendItemStep
  <2>5. CASE RangeEnd BY <2>5, RangeEndStep
  <2>6. CASE CloseStage BY <2>6, CloseStageStep
  <2>7. CASE WaitStage BY <2>7, WaitStageStep
  <2>8. CASE StartStage BY <2>8, StartStageStep
  <2>9. CASE FeedStage BY <2>9, FeedStageStep
  <2>10. CASE StageReturns BY <2>10, StageReturnsStep
  <2>11. CASE \E k \in Stages : StageReceives(k) BY <2>11, StageReceivesStep
  <2>12. CASE \E k \in Stages : StageDrained(k) BY <2>12, StageDrainedStep
  <2>13. CASE \E k \in Stages : StageEnds(k) BY <2>13, StageEndsStep
  <2>14. CASE UNCHANGED pipeVars
    BY <2>14 DEF pipeVars, PipeInv, PipeTypeOK, StagesInOrder, InSequence, RangedOver,
                 Dispatched, Sent, Untouched, Finished, Open, Buffered
  <2> QED
    BY <2>1, <2>2, <2>3, <2>4, <2>5, <2>6, <2>7, <2>8, <2>9, <2>10, <2>11, <2>12, <2>13, <2>14,
       Zenon
       DEF PipeNext, Dispatch, StageStep
<1> QED BY <1>1, <1>2, PTL DEF PipeSpec

\* When Callback is done every stage has received every item in order and has
\* returned.
THEOREM DoneIsServed == PipeSpec => []DoneMeansServed
<1>1. PipeInv => DoneMeansServed
  <2> SUFFICES ASSUME PipeInv, pc = "done", NEW k \in Stages
               PROVE  stage[k] = "end" /\ got[k] = [i \in 1..nitems |-> i]
    BY DEF DoneMeansServed
  <2>1. stage[k] = "end" /\ Sent(k) = nitems BY DEF PipeInv, Dispatched, Finished
  <2>2. buf[k] = <<>> BY <2>1 DEF PipeInv, RangedOver
  <2>3. got[k] \in Seq(Nat) BY DEF PipeInv, PipeTypeOK
  <2>4. Len(got[k]) = nitems BY <2>1, <2>2, <2>3 DEF Sent
  <2>5. got[k] = [i \in 1..Len(got[k]) |-> i] BY DEF PipeInv, InSequence
  <2> QED BY <2>1, <2>4, <2>5, Zenon
<1> QED BY <1>1, PipeInvariant, PTL

\* With the two sequential strategies no stage works before the stage ahead of it
\* has returned.
THEOREM StagesWorkInOrder == PipeSpec => []StagesInOrder
<1>1. PipeInv => StagesInOrder BY DEF PipeInv
<1> QED BY <1>1, PipeInvariant, PTL

=============================================================================
