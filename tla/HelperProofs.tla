------------------------------ MODULE HelperProofs ------------------------------
(***************************************************************************)
(* The helpers the client and the backends share.  For every set of keys   *)
(* and values, a diffstore of leaves answers with the difference of the    *)
(* two rounds; for every interval, burst and duration, the bounded         *)
(* frequency runner starts neither too often nor too seldom.               *)
(***************************************************************************)
EXTENDS FrequencyRunner, DiffStoreItems, TLAPS

-----------------------------------------------------------------------------
(***************************************************************************)
(* client/diffstore.                                                       *)
(***************************************************************************)
LEMMA ItemsInitInv == ItemsInit => ItemsInv
  BY DEF ItemsInit, ItemsInv, ItemOk

LEMMA LeafSetLeaf ==
  ASSUME NEW leaf \in ItemLeaf, NEW v \in ItemVals
  PROVE  /\ LeafSet(leaf, v) \in ItemLeaf /\ LeafSet(leaf, v).value = v
         /\ LeafSet(leaf, v).hash >= leaf.hash
         /\ leaf.hash >= 1 => LeafSet(leaf, v).hash > 1
         /\ LeafSet(leaf, v).hash = leaf.hash => leaf.value = v
  BY DEF LeafSet, ItemLeaf

LEMMA GetSetStep ==
  ASSUME ItemsInv, NEW k \in ItemKeys, NEW v \in ItemVals, GetSet(k, v)
  PROVE  ItemsInv'
<1> DEFINE item == IF items[k] = NoItem THEN NewItem ELSE items[k]
           new == [item EXCEPT !.touched = TRUE, !.leaf = LeafSet(item.leaf, v)]
<1>1. NewItem \in StoreItem BY DEF NewItem, NewLeaf, StoreItem, ItemLeaf
<1>2. item \in StoreItem BY <1>1 DEF ItemsInv
<1>3. /\ items' = [items EXCEPT ![k] = new] /\ UNCHANGED <<itemsDone, itemsLast>> /\ ~itemsDone
      /\ itemsNow' = [x \in DOMAIN itemsNow \cup {k} |-> IF x = k THEN v ELSE itemsNow[x]]
  BY DEF GetSet
<1>4. item.leaf.hash >= 1
  <2>1. ItemOk(k) BY DEF ItemsInv
  <2>2. CASE items[k] = NoItem BY <2>2 DEF NewItem, NewLeaf
  <2>3. CASE items[k] # NoItem
    <3>1. items[k].leaf.hash \in Nat BY <2>3, <1>2 DEF StoreItem, ItemLeaf
    <3> QED BY <2>1, <2>3, <3>1 DEF ItemOk
  <2> QED BY <2>2, <2>3
<1>5. ItemOk(k) /\ (items[k] = NoItem => item = NewItem) /\ (items[k] # NoItem => item = items[k])
  BY DEF ItemsInv
<1> HIDE DEF item
<1>6. /\ item.leaf \in ItemLeaf /\ LeafSet(item.leaf, v) \in ItemLeaf
      /\ LeafSet(item.leaf, v).value = v /\ LeafSet(item.leaf, v).hash >= item.leaf.hash
      /\ LeafSet(item.leaf, v).hash > 1
      /\ LeafSet(item.leaf, v).hash = item.leaf.hash => item.leaf.value = v
  BY <1>2, <1>4, LeafSetLeaf DEF StoreItem
<1>7. /\ new \in StoreItem /\ new.touched /\ new.leaf = LeafSet(item.leaf, v)
      /\ new.previousHash = item.previousHash /\ new.currentHash = item.currentHash
  BY <1>2, <1>6 DEF StoreItem
<1> HIDE DEF new
<1>8. items' \in [ItemKeys -> StoreItem \cup {NoItem}] BY <1>3, <1>7 DEF ItemsInv
<1>9. DOMAIN itemsNow' = DOMAIN itemsNow \cup {k} /\ itemsNow'[k] = v BY <1>3
<1>10. items'[k] = new /\ items'[k] # NoItem BY <1>3, <1>7, ItemAssumption DEF ItemsInv
<1>11. ItemOk(k)'
  <2>1. CASE items[k] = NoItem
    <3>1. item.previousHash = 0 /\ item.currentHash = 0 /\ k \notin DOMAIN itemsLast
      BY <1>5, <2>1 DEF ItemOk, NewItem
    <3> QED BY <1>2, <1>3, <1>6, <1>7, <1>9, <1>10, <3>1 DEF ItemOk, ItemLeaf
  <2>2. CASE items[k] # NoItem
    <3>1. /\ item.previousHash # 0 <=> k \in DOMAIN itemsLast
          /\ item.previousHash <= item.leaf.hash /\ item.currentHash = 0
          /\ k \in DOMAIN itemsLast /\ item.leaf.hash = item.previousHash
                => item.leaf.value = itemsLast[k]
      BY <1>3, <1>5, <2>2 DEF ItemOk
    <3>2. item.previousHash \in Nat /\ item.leaf.hash \in Nat /\ LeafSet(item.leaf, v).hash \in Nat
      BY <1>2, <1>6 DEF StoreItem, ItemLeaf
    <3> QED BY <1>3, <1>6, <1>7, <1>9, <1>10, <3>1, <3>2 DEF ItemOk
  <2> QED BY <2>1, <2>2
<1>12. ASSUME NEW x \in ItemKeys, x # k PROVE ItemOk(x)'
  <2>1. ItemOk(x) /\ items'[x] = items[x] BY <1>3, <1>12 DEF ItemsInv
  <2>2. (x \in DOMAIN itemsNow' <=> x \in DOMAIN itemsNow)
        /\ (x \in DOMAIN itemsNow => itemsNow'[x] = itemsNow[x])
    BY <1>3, <1>9, <1>12
  <2> QED BY <1>3, <2>1, <2>2 DEF ItemOk
<1> QED BY <1>3, <1>8, <1>9, <1>11, <1>12 DEF ItemsInv

LEMMA DoneStep ==
  ASSUME ItemsInv, Done
  PROVE  ItemsInv'
<1>1. UNCHANGED <<itemsLast, itemsNow>> /\ itemsDone' = TRUE /\ ~itemsDone BY DEF Done
<1>2. ASSUME NEW k \in ItemKeys PROVE items'[k] \in StoreItem \cup {NoItem} /\ ItemOk(k)'
  <2>1. ItemOk(k) /\ items[k] \in StoreItem \cup {NoItem} BY DEF ItemsInv
  <2>2. CASE items[k] = NoItem
    <3>1. items'[k] = NoItem BY <2>2 DEF Done
    <3> QED BY <1>1, <2>1, <2>2, <3>1 DEF ItemOk
  <2>3. CASE items[k] # NoItem /\ ~items[k].touched
    <3>1. items'[k] = items[k] BY <2>3 DEF Done
    <3> QED BY <1>1, <2>1, <2>3, <3>1 DEF ItemOk
  <2>4. CASE items[k] # NoItem /\ items[k].touched
    <3> DEFINE i == items[k]
               new == [i EXCEPT !.currentHash = i.leaf.hash]
    <3>1. items'[k] = new BY <2>4 DEF Done
    <3>2. i \in StoreItem BY <2>1, <2>4
    <3>3. /\ new \in StoreItem /\ new # NoItem /\ new.touched = i.touched /\ new.leaf = i.leaf
          /\ new.previousHash = i.previousHash /\ new.currentHash = i.leaf.hash
      BY <3>2, ItemAssumption DEF StoreItem, ItemLeaf
    <3> HIDE DEF new
    <3> QED BY <1>1, <2>1, <2>4, <3>1, <3>3 DEF ItemOk
  <2> QED BY <2>2, <2>3, <2>4
<1>3. DOMAIN items' = ItemKeys /\ items' \in [ItemKeys -> StoreItem \cup {NoItem}]
  BY <1>2 DEF Done
<1> QED BY <1>1, <1>2, <1>3 DEF ItemsInv

LEMMA ResetStoreStep ==
  ASSUME ItemsInv, ResetStore
  PROVE  ItemsInv'
<1>1. /\ itemsDone /\ itemsDone' = FALSE /\ itemsLast' = itemsNow
      /\ DOMAIN itemsNow' = {}
  BY DEF ResetStore
<1>2. ASSUME NEW k \in ItemKeys PROVE items'[k] \in StoreItem \cup {NoItem} /\ ItemOk(k)'
  <2>1. ItemOk(k) /\ items[k] \in StoreItem \cup {NoItem} BY DEF ItemsInv
  <2>2. CASE items[k] = NoItem
    <3>1. items'[k] = NoItem BY <2>2 DEF ResetStore
    <3> QED BY <1>1, <2>1, <2>2, <3>1 DEF ItemOk
  <2>3. CASE items[k] # NoItem
    <3> DEFINE i == items[k]
               new == [i EXCEPT !.previousHash = i.currentHash, !.currentHash = 0, !.touched = FALSE]
    <3>1. items'[k] = ResetItem(i) BY <2>3 DEF ResetStore
    <3>2. i \in StoreItem BY <2>1, <2>3
    <3>3. /\ new \in StoreItem /\ new # NoItem /\ ~new.touched /\ new.leaf = i.leaf
          /\ new.previousHash = i.currentHash /\ new.currentHash = 0
      <4> HIDE DEF i
      <4>1. new \in StoreItem BY <3>2 DEF StoreItem
      <4>2. ~new.touched BY <3>2 DEF StoreItem
      <4>3. new.leaf = i.leaf /\ new.previousHash = i.currentHash /\ new.currentHash = 0
        BY <3>2 DEF StoreItem
      <4> HIDE DEF new
      <4> QED BY <4>1, <4>2, <4>3, ItemAssumption
    <3>4. i.leaf.hash \in Nat BY <3>2 DEF StoreItem, ItemLeaf
    <3>5. CASE i.previousHash = 0 /\ ~i.touched
      <4>1. items'[k] = NoItem BY <3>1, <3>5 DEF ResetItem
      <4> QED BY <1>1, <2>1, <2>3, <3>5, <4>1 DEF ItemOk
    <3>6. CASE ~(i.previousHash = 0 /\ ~i.touched)
      <4>1. items'[k] = new BY <3>1, <3>6 DEF ResetItem
      <4> HIDE DEF new
      <4> QED BY <1>1, <2>1, <2>3, <3>3, <3>4, <4>1 DEF ItemOk
    <3> QED BY <3>5, <3>6
  <2> QED BY <2>2, <2>3
<1>3. DOMAIN items' = ItemKeys /\ items' \in [ItemKeys -> StoreItem \cup {NoItem}]
  BY <1>2 DEF ResetStore
<1> QED BY <1>1, <1>2, <1>3 DEF ItemsInv

\* The items of a diffstore always tell which keys this round and the last one set.
THEOREM ItemsInvariant == ItemsSpec => []ItemsInv
<1>1. ItemsInv /\ UNCHANGED itemsVars => ItemsInv'
  BY DEF ItemsInv, ItemOk, itemsVars
<1>2. ItemsInv /\ [ItemsNext]_itemsVars => ItemsInv'
  BY <1>1, GetSetStep, DoneStep, ResetStoreStep DEF ItemsNext
<1> QED BY <1>2, ItemsInitInv, PTL DEF ItemsSpec

\* After Done, the diffstore reports as created, changed and deleted what the
\* difference of the two rounds is, and a deleted leaf has the last round's value.
THEOREM DiffsAlwaysExact == ItemsSpec => []DiffsExact
<1>1. ASSUME ItemsInv PROVE DiffsExact
  <2> SUFFICES ASSUME itemsDone
               PROVE  /\ \A k \in ItemKeys :
                           /\ items[k] # NoItem /\ ItemDeleted(items[k])
                                 <=> k \in D!Deleted(itemsLast, itemsNow)
                           /\ k \in D!Deleted(itemsLast, itemsNow) => items[k].leaf.value = itemsLast[k]
                           /\ items[k] # NoItem /\ ItemCreated(items[k])
                                 <=> k \in D!Created(itemsLast, itemsNow)
                           /\ k \in D!Changed(itemsLast, itemsNow)
                                 => /\ items[k] # NoItem
                                    /\ ItemCreated(items[k]) \/ ItemUpdated(items[k])
                      /\ DOMAIN itemsLast \subseteq ItemKeys /\ DOMAIN itemsNow \subseteq ItemKeys
    BY DEF DiffsExact, Present, D!Deleted, D!Created, D!Changed
  <2>1. ASSUME NEW k \in ItemKeys
        PROVE  /\ items[k] # NoItem /\ ItemDeleted(items[k])
                     <=> k \in D!Deleted(itemsLast, itemsNow)
               /\ k \in D!Deleted(itemsLast, itemsNow) => items[k].leaf.value = itemsLast[k]
               /\ items[k] # NoItem /\ ItemCreated(items[k])
                     <=> k \in D!Created(itemsLast, itemsNow)
               /\ k \in D!Changed(itemsLast, itemsNow)
                     => /\ items[k] # NoItem
                        /\ ItemCreated(items[k]) \/ ItemUpdated(items[k])
    <3>1. ItemOk(k) BY <1>1 DEF ItemsInv
    <3>2. CASE items[k] = NoItem
      BY <3>1, <3>2 DEF ItemOk, D!Deleted, D!Created, D!Changed
    <3>3. CASE items[k] # NoItem
      <4>1. k \in D!Deleted(itemsLast, itemsNow) => items[k].leaf.value = itemsLast[k]
        BY <3>1, <3>3 DEF ItemOk, D!Deleted
      <4>2. ItemDeleted(items[k]) <=> k \in D!Deleted(itemsLast, itemsNow)
        BY <3>1, <3>3 DEF ItemOk, ItemDeleted, D!Deleted
      <4>3. ItemCreated(items[k]) <=> k \in D!Created(itemsLast, itemsNow)
        BY <3>1, <3>3 DEF ItemOk, ItemCreated, D!Created
      <4>4. k \in D!Changed(itemsLast, itemsNow) => ItemCreated(items[k]) \/ ItemUpdated(items[k])
        BY <3>1, <3>3 DEF ItemOk, ItemCreated, ItemUpdated, D!Created, D!Changed
      <4> QED BY <3>3, <4>1, <4>2, <4>3, <4>4
    <3> QED BY <3>2, <3>3
  <2> QED BY <1>1, <2>1 DEF ItemsInv
<1> QED BY <1>1, ItemsInvariant, PTL

-----------------------------------------------------------------------------
(***************************************************************************)
(* bounded_frequency_runner.go.                                            *)
(***************************************************************************)
LEMMA Intervals ==
  /\ MinInterval \in Nat /\ MinInterval >= 1 /\ MaxInterval \in Nat /\ MaxInterval >= MinInterval
  /\ MaxFn \in Nat /\ Cap \in Nat /\ Cap = MaxInterval + MaxFn + 1
  /\ BurstRuns * MinInterval \in Nat /\ BurstRuns * MinInterval >= MinInterval
  /\ BurstRuns = 1 => BurstRuns * MinInterval = MinInterval
<1>1. ASSUME NEW a \in Nat \ {0}, NEW b \in Nat \ {0}
      PROVE  b * a \in Nat /\ b * a >= a /\ (b = 1 => b * a = a)
  OBVIOUS
<1> QED BY <1>1, RunnerAssumption DEF Cap

LEMMA RunnerInitInv == RunnerInit => RunnerInv
<1> SUFFICES ASSUME RunnerInit PROVE RunnerInv OBVIOUS
<1>1. RunnerTypeOK
  <2>1. /\ MaxInterval \in Int /\ BurstRuns * MinInterval \in 0..(BurstRuns * MinInterval)
        /\ Cap \in 0..Cap
    BY Intervals
  <2> QED BY <2>1, Zenon DEF RunnerInit, RunnerTypeOK
<1>2. Clocks BY Intervals, RunnerAssumption DEF RunnerInit, Clocks, MayRun, Idle
<1>3. WakesUp BY Intervals DEF RunnerInit, WakesUp, Idle
<1>4. RunsOften /\ RunIsAnswered BY Intervals DEF RunnerInit, RunsOften, RunIsAnswered
<1>5. RetryWakes /\ RetryIsKept BY Zenon DEF RunnerInit, RetryWakes, RetryIsKept
<1> QED BY <1>1, <1>2, <1>3, <1>4, <1>5 DEF RunnerInv

LEMMA RunStep == RunnerInv /\ Run => RunnerInv'
<1> SUFFICES ASSUME RunnerInv, Run PROVE RunnerInv' OBVIOUS
<1>1. UNCHANGED <<retry, tick, armed, next, retryTime, tokens, since, fn, due, started>>
      /\ run' = TRUE /\ asked' \in {asked, 0}
  BY DEF Run
<1>2. RunnerTypeOK' BY <1>1, Intervals DEF RunnerInv, RunnerTypeOK
<1>3. Clocks' BY <1>1 DEF RunnerInv, RunnerTypeOK, Clocks, MayRun, Idle
<1>4. WakesUp' BY <1>1 DEF RunnerInv, WakesUp, Idle
<1>5. RunsOften' /\ RunIsAnswered'
  BY <1>1, Intervals DEF RunnerInv, RunsOften, RunIsAnswered, Idle
<1>6. RetryWakes' /\ RetryIsKept' BY <1>1, Zenon DEF RunnerInv, RetryWakes, RetryIsKept, Idle
<1> QED BY <1>2, <1>3, <1>4, <1>5, <1>6 DEF RunnerInv

LEMMA RetryAfterStep == ASSUME NEW d \in Delays, RunnerInv, RetryAfter(d) PROVE RunnerInv'
<1>1. UNCHANGED <<run, tick, armed, next, tokens, since, fn, asked, started>>
  BY DEF RetryAfter
<1>2. d \in Int BY RunnerAssumption
<1>3. retry' \in BOOLEAN BY Zenon DEF RunnerInv, RunnerTypeOK, RetryAfter
<1>4. retryTime' \in Int \cup {Never} /\ due' \in Int \cup {Never}
  BY <1>2 DEF RunnerInv, RunnerTypeOK, RetryAfter
<1>5. RunnerTypeOK' BY <1>1, <1>3, <1>4 DEF RunnerInv, RunnerTypeOK
<1>6. Clocks' /\ WakesUp' /\ RunsOften' /\ RunIsAnswered'
  BY <1>1 DEF RunnerInv, Clocks, WakesUp, RunsOften, RunIsAnswered, MayRun, Idle
<1>7. d # Never BY <1>2, RunnerAssumption
<1>8. /\ Idle => tick \/ armed
      /\ retryTime' # Never => retry'
  BY <1>1, Zenon DEF RunnerInv, RetryWakes, RetryAfter
<1>9. \/ retry' /\ retryTime' # Never /\ retryTime' <= due'
      \/ due # Never /\ due' = due /\ ~(retry /\ retryTime # Never /\ retryTime <= due)
  <2>1. CASE retryTime # Never /\ retryTime < d
    <3>1. retry' = retry /\ retryTime' = retryTime /\ retry
      BY <2>1, Zenon DEF RetryAfter, RunnerInv, RetryWakes
    <3>2. CASE due # Never /\ due < d
      <4>1. due' = due BY <3>2 DEF RetryAfter
      <4> QED BY <2>1, <3>1, <3>2, <4>1, Zenon
    <3>3. CASE ~(due # Never /\ due < d)
      <4>1. due' = d BY <3>3 DEF RetryAfter
      <4>2. retryTime <= d BY <1>2, <2>1 DEF RunnerInv, RunnerTypeOK
      <4> QED BY <2>1, <3>1, <4>1, <4>2, Zenon
    <3> QED BY <3>2, <3>3
  <2>2. CASE ~(retryTime # Never /\ retryTime < d)
    <3>1. retry' = TRUE /\ retryTime' = d BY <2>2 DEF RetryAfter
    <3>2. CASE due # Never /\ due < d
      <4>1. due' = due BY <3>2 DEF RetryAfter
      <4>2. ~(retryTime # Never /\ retryTime <= due)
        BY <1>2, <2>2, <3>2 DEF RunnerInv, RunnerTypeOK
      <4> QED BY <3>2, <4>1, <4>2, Zenon
    <3>3. CASE ~(due # Never /\ due < d)
      <4>1. due' = d /\ d <= d BY <1>2, <3>3 DEF RetryAfter
      <4> QED BY <1>7, <3>1, <4>1, Zenon
    <3> QED BY <3>2, <3>3
  <2> QED BY <2>1, <2>2
<1>10. RetryWakes' BY <1>1, <1>8, <1>9, Zenon DEF RunnerInv, RetryWakes, Idle
<1>11. RetryIsKept'
  <2>1. d >= 0 BY RunnerAssumption
  <2>2. due' = d \/ (due # Never /\ due' = due) BY DEF RetryAfter
  <2>3. ~(d < 0) BY <1>2, <2>1
  <2> QED BY <1>1, <2>2, <2>3, Zenon DEF RunnerInv, RetryIsKept, Idle
<1> QED BY <1>5, <1>6, <1>10, <1>11 DEF RunnerInv

\* A run starts.
LEMMA StartsStep ==
  ASSUME RunnerInv, Idle, MayRun, Starts, UNCHANGED <<retry, retryTime>>,
         run' \in BOOLEAN, tick' \in BOOLEAN
  PROVE  RunnerInv'
<1>1. /\ fn' = 0 /\ tokens' = tokens - MinInterval /\ asked' = Never /\ due' = Never
      /\ started' = 0 /\ UNCHANGED <<armed, next, since>>
  BY DEF Starts
<1>2. fn' # Never BY <1>1, RunnerAssumption
<1>3. tokens' \in 0..(BurstRuns * MinInterval) /\ (BurstRuns = 1 => tokens' <= 0)
  BY <1>1, Intervals DEF RunnerInv, RunnerTypeOK, MayRun
<1>4. RunnerTypeOK' BY <1>1, <1>3, Intervals DEF RunnerInv, RunnerTypeOK
<1>5. Clocks' BY <1>1, <1>2, <1>3 DEF Clocks, Idle
<1>6. WakesUp' BY <1>1, <1>2 DEF RunnerInv, WakesUp, Idle
<1>7. RunsOften' /\ RunIsAnswered' BY <1>1, <1>2 DEF RunsOften, RunIsAnswered, Idle
<1>8. RetryWakes' /\ RetryIsKept'
  BY <1>1, <1>2, Zenon DEF RunnerInv, RetryWakes, RetryIsKept, Idle
<1> QED BY <1>4, <1>5, <1>6, <1>7, <1>8 DEF RunnerInv

LEMMA TimerIsSet ==
  ASSUME NEW d \in Int, NEW pending \in BOOLEAN, TimerReset(d, pending)
  PROVE  /\ next' = d /\ armed' \in BOOLEAN /\ tick' \in BOOLEAN
         /\ tick' \/ armed'
         /\ armed' => next' >= 1
         /\ pending => tick'
<1>1. next' = d /\ armed' = (d > 0) /\ tick' = (pending \/ d <= 0) BY DEF TimerReset
<1>2. CASE d > 0
  <2>1. d >= 1 /\ ~(d <= 0) BY <1>2
  <2>2. armed' = TRUE /\ tick' = pending BY <1>1, <1>2, <2>1, Zenon
  <2> QED BY <1>1, <2>1, <2>2, Zenon
<1>3. CASE d <= 0
  <2>1. ~(d > 0) BY <1>3
  <2>2. (d > 0) = FALSE BY <2>1
  <2>3. armed' = FALSE BY <1>1, <2>2, Zenon
  <2>4. tick' = TRUE BY <1>1, <1>3, Zenon
  <2> QED BY <1>1, <2>3, <2>4, Zenon
<1> QED BY <1>2, <1>3

\* The bucket is empty: the timer is set for when it surely is not.
LEMMA NotYetStep ==
  ASSUME RunnerInv, Idle, ~MayRun, NEW pending \in BOOLEAN, NotYet(pending),
         UNCHANGED <<retry, retryTime>>, run' \in BOOLEAN
  PROVE  RunnerInv'
<1> DEFINE d == IF MinInterval - since < next THEN MinInterval - since ELSE next
<1>1. /\ next' = d /\ UNCHANGED <<fn, tokens, since, asked, due, started>>
      /\ TimerReset(d, pending)
  BY DEF NotYet, TimerReset
<1>2. d \in Int /\ d <= MinInterval - since BY Intervals DEF RunnerInv, RunnerTypeOK
<1> HIDE DEF d
<1>3. since \in Int /\ since < Cap BY Intervals DEF RunnerInv, RunnerTypeOK, Clocks, MayRun
<1>4. RunnerTypeOK'
  <2>1. armed' \in BOOLEAN /\ tick' \in BOOLEAN BY <1>1, <1>2, TimerIsSet
  <2> QED BY <1>1, <1>2, <2>1, Zenon DEF RunnerInv, RunnerTypeOK
<1>5. Clocks' BY <1>1 DEF RunnerInv, Clocks, MayRun, Idle
<1>6. (tick' \/ armed') /\ (armed' => next' >= 1) BY <1>1, <1>2, TimerIsSet
<1>7. next' <= MinInterval - since' /\ next' <= MaxInterval - since' BY <1>1, <1>2, <1>3, Intervals
<1>8. WakesUp' BY <1>1, <1>6, <1>7 DEF WakesUp, Idle
<1>9. RunsOften' /\ RunIsAnswered' BY <1>1 DEF RunnerInv, RunsOften, RunIsAnswered, Idle
<1>10. RetryWakes' BY <1>1, <1>6, <1>7, Zenon DEF RunnerInv, RetryWakes, Idle
<1>11. RetryIsKept' BY <1>1, Zenon DEF RunnerInv, RetryIsKept, Idle
<1> QED BY <1>4, <1>5, <1>8, <1>9, <1>10, <1>11 DEF RunnerInv

LEMMA tryRunStep ==
  ASSUME RunnerInv, Idle, NEW pending \in BOOLEAN, tryRun(pending),
         UNCHANGED <<retry, retryTime>>, run' \in BOOLEAN
  PROVE  RunnerInv'
  BY StartsStep, NotYetStep, Zenon DEF tryRun

LEMMA OnTimerStep == RunnerInv /\ OnTimer => RunnerInv'
<1> SUFFICES ASSUME RunnerInv, OnTimer PROVE RunnerInv' OBVIOUS
<1>1. run' \in BOOLEAN BY Zenon DEF OnTimer, RunnerInv, RunnerTypeOK
<1> QED BY <1>1, tryRunStep, Zenon DEF OnTimer

LEMMA OnRunStep == RunnerInv /\ OnRun => RunnerInv'
<1> SUFFICES ASSUME RunnerInv, OnRun PROVE RunnerInv' OBVIOUS
<1>1. run' \in BOOLEAN /\ tick \in BOOLEAN BY Zenon DEF OnRun, RunnerInv, RunnerTypeOK
<1> QED BY <1>1, tryRunStep, Zenon DEF OnRun

\* doRetry sets the timer for an earlier time, or leaves it alone.
LEMMA doRetryStep == RunnerInv /\ doRetry => RunnerInv'
<1> SUFFICES ASSUME RunnerInv, doRetry PROVE RunnerInv' OBVIOUS
<1>1. /\ Idle /\ retry' = FALSE /\ retryTime' = Never
      /\ UNCHANGED <<run, tokens, since, fn, asked, due, started>>
  BY DEF doRetry
<1>2. CASE ~(retryTime # Never /\ retryTime < next) /\ UNCHANGED <<tick, armed, next>>
  <2>1. RunnerTypeOK' BY <1>1, <1>2, Zenon DEF RunnerInv, RunnerTypeOK
  <2>2. Clocks' /\ WakesUp' /\ RunsOften' /\ RunIsAnswered'
    BY <1>1, <1>2 DEF RunnerInv, Clocks, WakesUp, RunsOften, RunIsAnswered, MayRun, Idle
  <2>3. RetryIsKept' BY <1>1, Zenon DEF RunnerInv, RetryIsKept, Idle
  <2>4. retryTime # Never /\ retryTime <= due /\ due # Never => next <= due
    BY <1>2 DEF RunnerInv, RunnerTypeOK
  <2>5. RetryWakes' BY <1>1, <1>2, <2>4, Zenon DEF RunnerInv, RetryWakes, Idle
  <2> QED BY <2>1, <2>2, <2>3, <2>5 DEF RunnerInv
<1>3. CASE retryTime # Never /\ retryTime < next /\ TimerReset(retryTime, tick)
  <2>1. retryTime \in Int /\ next \in Int BY <1>3 DEF RunnerInv, RunnerTypeOK
  <2>2. tick \in BOOLEAN BY DEF RunnerInv, RunnerTypeOK
  <2>3. /\ next' = retryTime /\ armed' \in BOOLEAN /\ tick' \in BOOLEAN
        /\ (tick' \/ armed') /\ (armed' => next' >= 1) /\ (tick => tick')
    BY <1>3, <2>1, <2>2, TimerIsSet, Zenon
  <2>4. RunnerTypeOK' BY <1>1, <2>1, <2>3, Zenon DEF RunnerInv, RunnerTypeOK
  <2>5. Clocks' /\ RunsOften' /\ RunIsAnswered'
    BY <1>1 DEF RunnerInv, Clocks, RunsOften, RunIsAnswered, MayRun, Idle
  <2>6. since \in Int /\ next' < next BY <1>3, <2>3 DEF RunnerInv, RunnerTypeOK
  <2>7. /\ next <= MinInterval - since => next' <= MinInterval - since
        /\ next <= MaxInterval - since => next' <= MaxInterval - since
    BY <2>1, <2>3, <2>6, Intervals
  <2>8. WakesUp' BY <1>1, <2>3, <2>7, Zenon DEF RunnerInv, WakesUp, Idle
  <2>9. RetryIsKept' BY <1>1, Zenon DEF RunnerInv, RetryIsKept, Idle
  <2>10. due # Never /\ next <= due => next' <= due
    BY <2>1, <2>3, <2>6 DEF RunnerInv, RunnerTypeOK
  <2>11. RetryWakes'
    BY <1>1, <2>3, <2>7, <2>10, Zenon DEF RunnerInv, RetryWakes, Idle
  <2> QED BY <2>4, <2>5, <2>8, <2>9, <2>11 DEF RunnerInv
<1> QED BY <1>2, <1>3, Zenon DEF doRetry

\* A run ends: a call of Run made meanwhile is in its channel.
LEMMA EndsStep == RunnerInv /\ Ends => RunnerInv'
<1> SUFFICES ASSUME RunnerInv, Ends PROVE RunnerInv' OBVIOUS
<1>1. /\ ~Idle /\ fn' = Never /\ since' = 0 /\ next' = MaxInterval
      /\ UNCHANGED <<run, retry, retryTime, tokens, asked, due, started>>
  BY DEF Ends, TimerReset
<1>2. MaxInterval > 0 BY Intervals
<1>3. armed' = TRUE /\ tick' \in BOOLEAN
  BY <1>2, Zenon DEF Ends, TimerReset, RunnerInv, RunnerTypeOK
<1>4. MaxInterval \in Int /\ 0 \in 0..Cap BY Intervals
<1>5. RunnerTypeOK' BY <1>1, <1>3, <1>4, Zenon DEF RunnerInv, RunnerTypeOK
<1>6. started \in 0..MaxFn BY <1>1 DEF RunnerInv, RunnerTypeOK, Clocks, Idle
<1>7. Clocks' BY <1>1, <1>6, Intervals DEF RunnerInv, Clocks, MayRun, Idle
<1>8. WakesUp' BY <1>1, <1>3, Intervals DEF RunnerInv, WakesUp, Idle
<1>9. RunsOften' BY <1>1, Intervals DEF RunsOften
<1>10. asked # Never => asked <= MinInterval + MaxFn
  BY <1>6, Intervals DEF RunnerInv, RunnerTypeOK, Clocks
<1>11. RunIsAnswered' BY <1>1, <1>10 DEF RunIsAnswered
<1>12. RetryWakes' BY <1>1, <1>3, Zenon DEF RunnerInv, RetryWakes
<1>13. RetryIsKept' BY <1>1, Intervals DEF RetryIsKept
<1> QED BY <1>5, <1>7, <1>8, <1>9, <1>11, <1>12, <1>13 DEF RunnerInv

\* Time passes: not while the loop has something to answer and may run.
LEMMA TickStep == RunnerInv /\ Tick => RunnerInv'
<1> SUFFICES ASSUME RunnerInv, Tick PROVE RunnerInv' OBVIOUS
<1>1. /\ ~Ready \/ ~MayRun
      /\ ~Idle => fn < MaxFn
      /\ fn' = IF Idle THEN fn ELSE fn + 1
      /\ next' = Sooner(next)
      /\ retryTime' = IF retryTime = Never THEN Never ELSE Sooner(retryTime)
      /\ tokens' = IF tokens < BurstRuns * MinInterval THEN tokens + 1 ELSE tokens
      /\ since' = Later(since) /\ started' = Later(started)
      /\ asked' = IF asked = Never THEN Never ELSE Later(asked)
      /\ due' = IF due = Never THEN Never ELSE Sooner(due)
      /\ UNCHANGED <<run, retry>>
  BY DEF Tick
<1>2. /\ armed' \in BOOLEAN /\ (armed' <=> armed /\ next > 1)
      /\ tick' \in BOOLEAN /\ (tick' <=> tick \/ (armed /\ next <= 1))
  BY Zenon DEF Tick
<1>3. /\ next \in Int /\ retryTime \in Int \cup {Never} /\ due \in Int \cup {Never}
      /\ tokens \in 0..(BurstRuns * MinInterval) /\ since \in 0..Cap /\ started \in 0..Cap
      /\ fn \in 0..MaxFn \cup {Never} /\ asked \in 0..Cap \cup {Never}
  BY DEF RunnerInv, RunnerTypeOK
<1>4. \A n \in Int : Sooner(n) \in Int BY Intervals DEF Sooner
<1>5. \A n \in 0..Cap : /\ Later(n) \in 0..Cap /\ Later(n) >= n /\ Later(n) <= n + 1
                        /\ n < Cap => Later(n) = n + 1
                        /\ n = Cap => Later(n) = Cap
  BY Intervals DEF Later
<1>6. Idle' <=> Idle BY <1>1, <1>3, Intervals, RunnerAssumption DEF Idle
<1>7. /\ fn' \in 0..MaxFn \cup {Never}
      /\ tokens' \in 0..(BurstRuns * MinInterval)
  BY <1>1, <1>3, Intervals DEF Idle
<1>8. /\ next' \in Int /\ retryTime' \in Int \cup {Never} /\ due' \in Int \cup {Never}
      /\ since' \in 0..Cap /\ started' \in 0..Cap /\ asked' \in 0..Cap \cup {Never}
  BY <1>1, <1>3, <1>4, <1>5, Zenon
<1>9. RunnerTypeOK' BY <1>1, <1>2, <1>7, <1>8, Zenon DEF RunnerInv, RunnerTypeOK
<1>10. Clocks'
  <2>1. MayRun' \/ started' <= tokens'
    <3>1. CASE MayRun BY <1>1, <1>3, <3>1, Intervals DEF MayRun
    <3>2. CASE ~MayRun /\ started <= tokens
      <4>1. tokens' = tokens + 1 BY <1>1, <1>3, <3>2, Intervals DEF MayRun
      <4> QED BY <1>1, <1>3, <1>5, <3>2, <4>1
    <3> QED BY <3>1, <3>2 DEF RunnerInv, Clocks
  <2>2. BurstRuns = 1 => tokens' <= started'
    <3> SUFFICES ASSUME BurstRuns = 1 PROVE tokens' <= started' OBVIOUS
    <3>1. BurstRuns * MinInterval = MinInterval BY Intervals
    <3>2. tokens <= started BY DEF RunnerInv, Clocks
    <3>3. CASE started < Cap BY <1>1, <1>3, <1>5, <3>2, <3>3
    <3>4. CASE started = Cap BY <1>1, <1>5, <1>7, <3>1, <3>4, Intervals
    <3> QED BY <1>3, <3>3, <3>4, Intervals
  <2>3. ~Idle' => started' = fn'
    <3> SUFFICES ASSUME ~Idle PROVE started' = fn' BY <1>6
    <3>1. started = fn /\ fn < MaxFn BY <1>1 DEF RunnerInv, Clocks
    <3>2. started < Cap BY <1>3, <3>1, Intervals
    <3> QED BY <1>1, <1>3, <1>5, <3>1, <3>2
  <2>4. Idle' => since' <= started' /\ started' <= since' + MaxFn
    <3> SUFFICES ASSUME Idle PROVE since' <= started' /\ started' <= since' + MaxFn BY <1>6
    <3>1. since <= started /\ started <= since + MaxFn BY DEF RunnerInv, Clocks
    <3>2. CASE since < Cap BY <1>1, <1>3, <1>5, <3>1, <3>2, Intervals
    <3>3. CASE since = Cap BY <1>1, <1>3, <1>5, <3>1, <3>3, Intervals
    <3> QED BY <1>3, <3>2, <3>3, Intervals
  <2>5. asked' # Never => asked' <= started'
    <3> SUFFICES ASSUME asked' # Never PROVE asked' <= started' OBVIOUS
    <3>1. /\ asked # Never /\ asked \in 0..Cap /\ asked' = Later(asked) /\ asked <= started
      BY <1>1, <1>3 DEF RunnerInv, Clocks
    <3>2. CASE started < Cap BY <1>1, <1>3, <1>5, <3>1, <3>2
    <3>3. CASE started = Cap BY <1>1, <1>5, <1>8, <3>1, <3>3, Intervals
    <3> QED BY <1>3, <3>2, <3>3, Intervals
  <2> QED BY <2>1, <2>2, <2>3, <2>4, <2>5 DEF Clocks
\* While the loop is idle with something to answer, the bucket is empty, so the last start is near.
<1>11. Idle /\ (run \/ retry \/ tick) => started < MinInterval /\ since < MinInterval
  <2> SUFFICES ASSUME Idle, run \/ retry \/ tick PROVE started < MinInterval /\ since < MinInterval OBVIOUS
  <2>1. ~MayRun BY <1>1 DEF Ready
  <2>2. started <= tokens /\ since <= started BY <2>1 DEF RunnerInv, Clocks
  <2> QED BY <1>3, <2>1, <2>2, Intervals DEF MayRun
<1>12. armed => next >= 1 /\ next' = next - 1 /\ (next > 1 \/ next <= 1) /\ (next > 1 => next' >= 1)
  BY <1>1, <1>3, Intervals DEF RunnerInv, WakesUp, Sooner
<1>13. armed' => next' >= 1 BY <1>2, <1>12, Zenon
<1>14. Idle /\ since < Cap => tick' \/ (armed' /\ next' <= MaxInterval - since')
  <2> SUFFICES ASSUME Idle, since < Cap, ~tick
               PROVE  tick' \/ (armed' /\ next' <= MaxInterval - since')
    BY <1>2, Zenon
  <2>1. armed /\ next <= MaxInterval - since BY DEF RunnerInv, WakesUp
  <2>2. next' <= MaxInterval - since' BY <1>1, <1>3, <1>5, <1>12, <2>1, Intervals
  <2> QED BY <1>2, <1>12, <2>1, <2>2, Zenon
<1>15. Idle /\ asked # Never => run \/ tick' \/ (armed' /\ next' <= MinInterval - since')
  <2> SUFFICES ASSUME Idle, asked # Never, ~run, ~tick
               PROVE  tick' \/ (armed' /\ next' <= MinInterval - since')
    BY <1>2, Zenon
  <2>1. armed /\ next <= MinInterval - since BY DEF RunnerInv, WakesUp
  <2>2. since < Cap BY <1>3, <1>12, <2>1, Intervals
  <2>3. next' <= MinInterval - since' BY <1>1, <1>3, <1>5, <1>12, <2>1, <2>2, Intervals
  <2> QED BY <1>2, <1>12, <2>1, <2>3, Zenon
<1>16. asked' # Never <=> asked # Never BY <1>1, <1>3, <1>5, RunnerAssumption
<1>17. since' < Cap => since < Cap BY <1>1, <1>3, <1>5, Intervals
<1>18. WakesUp'
  <2>1. asked # Never /\ ~Idle => run BY DEF RunnerInv, WakesUp
  <2> QED BY <1>1, <1>6, <1>13, <1>14, <1>15, <1>16, <1>17, <2>1, Zenon DEF WakesUp
<1>19. RunsOften'
  <2> SUFFICES ASSUME Idle, since < Cap PROVE since' <= MaxInterval
    BY <1>6, <1>17 DEF RunsOften
  <2>1. CASE tick BY <1>1, <1>3, <1>5, <1>11, <2>1, Intervals
  <2>2. CASE ~tick
    <3>1. armed /\ next <= MaxInterval - since BY <2>2 DEF RunnerInv, WakesUp
    <3> QED BY <1>1, <1>3, <1>5, <1>12, <3>1, Intervals
  <2> QED BY <2>1, <2>2
<1>20. RunIsAnswered'
  <2> SUFFICES ASSUME Idle, asked # Never PROVE asked' <= MinInterval + MaxFn
    BY <1>6, <1>16 DEF RunIsAnswered
  <2>1. asked \in 0..Cap /\ asked' <= asked + 1 /\ asked <= started /\ started <= since + MaxFn
    BY <1>1, <1>3, <1>5 DEF RunnerInv, Clocks
  <2>2. asked' \in Int BY <1>1, <1>5, <2>1, Intervals
  <2>3. CASE run \/ tick BY <1>3, <1>11, <2>1, <2>2, <2>3, Intervals
  <2>4. CASE ~run /\ ~tick
    <3>1. armed /\ next <= MinInterval - since BY <2>4 DEF RunnerInv, WakesUp
    <3> QED BY <1>3, <1>12, <2>1, <2>2, <3>1, Intervals
  <2> QED BY <2>3, <2>4
<1>21. (retryTime' # Never <=> retryTime # Never) /\ (due' # Never <=> due # Never)
  BY <1>1, <1>3, <1>4, RunnerAssumption
<1>22. \A m, n \in Int : m <= n => Sooner(m) <= Sooner(n) BY Intervals DEF Sooner
<1>23. RetryWakes'
  <2>1. Idle => tick' \/ armed'
    BY <1>2, <1>12, Zenon DEF RunnerInv, RetryWakes
  <2>2. due # Never /\ retryTime # Never /\ retryTime <= due => retryTime' <= due'
    BY <1>1, <1>3, <1>22
  <2>3. due # Never /\ armed /\ next <= due => tick' \/ (armed' /\ next' <= due')
    <3>1. due # Never /\ next <= due => next' <= due' BY <1>1, <1>3, <1>22
    <3> QED BY <1>2, <1>12, <3>1, Zenon
  <2>4. armed /\ next <= MinInterval - since => tick' \/ (armed' /\ next' <= MinInterval - since')
    <3> SUFFICES ASSUME armed, next <= MinInterval - since
                 PROVE  tick' \/ (armed' /\ next' <= MinInterval - since')
      OBVIOUS
    <3>1. since < Cap BY <1>3, <1>12, Intervals
    <3>2. next' <= MinInterval - since' BY <1>1, <1>3, <1>5, <1>12, <3>1, Intervals
    <3> QED BY <1>2, <1>12, <3>2, Zenon
  <2> QED BY <1>1, <1>2, <1>6, <1>21, <2>1, <2>2, <2>3, <2>4, Zenon DEF RunnerInv, RetryWakes
<1>24. RetryIsKept'
  <2> SUFFICES ASSUME Idle, due # Never, due' < 0 PROVE since' <= MinInterval
    BY <1>6, <1>21 DEF RetryIsKept
  <2>1. CASE retry \/ tick BY <1>1, <1>3, <1>5, <1>11, <2>1, Intervals
  <2>2. CASE armed /\ next <= MinInterval - since
    BY <1>1, <1>3, <1>5, <1>12, <2>2, Intervals
  <2>3. ~(armed /\ next <= due)
    <3>1. due \in Int /\ due' = Sooner(due) BY <1>1, <1>3
    <3>2. due <= 0 BY <3>1, Intervals DEF Sooner
    <3> QED BY <1>3, <1>12, <3>1, <3>2
  <2> QED BY <2>1, <2>2, <2>3, Zenon DEF RunnerInv, RetryWakes
<1> QED BY <1>9, <1>10, <1>18, <1>19, <1>20, <1>23, <1>24 DEF RunnerInv

\* The runner's clocks and wake-ups stay as they are meant to, for every
\* interval, burst and duration.
THEOREM RunnerInvariant == RunnerSpec => []RunnerInv
<1>1. RunnerInv /\ UNCHANGED runnerVars => RunnerInv'
  <2> SUFFICES ASSUME RunnerInv, UNCHANGED runnerVars PROVE RunnerInv' OBVIOUS
  <2>1. (RunnerTypeOK /\ Clocks /\ WakesUp /\ RunsOften /\ RunIsAnswered)'
    BY DEF RunnerInv, RunnerTypeOK, Clocks, WakesUp, RunsOften, RunIsAnswered, MayRun, Idle,
       runnerVars
  <2>2. RetryWakes' /\ RetryIsKept'
    BY Zenon DEF RunnerInv, RetryWakes, RetryIsKept, Idle, runnerVars
  <2> QED BY <2>1, <2>2 DEF RunnerInv
<1>2. RunnerInv /\ [RunnerNext]_runnerVars => RunnerInv'
  BY <1>1, RunStep, OnTimerStep, OnRunStep, doRetryStep, EndsStep, TickStep, RetryAfterStep
     DEF RunnerNext
<1> QED BY <1>2, RunnerInitInv, PTL DEF RunnerSpec

\* A call of Run is answered by a new run at most minInterval after the loop is
\* free for it, although a refused call is taken from its channel at once.
THEOREM RunsAreAnswered == RunnerSpec => []RunIsAnswered
<1>1. RunnerInv => RunIsAnswered BY DEF RunnerInv
<1> QED BY <1>1, RunnerInvariant, PTL

\* An idle runner starts again within maxInterval, although retries and refused
\* runs reset its timer.
THEOREM RunsOftenEnough == RunnerSpec => []RunsOften
<1>1. RunnerInv => RunsOften BY DEF RunnerInv
<1> QED BY <1>1, RunnerInvariant, PTL

\* A run that RetryAfter promised is started, once its time has come, at most
\* minInterval after the last run ended: no reset of the timer loses it.
THEOREM RetriesAreKept == RunnerSpec => []RetryIsKept
<1>1. RunnerInv => RetryIsKept BY DEF RunnerInv
<1> QED BY <1>1, RunnerInvariant, PTL

\* With bursts of one, two starts are at least minInterval apart.
THEOREM RunsSeldomEnough == RunnerSpec => RunsSeldom
<1> DEFINE Apart == BurstRuns = 1 /\ fn' = 0 /\ Idle => started >= MinInterval
<1>1. ASSUME RunnerInv, [RunnerNext]_runnerVars, BurstRuns = 1, fn' = 0, Idle
      PROVE  started >= MinInterval
  <2>1. fn = Never /\ fn' # fn BY <1>1, RunnerAssumption DEF Idle
  <2>2. tokens <= started /\ tokens \in Int /\ started \in Int
    BY <1>1 DEF RunnerInv, RunnerTypeOK, Clocks
  <2>3. MayRun
    BY <1>1, <2>1, Zenon DEF RunnerNext, runnerVars, Run, OnTimer, OnRun, doRetry, Ends, Tick,
       RetryAfter, tryRun, NotYet
  <2> QED BY <2>2, <2>3, Intervals DEF MayRun
<1>2. RunnerInv /\ [RunnerNext]_runnerVars => [Apart]_runnerVars BY <1>1
<1> QED BY <1>2, RunnerInvariant, PTL DEF RunnerSpec, RunsSeldom
=============================================================================
