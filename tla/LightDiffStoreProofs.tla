------------------------ MODULE LightDiffStoreProofs ------------------------
(***************************************************************************)
(* For every set of keys and hashes: a diff store that is rebuilt every    *)
(* round implements SnapshotFeed, and under any sequence of calls it       *)
(* reports every key to drop and only live updates.                        *)
(***************************************************************************)
EXTENDS LightDiffStore, TLAPS

USE DEF Copy, EmptyCopy, Feed!Copy, Feed!EmptyCopy

\* Items the diffTree holds have a hash; an absent one has none.
LEMMA ItemShape ==
    ASSUME NEW i \in Item
    PROVE  /\ i = AbsentItem <=> i.state = "Absent"
           /\ i.state = "Absent" => i.hash = NoHash
           /\ i.state # "Absent" => i.hash \in Hash /\ i.state \in ItemState
           /\ i.hash \in Hash \cup {NoHash}
  BY DEF Item, AbsentItem, ItemState

LEMMA SetItemType ==
    ASSUME diffTree \in [Key -> Item], NEW k \in Key, NEW h \in Hash
    PROVE  SetItem(diffTree, k, h) \in [Key -> Item]
<1>1. diffTree[k] \in Item OBVIOUS
<1>2. SetState(diffTree[k], h) \in ItemState
  BY <1>1, HashAssumption, ItemShape DEF SetState, ItemState
<1> QED BY <1>2 DEF SetItem, Item

LEMMA DeleteItemsType ==
    ASSUME diffTree \in [Key -> Item], NEW K
    PROVE  DeleteItems(diffTree, K) \in [Key -> Item]
<1> SUFFICES ASSUME NEW k \in Key, diffTree[k] # AbsentItem
             PROVE  [diffTree[k] EXCEPT !.state = "Deleted"] \in Item
  BY DEF DeleteItems
<1> QED BY DEF Item, ItemState, AbsentItem

LEMMA ResetItemsType ==
    ASSUME diffTree \in [Key -> Item], NEW st \in ItemState
    PROVE  ResetItems(diffTree, st) \in [Key -> Item]
<1>1. AbsentItem \in Item BY DEF Item
<1>2. ASSUME NEW k \in Key, diffTree[k] # AbsentItem
      PROVE  [diffTree[k] EXCEPT !.state = st] \in Item
  BY <1>2 DEF Item, ItemState, AbsentItem
<1> QED BY <1>1, <1>2 DEF ResetItems

\* Type correctness is preserved by every call.
LEMMA TypeStep == DiffTypeOK /\ [ApiNext]_diffVars => DiffTypeOK'
<1> SUFFICES ASSUME DiffTypeOK, [ApiNext]_diffVars PROVE DiffTypeOK'
  OBVIOUS
<1> USE DEF DiffTypeOK
<1>1. ASSUME NEW k \in Key, NEW h \in Hash, Set(k, h) PROVE DiffTypeOK'
  BY <1>1, SetItemType DEF Set
<1>2. ASSUME NEW k \in Key, Delete(k) PROVE DiffTypeOK'
  BY <1>2, DeleteItemsType DEF Delete
<1>3. ASSUME NEW K \in PrefixKeys, DeleteByPrefix(K) PROVE DiffTypeOK'
  BY <1>3, DeleteItemsType DEF DeleteByPrefix
<1>4. ASSUME NEW st \in ItemState, Reset(st) PROVE DiffTypeOK'
  <2>1. diffTree' \in [Key -> Item] BY <1>4, ResetItemsType DEF Reset
  <2>2. \A k \in Key : diffTree[k].hash \in Hash \cup {NoHash} BY ItemShape
  <2>3. known' \in [Key -> Hash \cup {NoHash}] BY <1>4, <2>2 DEF Reset, Apply
  <2>4. live' \in [Key -> Hash \cup {NoHash}] BY <1>4 DEF Reset
  <2> QED BY <2>1, <2>3, <2>4
<1>5. CASE UNCHANGED diffVars BY <1>5 DEF diffVars
<1> QED BY <1>1, <1>2, <1>3, <1>4, <1>5 DEF ApiNext

LEMMA InitType == DiffInit => DiffTypeOK
  BY DEF DiffInit, DiffTypeOK, EmptyTree, Item

\* The diffTree, the live contents and the reader's copy have their types
\* under any sequence of calls.
THEOREM TypeCorrect == ApiSpec => []DiffTypeOK
  BY InitType, TypeStep, PTL DEF ApiSpec
-----------------------------------------------------------------------------
(***************************************************************************)
(* The rebuild discipline.                                                 *)
(***************************************************************************)
LEMMA RebuildIsCall == [RebuildNext]_diffVars => [ApiNext]_diffVars
  BY DEF RebuildNext, ApiNext, ItemState

LEMMA RebuildInit == DiffInit => RebuildInv
  BY InitType DEF DiffInit, RebuildInv, Tracks, EmptyTree, AbsentItem

LEMMA RebuildStep == RebuildInv /\ [RebuildNext]_diffVars => RebuildInv'
<1> SUFFICES ASSUME RebuildInv, [RebuildNext]_diffVars PROVE RebuildInv'
  OBVIOUS
<1>t. DiffTypeOK /\ DiffTypeOK' BY RebuildIsCall, TypeStep DEF RebuildInv
<1>s. \A k \in Key : diffTree[k] \in Item BY <1>t DEF DiffTypeOK
<1> SUFFICES ASSUME NEW k \in Key PROVE Tracks(k)'
  BY <1>t DEF RebuildInv
<1>i. Tracks(k) BY DEF RebuildInv
<1>1. ASSUME NEW j \in Key, NEW h \in Hash, Set(j, h) PROVE Tracks(k)'
  <2>1. CASE j = k
    <3>1. /\ diffTree'[k] = [hash |-> h, state |-> SetState(diffTree[k], h)]
          /\ live'[k] = h
          /\ known'[k] = known[k]
      BY <1>1, <2>1, <1>t DEF Set, SetItem, DiffTypeOK
    <3>2. SetState(diffTree[k], h) \in {"Changed", "Unchanged"}
      BY <1>s, HashAssumption, ItemShape DEF SetState, ItemState
    <3>3. SetState(diffTree[k], h) = "Unchanged" => known[k] = h
      BY <1>i, <1>s DEF SetState, Tracks
    <3> QED BY <3>1, <3>2, <3>3 DEF Tracks
  <2>2. CASE j # k
    <3>1. diffTree'[k] = diffTree[k] /\ live'[k] = live[k] /\ known'[k] = known[k]
      BY <1>1, <2>2, <1>t DEF Set, SetItem, DiffTypeOK
    <3> QED BY <3>1, <1>i DEF Tracks
  <2> QED BY <2>1, <2>2
<1>2. ASSUME Reset("Deleted") PROVE Tracks(k)'
  <2>1. live'[k] = NoHash BY <1>2 DEF Reset
  <2>2. known'[k] = IF diffTree[k].state = "Changed" THEN diffTree[k].hash
                    ELSE IF diffTree[k].state = "Deleted" THEN NoHash ELSE known[k]
    BY <1>2 DEF Reset, Apply, Updated, Deleted
  <2>3. diffTree'[k] = IF diffTree[k] = AbsentItem \/ diffTree[k].state = "Deleted"
                   THEN AbsentItem ELSE [diffTree[k] EXCEPT !.state = "Deleted"]
    BY <1>2 DEF Reset, ResetItems
  <2>4. CASE diffTree[k].state \in {"Absent", "Deleted"}
    <3>1. diffTree'[k] = AbsentItem BY <2>3, <2>4, <1>s, ItemShape
    <3>2. known'[k] = NoHash BY <2>2, <2>4, <1>i DEF Tracks
    <3> QED BY <2>1, <3>1, <3>2 DEF Tracks, AbsentItem
  <2>5. CASE diffTree[k].state \in {"Changed", "Unchanged"}
    <3>1. diffTree'[k] = [diffTree[k] EXCEPT !.state = "Deleted"]
      BY <2>3, <2>5 DEF AbsentItem
    <3>2. diffTree'[k].state = "Deleted" /\ diffTree'[k].hash = diffTree[k].hash
      BY <3>1, <1>s, <2>5 DEF Item, AbsentItem
    <3>3. known'[k] = diffTree[k].hash BY <2>2, <2>5, <1>i DEF Tracks
    <3> QED BY <2>1, <3>2, <3>3 DEF Tracks
  <2> QED BY <2>4, <2>5, <1>s, ItemShape DEF ItemState
<1>3. CASE UNCHANGED diffVars BY <1>3, <1>i DEF diffVars, Tracks
<1> QED BY <1>1, <1>2, <1>3 DEF RebuildNext

\* Under the invariant, the diff brings the reader to the live contents.
LEMMA DiffIsExact == RebuildInv => Apply(diffTree, known) = live
<1> SUFFICES ASSUME RebuildInv PROVE Apply(diffTree, known) = live
  OBVIOUS
<1>1. DiffTypeOK BY DEF RebuildInv
<1>2. ASSUME NEW k \in Key
      PROVE  Apply(diffTree, known)[k] = live[k]
  <2>1. diffTree[k] \in Item BY <1>1 DEF DiffTypeOK
  <2>2. Apply(diffTree, known)[k] =
          IF diffTree[k].state = "Changed" THEN diffTree[k].hash
          ELSE IF diffTree[k].state = "Deleted" THEN NoHash ELSE known[k]
    BY DEF Apply, Updated, Deleted
  <2>3. Tracks(k) BY DEF RebuildInv
  <2> QED BY <2>1, <2>2, <2>3, ItemShape DEF Tracks, ItemState
<1>3. Apply(diffTree, known) = [k \in Key |-> Apply(diffTree, known)[k]]
  BY DEF Apply
<1> QED BY <1>1, <1>2, <1>3 DEF DiffTypeOK

\* What the state of an item says of the reader holds in every round.
THEOREM RebuildInvariant == RebuildSpec => []RebuildInv
  BY RebuildInit, RebuildStep, PTL DEF RebuildSpec

LEMMA FeedStep == RebuildInv /\ RebuildInv' /\ [RebuildNext]_diffVars
                    => [Feed!Next]_<<live, known>>
<1> SUFFICES ASSUME RebuildInv, RebuildInv', [RebuildNext]_diffVars
             PROVE  [Feed!Next]_<<live, known>>
  OBVIOUS
<1>1. live' \in Feed!Copy BY DEF RebuildInv, DiffTypeOK, Feed!Copy
<1>2. ASSUME NEW k \in Key, NEW h \in Hash, Set(k, h) PROVE Feed!Edit
  BY <1>1, <1>2 DEF Set, Feed!Edit
<1>3. ASSUME Reset("Deleted") PROVE Feed!HandOver
  BY <1>1, <1>3, DiffIsExact DEF Reset, Feed!HandOver
<1>4. CASE UNCHANGED diffVars BY <1>4 DEF diffVars
<1> QED BY <1>2, <1>3, <1>4 DEF RebuildNext, Feed!Next

\* A rebuilt diff store implements SnapshotFeed: SendDiff, file2store and ebpf
\* hand over exactly the contents of the round, for all keys and hashes.
THEOREM RebuildImplementsFeed == RebuildSpec => FeedSpec
<1>1. DiffInit => Feed!Init BY DEF DiffInit, Feed!Init
<1> QED BY <1>1, RebuildInvariant, FeedStep, PTL DEF RebuildSpec, FeedSpec, Feed!Spec
-----------------------------------------------------------------------------
(***************************************************************************)
(* Every call of the package.                                              *)
(***************************************************************************)
LEMMA ApiInit == DiffInit => ApiInv
  BY InitType DEF DiffInit, ApiInv, Holds, EmptyTree, AbsentItem

LEMMA MarkStep ==
    ASSUME ApiInv, NEW K, NEW k \in Key, known' = known,
           diffTree' = DeleteItems(diffTree, K),
           live'[k] = IF k \in K THEN NoHash ELSE live[k]
    PROVE  Holds(k)'
<1>1. Holds(k) /\ diffTree[k] \in Item BY DEF ApiInv, DiffTypeOK
<1>2. diffTree'[k] = IF k \in K /\ diffTree[k] # AbsentItem
                 THEN [diffTree[k] EXCEPT !.state = "Deleted"] ELSE diffTree[k]
  BY DEF DeleteItems
<1>3. CASE k \in K /\ diffTree[k] # AbsentItem
  <2>1. diffTree'[k].state = "Deleted" BY <1>1, <1>2, <1>3 DEF Item
  <2> QED BY <2>1, <1>3 DEF Holds
<1>4. CASE k \in K /\ diffTree[k] = AbsentItem
  BY <1>1, <1>2, <1>4 DEF Holds, AbsentItem
<1>5. CASE k \notin K BY <1>1, <1>2, <1>5 DEF Holds
<1> QED BY <1>3, <1>4, <1>5

LEMMA ResetStep ==
    ASSUME ApiInv, NEW st \in ItemState, Reset(st), NEW k \in Key
    PROVE  Holds(k)'
<1>1. Holds(k) /\ diffTree[k] \in Item BY DEF ApiInv, DiffTypeOK
<1>2. diffTree'[k] = IF diffTree[k] = AbsentItem \/ diffTree[k].state = "Deleted"
                 THEN AbsentItem ELSE [diffTree[k] EXCEPT !.state = st]
  BY DEF Reset, ResetItems
<1>3. known'[k] = IF diffTree[k].state = "Changed" THEN diffTree[k].hash
                  ELSE IF diffTree[k].state = "Deleted" THEN NoHash ELSE known[k]
  BY DEF Reset, Apply, Updated, Deleted
<1>4. live'[k] = IF st = "Deleted" THEN NoHash ELSE live[k]
  BY DEF Reset
<1>5. CASE diffTree[k].state \in {"Absent", "Deleted"}
  <2>1. diffTree'[k] = AbsentItem BY <1>1, <1>2, <1>5, ItemShape
  <2>2. known'[k] = NoHash /\ live'[k] = NoHash
    BY <1>1, <1>3, <1>4, <1>5 DEF Holds
  <2> QED BY <2>1, <2>2 DEF Holds, AbsentItem
<1>6. CASE diffTree[k].state \in {"Changed", "Unchanged"}
  <2>1. diffTree'[k].state = st /\ diffTree'[k].hash = diffTree[k].hash
    BY <1>1, <1>2, <1>6 DEF Item, AbsentItem
  <2>2. st # "Absent" /\ live[k] = diffTree[k].hash
    BY <1>1, <1>6 DEF Holds, ItemState
  <2> QED BY <2>1, <2>2, <1>4 DEF Holds, ItemState
<1> QED BY <1>1, <1>5, <1>6, ItemShape DEF ItemState

LEMMA ApiStep == ApiInv /\ [ApiNext]_diffVars => ApiInv'
<1> SUFFICES ASSUME ApiInv, [ApiNext]_diffVars PROVE ApiInv'
  OBVIOUS
<1>t. DiffTypeOK /\ DiffTypeOK' BY TypeStep DEF ApiInv
<1> SUFFICES ASSUME NEW k \in Key PROVE Holds(k)'
  BY <1>t DEF ApiInv
<1>i. Holds(k) /\ diffTree[k] \in Item BY <1>t DEF ApiInv, DiffTypeOK
<1>1. ASSUME NEW j \in Key, NEW h \in Hash, Set(j, h) PROVE Holds(k)'
  <2>1. CASE j = k
    <3>1. /\ diffTree'[k] = [hash |-> h, state |-> SetState(diffTree[k], h)]
          /\ live'[k] = h
      BY <1>1, <2>1, <1>t DEF Set, SetItem, DiffTypeOK
    <3>2. SetState(diffTree[k], h) \in {"Changed", "Unchanged"}
      BY <1>i, HashAssumption, ItemShape DEF SetState, ItemState
    <3> QED BY <3>1, <3>2 DEF Holds
  <2>2. CASE j # k
    <3>1. diffTree'[k] = diffTree[k] /\ live'[k] = live[k] /\ known'[k] = known[k]
      BY <1>1, <2>2, <1>t DEF Set, SetItem, DiffTypeOK
    <3> QED BY <3>1, <1>i DEF Holds
  <2> QED BY <2>1, <2>2
<1>2. ASSUME NEW j \in Key, Delete(j) PROVE Holds(k)'
  <2>1. live'[k] = IF k \in {j} THEN NoHash ELSE live[k]
    BY <1>2, <1>t DEF Delete, DiffTypeOK
  <2>2. diffTree' = DeleteItems(diffTree, {j}) /\ known' = known BY <1>2 DEF Delete
  <2> QED BY <2>1, <2>2, MarkStep
<1>3. ASSUME NEW K \in PrefixKeys, DeleteByPrefix(K) PROVE Holds(k)'
  <2>1. /\ live'[k] = IF k \in K THEN NoHash ELSE live[k]
        /\ diffTree' = DeleteItems(diffTree, K) /\ known' = known
    BY <1>3 DEF DeleteByPrefix
  <2> QED BY <2>1, MarkStep
<1>4. ASSUME NEW st \in ItemState, Reset(st) PROVE Holds(k)'
  BY <1>4, ResetStep
<1>5. CASE UNCHANGED diffVars BY <1>5, <1>i DEF diffVars, Holds
<1> QED BY <1>1, <1>2, <1>3, <1>4, <1>5 DEF ApiNext

LEMMA ApiInvImplies == ApiInv => DropsReported /\ ReportsLive
<1> SUFFICES ASSUME ApiInv PROVE DropsReported /\ ReportsLive
  OBVIOUS
<1>1. \A k \in Key : Holds(k) /\ diffTree[k] \in Item BY DEF ApiInv, DiffTypeOK
<1>2. ASSUME NEW k \in Key
      PROVE  /\ live[k] = NoHash <=> diffTree[k].state \in {"Absent", "Deleted"}
             /\ diffTree[k] = AbsentItem <=> diffTree[k].state = "Absent"
  BY <1>1, ItemShape, HashAssumption DEF Holds
<1>3. DropsReported BY <1>1, <1>2 DEF DropsReported, Deleted, Holds
<1>4. \A k \in Updated(diffTree) : diffTree[k].hash = live[k]
  BY <1>1 DEF Updated, Holds
<1>5. GetByPrefix(diffTree, Key) = {k \in Key : live[k] # NoHash}
  BY <1>2 DEF GetByPrefix
<1> QED BY <1>3, <1>4, <1>5 DEF ReportsLive

\* No sequence of Set, Delete, DeleteByPrefix and Reset leaves the reader with
\* a key it was not told to drop.
THEOREM DropsAlwaysReported == ApiSpec => []DropsReported
  BY ApiInit, ApiStep, ApiInvImplies, PTL DEF ApiSpec

\* No sequence of calls reports a stale update or a GetByPrefix of a dead key.
THEOREM LiveAlwaysReported == ApiSpec => []ReportsLive
  BY ApiInit, ApiStep, ApiInvImplies, PTL DEF ApiSpec
=============================================================================
