---------------------------- MODULE LightDiffStore ----------------------------
(***************************************************************************)
(* client/lightdiffstore/diff-store.go as a state machine: the owner of a  *)
(* store calls Set, Delete, DeleteByPrefix and Reset; a reader collects    *)
(* Updated() and Deleted() right before each Reset, as SendDiff in         *)
(* store2localdiff and store2globaldiff, file2store and the ebpf backend   *)
(* do.                                                                     *)
(***************************************************************************)
EXTENDS LightDiff

CONSTANT PrefixKeys   \* the sets of keys that share a prefix

VARIABLES diffTree, \* DiffStore.tree
          live,     \* history: the contents the owner has set since the last Reset
          known     \* history: the reader's copy

diffVars == <<diffTree, live, known>>

DiffTypeOK == /\ diffTree \in [Key -> Item]
              /\ live \in Copy
              /\ known \in Copy

DiffInit == /\ diffTree = EmptyTree
            /\ live = EmptyCopy
            /\ known = EmptyCopy

Set(k, h) == /\ diffTree' = SetItem(diffTree, k, h)
             /\ live' = [live EXCEPT ![k] = h]
             /\ UNCHANGED known

\* The type assertion in Delete panics on a key that is not in the tree.
Delete(k) == /\ diffTree[k] # AbsentItem
             /\ diffTree' = DeleteItems(diffTree, {k})
             /\ live' = [live EXCEPT ![k] = NoHash]
             /\ UNCHANGED known

DeleteByPrefix(K) == /\ diffTree' = DeleteItems(diffTree, K)
                     /\ live' = [k \in Key |-> IF k \in K THEN NoHash ELSE live[k]]
                     /\ UNCHANGED known

(***************************************************************************)
(* The reader takes the diff, then the store is Reset(st).  After          *)
(* Reset(ItemDeleted) the owner sets everything that still exists again:   *)
(* what it does not set is gone.                                           *)
(***************************************************************************)
Reset(st) == /\ known' = Apply(diffTree, known)
             /\ diffTree' = ResetItems(diffTree, st)
             /\ live' = IF st = "Deleted" THEN EmptyCopy ELSE live

\* How the watch jobs, file2store and ebpf use a store: rebuild it every round.
RebuildNext == \/ \E k \in Key, h \in Hash : Set(k, h)
               \/ Reset("Deleted")

RebuildSpec == DiffInit /\ [][RebuildNext]_diffVars

\* Every call the package offers.
ApiNext == \/ \E k \in Key, h \in Hash : Set(k, h)
           \/ \E k \in Key : Delete(k)
           \/ \E K \in PrefixKeys : DeleteByPrefix(K)
           \/ \E st \in ItemState : Reset(st)

ApiSpec == DiffInit /\ [][ApiNext]_diffVars
-----------------------------------------------------------------------------
(***************************************************************************)
(* A rebuilt store implements the feed: applying Updated() and Deleted()   *)
(* brings the reader to exactly what the owner set in this round, whatever *)
(* was set twice, changed and changed back, or left out.                   *)
(***************************************************************************)
Feed == INSTANCE SnapshotFeed

FeedSpec == Feed!Spec
-----------------------------------------------------------------------------
(***************************************************************************)
(* The invariant behind the feed: what the state of an item says about the *)
(* reader's copy and the live contents.                                    *)
(***************************************************************************)
Tracks(k) ==
    /\ diffTree[k].state = "Absent" => known[k] = NoHash
    /\ diffTree[k].state = "Deleted" => known[k] = diffTree[k].hash
    /\ diffTree[k].state = "Unchanged" => known[k] = diffTree[k].hash
    /\ live[k] = IF diffTree[k].state \in {"Absent", "Deleted"}
                 THEN NoHash ELSE diffTree[k].hash

RebuildInv == DiffTypeOK /\ \A k \in Key : Tracks(k)

\* What is left of it when Delete and the other Resets are called too.
Holds(k) ==
    /\ diffTree[k].state = "Absent" => known[k] = NoHash
    /\ live[k] = IF diffTree[k].state \in {"Absent", "Deleted"}
                 THEN NoHash ELSE diffTree[k].hash

ApiInv == DiffTypeOK /\ \A k \in Key : Holds(k)
-----------------------------------------------------------------------------
\* Whatever the calls, the reader is told of every key it has to drop.
DropsReported == \A k \in Key : known[k] # NoHash /\ live[k] = NoHash
                                  => k \in Deleted(diffTree)

\* Whatever the calls, an update that is reported carries the live value, and
\* GetByPrefix returns exactly the live keys.
ReportsLive == /\ \A k \in Updated(diffTree) : diffTree[k].hash = live[k]
               /\ GetByPrefix(diffTree, Key) = {k \in Key : live[k] # NoHash}
=============================================================================
