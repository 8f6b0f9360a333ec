------------------------------ MODULE LightDiff ------------------------------
(***************************************************************************)
(* The diff store of client/lightdiffstore/diff-store.go as operators on   *)
(* its tree.  A tree maps every key to an item: the hash it was last set   *)
(* with and its state.  A key the tree does not hold has state "Absent".   *)
(* The value stored next to the hash is a function of the hash for every   *)
(* caller that reads Updated() and Deleted(), and is left out.             *)
(***************************************************************************)
EXTENDS Copies

ItemState == {"Deleted", "Changed", "Unchanged"}

AbsentItem == [hash |-> NoHash, state |-> "Absent"]

Item == [hash : Hash, state : ItemState] \cup {AbsentItem}

EmptyTree == [k \in Key |-> AbsentItem]

(***************************************************************************)
(* Set.  A new key, or a known key with another hash, is Changed.  A known *)
(* key set to the hash it already had comes back from Deleted as           *)
(* Unchanged, and otherwise keeps its state.  (SetStateKeepsMark and the   *)
(* other definitions no operation uses are faulty variants: each shows a   *)
(* property of LightDiffStore failing.)                                    *)
(***************************************************************************)
SetStateKeepsMark(item, h) == IF item.hash # h THEN "Changed" ELSE item.state

SetState(item, h) ==
    IF item.hash # h THEN "Changed"
    ELSE IF item.state = "Deleted" THEN "Unchanged" ELSE item.state

SetItem(tree, k, h) ==
    [tree EXCEPT ![k] = [hash |-> h, state |-> SetState(tree[k], h)]]

\* Delete and DeleteByPrefix: the keys of K that are in the tree are marked.
DeleteItems(tree, K) ==
    [k \in Key |-> IF k \in K /\ tree[k] # AbsentItem
                   THEN [tree[k] EXCEPT !.state = "Deleted"] ELSE tree[k]]

(***************************************************************************)
(* Reset(st): items marked Deleted leave the tree, all others are marked   *)
(* st.                                                                     *)
(***************************************************************************)
ResetForgets(tree, st) == IF st = "Deleted" THEN EmptyTree ELSE
    [k \in Key |-> IF tree[k] = AbsentItem THEN AbsentItem
                   ELSE [tree[k] EXCEPT !.state = st]]

ResetItems(tree, st) ==
    [k \in Key |-> IF tree[k] = AbsentItem \/ tree[k].state = "Deleted"
                   THEN AbsentItem ELSE [tree[k] EXCEPT !.state = st]]

\* Updated(), Deleted() and GetByPrefix(): the keys they return.
Updated(tree) == {k \in Key : tree[k].state = "Changed"}

Deleted(tree) == {k \in Key : tree[k].state = "Deleted"}

GetByPrefix(tree, K) ==
    {k \in K : tree[k] # AbsentItem /\ tree[k].state # "Deleted"}

(***************************************************************************)
(* What a reader that held the copy known (a hash per key, NoHash for a    *)
(* key it does not have) holds after it applies Updated() and Deleted().   *)
(***************************************************************************)
Apply(tree, known) ==
    [k \in Key |-> IF k \in Updated(tree) THEN tree[k].hash
                   ELSE IF k \in Deleted(tree) THEN NoHash ELSE known[k]]
=============================================================================
