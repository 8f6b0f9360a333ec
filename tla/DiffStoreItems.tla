----------------------------- MODULE DiffStoreItems -----------------------------
(***************************************************************************)
(* client/diffstore/{diffstore,item,any-leaf}.go: a store of items that    *)
(* carry a touched flag, the hash of the previous and of the current round *)
(* and a leaf.  The leaf is AnyLeaf: its hash is a counter that Set        *)
(* advances when the value is new or differs.  A round of its user is any  *)
(* number of Get(key).Set(value), then Done, the reads, and Reset.         *)
(* itemsLast and itemsNow are what the rounds asked for.  (Definitions     *)
(* that no action uses are faulty variants.)                               *)
(***************************************************************************)
EXTENDS FiniteSets, Naturals

CONSTANTS ItemKeys, ItemVals, NoItem,
          MaxHash            \* cap on a leaf's counter

ItemLeaf == [value : ItemVals \cup {NoItem}, hash : Nat]
StoreItem == [touched : BOOLEAN, previousHash : Nat, currentHash : Nat, leaf : ItemLeaf]

ASSUME ItemAssumption == NoItem \notin StoreItem

VARIABLES items,             \* Store.data: an item or NoItem per key
          itemsDone,         \* Store.done
          itemsLast, itemsNow  \* from keys to values of the last and of this round

itemsVars == <<items, itemsDone, itemsLast, itemsNow>>

D == INSTANCE DiffStore

NewLeaf == [value |-> NoItem, hash |-> 1]
NewItem == [touched |-> FALSE, previousHash |-> 0, currentHash |-> 0, leaf |-> NewLeaf]

LeafSetNew(leaf, v) == [value |-> v, hash |-> IF leaf.hash = 1 THEN 2 ELSE leaf.hash]

LeafSet(leaf, v) ==
    [value |-> v, hash |-> IF leaf.hash = 1 \/ leaf.value # v THEN leaf.hash + 1 ELSE leaf.hash]

ItemsInit == /\ items = [k \in ItemKeys |-> NoItem] /\ itemsDone = FALSE
             /\ itemsLast = [k \in {} |-> NoItem] /\ itemsNow = [k \in {} |-> NoItem]

\* Get(key).Set(v)
GetSet(k, v) ==
    LET item == IF items[k] = NoItem THEN NewItem ELSE items[k]
    IN  /\ ~itemsDone /\ item.leaf.hash < MaxHash
        /\ items' = [items EXCEPT ![k] =
                        [item EXCEPT !.touched = TRUE, !.leaf = LeafSet(item.leaf, v)]]
        /\ itemsNow' = [x \in DOMAIN itemsNow \cup {k} |-> IF x = k THEN v ELSE itemsNow[x]]
        /\ UNCHANGED <<itemsDone, itemsLast>>

Done == /\ ~itemsDone /\ itemsDone' = TRUE
        /\ items' = [k \in ItemKeys |->
              IF items[k] # NoItem /\ items[k].touched
              THEN [items[k] EXCEPT !.currentHash = items[k].leaf.hash] ELSE items[k]]
        /\ UNCHANGED <<itemsLast, itemsNow>>

\* Reset of one item; an item that was not there last round either is removed.
ResetItem(i) == IF i.previousHash = 0 /\ ~i.touched THEN NoItem
                ELSE [i EXCEPT !.previousHash = i.currentHash,
                               !.currentHash = 0, !.touched = FALSE]

ResetStore == /\ itemsDone /\ itemsDone' = FALSE
              /\ items' = [k \in ItemKeys |-> IF items[k] = NoItem THEN NoItem
                                              ELSE ResetItem(items[k])]
              /\ itemsLast' = itemsNow /\ itemsNow' = [k \in {} |-> NoItem]

ItemCreated(i) == i.touched /\ i.previousHash = 0
ItemUpdated(i) == i.touched /\ i.previousHash # i.currentHash
ItemDeleted(i) == ~i.touched /\ i.previousHash # 0

ItemsNext == \/ \E k \in ItemKeys, v \in ItemVals : GetSet(k, v)
             \/ Done \/ ResetStore

ItemsSpec == ItemsInit /\ [][ItemsNext]_itemsVars
-----------------------------------------------------------------------------
Present == {k \in ItemKeys : items[k] # NoItem}

(***************************************************************************)
(* After Done, Deleted() is exactly what the last round had and this one   *)
(* lacks, and gives the value last asked for; Created is exactly what is   *)
(* new; and nothing whose value differs from the last round is left out of *)
(* Changed(), however often a key was removed and came back.               *)
(***************************************************************************)
DiffsExact ==
    itemsDone =>
      /\ {k \in Present : ItemDeleted(items[k])} = D!Deleted(itemsLast, itemsNow)
      /\ \A k \in D!Deleted(itemsLast, itemsNow) : items[k].leaf.value = itemsLast[k]
      /\ {k \in Present : ItemCreated(items[k])} = D!Created(itemsLast, itemsNow)
      /\ D!Changed(itemsLast, itemsNow) \subseteq
            {k \in Present : ItemCreated(items[k]) \/ ItemUpdated(items[k])}

(***************************************************************************)
(* What keeps it true, for each key: an item is touched exactly if this    *)
(* round set it, its previous hash is 0 exactly if the last round did not, *)
(* and its leaf has the hash it had then only while it has that value.     *)
(***************************************************************************)
ItemOk(k) ==
    LET i == items[k]
    IN  IF i = NoItem THEN k \notin DOMAIN itemsLast /\ k \notin DOMAIN itemsNow
        ELSE /\ i.touched <=> k \in DOMAIN itemsNow
             /\ i.touched => i.leaf.value = itemsNow[k]
             /\ i.previousHash # 0 <=> k \in DOMAIN itemsLast
             /\ i.leaf.hash > 1 /\ i.previousHash <= i.leaf.hash
             /\ k \in DOMAIN itemsLast /\ i.leaf.hash = i.previousHash => i.leaf.value = itemsLast[k]
             /\ k \in DOMAIN itemsLast /\ ~i.touched => i.leaf.hash = i.previousHash
             /\ i.currentHash = IF itemsDone /\ i.touched THEN i.leaf.hash ELSE 0

ItemsInv == /\ items \in [ItemKeys -> StoreItem \cup {NoItem}] /\ itemsDone \in BOOLEAN
            /\ DOMAIN itemsLast \subseteq ItemKeys /\ DOMAIN itemsNow \subseteq ItemKeys
            /\ \A k \in ItemKeys : ItemOk(k)
=============================================================================
