------------------------------- MODULE DiffStore -------------------------------
(***************************************************************************)
(* client/diffstore as the backends use it.  A round fills the store with  *)
(* the wanted content (cur, from keys to what the leaf's hash tells        *)
(* apart), Done closes it, and the reader asks which items are new, changed*)
(* or gone with respect to the round before (prev).  Reset makes cur the   *)
(* next prev.  That the store of items with its touched flags and its two  *)
(* hashes answers like this is what DiffStoreItems is about.  (Definitions *)
(* no module uses are faulty variants.)                                    *)
(***************************************************************************)
EXTENDS TLC

Created(prev, cur) == DOMAIN cur \ DOMAIN prev

Changed(prev, cur) ==
    {k \in DOMAIN cur : k \in Created(prev, cur) \/ prev[k] # cur[k]}

Deleted(prev, cur) == DOMAIN prev \ DOMAIN cur

HasChanges(prev, cur) == Changed(prev, cur) # {}
=============================================================================
