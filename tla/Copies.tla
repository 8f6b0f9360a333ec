-------------------------------- MODULE Copies --------------------------------
(***************************************************************************)
(* Keyed collections as every component holds them: a hash per key, which  *)
(* stands for the value with that hash, or NoHash for a key that is not    *)
(* there.                                                                  *)
(***************************************************************************)
CONSTANTS Key,      \* keys, or paths
          Hash,     \* hashes of values
          NoHash    \* the hash of a key that is not there

ASSUME HashAssumption == NoHash \notin Hash

Copy == [Key -> Hash \cup {NoHash}]

EmptyCopy == [k \in Key |-> NoHash]
=============================================================================
