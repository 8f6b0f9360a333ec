----------------------------- MODULE SnapshotFeed -----------------------------
(***************************************************************************)
(* What a diff store promises: its owner rebuilds or edits the contents    *)
(* live, and each time the diff is handed over, the reader's copy becomes  *)
(* exactly those contents.                                                 *)
(***************************************************************************)
EXTENDS Copies

VARIABLES live,     \* the contents the owner has set, a hash per key
          known     \* the reader's copy

Init == live = EmptyCopy /\ known = live

Edit == live' \in Copy /\ UNCHANGED known

HandOver == known' = live /\ live' \in Copy

Next == Edit \/ HandOver

Spec == Init /\ [][Next]_<<live, known>>
=============================================================================
