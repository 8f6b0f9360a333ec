------------------------------- MODULE RevStore -------------------------------
(***************************************************************************)
(* What the store promises to the jobs that watch it: a sequence of        *)
(* revisions, each with contents that are never seen half written, and     *)
(* viewers that move to the current revision, only forwards.               *)
(***************************************************************************)
EXTENDS Naturals

CONSTANTS Viewer, Content, EmptyContent

VARIABLES content,  \* the contents of the current revision
          rev,      \* the current revision
          closed,
          viewed    \* viewed[v]: the revision and contents viewer v last got

vars == <<content, rev, closed, viewed>>

Init == /\ content = EmptyContent
        /\ rev = 0
        /\ closed = FALSE
        /\ viewed = [v \in Viewer |-> [rev |-> 0, content |-> EmptyContent]]

Commit == /\ content' \in Content
          /\ rev' = rev + 1
          /\ UNCHANGED <<closed, viewed>>

Close == /\ closed' = TRUE
         /\ UNCHANGED <<content, rev, viewed>>

Look(v) == /\ viewed[v].rev < rev
           /\ viewed' = [viewed EXCEPT ![v] = [rev |-> rev, content |-> content]]
           /\ UNCHANGED <<content, rev, closed>>

Next == Commit \/ Close \/ \E v \in Viewer : Look(v)

Spec == Init /\ [][Next]_vars
=============================================================================
