------------------------------ MODULE FilterReset ------------------------------
(***************************************************************************)
(* client/localsink/filterreset/filterreset.go: the sink that hides a      *)
(* reconnection from the backend behind it.  After Reset it remembers      *)
(* which paths are sent again, drops the ones that come with the value the *)
(* backend has, and at Sync deletes the paths that were not sent.  The     *)
(* sinks behind it in this repository never fail.  (Definitions that no    *)
(* action uses are faulty variants that show a property failing.)          *)
(***************************************************************************)
EXTENDS Copies

VARIABLES filtering, seen,      \* Sink.filtering, the keys of Sink.seen
          memory,               \* Sink.memory: the hash last sent for a path
          purging,              \* Send is in the loop over memory, at a Sync
          down,                 \* what the backend holds
          want,                 \* history: what was sent since the last Reset
          insync                \* history: the last thing the backend got was Sync

sinkVars == <<filtering, seen, memory, purging, down, want, insync>>

SinkTypeOK == /\ filtering \in BOOLEAN /\ seen \subseteq Key
              /\ memory \in Copy /\ down \in Copy /\ want \in Copy
              /\ purging \in BOOLEAN /\ insync \in BOOLEAN

SinkInit == /\ filtering = FALSE /\ seen = {}
            /\ memory = EmptyCopy /\ down = EmptyCopy /\ want = EmptyCopy
            /\ purging = FALSE /\ insync = FALSE

SinkReset == /\ ~purging
             /\ filtering' = TRUE /\ seen' = {}
             /\ want' = EmptyCopy /\ insync' = FALSE
             /\ UNCHANGED <<memory, purging, down>>

\* A value the backend has is not sent again, but counts as seen.
SinkSetUnseen(p, h) == /\ ~purging
                       /\ seen' = IF filtering /\ memory[p] # h THEN seen \cup {p} ELSE seen
                       /\ memory' = [memory EXCEPT ![p] = h]
                       /\ down' = [down EXCEPT ![p] = IF memory[p] = h THEN @ ELSE h]
                       /\ want' = [want EXCEPT ![p] = h]
                       /\ insync' = FALSE
                       /\ UNCHANGED <<filtering, purging>>

SinkSet(p, h) == /\ ~purging
                 /\ seen' = IF filtering THEN seen \cup {p} ELSE seen
                 /\ memory' = [memory EXCEPT ![p] = h]
                 /\ down' = [down EXCEPT ![p] = IF memory[p] = h THEN @ ELSE h]
                 /\ want' = [want EXCEPT ![p] = h]
                 /\ insync' = FALSE
                 /\ UNCHANGED <<filtering, purging>>

SinkDelete(p) == /\ ~purging
                 /\ memory' = [memory EXCEPT ![p] = NoHash]
                 /\ down' = [down EXCEPT ![p] = IF memory[p] # NoHash THEN NoHash ELSE @]
                 /\ want' = [want EXCEPT ![p] = NoHash]
                 /\ insync' = FALSE
                 /\ UNCHANGED <<filtering, seen, purging>>

(***************************************************************************)
(* Sync.  While filtering, the paths in memory that were not seen are      *)
(* deleted from the backend one by one, in the order Go ranges over a map, *)
(* before they leave memory and Sync is passed on.                         *)
(***************************************************************************)
SinkSyncOnly == /\ ~purging
                /\ insync' = TRUE
                /\ UNCHANGED <<filtering, seen, memory, purging, down, want>>

SinkSync == /\ ~purging
            /\ purging' = filtering /\ insync' = ~filtering
            /\ UNCHANGED <<filtering, seen, memory, down, want>>

Unpurged == {p \in Key : memory[p] # NoHash /\ p \notin seen /\ down[p] # NoHash}

PurgeOne(p) == /\ purging /\ p \in Unpurged
               /\ down' = [down EXCEPT ![p] = NoHash]
               /\ UNCHANGED <<filtering, seen, memory, purging, want, insync>>

PurgeEnd == /\ purging /\ Unpurged = {}
            /\ memory' = [p \in Key |-> IF p \in seen THEN memory[p] ELSE NoHash]
            /\ filtering' = FALSE /\ seen' = {}
            /\ purging' = FALSE /\ insync' = TRUE
            /\ UNCHANGED <<down, want>>

SinkNext == \/ SinkReset
            \/ \E p \in Key, h \in Hash : SinkSet(p, h)
            \/ \E p \in Key : SinkDelete(p)
            \/ SinkSync
            \/ \E p \in Key : PurgeOne(p)
            \/ PurgeEnd

SinkSpec == SinkInit /\ [][SinkNext]_sinkVars
-----------------------------------------------------------------------------
(***************************************************************************)
(* Whatever the server sends, in whatever order, when the backend gets     *)
(* Sync it holds exactly what was sent since the last Reset.               *)
(***************************************************************************)
ExactAtSync == insync => down = want

(***************************************************************************)
(* A path the new connection sends with the value the backend already has  *)
(* is left alone: while filtering, only a Delete from the server or the    *)
(* purge takes a path away, and the purge never takes one that was sent.   *)
(***************************************************************************)
PurgeSparesSent == [][\A p \in Key : purging /\ down'[p] # down[p]
                                        => want[p] = NoHash /\ down'[p] = NoHash]_sinkVars

\* The inductive invariant: what memory, seen and want have to do with down.
SinkInv == /\ SinkTypeOK
           /\ purging => filtering /\ ~insync
           /\ insync => ~filtering
           /\ \A p \in Key :
                /\ ~purging => down[p] = memory[p]
                /\ purging => down[p] \in {memory[p], NoHash}
                /\ purging /\ p \in seen => down[p] = memory[p]
                /\ ~filtering => want[p] = memory[p]
                /\ filtering => want[p] = IF p \in seen THEN memory[p] ELSE NoHash
=============================================================================
