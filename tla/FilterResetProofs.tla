--------------------------- MODULE FilterResetProofs ---------------------------
(***************************************************************************)
(* For every set of paths and values: the filtering sink gives the backend *)
(* exactly what the server sent, and its purge spares what was sent again. *)
(***************************************************************************)
EXTENDS FilterReset, TLAPS

LEMMA SinkInitInv == SinkInit => SinkInv
  BY DEF SinkInit, SinkInv, SinkTypeOK, Copy, EmptyCopy

LEMMA SinkInvStep == SinkInv /\ [SinkNext]_sinkVars => SinkInv'
<1> SUFFICES ASSUME SinkInv, [SinkNext]_sinkVars PROVE SinkInv'
  OBVIOUS
<1> USE DEF SinkInv, SinkTypeOK, Copy
<1>1. CASE SinkReset BY <1>1 DEF SinkReset, EmptyCopy
<1>2. ASSUME NEW p \in Key, NEW h \in Hash, SinkSet(p, h) PROVE SinkInv'
  <2>1. SinkTypeOK' BY <1>2 DEF SinkSet
  <2>2. ASSUME NEW q \in Key
        PROVE  /\ memory'[q] = IF q = p THEN h ELSE memory[q]
               /\ want'[q] = IF q = p THEN h ELSE want[q]
               /\ down'[q] = IF q = p THEN h ELSE down[q]
    BY <1>2 DEF SinkSet
  <2> QED BY <1>2, <2>1, <2>2 DEF SinkSet
<1>3. ASSUME NEW p \in Key, SinkDelete(p) PROVE SinkInv'
  <2>1. SinkTypeOK' BY <1>3 DEF SinkDelete
  <2>2. ASSUME NEW q \in Key
        PROVE  /\ memory'[q] = IF q = p THEN NoHash ELSE memory[q]
               /\ want'[q] = IF q = p THEN NoHash ELSE want[q]
               /\ down'[q] = IF q = p THEN NoHash ELSE down[q]
    BY <1>3 DEF SinkDelete
  <2> QED BY <1>3, <2>1, <2>2 DEF SinkDelete
<1>4. CASE SinkSync BY <1>4 DEF SinkSync
<1>5. ASSUME NEW p \in Key, PurgeOne(p) PROVE SinkInv'
  BY <1>5 DEF PurgeOne, Unpurged
<1>6. CASE PurgeEnd
  <2>1. SinkTypeOK' BY <1>6 DEF PurgeEnd
  <2>2. ASSUME NEW q \in Key
        PROVE  down'[q] = memory'[q] /\ want'[q] = memory'[q]
    BY <1>6 DEF PurgeEnd, Unpurged
  <2> QED BY <1>6, <2>1, <2>2 DEF PurgeEnd
<1>7. CASE UNCHANGED sinkVars BY <1>7 DEF sinkVars
<1> QED BY <1>1, <1>2, <1>3, <1>4, <1>5, <1>6, <1>7 DEF SinkNext

\* Memory always tells what the backend holds, up to the purge under way.
THEOREM SinkInvariant == SinkSpec => []SinkInv
  BY SinkInitInv, SinkInvStep, PTL DEF SinkSpec

\* At every Sync the backend holds exactly what was sent since the Reset.
THEOREM SyncIsExact == SinkSpec => []ExactAtSync
<1>1. SinkInv => ExactAtSync
  BY DEF SinkInv, SinkTypeOK, Copy, ExactAtSync
<1> QED BY <1>1, SinkInvariant, PTL

\* The purge only takes away paths the server did not send.
THEOREM PurgeIsSafe == SinkSpec => PurgeSparesSent
<1>1. SinkInv /\ [SinkNext]_sinkVars =>
        [\A p \in Key : purging /\ down'[p] # down[p]
                           => want[p] = NoHash /\ down'[p] = NoHash]_sinkVars
  <2> SUFFICES ASSUME SinkInv, SinkNext, NEW p \in Key, purging, down'[p] # down[p]
               PROVE  want[p] = NoHash /\ down'[p] = NoHash
    OBVIOUS
  <2>1. PICK q \in Key : PurgeOne(q)
    BY DEF SinkNext, SinkReset, SinkSet, SinkDelete, SinkSync, PurgeEnd
  <2>2. p = q BY <2>1 DEF PurgeOne, SinkInv, SinkTypeOK, Copy
  <2> QED BY <2>1, <2>2 DEF PurgeOne, Unpurged, SinkInv, SinkTypeOK, Copy
<1> QED BY <1>1, SinkInvariant, PTL DEF SinkSpec, PurgeSparesSent
=============================================================================
