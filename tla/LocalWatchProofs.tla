--------------------------- MODULE LocalWatchProofs ---------------------------
(***************************************************************************)
(* For every set of paths, values and sources, and any number of           *)
(* revisions, broken connections and restarts: what a node's backend gets  *)
(* from a watch.                                                           *)
(***************************************************************************)
EXTENDS LocalWatch, LocalDiffProofs, FilterResetProofs

-----------------------------------------------------------------------------
(***************************************************************************)
(* The inductive invariant, action by action.                              *)
(***************************************************************************)
LEMMA OpFields ==
  \A m \in OpItem :
    /\ m.op \in {"reset", "set", "delete", "sync"}
    /\ m.op = "set" => m.path \in Key /\ m.hash \in Hash
    /\ m.op = "delete" => m.path \in Key
  BY DEF OpItem, ResetOp, SyncOp, SetOp, DeleteOp

LEMMA StreamDomain ==
  ASSUME WatchTypeOK
  PROVE  /\ Len(stream) \in Nat /\ DOMAIN stream = 1..Len(stream)
         /\ \A i \in 1..Len(stream) : stream[i] \in OpItem
         /\ stream = <<>> <=> Len(stream) = 0
  BY SeqLen, SeqEmpty, Zenon DEF WatchTypeOK

LEMMA WatchSinkStep == WatchInv /\ [Next]_vars => [SinkNext]_sinkVars
<1> SUFFICES ASSUME WatchInv, Next PROVE [SinkNext]_sinkVars
  BY Zenon DEF vars, sinkVars
<1>1. CASE Commit BY <1>1, Zenon DEF Commit
<1>2. CASE Break BY <1>2, Zenon DEF Break, Drop
<1>3. CASE RestartServer BY <1>3, Zenon DEF RestartServer, Drop
<1>4. CASE JobWait BY <1>4, Zenon DEF JobWait
<1>5. CASE JobView BY <1>5, Zenon DEF JobView
<1>6. CASE Connect BY <1>6, Zenon DEF Connect
<1>7. CASE Request BY <1>7, Zenon DEF Request
<1>8. CASE Lost BY <1>8, Zenon DEF Lost
<1>9. CASE Recv
  <2>1. Head(stream) \in OpItem
    BY <1>9, SeqTail, Zenon DEF Recv, WatchInv, WatchTypeOK
  <2> QED BY <1>9, <2>1, OpFields, Zenon DEF Recv, SinkNext
<1>10. CASE Purge BY <1>10, Zenon DEF Purge, SinkNext
<1> QED BY <1>1, <1>2, <1>3, <1>4, <1>5, <1>6, <1>7, <1>8, <1>9, <1>10, Zenon DEF Next

LEMMA WatchInitInv == Init => WatchInv
<1> SUFFICES ASSUME Init PROVE WatchInv
  BY Zenon
<1>1. SinkInv BY SinkInitInv, Zenon DEF Init
<1>2. EmptyContent \in Content
  <2>1. [p \in Endpoint |-> NoHash] \in Slice BY PathAssumption, Zenon DEF Slice, Endpoint
  <2> QED BY <2>1, Zenon DEF EmptyContent, Content
<1>3. EmptyTree \in Marked BY Zenon DEF EmptyTree, Marked
<1>4. WatchTypeOK
  <2>1. SinkTypeOK BY <1>1, Zenon DEF SinkInv
  <2>2. stream \in Seq(OpItem) BY SeqEmpty, Zenon DEF Init
  <2>3. synced \in BOOLEAN /\ up \in BOOLEAN /\ request \in BOOLEAN BY Zenon DEF Init
  <2>4. tree \in Marked /\ content \in Content /\ goal \in Content BY <1>2, <1>3, Zenon DEF Init
  <2>5. /\ rev \in Nat /\ jrev \in Nat
        /\ jpc \in {"wait", "view"} /\ cpc \in {"dial", "request", "recv"}
    BY Zenon DEF Init
  <2> QED BY <2>1, <2>2, <2>3, <2>4, <2>5, Zenon DEF WatchTypeOK, Marked
<1>5. DOMAIN stream = {} BY DEF Init
<1>6. Control /\ OnStream /\ TreeIsGoal /\ InitialSet /\ Whole /\ InOrder
  BY <1>5, Zenon DEF Init, SinkInit, Control, OnStream, TreeIsGoal, InitialSet, Whole, InOrder
<1>7. NoOrphans
  BY PathAssumption, Zenon DEF Init, SinkInit, NoOrphans, Orphans, EmptyCopy
<1> QED BY <1>1, <1>4, <1>6, <1>7, Zenon DEF WatchInv

LEMMA CommitStep ==
  ASSUME WatchInv, Commit, SinkInv'
  PROVE  WatchInv'
<1> USE DEF WatchInv, Commit, sinkVars, jobVars
<1>1. WatchTypeOK'
  <2>1. rev' \in Nat BY DEF WatchTypeOK
  <2>2. synced' \in BOOLEAN BY Zenon DEF WatchTypeOK
  <2>3. content' \in Content BY Zenon
  <2> QED BY <2>1, <2>2, <2>3, Zenon DEF WatchTypeOK, SinkInv
<1>2. Control' /\ OnStream' BY Zenon DEF Control, OnStream, Complete
<1>3. TreeIsGoal'
  <2>1. synced => synced' BY Zenon
  <2> QED BY <2>1, Zenon DEF TreeIsGoal
<1>4. InitialSet' /\ Whole' BY Zenon DEF InitialSet, Whole, Complete, Pending, ResetPending
<1>5. InOrder' /\ NoOrphans' BY DEF InOrder, NoOrphans, Orphans
<1> QED BY <1>1, <1>2, <1>3, <1>4, <1>5, Zenon

LEMMA DropStep ==
  ASSUME WatchInv, Drop, SinkInv', content' \in Content, rev' \in Nat, synced' \in BOOLEAN
  PROVE  WatchInv'
<1> USE DEF WatchInv
<1>1. PICK n \in 0..Len(stream) : stream' = SubSeq(stream, 1, n) BY Zenon DEF Drop
<1>2. /\ Len(stream) \in Nat /\ DOMAIN stream = 1..Len(stream)
      /\ \A i \in 1..Len(stream) : stream[i] \in OpItem
      /\ stream = <<>> <=> Len(stream) = 0
  BY StreamDomain, Zenon
<1>3. /\ stream' \in Seq(OpItem) /\ Len(stream') = n
      /\ \A i \in 1..n : stream'[i] = stream[i]
  BY <1>1, SeqPrefix, Zenon DEF WatchTypeOK
<1>4. DOMAIN stream' = 1..n /\ (stream' = <<>> <=> n = 0)
  BY <1>3, SeqLen, SeqEmpty, Zenon
<1>5. WatchTypeOK' BY <1>3, Zenon DEF Drop, WatchTypeOK, SinkTypeOK, sinkVars, jobVars
<1>6. UNCHANGED <<sinkVars, jobVars, cpc>> /\ ~up' /\ ~request' BY Zenon DEF Drop
<1> USE <1>2, <1>3, <1>4, <1>6 DEF sinkVars, jobVars
<1>7. Control' BY DEF Control
<1>8. OnStream' BY DEF OnStream
<1>9. TreeIsGoal' BY Zenon DEF TreeIsGoal
<1>10. InitialSet' BY DEF InitialSet, ResetPending
<1>11. Whole'
  <2> SUFFICES ASSUME jrev # 0 \/ jpc = "view", purging \/ cpc = "request" \/ Complete', NEW p \in Key
               PROVE  \/ Pending(p)'
                      \/ IF ResetPending' THEN tree[p].hash = NoHash ELSE want[p] = tree[p].hash
    BY Zenon DEF Whole
  <2>1. n = Len(stream) /\ (purging \/ cpc = "request" \/ Complete)
    <3>1. CASE purging \/ cpc = "request"
      <4>1. stream = <<>> BY <3>1, Zenon DEF Control
      <4>2. Len(stream) = 0 BY <4>1, Zenon
      <4>3. n = Len(stream) BY <4>2
      <4> QED BY <3>1, <4>3, Zenon
    <3>2. CASE Complete'
      <4>1. n # 0 /\ stream[n].op = "sync" BY <3>2 DEF Complete
      <4>2. n \in DOMAIN stream BY <4>1
      <4>3. n = Len(stream) BY <4>1, <4>2, Zenon DEF OnStream
      <4> QED BY <4>1, <4>3, Zenon DEF Complete
    <3> QED BY <3>1, <3>2, Zenon
  <2>2. Pending(p) <=> Pending(p)' BY <2>1, Zenon DEF Pending
  <2>3. ResetPending <=> ResetPending' BY <2>1, Zenon DEF ResetPending
  <2> QED BY <2>1, <2>2, <2>3, Zenon DEF Whole
<1>12. InOrder' BY DEF InOrder
<1>13. NoOrphans' BY Zenon DEF NoOrphans, Orphans
<1> QED BY <1>5, <1>7, <1>8, <1>9, <1>10, <1>11, <1>12, <1>13, Zenon

LEMMA OneOp ==
  ASSUME NEW m \in OpItem
  PROVE  <<m>> \in Seq(OpItem) /\ Len(<<m>>) = 1 /\ DOMAIN <<m>> = {1} /\ <<m>>[1] = m
  OBVIOUS

LEMMA JobWaitStep ==
  ASSUME WatchInv, JobWait, SinkInv'
  PROVE  WatchInv'
<1> USE DEF WatchInv, JobWait, sinkVars, storeVars
<1>1. stream = <<>> /\ DOMAIN stream = {} BY DEF Control
<1>2. stream' = IF jrev = 0 THEN <<ResetOp>> ELSE <<>>
  BY <1>1
<1>3. /\ jrev = 0 => /\ stream' = <<ResetOp>> /\ Len(stream') = 1
                      /\ DOMAIN stream' = {1} /\ stream'[1].op = "reset"
      /\ jrev # 0 => stream' = <<>> /\ Len(stream') = 0 /\ DOMAIN stream' = {}
      /\ stream' \in Seq(OpItem)
  <2>1. ResetOp \in OpItem /\ ResetOp.op = "reset" BY DEF ResetOp, OpItem
  <2>2. CASE jrev = 0 BY <1>2, <2>1, <2>2, OneOp, Zenon
  <2>3. CASE jrev # 0 BY <1>2, <2>3, SeqEmpty
  <2> QED BY <2>2, <2>3, Zenon
<1>4. WatchTypeOK' BY <1>3, Zenon DEF WatchTypeOK, SinkInv
<1>5. cpc = "recv" /\ ~purging /\ up' /\ ~request' /\ jpc' = "view" BY Zenon DEF Control
<1>6. Control' BY <1>3, <1>5, Zenon DEF Control
<1>7. OnStream' BY <1>3, Zenon DEF OnStream
<1>8. TreeIsGoal' BY Zenon DEF TreeIsGoal
<1>9. InitialSet'
  BY <1>3, <1>5, Zenon DEF InitialSet, ResetPending, TreeIsGoal
<1>10. Whole'
  <2> SUFFICES ASSUME NEW p \in Key
               PROVE  IF ResetPending' THEN tree[p].hash = NoHash ELSE want[p] = tree[p].hash
    BY Zenon DEF Whole
  <2>1. CASE jrev = 0
    BY <2>1, <1>3 DEF ResetPending, TreeIsGoal, EmptyTree, AbsentItem
  <2>2. CASE jrev # 0
    BY <2>2, <1>1, <1>3, Zenon DEF Whole, ResetPending, Pending
  <2> QED BY <2>1, <2>2, Zenon
<1>11. InOrder' BY <1>3, Zenon DEF InOrder
<1>12. NoOrphans' BY Zenon DEF NoOrphans, Orphans
<1> QED BY <1>4, <1>6, <1>7, <1>8, <1>9, <1>10, <1>11, <1>12, Zenon

LEMMA ConnectStep ==
  ASSUME WatchInv, Connect, SinkInv'
  PROVE  WatchInv'
<1> USE DEF WatchInv, Connect, sinkVars, storeVars
<1>1. stream' \in Seq(OpItem) /\ DOMAIN stream' = {} OBVIOUS
<1>2. EmptyTree \in Marked BY Zenon DEF EmptyTree, Marked
<1>3. WatchTypeOK' BY <1>1, <1>2, Zenon DEF WatchTypeOK, SinkTypeOK, Marked
<1>4. Control' BY Zenon DEF Control
<1>5. OnStream' /\ InOrder' BY <1>1, Zenon DEF OnStream, InOrder
<1>6. TreeIsGoal' /\ InitialSet' /\ Whole' BY Zenon DEF TreeIsGoal, InitialSet, Whole
<1>7. NoOrphans' BY Zenon DEF NoOrphans, Orphans
<1> QED BY <1>3, <1>4, <1>5, <1>6, <1>7, Zenon

LEMMA RequestStep ==
  ASSUME WatchInv, Request, SinkInv'
  PROVE  WatchInv'
<1> USE DEF WatchInv, Request, sinkVars, storeVars, jobVars
<1>1. WatchTypeOK' BY Zenon DEF WatchTypeOK, SinkTypeOK
<1>2. Control' BY Zenon DEF Control, Complete
<1>3. OnStream' /\ InOrder' BY DEF OnStream, InOrder
<1>4. TreeIsGoal' /\ InitialSet' BY Zenon DEF TreeIsGoal, InitialSet, ResetPending
<1>5. Whole' BY Zenon DEF Whole, Complete, Pending, ResetPending
<1>6. NoOrphans' BY Zenon DEF NoOrphans, Orphans
<1> QED BY <1>1, <1>2, <1>3, <1>4, <1>5, <1>6, Zenon

LEMMA LostStep ==
  ASSUME WatchInv, Lost, SinkInv'
  PROVE  WatchInv'
<1> USE DEF WatchInv, Lost, sinkVars, storeVars, jobVars
<1>1. WatchTypeOK' BY Zenon DEF WatchTypeOK, SinkTypeOK
<1>2. Control' BY Zenon DEF Control, Complete
<1>3. OnStream' /\ InOrder' BY DEF OnStream, InOrder
<1>4. TreeIsGoal' /\ InitialSet' BY Zenon DEF TreeIsGoal, InitialSet, ResetPending, Control
<1>5. Whole' BY Zenon DEF Whole, Complete, Control
<1>6. NoOrphans' BY Zenon DEF NoOrphans, Orphans
<1> QED BY <1>1, <1>2, <1>3, <1>4, <1>5, <1>6, Zenon

\* What Recv leaves of the stream and of the parts that only depend on it.
LEMMA RecvStream ==
  ASSUME WatchInv, Recv
  PROVE  /\ Len(stream) \in Nat \ {0} /\ DOMAIN stream = 1..Len(stream)
         /\ \A i \in 1..Len(stream) : stream[i] \in OpItem
         /\ stream' \in Seq(OpItem) /\ Len(stream') = Len(stream) - 1
         /\ DOMAIN stream' = 1..(Len(stream) - 1) /\ (stream' = <<>> <=> Len(stream) = 1)
         /\ \A i \in 1..(Len(stream) - 1) : stream'[i] = stream[i + 1]
         /\ Head(stream) = stream[1] /\ stream[1] \in OpItem
         /\ ~request /\ ~purging /\ ~ResetPending'
<1>1. stream \in Seq(OpItem) /\ stream # <<>> /\ stream' = Tail(stream)
  BY Zenon DEF Recv, WatchInv, WatchTypeOK
<1>2. /\ Len(stream) \in Nat /\ DOMAIN stream = 1..Len(stream) /\ Len(stream) # 0
      /\ \A i \in 1..Len(stream) : stream[i] \in OpItem
  BY <1>1, SeqLen, SeqEmpty, Zenon
<1>3. /\ stream' \in Seq(OpItem) /\ Len(stream') = Len(stream) - 1
      /\ \A i \in 1..(Len(stream) - 1) : stream'[i] = stream[i + 1]
  BY <1>1, SeqTail, Zenon
<1>4. DOMAIN stream' = 1..(Len(stream) - 1) /\ (stream' = <<>> <=> Len(stream) = 1)
  BY <1>2, <1>3, SeqLen, SeqEmpty
<1>5. Head(stream) = stream[1] /\ stream[1] \in OpItem
  BY <1>1, <1>2, SeqTail
<1>6. ~request /\ ~purging BY <1>1, Zenon DEF WatchInv, Control
<1>7. ~ResetPending'
  <2> SUFFICES ASSUME NEW i \in DOMAIN stream', stream'[i].op = "reset" PROVE FALSE
    BY Zenon DEF ResetPending
  <2>1. i + 1 \in DOMAIN stream /\ stream[i + 1].op = "reset" /\ i + 1 # 1
    BY <1>2, <1>3, <1>4
  <2> QED BY <2>1, Zenon DEF WatchInv, OnStream
<1> QED BY <1>2, <1>3, <1>4, <1>5, <1>6, <1>7, Zenon

LEMMA RecvCommon ==
  ASSUME WatchInv, Recv, SinkInv'
  PROVE  WatchTypeOK' /\ OnStream' /\ TreeIsGoal' /\ InitialSet'
<1> DEFINE m == stream[1]
<1> USE RecvStream
<1>1. /\ UNCHANGED <<content, rev, synced, up, request, jpc, jrev, tree, goal>>
      /\ cpc = "recv" /\ cpc' \in {"recv", "request"}
      /\ filtering' => filtering \/ m.op = "reset"
      /\ cpc' = "request" => ~filtering'
  BY DEF Recv, storeVars, jobVars, SinkReset, SinkSet, SinkDelete, SinkSync
<1>2. WatchTypeOK'
  BY <1>1, Zenon DEF WatchInv, WatchTypeOK, SinkInv
<1>3. OnStream'
  <2> SUFFICES ASSUME NEW i \in DOMAIN stream'
               PROVE  /\ stream'[i].op = "reset" => i = 1
                      /\ stream'[i].op = "sync" => i = Len(stream')
                      /\ stream'[i].op # "reset" => jpc = "wait" /\ jrev # 0
                      /\ stream'[i].op = "set" => stream'[i].hash = LastSet(goal, stream'[i].path)
                      /\ stream'[i].op = "delete" => /\ LastSet(goal, stream'[i].path) = NoHash
                                                     /\ ~filtering' /\ stream'[1].op # "reset"
    BY <1>1, Zenon DEF OnStream
  <2>1. i + 1 \in DOMAIN stream /\ stream'[i] = stream[i + 1] OBVIOUS
  <2>2. stream'[1].op # "reset" BY DEF ResetPending
  <2> QED BY <1>1, <2>1, <2>2 DEF WatchInv, OnStream
<1>4. TreeIsGoal' BY <1>1, Zenon DEF WatchInv, TreeIsGoal
<1>5. InitialSet'
  <2>1. m.op = "reset" => ResetPending BY DEF ResetPending
  <2> QED BY <1>1, <2>1, Zenon DEF WatchInv, InitialSet
<1> QED BY <1>2, <1>3, <1>4, <1>5, Zenon

LEMMA RecvControl ==
  ASSUME WatchInv, Recv
  PROVE  Control'
<1> DEFINE m == stream[1]
<1> USE RecvStream
<1>1. /\ UNCHANGED <<up, request, jpc, jrev>> /\ cpc = "recv"
      /\ m.op # "sync" => UNCHANGED <<purging, cpc>>
      /\ m.op = "sync" => purging' = filtering /\ cpc' = IF filtering THEN cpc ELSE "request"
  BY Zenon DEF Recv, storeVars, jobVars, SinkReset, SinkSet, SinkDelete, SinkSync
<1>2. CASE m.op = "sync"
  <2>1. Len(stream) = 1 /\ jpc = "wait" /\ jrev # 0 BY <1>2 DEF WatchInv, OnStream
  <2>2. stream' = <<>> BY <2>1, Zenon
  <2> QED BY <1>1, <1>2, <2>1, <2>2 DEF Control
<1>3. CASE m.op # "sync"
  <2>1. up /\ jpc = "view" => stream' = <<>>
    BY Zenon DEF WatchInv, Control
  <2>2. ASSUME up, jpc = "wait" PROVE Complete'
    <3>1. Complete BY <1>1, <2>2, Zenon DEF WatchInv, Control
    <3>2. Len(stream) # 1 BY <1>3, <3>1, Zenon DEF Complete
    <3>3. stream'[Len(stream) - 1] = stream[Len(stream)] BY <3>2
    <3> QED BY <3>1, <3>2, <3>3, Zenon DEF Complete
  <2> QED BY <1>1, <1>3, <2>1, <2>2 DEF Control
<1> QED BY <1>2, <1>3, Zenon

\* Complete stays as it is unless the last operation is taken from the stream.
LEMMA RecvWhole ==
  ASSUME WatchInv, Recv, SinkInv'
  PROVE  Whole'
<1> DEFINE m == stream[1]
<1> USE RecvStream
<1> SUFFICES ASSUME jrev # 0 \/ jpc = "view",
                    up \/ purging' \/ cpc' = "request" \/ Complete', NEW q \in Key
             PROVE  Pending(q)' \/ want'[q] = tree[q].hash
  BY Zenon DEF Recv, jobVars, Whole
<1>1. up \/ Complete
  <2>1. CASE m.op = "sync"
    <3>1. Len(stream) = 1 BY <2>1 DEF WatchInv, OnStream
    <3> QED BY <2>1, <3>1, Zenon DEF Complete
  <2>2. CASE m.op # "sync"
    <3>1. UNCHANGED <<purging, cpc>> /\ cpc = "recv"
      BY <2>2, Zenon DEF Recv, SinkReset, SinkSet, SinkDelete, SinkSync
    <3>2. ASSUME Complete' PROVE Complete
      <4>1. Len(stream) # 1 BY <3>2, Zenon DEF Complete
      <4>2. stream'[Len(stream) - 1] = stream[Len(stream)] BY <4>1
      <4> QED BY <3>2, <4>1, <4>2 DEF Complete
    <3> QED BY <3>1, <3>2, Zenon
  <2> QED BY <2>1, <2>2, Zenon
<1>2. Pending(q) \/ IF ResetPending THEN tree[q].hash = NoHash ELSE want[q] = tree[q].hash
  BY <1>1, Zenon DEF WatchInv, Whole
<1>3. ASSUME Pending(q), ~Pending(q)' PROVE m.op \in {"set", "delete"} /\ m.path = q
  <2>1. PICK i \in DOMAIN stream : stream[i].op \in {"set", "delete"} /\ stream[i].path = q
    BY <1>3, Zenon DEF Pending
  <2>2. ASSUME i # 1 PROVE FALSE
    <3>1. i - 1 \in DOMAIN stream' /\ stream'[i - 1] = stream[i] BY <2>2
    <3> QED BY <1>3, <2>1, <3>1, Zenon DEF Pending
  <2> QED BY <2>1, <2>2, Zenon
<1>4. want \in Copy BY Zenon DEF WatchInv, SinkInv, SinkTypeOK
<1>5. CASE m.op = "reset"
  <2>1. ResetPending BY <1>5 DEF ResetPending
  <2>2. want'[q] = NoHash BY <1>5, Zenon DEF Recv, SinkReset, EmptyCopy
  <2> QED BY <1>2, <1>3, <1>5, <2>1, <2>2, Zenon
<1>6. CASE m.op # "reset"
  <2>1. ~ResetPending BY <1>6, Zenon DEF ResetPending, WatchInv, OnStream
  <2>2. CASE m.op \in {"set", "delete"} /\ m.path = q
    <3>1. tree[q].hash = LastSet(goal, q) BY <2>2 DEF WatchInv, OnStream, TreeIsGoal
    <3>2. CASE m.op = "set"
      <4>1. LastSet(goal, q) = m.hash BY <2>2, <3>2 DEF WatchInv, OnStream
      <4>2. want'[q] = m.hash BY <1>4, <2>2, <3>2, Zenon DEF Recv, SinkSet, Copy
      <4> QED BY <3>1, <4>1, <4>2, Zenon
    <3>3. CASE m.op = "delete"
      <4>1. LastSet(goal, q) = NoHash BY <2>2, <3>3 DEF WatchInv, OnStream
      <4>2. want'[q] = NoHash BY <1>4, <2>2, <3>3, Zenon DEF Recv, SinkDelete, Copy
      <4> QED BY <3>1, <4>1, <4>2, Zenon
    <3> QED BY <2>2, <3>2, <3>3, Zenon
  <2>3. CASE ~(m.op \in {"set", "delete"} /\ m.path = q)
    <3>1. want'[q] = want[q]
      BY <1>4, <1>6, <2>3, Zenon DEF Recv, SinkSet, SinkDelete, SinkSync, Copy
    <3> QED BY <1>2, <1>3, <2>1, <2>3, <3>1, Zenon
  <2> QED BY <2>2, <2>3, Zenon
<1> QED BY <1>5, <1>6, Zenon

\* What Recv does to a path of the backend.
LEMMA RecvDown ==
  ASSUME WatchInv, Recv, NEW q \in Key
  PROVE  down'[q] = IF stream[1].op = "set" /\ stream[1].path = q THEN stream[1].hash
                    ELSE IF stream[1].op = "delete" /\ stream[1].path = q THEN NoHash
                    ELSE down[q]
<1> DEFINE m == stream[1]
<1>0. stream[1] \in OpItem /\ Head(stream) = m /\ ~purging BY RecvStream, Zenon
<1>1. memory \in Copy /\ down \in Copy /\ down[q] = memory[q]
  BY <1>0, Zenon DEF WatchInv, SinkInv, SinkTypeOK
<1>2. m.op \in {"reset", "set", "delete", "sync"} BY <1>0, OpFields, Zenon
<1>3. CASE m.op = "set"
  <2>1. SinkSet(m.path, m.hash) BY <1>0, <1>3, Zenon DEF Recv
  <2> QED BY <1>1, <1>3, <2>1, Zenon DEF SinkSet, Copy
<1>4. CASE m.op = "delete"
  <2>1. SinkDelete(m.path) BY <1>0, <1>4, Zenon DEF Recv
  <2> QED BY <1>1, <1>4, <2>1, Zenon DEF SinkDelete, Copy
<1>5. CASE m.op \in {"reset", "sync"} BY <1>0, <1>5, Zenon DEF Recv, SinkReset, SinkSync
<1> QED BY <1>2, <1>3, <1>4, <1>5, Zenon

LEMMA RecvInOrder ==
  ASSUME WatchInv, Recv
  PROVE  InOrder'
<1> DEFINE m == stream[1]
<1> USE RecvStream
<1>1. m.op = "set" => m.hash # NoHash BY OpFields, HashAssumption, Zenon
<1>2. /\ m.op = "set" => LastSet(goal, m.path) # NoHash
      /\ m.op = "delete" => LastSet(goal, m.path) = NoHash
  BY <1>1 DEF WatchInv, OnStream
<1>3. goal \in Content BY Zenon DEF WatchInv, WatchTypeOK
<1> SUFFICES ASSUME NEW i \in DOMAIN stream'
             PROVE  /\ stream'[i].op = "set" /\ stream'[i].path \in Endpoint
                         => \/ down'[SvcOf[stream'[i].path]] # NoHash
                            \/ \E j \in 1..(i - 1) : /\ stream'[j].op = "set"
                                                     /\ stream'[j].path = SvcOf[stream'[i].path]
                    /\ stream'[i].op = "delete" /\ stream'[i].path \in Svc
                         => \A p \in Endpoint : SvcOf[p] = stream'[i].path
                              => \/ down'[p] = NoHash
                                 \/ \E j \in 1..(i - 1) : stream'[j].op = "delete" /\ stream'[j].path = p
  BY Zenon DEF InOrder
<1>4. i + 1 \in DOMAIN stream /\ stream'[i] = stream[i + 1] /\ stream[i + 1] \in OpItem
  OBVIOUS
<1>5. ASSUME stream'[i].op = "set", stream'[i].path \in Endpoint
      PROVE  \/ down'[SvcOf[stream'[i].path]] # NoHash
             \/ \E j \in 1..(i - 1) : stream'[j].op = "set" /\ stream'[j].path = SvcOf[stream'[i].path]
  <2> DEFINE e == stream[i + 1].path
             svc == SvcOf[e]
  <2>1. svc \in Key BY <1>4, <1>5, PathAssumption, Zenon
  <2>2. LastSet(goal, e) # NoHash
    <3>1. stream[i + 1].hash = LastSet(goal, e) BY <1>4, <1>5, Zenon DEF WatchInv, OnStream
    <3>2. stream[i + 1].hash \in Hash BY <1>4, <1>5, OpFields, Zenon
    <3> QED BY <3>1, <3>2, HashAssumption, Zenon
  <2>3. LastSet(goal, svc) # NoHash BY <1>3, <1>4, <1>5, <2>2, ViewHasService, Zenon
  <2>4. \/ down[svc] # NoHash
        \/ \E j \in 1..((i + 1) - 1) : stream[j].op = "set" /\ stream[j].path = svc
    BY <1>4, <1>5, Zenon DEF WatchInv, InOrder
  <2>5. CASE down[svc] # NoHash
    <3>1. down'[svc] # NoHash BY <1>1, <1>2, <2>1, <2>3, <2>5, RecvDown, Zenon
    <3> QED BY <1>4, <3>1, Zenon
  <2>6. ASSUME NEW j \in 1..i, stream[j].op = "set" /\ stream[j].path = svc
        PROVE  \/ down'[svc] # NoHash
               \/ \E k \in 1..(i - 1) : stream'[k].op = "set" /\ stream'[k].path = svc
    <3>1. CASE j = 1 BY <1>1, <2>1, <2>6, <3>1, RecvDown, Zenon
    <3>2. CASE j # 1
      <4>1. j - 1 \in 1..(i - 1) /\ stream'[j - 1] = stream[j] BY <3>2
      <4> QED BY <2>6, <4>1, Zenon
    <3> QED BY <3>1, <3>2, Zenon
  <2> QED BY <1>4, <2>4, <2>5, <2>6
<1>6. ASSUME stream'[i].op = "delete", stream'[i].path \in Svc,
             NEW p \in Endpoint, SvcOf[p] = stream'[i].path
      PROVE  \/ down'[p] = NoHash
             \/ \E j \in 1..(i - 1) : stream'[j].op = "delete" /\ stream'[j].path = p
  <2>1. p \in Key BY PathAssumption, Zenon
  <2>2. LastSet(goal, p) = NoHash
    <3>1. LastSet(goal, SvcOf[p]) = NoHash BY <1>4, <1>6, Zenon DEF WatchInv, OnStream
    <3> QED BY <1>3, <3>1, ViewHasService, Zenon
  <2>3. \/ down[p] = NoHash
        \/ \E j \in 1..((i + 1) - 1) : stream[j].op = "delete" /\ stream[j].path = p
    BY <1>4, <1>6 DEF WatchInv, InOrder
  <2>4. CASE down[p] = NoHash BY <1>2, <2>1, <2>2, <2>4, RecvDown, Zenon
  <2>5. ASSUME NEW j \in 1..i, stream[j].op = "delete" /\ stream[j].path = p
        PROVE  \/ down'[p] = NoHash
               \/ \E k \in 1..(i - 1) : stream'[k].op = "delete" /\ stream'[k].path = p
    <3>1. CASE j = 1 BY <2>1, <2>5, <3>1, RecvDown, Zenon
    <3>2. CASE j # 1
      <4>1. j - 1 \in 1..(i - 1) /\ stream'[j - 1] = stream[j] BY <3>2
      <4> QED BY <2>5, <4>1, Zenon
    <3> QED BY <3>1, <3>2, Zenon
  <2> QED BY <1>4, <2>3, <2>4, <2>5
<1> QED BY <1>5, <1>6, Zenon

LEMMA RecvNoOrphans ==
  ASSUME WatchInv, Recv
  PROVE  NoOrphans'
<1> DEFINE m == stream[1]
<1> USE RecvStream
<1> SUFFICES ASSUME NEW p \in Endpoint, down'[p] # NoHash PROVE down'[SvcOf[p]] # NoHash
  BY Zenon DEF NoOrphans, Orphans
<1>1. p \in Key /\ SvcOf[p] \in Svc /\ SvcOf[p] \in Key /\ SvcOf[p] # p BY PathAssumption, Zenon
<1>2. down[p] # NoHash => down[SvcOf[p]] # NoHash BY Zenon DEF WatchInv, NoOrphans, Orphans
<1>3. m.op = "set" => m.hash # NoHash BY OpFields, HashAssumption, Zenon
<1>4. CASE m.op = "set" /\ m.path = p
  <2>1. down[SvcOf[p]] # NoHash BY <1>4 DEF WatchInv, InOrder
  <2> QED BY <1>1, <1>4, <2>1, RecvDown, Zenon
<1>5. CASE m.op = "delete" /\ m.path = SvcOf[p]
  <2>1. down[p] = NoHash BY <1>1, <1>5 DEF WatchInv, InOrder
  <2> QED BY <1>1, <1>5, <2>1, RecvDown, Zenon
<1>6. CASE ~(m.op = "set" /\ m.path = p) /\ ~(m.op = "delete" /\ m.path = SvcOf[p])
  <2>1. down[p] # NoHash BY <1>1, <1>6, RecvDown, Zenon
  <2> QED BY <1>1, <1>2, <1>3, <1>6, <2>1, RecvDown, Zenon
<1> QED BY <1>4, <1>5, <1>6, Zenon

LEMMA PurgeStep ==
  ASSUME WatchInv, Purge, SinkInv'
  PROVE  WatchInv'
<1> USE DEF WatchInv
<1>1. /\ UNCHANGED <<content, rev, synced, up, request, stream, jpc, jrev, tree, goal>>
      /\ purging /\ want' = want
  BY Zenon DEF Purge, PurgeOne, PurgeEnd, storeVars, jobVars
<1>2. stream = <<>> /\ DOMAIN stream = {} /\ jpc = "wait" /\ jrev # 0 /\ cpc = "recv" /\ ~request
  BY <1>1 DEF Control, WatchTypeOK
<1>3. \A p \in Key : want[p] = tree[p].hash
  BY <1>1, <1>2, Zenon DEF Whole, Pending, ResetPending
<1>4. WatchTypeOK' BY <1>1, Zenon DEF Purge, WatchTypeOK, SinkInv
<1>5. OnStream' /\ InOrder' BY <1>1, <1>2, Zenon DEF OnStream, InOrder
<1>6. TreeIsGoal' BY <1>1, Zenon DEF TreeIsGoal
<1>7. Whole' BY <1>1, <1>2, <1>3, Zenon DEF Whole, Pending, ResetPending
<1>8. ASSUME NEW p \in Key, PurgeOne(p), cpc' = cpc PROVE Control' /\ InitialSet' /\ NoOrphans'
  <2>1. purging' BY <1>8, Zenon DEF PurgeOne
  <2> QED BY <1>1, <1>2, <1>8, <2>1, Zenon DEF Control, InitialSet, NoOrphans, Complete
<1>9. ASSUME PurgeEnd, cpc' = "request" PROVE Control' /\ InitialSet' /\ NoOrphans'
  <2>1. ~purging' /\ ~filtering' /\ insync' BY <1>9, Zenon DEF PurgeEnd
  <2>2. Control' /\ InitialSet' BY <1>1, <1>2, <1>9, <2>1, Zenon DEF Control, InitialSet
  <2>3. \A p \in Key : down'[p] = LastSet(goal, p)
    BY <1>1, <1>2, <1>3, <2>1, Zenon DEF SinkInv, TreeIsGoal
  <2>4. NoOrphans'
    <3>1. goal \in Content BY Zenon DEF WatchTypeOK
    <3>2. ASSUME NEW p \in Endpoint, down'[p] # NoHash PROVE down'[SvcOf[p]] # NoHash
      <4>1. p \in Key /\ SvcOf[p] \in Svc /\ SvcOf[p] \in Key BY PathAssumption, Zenon
      <4>2. LastSet(goal, p) # NoHash BY <2>3, <3>2, <4>1, Zenon
      <4>3. LastSet(goal, SvcOf[p]) # NoHash BY <3>1, <4>2, ViewHasService, Zenon
      <4> QED BY <2>3, <4>1, <4>3, Zenon
    <3> QED BY <3>2, Zenon DEF NoOrphans, Orphans
  <2> QED BY <2>2, <2>4, Zenon
<1> QED BY <1>4, <1>5, <1>6, <1>7, <1>8, <1>9, Zenon DEF Purge

\* A view that gives nothing to send leaves the diff stores as they were.
LEMMA QuietView ==
  ASSUME WatchInv, JobView, SinkInv', tree' = tree, UNCHANGED <<stream, jpc>>,
         goal' \in Content
  PROVE  WatchInv'
<1> USE DEF WatchInv
<1>1. /\ UNCHANGED <<filtering, seen, memory, purging, down, want, insync>>
      /\ UNCHANGED <<content, rev, synced, up, request, cpc>>
      /\ up /\ jpc = "view" /\ jrev' = rev /\ rev > jrev
  BY Zenon DEF JobView, sinkVars, storeVars
<1>2. jrev' \in Nat /\ jrev' # 0 BY <1>1 DEF WatchTypeOK
<1>3. WatchTypeOK' BY <1>1, <1>2, Zenon DEF WatchTypeOK, SinkInv
<1>4. Control' BY <1>1, Zenon DEF Control, Complete
<1>5. \A i \in DOMAIN stream : i = 1 /\ stream[i].op = "reset"
  <2>1. stream = <<>> \/ stream = <<ResetOp>> BY <1>1, Zenon DEF Control
  <2> QED BY <2>1, OneOp DEF ResetOp
<1>6. OnStream' BY <1>5, Zenon DEF OnStream
<1>7. TreeIsGoal' BY <1>1, <1>2, Zenon DEF TreeIsGoal
<1>8. InitialSet' BY <1>1, Zenon DEF InitialSet, ResetPending, Control
<1>9. Whole' BY <1>1, Zenon DEF Whole, Complete, Pending, ResetPending
<1>10. InOrder' BY <1>5, Zenon DEF InOrder
<1>11. NoOrphans' BY <1>1, Zenon DEF NoOrphans, Orphans
<1> QED BY <1>3, <1>4, <1>6, <1>7, <1>8, <1>9, <1>10, <1>11, Zenon

LEMMA ThreeParts ==
  ASSUME NEW a \in Seq(OpItem), NEW b \in Seq(OpItem), NEW m \in OpItem
  PROVE  LET s == a \o b \o <<m>>
         IN  /\ s \in Seq(OpItem) /\ Len(s) = Len(a) + Len(b) + 1
             /\ \A i \in 1..Len(a) : s[i] = a[i]
             /\ \A i \in 1..Len(b) : s[Len(a) + i] = b[i]
             /\ s[Len(s)] = m
<1> DEFINE ab == a \o b
<1>1. /\ ab \in Seq(OpItem) /\ Len(ab) = Len(a) + Len(b)
      /\ \A i \in 1..Len(a) : ab[i] = a[i]
      /\ \A i \in 1..Len(b) : ab[Len(a) + i] = b[i]
  BY SeqConcat, SeqLen
<1> HIDE DEF ab
<1> DEFINE s == ab \o <<m>>
<1>2. <<m>> \in Seq(OpItem) /\ Len(<<m>>) = 1 /\ <<m>>[1] = m BY OneOp, Zenon
<1>3. /\ s \in Seq(OpItem) /\ Len(s) = Len(ab) + 1
      /\ \A i \in 1..Len(ab) : s[i] = ab[i]
      /\ s[Len(ab) + 1] = m
  <2>1. /\ s \in Seq(OpItem) /\ Len(s) = Len(ab) + Len(<<m>>)
        /\ \A i \in 1 .. Len(ab) + Len(<<m>>) :
              s[i] = IF i <= Len(ab) THEN ab[i] ELSE <<m>>[i - Len(ab)]
    BY <1>1, <1>2, SeqConcat
  <2>2. Len(ab) \in Nat BY <1>1, SeqLen, Zenon
  <2>3. Len(ab) + 1 - Len(ab) = 1 BY <2>2
  <2> QED BY <1>2, <2>1, <2>2, <2>3
<1> HIDE DEF s
<1>4. Len(a) \in Nat /\ Len(b) \in Nat BY SeqLen, Zenon
<1>5. \A i \in 1..Len(a) : s[i] = a[i] BY <1>1, <1>3, <1>4
<1>6. \A i \in 1..Len(b) : s[Len(a) + i] = b[i] BY <1>1, <1>3, <1>4
<1> QED BY <1>1, <1>3, <1>5, <1>6, Zenon DEF s, ab

\* A view that gives something to send puts it behind what is on the stream,
\* which is nothing or Reset.
SendsBehind(k, diff) ==
    /\ k \in {0, 1} /\ DOMAIN stream = 1..k
    /\ Len(diff) \in Nat /\ DOMAIN diff = 1..Len(diff)
    /\ stream' \in Seq(OpItem) /\ Len(stream') = k + Len(diff) + 1
    /\ DOMAIN stream' = 1..(k + Len(diff) + 1)
    /\ k = 1 => stream[1].op = "reset" /\ stream'[1].op = "reset"
    /\ \A i \in DOMAIN diff : k + i \in DOMAIN stream' /\ stream'[k + i] = diff[i]
    /\ stream'[Len(stream')].op = "sync"

LEMMA JobStream ==
  ASSUME WatchInv, JobView, NEW diff \in Seq(OpItem), stream' = stream \o diff \o <<SyncOp>>
  PROVE  SendsBehind(Len(stream), diff)
<1>1. stream \in Seq(OpItem) /\ (stream = <<>> \/ stream = <<ResetOp>>)
  BY Zenon DEF WatchInv, WatchTypeOK, JobView, Control
<1>2. SyncOp \in OpItem /\ SyncOp.op = "sync" /\ ResetOp \in OpItem /\ ResetOp.op = "reset"
  BY DEF OpItem, SyncOp, ResetOp
<1>3. /\ Len(stream) \in {0, 1} /\ (Len(stream) = 1 => stream[1].op = "reset")
      /\ DOMAIN stream = 1..Len(stream)
  <2>1. CASE stream = <<>> BY <2>1
  <2>2. CASE stream = <<ResetOp>>
    <3>1. Len(stream) = 1 /\ DOMAIN stream = {1} /\ stream[1] = ResetOp BY <1>2, <2>2, OneOp, Zenon
    <3> QED BY <1>2, <3>1
  <2> QED BY <1>1, <2>1, <2>2, Zenon
<1>4. Len(diff) \in Nat /\ DOMAIN diff = 1..Len(diff) BY SeqLen, Zenon
<1>5. /\ stream' \in Seq(OpItem) /\ Len(stream') = Len(stream) + Len(diff) + 1
      /\ \A i \in 1..Len(stream) : stream'[i] = stream[i]
      /\ \A i \in 1..Len(diff) : stream'[Len(stream) + i] = diff[i]
      /\ stream'[Len(stream')] = SyncOp
  BY <1>1, <1>2, ThreeParts
<1>6. DOMAIN stream' = 1..(Len(stream) + Len(diff) + 1) BY <1>5, SeqLen, Zenon
<1> QED BY <1>2, <1>3, <1>4, <1>5, <1>6 DEF SendsBehind

\* What the client has when the job views the store for a diff that is not the first.
LEMMA ViewSettled ==
  ASSUME WatchInv, JobView, tree # EmptyTree
  PROVE  ~filtering /\ Len(stream) = 0 /\ \A p \in Key : down[p] = tree[p].hash
<1> USE DEF WatchInv
<1>1. up /\ jpc = "view" BY Zenon DEF JobView
<1>2. ~filtering /\ ~ResetPending BY <1>1, Zenon DEF InitialSet
<1>3. stream = <<>>
  <2>1. stream # <<ResetOp>>
    <3> SUFFICES ASSUME stream = <<ResetOp>> PROVE FALSE BY Zenon
    <3>1. 1 \in DOMAIN stream /\ stream[1].op = "reset" BY DEF ResetOp
    <3> QED BY <1>2, <3>1, Zenon DEF ResetPending
  <2> QED BY <1>1, <2>1, Zenon DEF Control
<1>4. \A p \in Key : want[p] = tree[p].hash
  <2>1. DOMAIN stream = {} BY <1>3
  <2>2. \A p \in Key : ~Pending(p) BY <2>1, Zenon DEF Pending
  <2> QED BY <1>1, <1>2, <2>2, Zenon DEF Whole
<1>5. ~purging BY <1>1, Zenon DEF Control
<1> QED BY <1>2, <1>3, <1>4, <1>5, Zenon DEF SinkInv

LEMMA EmptyMarked ==
  ASSUME NEW t \in Marked, NEW p \in Key, t[p].hash # NoHash \/ t[p] # AbsentItem
  PROVE  t # EmptyTree
  BY DEF EmptyTree, AbsentItem

LEMMA SameMarked ==
  ASSUME NEW t \in Marked, NEW u \in Marked, \A p \in Key : t[p].hash = u[p].hash
  PROVE  t = u
<1>1. ASSUME NEW p \in Key PROVE t[p] = u[p]
  <2>1. /\ t[p] \in [hash : Hash, state : {"Deleted"}] \/ t[p] = AbsentItem
        /\ u[p] \in [hash : Hash, state : {"Deleted"}] \/ u[p] = AbsentItem
        /\ t[p].hash = u[p].hash
    BY Zenon DEF Marked
  <2> QED BY <2>1, HashAssumption DEF AbsentItem
<1> QED BY <1>1 DEF Marked

LEMMA Behind ==
  ASSUME NEW k \in {0, 1}, NEW n \in Nat, NEW i \in 1..(k + n + 1), NEW j \in 1..((i - k) - 1)
  PROVE  k + j \in 1..(i - 1) /\ j \in 1..n
  OBVIOUS

\* The other case: the changes and Sync are put on the stream.
LEMMA BusyView ==
  ASSUME WatchInv, JobView, SinkInv', synced, goal' = content, NEW t, NEW diff,
         tree' \in Marked, Makes(content, tree, t, tree'), Carries(diff, t),
         NEW k, k = Len(stream), SendsBehind(k, diff), jpc' = "wait"
  PROVE  WatchInv'
<1>1. /\ k \in {0, 1} /\ DOMAIN stream = 1..k
      /\ Len(diff) \in Nat /\ DOMAIN diff = 1..Len(diff)
      /\ stream' \in Seq(OpItem) /\ Len(stream') = k + Len(diff) + 1
      /\ DOMAIN stream' = 1..(k + Len(diff) + 1)
      /\ k = 1 => stream[1].op = "reset" /\ stream'[1].op = "reset"
      /\ \A i \in DOMAIN diff : k + i \in DOMAIN stream' /\ stream'[k + i] = diff[i]
      /\ stream'[Len(stream')].op = "sync"
  BY Zenon DEF SendsBehind
<1>2. /\ UNCHANGED <<filtering, seen, memory, purging, down, want, insync>>
      /\ UNCHANGED <<content, rev, synced, up, request, cpc>>
      /\ up /\ jpc = "view" /\ jrev' = rev /\ rev > jrev
  BY Zenon DEF JobView, sinkVars, storeVars
<1>3. jrev' \in Nat /\ jrev' # 0 BY <1>2 DEF WatchInv, WatchTypeOK
<1>4. tree \in Marked /\ content \in Content BY Zenon DEF WatchInv, WatchTypeOK, Marked
<1>5. cpc = "recv" /\ ~request /\ ~purging BY <1>2, Zenon DEF WatchInv, Control, WatchTypeOK
<1>6. WatchTypeOK' BY <1>1, <1>2, <1>3, Zenon DEF WatchInv, WatchTypeOK, SinkInv, Marked
<1>7. Control' BY <1>1, <1>2, <1>5 DEF Control, Complete
<1>8. Updated(t) \subseteq Key /\ Deleted(t) \subseteq Key BY Zenon DEF Updated, Deleted
\* What is at a place of the new stream.
<1>9. ASSUME NEW i \in DOMAIN stream'
      PROVE  \/ i = 1 /\ k = 1 /\ stream'[i].op = "reset"
             \/ i = Len(stream') /\ stream'[i].op = "sync"
             \/ i - k \in DOMAIN diff /\ stream'[i] = diff[i - k] /\ stream'[i] \in Range(diff)
  <2>1. CASE i <= k BY <1>1, <2>1
  <2>2. CASE i = Len(stream') BY <1>1, <2>2, Zenon
  <2>3. CASE k < i /\ i # Len(stream')
    <3>1. i - k \in DOMAIN diff /\ k + (i - k) = i BY <1>1, <2>3
    <3>2. stream'[i] = diff[i - k] BY <1>1, <3>1, Zenon
    <3> QED BY <3>1, <3>2, Zenon DEF Range
  <2> QED BY <1>1, <2>1, <2>2, <2>3
<1>10. ASSUME NEW m \in Range(diff)
       PROVE  \/ /\ m.op = "set" /\ m.path \in Updated(t) /\ m.hash = LastSet(content, m.path)
                 /\ m = SetOp(m.path, t[m.path].hash)
              \/ m.op = "delete" /\ m.path \in Deleted(t) /\ m = DeleteOp(m.path)
  BY <1>8 DEF SetOp, DeleteOp, Carries, Makes
\* Something was sent before, so the client has what the job has.
<1>11. ASSUME NEW p \in Key, p \in Deleted(t) \/ tree[p].hash # NoHash
       PROVE  ~filtering /\ k = 0 /\ \A q \in Key : down[q] = tree[q].hash
  <2>1. tree # EmptyTree BY <1>4, <1>8, <1>11, EmptyMarked, Zenon DEF Makes
  <2> QED BY <2>1, ViewSettled, Zenon
<1>12. OnStream'
  <2> SUFFICES ASSUME NEW i \in DOMAIN stream'
               PROVE  /\ stream'[i].op = "reset" => i = 1
                      /\ stream'[i].op = "sync" => i = Len(stream')
                      /\ stream'[i].op # "reset" => jpc' = "wait" /\ jrev' # 0
                      /\ stream'[i].op = "set" => stream'[i].hash = LastSet(content, stream'[i].path)
                      /\ stream'[i].op = "delete" => /\ LastSet(content, stream'[i].path) = NoHash
                                                     /\ ~filtering /\ stream'[1].op # "reset"
    BY <1>2, Zenon DEF OnStream
  <2>1. CASE stream'[i].op \in {"reset", "sync"}
    BY <1>3, <1>9, <1>10, <2>1, Zenon
  <2>2. CASE stream'[i].op \notin {"reset", "sync"}
    <3>1. stream'[i] \in Range(diff) BY <1>9, <2>2, Zenon
    <3>2. CASE stream'[i].op = "set" BY <1>3, <1>10, <3>1, <3>2, Zenon
    <3>3. CASE stream'[i].op # "set"
      <4>1. stream'[i].op = "delete" /\ stream'[i].path \in Deleted(t) BY <1>10, <3>1, <3>3, Zenon
      <4>2. LastSet(content, stream'[i].path) = NoHash /\ ~filtering /\ k = 0 BY <1>8, <1>11, <4>1, Zenon DEF Makes
      <4>3. stream'[1].op # "reset"
        <5>1. 1 \in DOMAIN stream' BY <1>1
        <5>2. k # 1 BY <4>2
        <5>3. stream'[1].op = "sync" \/ stream'[1] \in Range(diff) BY <1>9, <5>1, <5>2, Zenon
        <5> QED BY <1>10, <5>3, Zenon
      <4> QED BY <1>3, <4>1, <4>2, <4>3, Zenon
    <3> QED BY <3>2, <3>3, Zenon
  <2> QED BY <2>1, <2>2, Zenon
<1>13. TreeIsGoal' BY <1>2, <1>3, Zenon DEF TreeIsGoal, Makes
<1>14. InitialSet' BY <1>2, <1>5, Zenon DEF InitialSet
<1>15. Whole'
  <2> SUFFICES ASSUME NEW q \in Key
               PROVE  \/ Pending(q)'
                      \/ IF ResetPending' THEN tree'[q].hash = NoHash ELSE want[q] = tree'[q].hash
    BY <1>2, Zenon DEF Whole
  <2>1. CASE q \in Updated(t) \/ q \in Deleted(t)
    <3>1. PICK m \in Range(diff) : m.op \in {"set", "delete"} /\ m.path = q
      <4>1. CASE q \in Updated(t)
        <5>1. SetOp(q, t[q].hash) \in Range(diff) BY <4>1, Zenon DEF Carries
        <5>2. SetOp(q, t[q].hash).op = "set" /\ SetOp(q, t[q].hash).path = q BY Zenon DEF SetOp
        <5> QED BY <5>1, <5>2, Zenon
      <4>2. CASE q \in Deleted(t)
        <5>1. DeleteOp(q) \in Range(diff) BY <4>2, Zenon DEF Carries
        <5>2. DeleteOp(q).op = "delete" /\ DeleteOp(q).path = q BY Zenon DEF DeleteOp
        <5> QED BY <5>1, <5>2, Zenon
      <4> QED BY <2>1, <4>1, <4>2, Zenon
    <3>2. PICK i \in DOMAIN diff : diff[i] = m BY Zenon DEF Range
    <3>3. k + i \in DOMAIN stream' /\ stream'[k + i] = m BY <1>1, <3>2, Zenon
    <3> QED BY <3>1, <3>3, Zenon DEF Pending
  <2>2. CASE q \notin Updated(t) /\ q \notin Deleted(t)
    <3>1. tree'[q].hash = tree[q].hash BY <2>2, Zenon DEF Makes
    <3>2. ~Pending(q) BY <1>1 DEF Pending
    <3>3. ResetPending <=> k = 1 BY <1>1 DEF ResetPending
    <3>4. ResetPending' <=> k = 1
      <4>1. k = 1 => ResetPending' BY <1>1 DEF ResetPending
      <4>2. ASSUME NEW i \in DOMAIN stream', stream'[i].op = "reset" PROVE k = 1
        BY <1>9, <1>10, <4>2, Zenon
      <4> QED BY <4>1, <4>2, Zenon DEF ResetPending
    <3>5. IF ResetPending THEN tree[q].hash = NoHash ELSE want[q] = tree[q].hash
      BY <1>2, <3>2, Zenon DEF WatchInv, Whole
    <3> QED BY <3>1, <3>3, <3>4, <3>5, Zenon
  <2> QED BY <2>1, <2>2, Zenon
<1>16. InOrder'
  <2>1. down' = down BY <1>2, Zenon
  <2>2. ASSUME NEW i \in DOMAIN stream', stream'[i].op = "set", stream'[i].path \in Endpoint
        PROVE  \/ down'[SvcOf[stream'[i].path]] # NoHash
               \/ \E j \in 1..(i - 1) : /\ stream'[j].op = "set"
                                        /\ stream'[j].path = SvcOf[stream'[i].path]
    <3> DEFINE e == stream'[i].path
               svc == SvcOf[e]
    <3>1. e \in Endpoint /\ svc \in Svc /\ svc \in Key BY <2>2, PathAssumption, Zenon
    <3>2. i - k \in DOMAIN diff /\ stream'[i] = diff[i - k] /\ stream'[i] \in Range(diff)
      BY <1>9, <2>2, Zenon
    <3>3. e \in Updated(t) /\ diff[i - k] = SetOp(e, t[e].hash) BY <1>10, <2>2, <3>2, Zenon
    <3>4. LastSet(content, svc) # NoHash BY <1>4, <1>8, <3>1, <3>3, ViewHasService, Zenon DEF Makes
    <3> HIDE DEF e, svc
    <3>5. CASE svc \in Updated(t)
      <4>1. PICK j \in 1..((i - k) - 1) : diff[j] = SetOp(svc, t[svc].hash)
        BY <3>1, <3>2, <3>3, <3>5, Zenon DEF Carries
      <4>2. k + j \in 1..(i - 1) /\ j \in 1..Len(diff) BY <1>1, Behind, Zenon
      <4>3. stream'[k + j] = diff[j] BY <1>1, <4>2, Zenon
      <4>4. stream'[k + j].op = "set" /\ stream'[k + j].path = svc BY <4>1, <4>3 DEF SetOp
      <4> QED BY <4>2, <4>4, Zenon DEF svc, e
    <3>6. CASE svc \notin Updated(t)
      <4>1. svc \notin Deleted(t) /\ tree[svc].hash # NoHash BY <3>1, <3>4, <3>6, Zenon DEF Makes
      <4>2. down[svc] # NoHash BY <1>11, <3>1, <4>1, Zenon
      <4> QED BY <2>1, <4>2, Zenon DEF svc, e
    <3> QED BY <3>5, <3>6, Zenon
  <2>3. ASSUME NEW i \in DOMAIN stream', stream'[i].op = "delete", stream'[i].path \in Svc,
               NEW p \in Endpoint, SvcOf[p] = stream'[i].path
        PROVE  \/ down'[p] = NoHash
               \/ \E j \in 1..(i - 1) : stream'[j].op = "delete" /\ stream'[j].path = p
    <3> DEFINE svc == stream'[i].path
    <3>1. svc \in Svc /\ p \in Key BY <2>3, PathAssumption, Zenon
    <3>2. i - k \in DOMAIN diff /\ stream'[i] = diff[i - k] /\ stream'[i] \in Range(diff)
      BY <1>9, <2>3, Zenon
    <3>3. svc \in Deleted(t) /\ diff[i - k] = DeleteOp(svc) BY <1>10, <2>3, <3>2, Zenon
    <3>4. LastSet(content, svc) = NoHash BY <1>8, <3>3, Zenon DEF Makes
    <3>5. LastSet(content, p) = NoHash BY <1>4, <2>3, <3>4, ViewHasService, Zenon
    <3>6. down[p] = tree[p].hash BY <1>8, <1>11, <3>1, <3>3, Zenon
    <3> HIDE DEF svc
    <3>7. CASE tree[p].hash = NoHash BY <2>1, <3>6, <3>7, Zenon
    <3>8. CASE tree[p].hash # NoHash
      <4>1. p \in Deleted(t) BY <3>1, <3>5, <3>8, Zenon DEF Makes
      <4>2. PICK j \in 1..((i - k) - 1) : diff[j] = DeleteOp(p)
        BY <3>1, <3>2, <3>3, <4>1, Zenon DEF Carries
      <4>3. k + j \in 1..(i - 1) /\ j \in 1..Len(diff) BY <1>1, Behind, Zenon
      <4>4. stream'[k + j] = diff[j] BY <1>1, <4>3, Zenon
      <4>5. stream'[k + j].op = "delete" /\ stream'[k + j].path = p BY <4>2, <4>4 DEF DeleteOp
      <4> QED BY <4>3, <4>5, Zenon
    <3> QED BY <3>7, <3>8, Zenon
  <2> QED BY <2>2, <2>3, Zenon DEF InOrder
<1>17. NoOrphans' BY <1>2, Zenon DEF WatchInv, NoOrphans, Orphans
<1> QED BY <1>6, <1>7, <1>12, <1>13, <1>14, <1>15, <1>16, <1>17, Zenon DEF WatchInv

LEMMA JobViewStep ==
  ASSUME WatchInv, JobView, SinkInv'
  PROVE  WatchInv'
<1> DEFINE t == Synchronized(tree)
           diff == SendDiff(t)
           k == Len(stream)
<1>1. /\ UNCHANGED <<filtering, seen, memory, purging, down, want, insync>>
      /\ UNCHANGED <<content, rev, synced, up, request, cpc>>
      /\ up /\ jpc = "view" /\ jrev' = rev /\ rev > jrev
      /\ tree' = ResetItems(t, "Deleted") /\ goal' = IF synced THEN content ELSE goal
      /\ diff = <<>> => UNCHANGED <<stream, jpc>>
      /\ diff # <<>> => stream' = stream \o diff \o <<SyncOp>> /\ jpc' = "wait"
  BY Zenon DEF JobView, sinkVars, storeVars
<1>2. tree \in Marked /\ content \in Content /\ goal \in Content
  BY Zenon DEF WatchInv, WatchTypeOK, Marked
<1>3. CASE ~synced
  <2>1. t = EmptyTree /\ tree = EmptyTree
    BY <1>1, <1>3, Zenon DEF WatchInv, TreeIsGoal, Synchronized
  <2>2. tree' = tree BY <1>1, <2>1, Zenon DEF ResetItems, EmptyTree
  <2>3. t \in [Key -> Item] /\ Updated(t) = {} /\ Deleted(t) = {}
    BY <2>1 DEF EmptyTree, AbsentItem, Item, Updated, Deleted
  <2>4. diff \in Seq(OpItem) /\ Carries(diff, t) BY <2>3, DiffSent, Zenon
  <2> HIDE DEF diff
  <2>5. diff = <<>>
    <3>1. Len(diff) \in Nat /\ DOMAIN diff = 1..Len(diff) BY <2>4, SeqLen, Zenon
    <3>2. Range(diff) = {} BY <2>3, <2>4, Zenon DEF Carries
    <3>3. ASSUME Len(diff) # 0 PROVE FALSE
      <4>1. 1 \in DOMAIN diff BY <3>1, <3>3
      <4>2. diff[1] \in Range(diff) BY <4>1, Zenon DEF Range
      <4> QED BY <3>2, <4>2, Zenon
    <3> QED BY <2>4, <3>3, SeqEmpty, Zenon
  <2> QED BY <1>1, <1>2, <1>3, <2>2, <2>5, QuietView, Zenon
<1>4. CASE synced
  <2>1. t = Update(tree, content) /\ goal' = content BY <1>1, <1>4, Zenon DEF Synchronized
  <2>2. t \in [Key -> Item] /\ tree' \in Marked /\ Makes(content, tree, t, tree')
    BY <1>1, <1>2, <2>1, UpdateMakes, Zenon
  <2> HIDE DEF t
  <2>3. diff \in Seq(OpItem) /\ Carries(diff, t) BY <2>2, DiffSent, Zenon
  <2> HIDE DEF diff
  <2>4. CASE diff = <<>>
    <3>1. Range(diff) = {} BY <2>4 DEF Range
    <3>2. \A p \in Key : p \notin Updated(t) /\ p \notin Deleted(t)
      <4>1. ASSUME NEW p \in Updated(t) PROVE SetOp(p, t[p].hash) \in Range(diff)
        BY <2>3, Zenon DEF Carries
      <4>2. ASSUME NEW p \in Deleted(t) PROVE DeleteOp(p) \in Range(diff)
        BY <2>3, Zenon DEF Carries
      <4> QED BY <3>1, <4>1, <4>2, Zenon
    <3>3. \A p \in Key : tree'[p].hash = tree[p].hash BY <2>2, <3>2, Zenon DEF Makes
    <3>4. tree' = tree BY <1>2, <2>2, <3>3, SameMarked, Zenon
    <3> QED BY <1>1, <1>2, <2>1, <2>4, <3>4, QuietView, Zenon
  <2>5. CASE diff # <<>>
    <3>1. SendsBehind(Len(stream), diff) BY <1>1, <2>3, <2>5, JobStream, Zenon
    <3> QED BY <1>1, <1>4, <2>1, <2>2, <2>3, <2>5, <3>1, BusyView, Zenon
  <2> QED BY <2>4, <2>5, Zenon
<1> QED BY <1>3, <1>4, Zenon

LEMMA WatchInvStep == WatchInv /\ [Next]_vars => WatchInv'
<1> SUFFICES ASSUME WatchInv, [Next]_vars PROVE WatchInv'
  BY Zenon
<1>1. SinkInv'
  BY WatchSinkStep, SinkInvStep, Zenon DEF WatchInv
<1>2. CASE Commit BY <1>1, <1>2, CommitStep, Zenon
<1>3. CASE Break
  BY <1>1, <1>3, DropStep, Zenon DEF Break, storeVars, WatchInv, WatchTypeOK
<1>4. CASE RestartServer
  <2>1. EmptyContent \in Content
    <3>1. [p \in Endpoint |-> NoHash] \in Slice BY PathAssumption, Zenon DEF Slice, Endpoint
    <3> QED BY <3>1, Zenon DEF EmptyContent, Content
  <2>2. content' \in Content /\ rev' \in Nat /\ synced' \in BOOLEAN
    BY <1>4, <2>1, Zenon DEF RestartServer
  <2> QED BY <1>1, <1>4, <2>2, DropStep, Zenon DEF RestartServer
<1>5. CASE JobWait BY <1>1, <1>5, JobWaitStep, Zenon
<1>6. CASE JobView BY <1>1, <1>6, JobViewStep, Zenon
<1>7. CASE Connect BY <1>1, <1>7, ConnectStep, Zenon
<1>8. CASE Request BY <1>1, <1>8, RequestStep, Zenon
<1>9. CASE Lost BY <1>1, <1>9, LostStep, Zenon
<1>10. CASE Recv
  BY <1>1, <1>10, RecvCommon, RecvControl, RecvWhole, RecvInOrder, RecvNoOrphans, Zenon DEF WatchInv
<1>11. CASE Purge BY <1>1, <1>11, PurgeStep, Zenon
<1>12. CASE UNCHANGED vars
  <2> USE <1>12 DEF vars, sinkVars, storeVars, jobVars, WatchInv
  <2>1. WatchTypeOK' BY <1>1, Zenon DEF WatchTypeOK, SinkInv
  <2>2. Control' /\ OnStream' BY Zenon DEF Control, OnStream, Complete
  <2>3. TreeIsGoal' /\ InitialSet' BY Zenon DEF TreeIsGoal, InitialSet, ResetPending
  <2>4. Whole' BY Zenon DEF Whole, Complete, Pending, ResetPending
  <2>5. InOrder' /\ NoOrphans' BY DEF InOrder, NoOrphans, Orphans
  <2> QED BY <1>1, <2>1, <2>2, <2>3, <2>4, <2>5, Zenon
<1> QED BY <1>2, <1>3, <1>4, <1>5, <1>6, <1>7, <1>8, <1>9, <1>10, <1>11, <1>12, Zenon DEF Next

\* What is on its way always leads the backend to the view of one revision.
THEOREM WatchInvariant == Spec => []WatchInv
  BY WatchInitInv, WatchInvStep, PTL DEF Spec

\* At Sync the backend holds exactly the node's view of one revision of the store.
THEOREM WatchIsExact == Spec => []SyncedToRevision
<1>1. WatchInv => SyncedToRevision
  <2> SUFFICES ASSUME WatchInv, AtSync PROVE down = LocalView(goal)
    BY Zenon DEF SyncedToRevision
  <2> USE DEF WatchInv, AtSync
  <2>1. jpc = "wait" /\ stream = <<>> /\ ~purging BY Zenon DEF Control
  <2>2. DOMAIN stream = {} BY <2>1
  <2>3. ASSUME NEW p \in Key PROVE down[p] = LastSet(goal, p)
    <3>1. ~Pending(p) /\ ~ResetPending BY <2>2, Zenon DEF Pending, ResetPending
    <3>2. want[p] = tree[p].hash BY <3>1, Zenon DEF Whole
    <3>3. down[p] = want[p] BY <2>1, Zenon DEF SinkInv
    <3> QED BY <2>1, <3>2, <3>3, Zenon DEF TreeIsGoal
  <2>4. down \in Copy BY Zenon DEF SinkInv, SinkTypeOK
  <2> QED BY <2>3, <2>4, Zenon DEF Copy, LocalView
<1> QED BY <1>1, WatchInvariant, PTL

\* While the server's operations are applied no endpoint lacks its service.
THEOREM NeverOrphans == Spec => []NoOrphans
<1>1. WatchInv => NoOrphans BY Zenon DEF WatchInv
<1> QED BY <1>1, WatchInvariant, PTL

\* The backend only moves towards the view that is being sent.
THEOREM MovesTowardsGoal == Spec => OnlyTowardsGoal
<1>1. WatchInv /\ [Next]_vars =>
        [\A p \in Key : down'[p] # down[p] => down'[p] = LocalView(goal)[p]]_vars
  <2> SUFFICES ASSUME WatchInv, Next, NEW p \in Key, down'[p] # down[p]
               PROVE  down'[p] = LastSet(goal, p)
    BY Zenon DEF LocalView
  <2>1. Recv \/ Purge
    BY Zenon DEF Next, Commit, Break, RestartServer, Drop, JobWait, JobView, Connect, Request, Lost, sinkVars
  <2>2. CASE Recv
    <3>1. \/ stream[1].op = "set" /\ stream[1].path = p /\ down'[p] = stream[1].hash
          \/ stream[1].op = "delete" /\ stream[1].path = p /\ down'[p] = NoHash
      BY <2>2, RecvDown, Zenon
    <3>2. 1 \in DOMAIN stream BY <2>2, RecvStream
    <3> QED BY <3>1, <3>2, Zenon DEF WatchInv, OnStream
  <2>3. CASE Purge
    <3>1. PICK q \in Key : PurgeOne(q) BY <2>3, Zenon DEF Purge, PurgeEnd
    <3>2. p = q /\ down'[p] = NoHash /\ p \notin seen
      BY <3>1, Zenon DEF PurgeOne, Unpurged, WatchInv, SinkInv, SinkTypeOK, Copy
    <3>3. purging /\ filtering /\ want[p] = NoHash
      BY <3>1, <3>2, Zenon DEF PurgeOne, WatchInv, SinkInv
    <3>4. stream = <<>> /\ jpc = "wait" /\ jrev # 0 BY <3>3, Zenon DEF WatchInv, Control
    <3>5. ~Pending(p) /\ ~ResetPending BY <3>4 DEF Pending, ResetPending
    <3>6. want[p] = tree[p].hash BY <3>3, <3>4, <3>5, Zenon DEF WatchInv, Whole
    <3> QED BY <3>2, <3>3, <3>4, <3>6, Zenon DEF WatchInv, TreeIsGoal
  <2> QED BY <2>1, <2>2, <2>3, Zenon
<1> QED BY <1>1, WatchInvariant, PTL DEF Spec, OnlyTowardsGoal
=============================================================================
