----------------------------- MODULE FullStatePipe -----------------------------
(***************************************************************************)
(* client/localsink/fullstate/fullstatepipe: Callback, which passes what   *)
(* the full state sink sends on a channel to several stages, each in a     *)
(* goroutine with a channel of its own, in one of three strategies.  The   *)
(* items are numbered in the order they are sent; a stage that has got its *)
(* channel's close works on before it returns.  (Definitions that no       *)
(* action uses are faulty variants.)                                       *)
(***************************************************************************)
EXTENDS Naturals, Sequences

CONSTANTS NStages, NItems, Capacity     \* Capacity of a stage's channel: 2

ASSUME PipeAssumption == NStages \in Nat \ {0} /\ NItems \in Nat /\ Capacity \in Nat \ {0}

Strategies == {"Sequence", "Parallel", "ParallelSendSequenceClose"}
Stages == 1..NStages

VARIABLES strategy,
          pc,            \* of Callback: "idle", "range", "send", "close", "wait", "stage", "done"
          nitems, item,  \* items the sink sends, and received so far
          to,            \* the stage an item or a close goes to next
          buf, closed,   \* the stages' channels: what is in each, and those that are closed
          stage,         \* "off", "run", "work" (after the close), "end"
          got            \* history: the items each stage received

pipeVars == <<strategy, pc, nitems, item, to, buf, closed, stage, got>>

PipeInit == /\ strategy \in Strategies
            /\ pc = "idle" /\ nitems = 0 /\ item = 0 /\ to = 1
            /\ buf = [k \in Stages |-> <<>>] /\ closed = {}
            /\ stage = [k \in Stages |-> "off"]
            /\ got = [k \in Stages |-> <<>>]

\* The sink calls Callback for a Sync, with any number of items.
Call(n) == /\ pc = "idle" /\ pc' = "range" /\ nitems' = n
           /\ stage' = [k \in Stages |-> IF strategy = "Sequence" THEN "off" ELSE "run"]
           /\ UNCHANGED <<strategy, item, to, buf, closed, got>>

Return == /\ pc = "done" /\ pc' = "idle" /\ item' = 0 /\ to' = 1
          /\ closed' = {} /\ got' = [k \in Stages |-> <<>>]
          /\ UNCHANGED <<strategy, nitems, buf, stage>>

Buffered == strategy = "Sequence"

(***************************************************************************)
(* The dispatcher, in the goroutine of Callback.                           *)
(***************************************************************************)
RangeItem == /\ pc = "range" /\ item < nitems
             /\ item' = item + 1
             /\ pc' = IF Buffered THEN "range" ELSE "send"
             /\ to' = 1
             /\ UNCHANGED <<strategy, nitems, buf, closed, stage, got>>

SendItem == /\ pc = "send" /\ Len(buf[to]) < Capacity
            /\ buf' = [buf EXCEPT ![to] = Append(@, item)]
            /\ IF to < NStages THEN to' = to + 1 /\ UNCHANGED pc
                               ELSE to' = 1 /\ pc' = "range"
            /\ UNCHANGED <<strategy, nitems, item, closed, stage, got>>

RangeEnd == /\ pc = "range" /\ item = nitems
            /\ pc' = IF Buffered THEN "stage" ELSE "close"
            /\ to' = 1
            /\ UNCHANGED <<strategy, nitems, item, buf, closed, stage, got>>

CloseLast == /\ pc = "close"
             /\ closed' = IF to = NStages THEN closed \cup {to} ELSE closed
             /\ pc' = "wait" /\ UNCHANGED <<strategy, nitems, item, to, buf, stage, got>>

\* Parallel closes every channel and then waits; the other waits after each close.
CloseStage == /\ pc = "close"
              /\ closed' = closed \cup {to}
              /\ IF strategy = "Parallel" /\ to < NStages
                 THEN to' = to + 1 /\ UNCHANGED pc
                 ELSE pc' = "wait" /\ to' = IF strategy = "Parallel" THEN 1 ELSE to
              /\ UNCHANGED <<strategy, nitems, item, buf, stage, got>>

WaitNone == /\ pc = "wait"
            /\ pc' = IF to = NStages THEN "done"
                     ELSE IF strategy = "Parallel" THEN "wait" ELSE "close"
            /\ to' = IF to = NStages THEN to ELSE to + 1
            /\ UNCHANGED <<strategy, nitems, item, buf, closed, stage, got>>

WaitStage == /\ pc = "wait" /\ stage[to] = "end"
             /\ pc' = IF to = NStages THEN "done"
                      ELSE IF strategy = "Parallel" THEN "wait" ELSE "close"
             /\ to' = IF to = NStages THEN to ELSE to + 1
             /\ UNCHANGED <<strategy, nitems, item, buf, closed, stage, got>>

\* Sequence: a goroutine feeds the stage, which runs in the goroutine of Callback.
StartStage == /\ pc = "stage" /\ stage[to] = "off"
              /\ stage' = [stage EXCEPT ![to] = "run"]
              /\ UNCHANGED <<strategy, pc, nitems, item, to, buf, closed, got>>

FeedStage == /\ pc = "stage" /\ stage[to] = "run" /\ to \notin closed
             /\ LET n == Len(got[to]) + Len(buf[to])
                IN  IF n = item THEN closed' = closed \cup {to} /\ UNCHANGED buf
                    ELSE /\ buf[to] = <<>> /\ buf' = [buf EXCEPT ![to] = <<n + 1>>]
                         /\ UNCHANGED closed
             /\ UNCHANGED <<strategy, pc, nitems, item, to, stage, got>>

StageReturns == /\ pc = "stage" /\ stage[to] = "end"
                /\ IF to = NStages THEN pc' = "done" /\ UNCHANGED to
                                   ELSE to' = to + 1 /\ UNCHANGED pc
                /\ UNCHANGED <<strategy, nitems, item, buf, closed, stage, got>>

(***************************************************************************)
(* A stage.  It ranges over its channel until that is closed and empty.    *)
(***************************************************************************)
StageReceives(k) == /\ stage[k] = "run" /\ buf[k] # <<>>
                    /\ got' = [got EXCEPT ![k] = Append(@, Head(buf[k]))]
                    /\ buf' = [buf EXCEPT ![k] = Tail(@)]
                    /\ UNCHANGED <<strategy, pc, nitems, item, to, closed, stage>>

StageDrained(k) == /\ stage[k] = "run" /\ buf[k] = <<>> /\ k \in closed
                   /\ stage' = [stage EXCEPT ![k] = "work"]
                   /\ UNCHANGED <<strategy, pc, nitems, item, to, buf, closed, got>>

StageEnds(k) == /\ stage[k] = "work"
                /\ stage' = [stage EXCEPT ![k] = "end"]
                /\ UNCHANGED <<strategy, pc, nitems, item, to, buf, closed, got>>

Dispatch == \/ RangeItem \/ SendItem \/ RangeEnd \/ CloseStage \/ WaitStage
            \/ StartStage \/ FeedStage \/ StageReturns
StageStep(k) == StageReceives(k) \/ StageDrained(k) \/ StageEnds(k)

PipeNext == \/ \E n \in 0..NItems : Call(n)
            \/ Return \/ Dispatch \/ \E k \in Stages : StageStep(k)

PipeSpec == /\ PipeInit /\ [][PipeNext]_pipeVars
            /\ WF_pipeVars(Dispatch) /\ \A k \in Stages : WF_pipeVars(StageStep(k))
-----------------------------------------------------------------------------
(***************************************************************************)
(* Callback returns when, and only when, every stage has received every    *)
(* item in order and has finished: a backend may use the state of one Sync *)
(* before the next operation is handled.                                   *)
(***************************************************************************)
DoneMeansServed == pc = "done" => \A k \in Stages : /\ stage[k] = "end"
                                                    /\ got[k] = [i \in 1..nitems |-> i]

\* With two strategies a stage's work follows the work of the stage before it.
StagesInOrder == \A j, k \in Stages : j < k /\ strategy # "Parallel" /\ stage[k] \in {"work", "end"}
                                         => stage[j] = "end"

(***************************************************************************)
(* What keeps these true.  A stage has received a prefix of the items, the *)
(* rest of what was sent to it is in its channel; how much was sent, what  *)
(* is closed and which stages have finished follows from where the         *)
(* dispatcher is; and a stage goes on only after an empty, closed channel. *)
(***************************************************************************)
Sent(k) == Len(got[k]) + Len(buf[k])

PipeTypeOK == /\ strategy \in Strategies
              /\ pc \in {"idle", "range", "send", "close", "wait", "stage", "done"}
              /\ nitems \in Nat /\ item \in 0..nitems /\ to \in Stages
              /\ buf \in [Stages -> Seq(Nat)] /\ got \in [Stages -> Seq(Nat)]
              /\ closed \subseteq Stages
              /\ stage \in [Stages -> {"off", "run", "work", "end"}]

InSequence(k) == /\ got[k] = [i \in 1..Len(got[k]) |-> i]
                 /\ buf[k] = [i \in 1..Len(buf[k]) |-> Len(got[k]) + i]

RangedOver(k) == stage[k] \in {"work", "end"} => pc = "idle" \/ (k \in closed /\ buf[k] = <<>>)

Untouched(k) == Sent(k) = 0 /\ k \notin closed /\ stage[k] = "off"

Finished(k) == Sent(k) = item /\ stage[k] = "end"

Open(k) == stage[k] = "run" /\ k \notin closed

Dispatched(k) ==
    /\ pc = "idle" => item = 0 /\ Sent(k) = 0 /\ k \notin closed /\ stage[k] \in {"off", "end"}
    /\ pc = "range" => IF Buffered THEN Untouched(k) ELSE Sent(k) = item /\ Open(k)
    /\ pc = "send" => /\ ~Buffered /\ Open(k)
                      /\ Sent(k) = IF k < to THEN item ELSE item - 1
    /\ pc \in {"close", "wait"} =>
          /\ ~Buffered /\ item = nitems /\ Sent(k) = item /\ stage[k] # "off"
          /\ k \in closed <=> k < to \/ (pc = "wait" /\ (strategy = "Parallel" \/ k = to))
          /\ k < to /\ (strategy # "Parallel" \/ pc = "wait") => stage[k] = "end"
    /\ pc = "stage" =>
          /\ Buffered /\ item = nitems
          /\ k < to => Finished(k)
          /\ k = to => /\ Sent(k) <= item /\ (k \in closed => Sent(k) = item)
                       /\ stage[k] = "off" => Untouched(k)
          /\ k > to => Untouched(k)
    /\ pc = "done" => item = nitems /\ Finished(k)

PipeInv == /\ PipeTypeOK /\ StagesInOrder
           /\ \A k \in Stages : InSequence(k) /\ RangedOver(k) /\ Dispatched(k)

(***************************************************************************)
(* Callback always returns, although the dispatcher blocks on channels of  *)
(* two items and stages wait for the close of theirs.                      *)
(***************************************************************************)
CallbackReturns == pc = "range" ~> pc = "done"
=============================================================================
