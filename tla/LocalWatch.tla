------------------------------ MODULE LocalWatch ------------------------------
(***************************************************************************)
(* A node's watch, end to end: the store of a kpng server, the job that    *)
(* serves one connection (store2diff, store2localdiff, server/endpoints),  *)
(* the gRPC stream, the client (api2local) and its filtering sink.  The    *)
(* store appears as RevStore has it: ProxyStore shows that a View reads    *)
(* one revision.                                                           *)
(*                                                                         *)
(* A job writes nothing but its own stream, so the operations of one diff  *)
(* are put on the stream at once; a connection that breaks loses any       *)
(* number of the last ones.  The job of a broken connection can no longer  *)
(* be seen by anybody and is dropped.                                      *)
(***************************************************************************)
EXTENDS LocalDiff, FilterReset

CONSTANTS MaxRev, MaxBreaks, MaxRestarts    \* bounds

VARIABLES content, rev, synced,     \* the store; synced is Tx.AllSynced
          up,                       \* the connection works
          request,                  \* a WatchReq is on its way to the job
          stream,                   \* OpItems on their way to the client
          jpc, jrev, tree,          \* the job: where it is, Run's rev, its diff stores
          cpc,                      \* the client: where it is
          goal,                     \* history: synced contents the last diff was made from
          breaks, restarts          \* connections broken and servers restarted

storeVars == <<content, rev, synced>>
jobVars == <<jpc, jrev, tree, goal>>
bounds == <<breaks, restarts>>
vars == <<sinkVars, storeVars, up, request, stream, jobVars, cpc, bounds>>

\* Between two rounds every item of the diff stores is marked Deleted.
WatchTypeOK ==
    /\ SinkTypeOK
    /\ content \in Content /\ goal \in Content
    /\ rev \in Nat /\ jrev \in Nat /\ synced \in BOOLEAN
    /\ up \in BOOLEAN /\ request \in BOOLEAN /\ stream \in Seq(OpItem)
    /\ tree \in [Key -> [hash : Hash, state : {"Deleted"}] \cup {AbsentItem}]
    /\ jpc \in {"wait", "view"} /\ cpc \in {"dial", "request", "recv"}

Init == /\ SinkInit
        /\ content = EmptyContent /\ rev = 0 /\ synced = FALSE
        /\ up = FALSE /\ request = FALSE /\ stream = <<>>
        /\ jpc = "wait" /\ jrev = 0 /\ tree = EmptyTree
        /\ cpc = "dial" /\ goal = EmptyContent
        /\ breaks = 0 /\ restarts = 0
-----------------------------------------------------------------------------
(***************************************************************************)
(* The environment: the store gets a new revision, possibly the first one  *)
(* that is synced, possibly one that changes nothing for this node; the    *)
(* connection breaks; the server restarts with an empty store.             *)
(***************************************************************************)
Commit == /\ rev < MaxRev
          /\ content' \in Content /\ synced' \in {synced, TRUE}
          /\ rev' = rev + 1
          /\ UNCHANGED <<sinkVars, up, request, stream, jobVars, cpc, bounds>>

Drop == /\ up' = FALSE /\ request' = FALSE
        /\ \E n \in 0..Len(stream) : stream' = SubSeq(stream, 1, n)
        /\ UNCHANGED <<sinkVars, jobVars, cpc>>

Break == /\ up /\ breaks < MaxBreaks
         /\ Drop
         /\ breaks' = breaks + 1
         /\ UNCHANGED <<storeVars, restarts>>

RestartServer == /\ restarts < MaxRestarts
                 /\ Drop
                 /\ content' = EmptyContent /\ rev' = 0 /\ synced' = FALSE
                 /\ restarts' = restarts + 1
                 /\ UNCHANGED breaks
-----------------------------------------------------------------------------
(***************************************************************************)
(* The job.  Run waits for a request, announces the first one with Reset,  *)
(* then views the store until a revision gives it something to send.       *)
(***************************************************************************)
JobWait == /\ up /\ jpc = "wait" /\ request
           /\ request' = FALSE
           /\ stream' = IF jrev = 0 THEN Append(stream, ResetOp) ELSE stream
           /\ jpc' = "view"
           /\ UNCHANGED <<sinkVars, storeVars, up, jrev, tree, goal, cpc, bounds>>

\* Update leaves the diff stores alone until every set is synced.
SynchronizedIgnoringSync(t) == Update(t, content)

Synchronized(t) == IF synced THEN Update(t, content) ELSE t

JobView ==
    LET t == Synchronized(tree)
        diff == SendDiff(t)
    IN  /\ up /\ jpc = "view" /\ rev > jrev
        /\ jrev' = rev
        /\ tree' = ResetItems(t, "Deleted")
        /\ goal' = IF synced THEN content ELSE goal
        /\ IF diff = <<>> THEN UNCHANGED <<stream, jpc>>
           ELSE stream' = stream \o diff \o <<SyncOp>> /\ jpc' = "wait"
        /\ UNCHANGED <<sinkVars, storeVars, up, request, cpc, bounds>>
-----------------------------------------------------------------------------
(***************************************************************************)
(* The client: dial, request a change set, hand each operation to the      *)
(* sink up to Sync, request the next one; on an error, dial again.         *)
(***************************************************************************)
Connect == /\ cpc = "dial"
           /\ up' = TRUE /\ request' = FALSE /\ stream' = <<>>
           /\ jpc' = "wait" /\ jrev' = 0 /\ tree' = EmptyTree
           /\ cpc' = "request"
           /\ UNCHANGED <<sinkVars, storeVars, goal, bounds>>

Request == /\ cpc = "request" /\ up
           /\ request' = TRUE
           /\ cpc' = "recv"
           /\ UNCHANGED <<sinkVars, storeVars, up, stream, jobVars, bounds>>

Lost == /\ ~up /\ ~purging
        /\ cpc = "request" \/ (cpc = "recv" /\ stream = <<>>)
        /\ cpc' = "dial"
        /\ UNCHANGED <<sinkVars, storeVars, up, request, stream, jobVars, bounds>>

Recv == /\ cpc = "recv" /\ stream # <<>>
        /\ stream' = Tail(stream)
        /\ UNCHANGED <<storeVars, up, request, jobVars, bounds>>
        /\ LET m == Head(stream)
           IN  \/ m.op = "reset" /\ SinkReset /\ UNCHANGED cpc
               \/ m.op = "set" /\ SinkSet(m.path, m.hash) /\ UNCHANGED cpc
               \/ m.op = "delete" /\ SinkDelete(m.path) /\ UNCHANGED cpc
               \/ /\ m.op = "sync" /\ SinkSync
                  /\ cpc' = IF filtering THEN cpc ELSE "request"

Purge == \/ /\ \E p \in Key : PurgeOne(p)
            /\ UNCHANGED <<storeVars, up, request, stream, jobVars, cpc, bounds>>
         \/ /\ PurgeEnd /\ cpc' = "request"
            /\ UNCHANGED <<storeVars, up, request, stream, jobVars, bounds>>

Next == \/ Commit \/ Break \/ RestartServer
        \/ JobWait \/ JobView
        \/ Connect \/ Request \/ Lost \/ Recv \/ Purge

\* The job's and the client's loops keep running; nothing makes the store
\* change or the connection break.
Spec == /\ Init /\ [][Next]_vars
        /\ WF_vars(JobWait) /\ WF_vars(JobView)
        /\ WF_vars(Connect \/ Request \/ Lost \/ Recv \/ Purge)
-----------------------------------------------------------------------------
(***************************************************************************)
(* When the backend gets Sync it holds exactly the node's view of one      *)
(* synced revision of the store, whatever was lost on broken connections   *)
(* before.                                                                 *)
(***************************************************************************)
AtSync == insync /\ cpc = "request" /\ jrev # 0    \* and not just reconnected

SyncedToRevision == AtSync => down = LocalView(goal)

(***************************************************************************)
(* The backend only moves towards the view being sent: a path that has its *)
(* value there is not touched, not even across a reconnection or a restart *)
(* of the server.                                                          *)
(***************************************************************************)
OnlyTowardsGoal ==
    [][\A p \in Key : down'[p] # down[p] => down'[p] = LocalView(goal)[p]]_vars

(***************************************************************************)
(* "Create any service first, to avoid orphan endpoints being sent": while *)
(* the server's operations are applied, no endpoint is in the backend      *)
(* without its service.                                                    *)
(***************************************************************************)
Orphans == {p \in Endpoint : down[p] # NoHash /\ down[SvcOf[p]] = NoHash}

NoOrphans == ~purging => Orphans = {}

(***************************************************************************)
(* The inductive invariant.  Control: who may be where while what is on    *)
(* the stream.                                                             *)
(***************************************************************************)
Complete == stream # <<>> /\ stream[Len(stream)].op = "sync"

Control ==
    /\ cpc # "recv" => stream = <<>> /\ ~request /\ ~purging
    /\ cpc = "dial" => ~up
    /\ cpc = "request" => jpc = "wait"
    /\ request => up /\ jpc = "wait" /\ stream = <<>> /\ ~purging
    /\ purging => stream = <<>> /\ jpc = "wait" /\ jrev # 0
    /\ up /\ jpc = "view" => ~request /\ (stream = <<>> \/ stream = <<ResetOp>>)
    /\ up /\ jpc = "wait" /\ cpc = "recv" => request \/ purging \/ Complete

\* What is on the stream leads to the goal, which is the state of the diff stores.
OnStream ==
    \A i \in DOMAIN stream :
        /\ stream[i].op = "reset" => i = 1
        /\ stream[i].op = "sync" => i = Len(stream)
        /\ stream[i].op # "reset" => jpc = "wait" /\ jrev # 0
        /\ stream[i].op = "set" => stream[i].hash = LastSet(goal, stream[i].path)
        /\ stream[i].op = "delete" => /\ LastSet(goal, stream[i].path) = NoHash
                                      /\ ~filtering /\ stream[1].op # "reset"

TreeIsGoal ==
    /\ jrev = 0 => tree = EmptyTree
    /\ jrev # 0 /\ jpc = "wait" => \A p \in Key : tree[p].hash = LastSet(goal, p)
    /\ up /\ tree # EmptyTree => synced

\* Nothing was sent yet as long as the initial set is not complete.
Pending(p) == \E i \in DOMAIN stream : stream[i].op \in {"set", "delete"} /\ stream[i].path = p
ResetPending == \E i \in DOMAIN stream : stream[i].op = "reset"

InitialSet ==
    /\ (filtering \/ ResetPending) /\ jpc = "view" => tree = EmptyTree
    /\ jrev # 0 /\ (cpc = "request" \/ request) => ~filtering

\* Unless the connection broke in the middle of a change set, the client has
\* every path as the job has it, or will have it from the stream.
Whole ==
    /\ jrev # 0 \/ jpc = "view"
    /\ up \/ purging \/ cpc = "request" \/ Complete
    => \A p \in Key : \/ Pending(p)
                      \/ IF ResetPending THEN tree[p].hash = NoHash
                         ELSE want[p] = tree[p].hash

\* The service of an endpoint on the stream is there or comes first; the
\* endpoints of a service that is to be deleted are gone or go first.
InOrder ==
    \A i \in DOMAIN stream :
        /\ stream[i].op = "set" /\ stream[i].path \in Endpoint
             => \/ down[SvcOf[stream[i].path]] # NoHash
                \/ \E j \in 1..(i - 1) : /\ stream[j].op = "set"
                                         /\ stream[j].path = SvcOf[stream[i].path]
        /\ stream[i].op = "delete" /\ stream[i].path \in Svc
             => \A p \in Endpoint : SvcOf[p] = stream[i].path
                  => \/ down[p] = NoHash
                     \/ \E j \in 1..(i - 1) : stream[j].op = "delete" /\ stream[j].path = p

WatchInv == /\ SinkInv /\ WatchTypeOK /\ Control /\ OnStream /\ TreeIsGoal
            /\ InitialSet /\ Whole /\ InOrder /\ NoOrphans

(***************************************************************************)
(* If changes and failures stop, the backend ends up with the node's view  *)
(* of the store, except for a node that reconnected to a store without     *)
(* anything for it.                                                        *)
(***************************************************************************)
Converges ==
    <>[](synced => \/ down = LocalView(content)
                   \/ filtering /\ LocalView(content) = EmptyCopy)

(***************************************************************************)
(* After Reset "the whole data set will be sent next", and Sync tells      *)
(* "when the initial state is complete": the change set that a Reset opens *)
(* ends once the store is synced.                                          *)
(***************************************************************************)
ResetIsCompleted == <>[](synced => ~filtering)

(***************************************************************************)
(* Watch "returns all the endpoints for this node": a backend that is in   *)
(* sync has the endpoint of every source, for every service it has.        *)
(***************************************************************************)
AllEndpointsServed ==
    AtSync => \A i \in 1..NSources, p \in Endpoint :
                goal.svcs[SvcOf[p]] # NoHash /\ goal.slices[i][p] # NoHash
                  => down[p] = goal.slices[i][p]
=============================================================================
