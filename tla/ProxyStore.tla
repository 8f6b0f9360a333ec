------------------------------ MODULE ProxyStore ------------------------------
(***************************************************************************)
(* server/proxystore/proxystore.go: the revisioned store every watch job   *)
(* reads, with its two locks.  Updaters run transactions under the write   *)
(* lock and bump rev under the condition's mutex c.L; viewers wait on the  *)
(* condition, then read under the read lock; Close takes c.L only.  One    *)
(* action per statement that another goroutine can tell apart.             *)
(* (Definitions that no action uses are faulty variants that show a        *)
(* property failing.)                                                      *)
(***************************************************************************)
EXTENDS Naturals, Copies

CONSTANTS Updater, Viewer, Closer,      \* goroutines
          Path,                         \* KV.Path(), the keys of the tree
          Sets,                         \* the sets that get synced
          Nobody,                       \* no goroutine
          MaxRev                        \* bound: revisions committed

ASSUME GoroutineAssumption ==
    /\ Updater \cap Viewer = {} /\ Closer \notin Updater \cup Viewer
    /\ Nobody \notin Updater \cup Viewer \cup {Closer}

ASSUME BoundAssumption == MaxRev \in Nat

VARIABLES tree, sync,       \* Store.tree, Store.sync
          rev, closed,      \* Store.rev, Store.closed
          changed,          \* tx.changes # 0, for the transaction under way
          writer, readers,  \* who holds the RWMutex
          mu,               \* who holds c.L
          waiting,          \* the viewers in c.Wait() that were not woken
          pc,               \* where each goroutine is
          after,            \* View's argument afterRev
          viewed,           \* what each viewer got last; viewed.rev is its next afterRev
          committed         \* history: tree and sync at the last revision

vars == <<tree, sync, rev, closed, changed, writer, readers, mu, waiting, pc,
          after, viewed, committed>>

Goroutine == Updater \cup Viewer \cup {Closer}

Content == [tree : [Path -> Hash \cup {NoHash}], sync : [Sets -> BOOLEAN]]

EmptyContent == [tree |-> [k \in Path |-> NoHash], sync |-> [s \in Sets |-> FALSE]]

Contents == [tree |-> tree, sync |-> sync]

UpdaterPC == {"idle", "tx", "commit", "bump", "broadcast", "unlockL", "unlock"}
ViewerPC == {"idle", "lockL", "check", "wait", "rlock", "closed?", "view"}
CloserPC == {"idle", "close", "broadcast", "unlockL", "done"}

TypeOK == /\ Contents \in Content /\ committed \in Content
          /\ rev \in Nat /\ closed \in BOOLEAN /\ changed \in BOOLEAN
          /\ writer \in Updater \cup {Nobody} /\ readers \subseteq Viewer
          /\ mu \in Goroutine \cup {Nobody} /\ waiting \subseteq Viewer
          /\ pc \in [Goroutine -> UpdaterPC \cup ViewerPC \cup CloserPC]
          /\ after \in [Viewer -> Nat]
          /\ viewed \in [Viewer -> [rev : Nat, content : Content]]

Init == /\ tree = EmptyContent.tree /\ sync = EmptyContent.sync
        /\ rev = 0 /\ closed = FALSE /\ changed = FALSE
        /\ writer = Nobody /\ readers = {} /\ mu = Nobody /\ waiting = {}
        /\ pc = [g \in Goroutine |-> "idle"]
        /\ after = [v \in Viewer |-> 0]
        /\ viewed = [v \in Viewer |-> [rev |-> 0, content |-> EmptyContent]]
        /\ committed = EmptyContent

Goto(g, from, to) == pc[g] = from /\ pc' = [pc EXCEPT ![g] = to]

LockL(g, from, to) == /\ Goto(g, from, to)
                      /\ mu = Nobody
                      /\ mu' = g
                      /\ UNCHANGED <<tree, sync, rev, closed, changed, writer,
                                     readers, waiting, after, viewed, committed>>

UnlockL(g, to) == /\ Goto(g, "unlockL", to)
                  /\ mu' = Nobody
                  /\ UNCHANGED <<tree, sync, rev, closed, changed, writer,
                                 readers, waiting, after, viewed, committed>>

Broadcast(g) == /\ Goto(g, "broadcast", "unlockL")
                /\ waiting' = {}
                /\ UNCHANGED <<tree, sync, rev, closed, changed, writer,
                               readers, mu, after, viewed, committed>>
-----------------------------------------------------------------------------
(***************************************************************************)
(* Update.  The callback is any sequence of the transaction's operations.  *)
(* The bound is on the transactions started: a started one finishes.       *)
(***************************************************************************)
UpdateLockUnguarded(u) ==
    /\ Goto(u, "idle", "tx")
    /\ rev < MaxRev
    /\ writer = Nobody
    /\ writer' = u /\ changed' = FALSE
    /\ UNCHANGED <<tree, sync, rev, closed, readers, mu, waiting, after, viewed,
                   committed>>

UpdateLock(u) ==
    /\ Goto(u, "idle", "tx")
    /\ rev < MaxRev
    /\ writer = Nobody /\ readers = {}
    /\ writer' = u /\ changed' = FALSE
    /\ UNCHANGED <<tree, sync, rev, closed, readers, mu, waiting, after, viewed,
                   committed>>

InTx(u) == /\ pc[u] = "tx"
           /\ UNCHANGED <<rev, closed, writer, readers, mu, waiting, pc, after,
                          viewed, committed>>

\* set: a value with the hash the key already has is no change.
TxSet(u, k, h) == /\ InTx(u)
                  /\ tree[k] # h
                  /\ tree' = [tree EXCEPT ![k] = h]
                  /\ changed' = TRUE
                  /\ UNCHANGED sync

\* del: so is the deletion of a key that is not there.
TxDel(u, k) == /\ InTx(u)
               /\ tree[k] # NoHash
               /\ tree' = [tree EXCEPT ![k] = NoHash]
               /\ changed' = TRUE
               /\ UNCHANGED sync

\* Reset: an empty tree with no set synced is no change.
TxReset(u) ==
    /\ InTx(u)
    /\ tree' = EmptyContent.tree /\ sync' = EmptyContent.sync
    /\ changed' = (changed \/ Contents # EmptyContent)

TxSetSync(u, s) == /\ InTx(u)
                   /\ ~sync[s]
                   /\ sync' = [sync EXCEPT ![s] = TRUE]
                   /\ changed' = TRUE
                   /\ UNCHANGED tree

\* The callback returns; without a change Update returns at once.
TxEnd(u) == /\ Goto(u, "tx", IF changed THEN "commit" ELSE "unlock")
            /\ UNCHANGED <<tree, sync, rev, closed, changed, writer, readers,
                           mu, waiting, after, viewed, committed>>

UpdateLockL(u) == LockL(u, "commit", "bump")

UpdateBump(u) == /\ Goto(u, "bump", "broadcast")
                 /\ rev' = rev + 1
                 /\ committed' = Contents
                 /\ UNCHANGED <<tree, sync, closed, changed, writer, readers,
                                mu, waiting, after, viewed>>

UpdateUnlock(u) == /\ Goto(u, "unlock", "idle")
                   /\ writer' = Nobody
                   /\ UNCHANGED <<tree, sync, rev, closed, changed, readers, mu,
                                  waiting, after, viewed, committed>>
-----------------------------------------------------------------------------
(***************************************************************************)
(* View.  Every caller passes the revision its last View returned.         *)
(***************************************************************************)
ViewCall(v) == /\ Goto(v, "idle", "lockL")
               /\ after' = [after EXCEPT ![v] = viewed[v].rev]
               /\ UNCHANGED <<tree, sync, rev, closed, changed, writer, readers,
                              mu, waiting, viewed, committed>>

ViewLockL(v) == LockL(v, "lockL", "check")

\* The loop test; c.Wait() enlists the viewer and releases c.L in one step.
ViewCheck(v) ==
    LET sleep == rev <= after[v] /\ ~closed
    IN  /\ Goto(v, "check", IF sleep THEN "wait" ELSE "rlock")
        /\ waiting' = IF sleep THEN waiting \cup {v} ELSE waiting
        /\ mu' = Nobody
        /\ UNCHANGED <<tree, sync, rev, closed, changed, writer, readers, after,
                       viewed, committed>>

\* A woken viewer takes c.L again before it looks at the loop test.
ViewWake(v) == /\ Goto(v, "wait", "lockL")
               /\ v \notin waiting
               /\ UNCHANGED <<tree, sync, rev, closed, changed, writer, readers,
                              mu, waiting, after, viewed, committed>>

ViewRLock(v) == /\ Goto(v, "rlock", "closed?")
                /\ writer = Nobody
                /\ readers' = readers \cup {v}
                /\ UNCHANGED <<tree, sync, rev, closed, changed, writer, mu,
                               waiting, after, viewed, committed>>

\* A viewer of a closed store returns without calling view.
ViewClosed(v) == /\ closed
                 /\ Goto(v, "closed?", "idle")
                 /\ readers' = readers \ {v}
                 /\ UNCHANGED <<tree, sync, rev, closed, changed, writer, mu,
                                waiting, after, viewed, committed>>

ViewOpen(v) == /\ ~closed
               /\ Goto(v, "closed?", "view")
               /\ UNCHANGED <<tree, sync, rev, closed, changed, writer, readers,
                              mu, waiting, after, viewed, committed>>

\* view(tx) reads the tree, the revision is read, and the read lock released.
ViewReturn(v) == /\ Goto(v, "view", "idle")
                 /\ viewed' = [viewed EXCEPT ![v] = [rev |-> rev, content |-> Contents]]
                 /\ readers' = readers \ {v}
                 /\ UNCHANGED <<tree, sync, rev, closed, changed, writer, mu,
                                waiting, after, committed>>
-----------------------------------------------------------------------------
(***************************************************************************)
(* Close.                                                                  *)
(***************************************************************************)
CloseLockL == LockL(Closer, "idle", "close")

CloseSetQuiet == /\ Goto(Closer, "close", "unlockL")
                 /\ closed' = TRUE
                 /\ UNCHANGED <<tree, sync, rev, changed, writer, readers, mu,
                                waiting, after, viewed, committed>>

CloseSet == /\ Goto(Closer, "close", "broadcast")
            /\ closed' = TRUE
            /\ UNCHANGED <<tree, sync, rev, changed, writer, readers, mu,
                           waiting, after, viewed, committed>>

Close == CloseLockL \/ CloseSet \/ Broadcast(Closer) \/ UnlockL(Closer, "done")

TxOp(u) == \/ \E k \in Path, h \in Hash : TxSet(u, k, h)
           \/ \E k \in Path : TxDel(u, k)
           \/ TxReset(u)
           \/ \E s \in Sets : TxSetSync(u, s)

\* What Update does once its callback has returned.
Finish(u) == \/ TxEnd(u) \/ UpdateLockL(u) \/ UpdateBump(u)
             \/ Broadcast(u) \/ UnlockL(u, "unlock") \/ UpdateUnlock(u)

Update(u) == UpdateLock(u) \/ TxOp(u) \/ Finish(u)

\* View after the call.
Proceed(v) == \/ ViewLockL(v) \/ ViewCheck(v) \/ ViewWake(v) \/ ViewRLock(v)
              \/ ViewClosed(v) \/ ViewOpen(v) \/ ViewReturn(v)

View(v) == ViewCall(v) \/ Proceed(v)

Next == \/ \E u \in Updater : Update(u)
        \/ \E v \in Viewer : View(v)
        \/ Close

Spec == Init /\ [][Next]_vars

(***************************************************************************)
(* A goroutine inside Update, View or Close keeps running and callbacks    *)
(* return; Go's mutexes hand over to waiters that would otherwise starve,  *)
(* so a lock that is free again and again is obtained.  Nobody has to      *)
(* start an Update, a View or a Close.                                     *)
(***************************************************************************)
Fairness == /\ \A u \in Updater : WF_vars(Finish(u)) /\ SF_vars(UpdateLockL(u))
            /\ \A v \in Viewer : /\ WF_vars(Proceed(v))
                                 /\ SF_vars(ViewLockL(v))
                                 /\ SF_vars(ViewRLock(v))
            /\ WF_vars(Broadcast(Closer) \/ CloseSet \/ UnlockL(Closer, "done"))

-----------------------------------------------------------------------------
(***************************************************************************)
(* Update and View are atomic: a viewer gets the contents some revision    *)
(* committed, with that revision's number, and each View that returns      *)
(* contents returns a later revision than the one before.                  *)
(***************************************************************************)
Rev == INSTANCE RevStore WITH content <- committed

RevSpec == Rev!Spec

(***************************************************************************)
(* No change without a revision: whenever no transaction is open, the      *)
(* contents are those of the last revision, so a viewer that waits for the *)
(* next one misses nothing.                                                *)
(***************************************************************************)
NoSilentChange == writer = Nobody => Contents = committed

(***************************************************************************)
(* No lost wakeup: a viewer is asleep with something to see, or in a       *)
(* closed store, only while the goroutine that made it so has its          *)
(* Broadcast still to come.                                                *)
(***************************************************************************)
NoLostWakeup == \A v \in waiting :
    rev > after[v] \/ closed => \E g \in Updater \cup {Closer} : pc[g] = "broadcast"

(***************************************************************************)
(* A View call returns once there is a later revision or the store is      *)
(* closed, and an Update that has the write lock gives it back.            *)
(***************************************************************************)
CallsReturn ==
    /\ \A v \in Viewer : pc[v] # "idle" /\ (rev > after[v] \/ closed) ~> pc[v] = "idle"
    /\ \A u \in Updater : writer = u ~> writer # u
-----------------------------------------------------------------------------
(***************************************************************************)
(* The inductive invariant: who holds which lock follows from the program  *)
(* counters, and what each program counter says about the contents, the    *)
(* revision and the viewer's argument.                                     *)
(***************************************************************************)
Locks == /\ \A u \in Updater : writer = u <=> pc[u] # "idle"
         /\ readers = {v \in Viewer : pc[v] \in {"closed?", "view"}}
         /\ writer # Nobody => readers = {}
         /\ \A g \in Goroutine :
              mu = g <=> pc[g] \in {"bump", "broadcast", "unlockL", "check", "close"}

Committed == /\ NoSilentChange
             /\ \A u \in Updater :
                  \/ pc[u] = "tx" /\ ~changed
                  \/ pc[u] \in {"broadcast", "unlockL", "unlock"}
                  => Contents = committed

Viewing(v) == /\ pc[v] # "idle" => after[v] = viewed[v].rev
              /\ pc[v] \in {"rlock", "closed?"} => rev > after[v] \/ closed
              /\ pc[v] = "view" => rev > after[v]
              /\ v \in waiting => pc[v] = "wait"

Places == /\ \A u \in Updater : pc[u] \in UpdaterPC
          /\ \A v \in Viewer : pc[v] \in ViewerPC
          /\ pc[Closer] \in CloserPC

StoreInv == /\ TypeOK /\ Places /\ Locks /\ Committed /\ NoLostWakeup
            /\ \A v \in Viewer : Viewing(v)
=============================================================================
