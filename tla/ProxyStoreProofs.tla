--------------------------- MODULE ProxyStoreProofs ---------------------------
(***************************************************************************)
(* Proofs about ProxyStore: StoreInv is inductive, and the store with its  *)
(* two locks implements the atomic RevStore.                               *)
(***************************************************************************)
EXTENDS ProxyStore, TLAPS

LEMMA InitInv == Init => StoreInv
<1> SUFFICES ASSUME Init PROVE StoreInv
  OBVIOUS
<1> USE GoroutineAssumption DEF Init, Goroutine, UpdaterPC, ViewerPC, CloserPC
<1>1. TypeOK BY DEF TypeOK, Content, Contents, EmptyContent
<1>2. Places /\ Locks BY DEF Places, Locks
<1>3. Committed BY DEF Committed, NoSilentChange, Contents, EmptyContent
<1>4. NoLostWakeup /\ \A v \in Viewer : Viewing(v) BY DEF NoLostWakeup, Viewing
<1> QED BY <1>1, <1>2, <1>3, <1>4 DEF StoreInv

\* An operation of a transaction: only the contents and changed move, and the
\* contents differ from the last revision's only once changed is set.
LEMMA TxStep ==
    ASSUME StoreInv, NEW u \in Updater, TxOp(u)
    PROVE  StoreInv'
<1>i. /\ TypeOK /\ Places /\ Locks /\ Committed /\ NoLostWakeup
      /\ \A w \in Viewer : Viewing(w)
  BY DEF StoreInv
<1>u. InTx(u) BY DEF TxOp, TxSet, TxDel, TxReset, TxSetSync
<1>t. /\ tree \in [Path -> Hash \cup {NoHash}]
      /\ sync \in [Sets -> BOOLEAN]
      /\ changed \in BOOLEAN
  BY <1>i DEF TypeOK, Content, Contents
<1> DEFINE Kept == /\ tree' \in [Path -> Hash \cup {NoHash}]
                   /\ sync' \in [Sets -> BOOLEAN]
                   /\ changed' \in BOOLEAN
                   /\ changed' \/ (tree' = tree /\ sync' = sync /\ ~changed)
<1>1. Kept
  <2>1. ASSUME NEW k \in Path, NEW h \in Hash, TxSet(u, k, h) PROVE Kept
    BY <2>1, <1>t DEF TxSet
  <2>2. ASSUME NEW k \in Path, TxDel(u, k) PROVE Kept
    BY <2>2, <1>t DEF TxDel
  <2>3. CASE TxReset(u)
    BY <2>3, <1>t DEF TxReset, EmptyContent, Contents
  <2>4. ASSUME NEW s \in Sets, TxSetSync(u, s) PROVE Kept
    BY <2>4, <1>t DEF TxSetSync
  <2> QED BY <2>1, <2>2, <2>3, <2>4 DEF TxOp
<1>2. TypeOK' BY <1>1, <1>u, <1>i DEF TypeOK, Content, Contents, InTx
<1>3. Places' /\ Locks' BY <1>u, <1>i DEF Places, Locks, InTx
<1>4. Committed'
  BY <1>1, <1>u, <1>i, GoroutineAssumption
     DEF InTx, Committed, NoSilentChange, Contents, Locks, TypeOK
<1>5. NoLostWakeup' /\ \A w \in Viewer : Viewing(w)'
  BY <1>u, <1>i DEF InTx, NoLostWakeup, Viewing
<1> QED BY <1>2, <1>3, <1>4, <1>5 DEF StoreInv

\* Update, one case per statement.
LEMMA UpdateStep ==
    ASSUME StoreInv, NEW u \in Updater, Update(u)
    PROVE  StoreInv'
<1> USE GoroutineAssumption DEF TypeOK, Goroutine, Places, UpdaterPC,
        ViewerPC, CloserPC
<1>i. /\ TypeOK /\ Places /\ Locks /\ Committed /\ NoLostWakeup
      /\ \A w \in Viewer : Viewing(w)
  BY DEF StoreInv
<1>1. CASE UpdateLock(u)
  <2>1. TypeOK'
    BY <1>1, <1>i DEF UpdateLock, Goto, Content, Contents, EmptyContent
  <2>2. Places' /\ Locks'
    BY <1>1, <1>i DEF UpdateLock, Goto, Locks
  <2>3. Committed'
    BY <1>1, <1>i DEF UpdateLock, Goto, Locks, Committed, NoSilentChange, Contents
  <2>4. NoLostWakeup' /\ \A w \in Viewer : Viewing(w)'
    BY <1>1, <1>i DEF UpdateLock, Goto, Locks, NoLostWakeup, Viewing
  <2> QED BY <2>1, <2>2, <2>3, <2>4 DEF StoreInv
<1>2. CASE TxOp(u)
  BY <1>2, TxStep
<1>3. CASE TxEnd(u)
  <2>1. TypeOK'
    BY <1>3, <1>i DEF TxEnd, Goto, Content, Contents, EmptyContent
  <2>2. Places' /\ Locks'
    BY <1>3, <1>i DEF TxEnd, Goto, Locks
  <2>3. Committed'
    BY <1>3, <1>i DEF TxEnd, Goto, Locks, Committed, NoSilentChange, Contents
  <2>4. NoLostWakeup' /\ \A w \in Viewer : Viewing(w)'
    BY <1>3, <1>i DEF TxEnd, Goto, Locks, NoLostWakeup, Viewing
  <2> QED BY <2>1, <2>2, <2>3, <2>4 DEF StoreInv
<1>4. CASE UpdateLockL(u)
  <2>1. TypeOK'
    BY <1>4, <1>i DEF UpdateLockL, LockL, Goto, Content, Contents, EmptyContent
  <2>2. Places' /\ Locks'
    BY <1>4, <1>i DEF UpdateLockL, LockL, Goto, Locks
  <2>3. Committed'
    BY <1>4, <1>i DEF UpdateLockL, LockL, Goto, Locks, Committed, NoSilentChange, Contents
  <2>4. NoLostWakeup' /\ \A w \in Viewer : Viewing(w)'
    BY <1>4, <1>i DEF UpdateLockL, LockL, Goto, Locks, NoLostWakeup, Viewing
  <2> QED BY <2>1, <2>2, <2>3, <2>4 DEF StoreInv
<1>5. CASE UpdateBump(u)
  <2>1. TypeOK'
    BY <1>5, <1>i DEF UpdateBump, Goto, Content, Contents, EmptyContent
  <2>2. Places' /\ Locks'
    BY <1>5, <1>i DEF UpdateBump, Goto, Locks
  <2>3. Committed'
    BY <1>5, <1>i DEF UpdateBump, Goto, Locks, Committed, NoSilentChange, Contents
  <2>4. NoLostWakeup' /\ \A w \in Viewer : Viewing(w)'
    BY <1>5, <1>i DEF UpdateBump, Goto, Locks, NoLostWakeup, Viewing
  <2> QED BY <2>1, <2>2, <2>3, <2>4 DEF StoreInv
<1>6. CASE Broadcast(u)
  <2>1. TypeOK'
    BY <1>6, <1>i DEF Broadcast, Goto, Content, Contents, EmptyContent
  <2>2. Places' /\ Locks'
    BY <1>6, <1>i DEF Broadcast, Goto, Locks
  <2>3. Committed'
    BY <1>6, <1>i DEF Broadcast, Goto, Locks, Committed, NoSilentChange, Contents
  <2>4. NoLostWakeup' /\ \A w \in Viewer : Viewing(w)'
    BY <1>6, <1>i DEF Broadcast, Goto, Locks, NoLostWakeup, Viewing
  <2> QED BY <2>1, <2>2, <2>3, <2>4 DEF StoreInv
<1>7. CASE UnlockL(u, "unlock")
  <2>1. TypeOK'
    BY <1>7, <1>i DEF UnlockL, Goto, Content, Contents, EmptyContent
  <2>2. Places' /\ Locks'
    BY <1>7, <1>i DEF UnlockL, Goto, Locks
  <2>3. Committed'
    BY <1>7, <1>i DEF UnlockL, Goto, Locks, Committed, NoSilentChange, Contents
  <2>4. NoLostWakeup' /\ \A w \in Viewer : Viewing(w)'
    BY <1>7, <1>i DEF UnlockL, Goto, Locks, NoLostWakeup, Viewing
  <2> QED BY <2>1, <2>2, <2>3, <2>4 DEF StoreInv
<1>8. CASE UpdateUnlock(u)
  <2>1. TypeOK'
    BY <1>8, <1>i DEF UpdateUnlock, Goto, Content, Contents, EmptyContent
  <2>2. Places' /\ Locks'
    BY <1>8, <1>i DEF UpdateUnlock, Goto, Locks
  <2>3. Committed'
    BY <1>8, <1>i DEF UpdateUnlock, Goto, Locks, Committed, NoSilentChange, Contents
  <2>4. NoLostWakeup' /\ \A w \in Viewer : Viewing(w)'
    BY <1>8, <1>i DEF UpdateUnlock, Goto, Locks, NoLostWakeup, Viewing
  <2> QED BY <2>1, <2>2, <2>3, <2>4 DEF StoreInv
<1> QED BY <1>1, <1>2, <1>3, <1>4, <1>5, <1>6, <1>7, <1>8 DEF Update, Finish

\* View, one case per statement.
LEMMA ViewStep ==
    ASSUME StoreInv, NEW v \in Viewer, View(v)
    PROVE  StoreInv'
<1> USE GoroutineAssumption DEF TypeOK, Goroutine, Places, UpdaterPC,
        ViewerPC, CloserPC
<1>i. /\ TypeOK /\ Places /\ Locks /\ Committed /\ NoLostWakeup
      /\ \A w \in Viewer : Viewing(w)
  BY DEF StoreInv
<1>1. CASE ViewCall(v)
  <2>1. TypeOK'
    BY <1>1, <1>i DEF ViewCall, Goto, Content, Contents, EmptyContent
  <2>2. Places' /\ Locks'
    BY <1>1, <1>i DEF ViewCall, Goto, Locks
  <2>3. Committed'
    BY <1>1, <1>i DEF ViewCall, Goto, Locks, Committed, NoSilentChange, Contents
  <2>4. NoLostWakeup' /\ \A w \in Viewer : Viewing(w)'
    BY <1>1, <1>i DEF ViewCall, Goto, Locks, NoLostWakeup, Viewing
  <2> QED BY <2>1, <2>2, <2>3, <2>4 DEF StoreInv
<1>2. CASE ViewLockL(v)
  <2>1. TypeOK'
    BY <1>2, <1>i DEF ViewLockL, LockL, Goto, Content, Contents, EmptyContent
  <2>2. Places' /\ Locks'
    BY <1>2, <1>i DEF ViewLockL, LockL, Goto, Locks
  <2>3. Committed'
    BY <1>2, <1>i DEF ViewLockL, LockL, Goto, Locks, Committed, NoSilentChange, Contents
  <2>4. NoLostWakeup' /\ \A w \in Viewer : Viewing(w)'
    BY <1>2, <1>i DEF ViewLockL, LockL, Goto, Locks, NoLostWakeup, Viewing
  <2> QED BY <2>1, <2>2, <2>3, <2>4 DEF StoreInv
<1>3. CASE ViewCheck(v)
  <2>1. TypeOK'
    BY <1>3, <1>i DEF ViewCheck, Goto, Content, Contents, EmptyContent
  <2>2. Places' /\ Locks'
    BY <1>3, <1>i DEF ViewCheck, Goto, Locks
  <2>3. Committed'
    BY <1>3, <1>i DEF ViewCheck, Goto, Locks, Committed, NoSilentChange, Contents
  <2>4. NoLostWakeup' /\ \A w \in Viewer : Viewing(w)'
    BY <1>3, <1>i DEF ViewCheck, Goto, Locks, NoLostWakeup, Viewing
  <2> QED BY <2>1, <2>2, <2>3, <2>4 DEF StoreInv
<1>4. CASE ViewWake(v)
  <2>1. TypeOK'
    BY <1>4, <1>i DEF ViewWake, Goto, Content, Contents, EmptyContent
  <2>2. Places' /\ Locks'
    BY <1>4, <1>i DEF ViewWake, Goto, Locks
  <2>3. Committed'
    BY <1>4, <1>i DEF ViewWake, Goto, Locks, Committed, NoSilentChange, Contents
  <2>4. NoLostWakeup' /\ \A w \in Viewer : Viewing(w)'
    BY <1>4, <1>i DEF ViewWake, Goto, Locks, NoLostWakeup, Viewing
  <2> QED BY <2>1, <2>2, <2>3, <2>4 DEF StoreInv
<1>5. CASE ViewRLock(v)
  <2>1. TypeOK'
    BY <1>5, <1>i DEF ViewRLock, Goto, Content, Contents, EmptyContent
  <2>2. Places' /\ Locks'
    BY <1>5, <1>i DEF ViewRLock, Goto, Locks
  <2>3. Committed'
    BY <1>5, <1>i DEF ViewRLock, Goto, Locks, Committed, NoSilentChange, Contents
  <2>4. NoLostWakeup' /\ \A w \in Viewer : Viewing(w)'
    BY <1>5, <1>i DEF ViewRLock, Goto, Locks, NoLostWakeup, Viewing
  <2> QED BY <2>1, <2>2, <2>3, <2>4 DEF StoreInv
<1>6. CASE ViewClosed(v)
  <2>1. TypeOK'
    BY <1>6, <1>i DEF ViewClosed, Goto, Content, Contents, EmptyContent
  <2>2. Places' /\ Locks'
    BY <1>6, <1>i DEF ViewClosed, Goto, Locks
  <2>3. Committed'
    BY <1>6, <1>i DEF ViewClosed, Goto, Locks, Committed, NoSilentChange, Contents
  <2>4. NoLostWakeup' /\ \A w \in Viewer : Viewing(w)'
    BY <1>6, <1>i DEF ViewClosed, Goto, Locks, NoLostWakeup, Viewing
  <2> QED BY <2>1, <2>2, <2>3, <2>4 DEF StoreInv
<1>7. CASE ViewOpen(v)
  <2>1. TypeOK'
    BY <1>7, <1>i DEF ViewOpen, Goto, Content, Contents, EmptyContent
  <2>2. Places' /\ Locks'
    BY <1>7, <1>i DEF ViewOpen, Goto, Locks
  <2>3. Committed'
    BY <1>7, <1>i DEF ViewOpen, Goto, Locks, Committed, NoSilentChange, Contents
  <2>4. NoLostWakeup' /\ \A w \in Viewer : Viewing(w)'
    BY <1>7, <1>i DEF ViewOpen, Goto, Locks, NoLostWakeup, Viewing
  <2> QED BY <2>1, <2>2, <2>3, <2>4 DEF StoreInv
<1>8. CASE ViewReturn(v)
  <2>1. TypeOK'
    BY <1>8, <1>i DEF ViewReturn, Goto, Content, Contents, EmptyContent
  <2>2. Places' /\ Locks'
    BY <1>8, <1>i DEF ViewReturn, Goto, Locks
  <2>3. Committed'
    BY <1>8, <1>i DEF ViewReturn, Goto, Locks, Committed, NoSilentChange, Contents
  <2>4. NoLostWakeup' /\ \A w \in Viewer : Viewing(w)'
    BY <1>8, <1>i DEF ViewReturn, Goto, Locks, NoLostWakeup, Viewing
  <2> QED BY <2>1, <2>2, <2>3, <2>4 DEF StoreInv
<1> QED BY <1>1, <1>2, <1>3, <1>4, <1>5, <1>6, <1>7, <1>8 DEF View, Proceed

\* Close, one case per statement.
LEMMA CloseStep ==
    ASSUME StoreInv, Close
    PROVE  StoreInv'
<1> USE GoroutineAssumption DEF TypeOK, Goroutine, Places, UpdaterPC,
        ViewerPC, CloserPC
<1>i. /\ TypeOK /\ Places /\ Locks /\ Committed /\ NoLostWakeup
      /\ \A w \in Viewer : Viewing(w)
  BY DEF StoreInv
<1>1. CASE CloseLockL
  <2>1. TypeOK'
    BY <1>1, <1>i DEF CloseLockL, LockL, Goto, Content, Contents, EmptyContent
  <2>2. Places' /\ Locks'
    BY <1>1, <1>i DEF CloseLockL, LockL, Goto, Locks
  <2>3. Committed'
    BY <1>1, <1>i DEF CloseLockL, LockL, Goto, Locks, Committed, NoSilentChange, Contents
  <2>4. NoLostWakeup' /\ \A w \in Viewer : Viewing(w)'
    BY <1>1, <1>i DEF CloseLockL, LockL, Goto, Locks, NoLostWakeup, Viewing
  <2> QED BY <2>1, <2>2, <2>3, <2>4 DEF StoreInv
<1>2. CASE CloseSet
  <2>1. TypeOK'
    BY <1>2, <1>i DEF CloseSet, Goto, Content, Contents, EmptyContent
  <2>2. Places' /\ Locks'
    BY <1>2, <1>i DEF CloseSet, Goto, Locks
  <2>3. Committed'
    BY <1>2, <1>i DEF CloseSet, Goto, Locks, Committed, NoSilentChange, Contents
  <2>4. NoLostWakeup' /\ \A w \in Viewer : Viewing(w)'
    BY <1>2, <1>i DEF CloseSet, Goto, Locks, NoLostWakeup, Viewing
  <2> QED BY <2>1, <2>2, <2>3, <2>4 DEF StoreInv
<1>3. CASE Broadcast(Closer)
  <2>1. TypeOK'
    BY <1>3, <1>i DEF Broadcast, Goto, Content, Contents, EmptyContent
  <2>2. Places' /\ Locks'
    BY <1>3, <1>i DEF Broadcast, Goto, Locks
  <2>3. Committed'
    BY <1>3, <1>i DEF Broadcast, Goto, Locks, Committed, NoSilentChange, Contents
  <2>4. NoLostWakeup' /\ \A w \in Viewer : Viewing(w)'
    BY <1>3, <1>i DEF Broadcast, Goto, Locks, NoLostWakeup, Viewing
  <2> QED BY <2>1, <2>2, <2>3, <2>4 DEF StoreInv
<1>4. CASE UnlockL(Closer, "done")
  <2>1. TypeOK'
    BY <1>4, <1>i DEF UnlockL, Goto, Content, Contents, EmptyContent
  <2>2. Places' /\ Locks'
    BY <1>4, <1>i DEF UnlockL, Goto, Locks
  <2>3. Committed'
    BY <1>4, <1>i DEF UnlockL, Goto, Locks, Committed, NoSilentChange, Contents
  <2>4. NoLostWakeup' /\ \A w \in Viewer : Viewing(w)'
    BY <1>4, <1>i DEF UnlockL, Goto, Locks, NoLostWakeup, Viewing
  <2> QED BY <2>1, <2>2, <2>3, <2>4 DEF StoreInv
<1> QED BY <1>1, <1>2, <1>3, <1>4 DEF Close

LEMMA InvStep == StoreInv /\ [Next]_vars => StoreInv'
<1> SUFFICES ASSUME StoreInv, [Next]_vars PROVE StoreInv'
  OBVIOUS
<1>1. CASE Next BY <1>1, UpdateStep, ViewStep, CloseStep DEF Next
<1>2. CASE UNCHANGED vars
  <2>1. TypeOK' /\ Places' /\ Locks'
    BY <1>2 DEF vars, StoreInv, TypeOK, Contents, Places, Locks
  <2>2. Committed' /\ NoLostWakeup' /\ \A v \in Viewer : Viewing(v)'
    BY <1>2 DEF vars, StoreInv, Committed, NoSilentChange, Contents,
                NoLostWakeup, Viewing
  <2> QED BY <2>1, <2>2 DEF StoreInv
<1> QED BY <1>1, <1>2

\* The locks, program counters and contents always fit together.
THEOREM StoreInvariant == Spec => []StoreInv
  BY InitInv, InvStep, PTL DEF Spec

\* No View sleeps through a revision or a Close whose Broadcast is over.
THEOREM WakeupsNotLost == Spec => []NoLostWakeup
<1>1. StoreInv => NoLostWakeup BY DEF StoreInv
<1> QED BY <1>1, StoreInvariant, PTL

\* Outside a transaction the store holds exactly the last revision.
THEOREM ChangesHaveRevisions == Spec => []NoSilentChange
<1>1. StoreInv => NoSilentChange BY DEF StoreInv, Committed
<1> QED BY <1>1, StoreInvariant, PTL
-----------------------------------------------------------------------------
(***************************************************************************)
(* The refinement: UpdateBump is the store's Commit, CloseSet its Close,   *)
(* ViewReturn a Look, and every other statement a stutter.                 *)
(***************************************************************************)
LEMMA RevInit == Init => Rev!Init
  BY DEF Init, Rev!Init

LEMMA RevStep ==
    ASSUME StoreInv, [Next]_vars
    PROVE  [Rev!Next]_Rev!vars
<1> USE DEF Rev!vars
<1>i. TypeOK /\ Locks /\ Committed /\ \A v \in Viewer : Viewing(v)
  BY DEF StoreInv
<1>1. ASSUME NEW u \in Updater, Update(u) PROVE [Rev!Next]_Rev!vars
  <2>1. CASE UpdateBump(u)
    <3>1. committed' \in Content BY <2>1, <1>i DEF UpdateBump, TypeOK
    <3> QED BY <3>1, <2>1 DEF UpdateBump, Rev!Next, Rev!Commit
  <2>2. CASE ~UpdateBump(u)
    BY <2>2, <1>1 DEF Update, Finish, UpdateLock, TxOp, TxSet, TxDel, TxReset,
       TxSetSync, InTx, TxEnd, UpdateLockL, LockL, Broadcast, UnlockL,
       UpdateUnlock
  <2> QED BY <2>1, <2>2
<1>2. ASSUME NEW v \in Viewer, View(v) PROVE [Rev!Next]_Rev!vars
  <2>1. CASE ViewReturn(v)
    <3>1. pc[v] = "view" BY <2>1 DEF ViewReturn, Goto
    <3>2. viewed[v].rev < rev BY <3>1, <1>i DEF Viewing, TypeOK
    <3>3. v \in readers BY <3>1, <1>i DEF Locks
    <3>4. Contents = committed BY <3>3, <1>i DEF Locks, Committed, NoSilentChange
    <3>5. Rev!Look(v) BY <3>2, <3>4, <2>1 DEF ViewReturn, Rev!Look
    <3> QED BY <3>5 DEF Rev!Next
  <2>2. CASE ~ViewReturn(v)
    BY <2>2, <1>2 DEF View, Proceed, ViewCall, ViewLockL, LockL, ViewCheck,
       ViewWake, ViewRLock, ViewClosed, ViewOpen
  <2> QED BY <2>1, <2>2
<1>3. ASSUME Close PROVE [Rev!Next]_Rev!vars
  BY <1>3 DEF Close, CloseLockL, LockL, CloseSet, Broadcast, UnlockL, Rev!Next,
     Rev!Close
<1>4. CASE UNCHANGED vars BY <1>4 DEF vars
<1> QED BY <1>1, <1>2, <1>3, <1>4 DEF Next

\* For any number of updaters and viewers, Update and View are atomic: the
\* two-lock store implements the revisioned store.
THEOREM StoreIsAtomic == Spec => RevSpec
  BY RevInit, RevStep, StoreInvariant, PTL DEF Spec, RevSpec, Rev!Spec
=============================================================================
