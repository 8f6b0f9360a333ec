------------------------------- MODULE MCStores -------------------------------
(***************************************************************************)
(* The stores and the helpers that share nothing, as one instance: a       *)
(* behaviour is one of the part chosen at the start, the proxy store with  *)
(* two updaters and two viewers, a light diff store that is rebuilt every  *)
(* round, a filterreset sink (these two with three keys), a diffstore of   *)
(* leaves, or a bounded frequency runner.                                  *)
(***************************************************************************)
EXTENDS ProxyStore, LightDiffStore, FilterReset, FrequencyRunner, DiffStoreItems, TLC

CONSTANTS u1, u2, v1, v2

TwoUpdaters == {u1, u2}
TwoViewers == {v1, v2}
Goroutines == Permutations(TwoUpdaters) \cup Permutations(TwoViewers)

VARIABLE part

storesVars == <<part, vars, diffVars, sinkVars, itemsVars, runnerVars>>

StoresInit == /\ part \in {"store", "rebuild", "sink", "items", "runner"}
              /\ Init /\ DiffInit /\ SinkInit /\ ItemsInit /\ RunnerInit

StoresNext ==
    \/ part = "store" /\ Next
       /\ UNCHANGED <<part, diffVars, sinkVars, itemsVars, runnerVars>>
    \/ part = "rebuild" /\ RebuildNext
       /\ UNCHANGED <<part, vars, sinkVars, itemsVars, runnerVars>>
    \/ part = "sink" /\ SinkNext
       /\ UNCHANGED <<part, vars, diffVars, itemsVars, runnerVars>>
    \/ part = "items" /\ ItemsNext
       /\ UNCHANGED <<part, vars, diffVars, sinkVars, runnerVars>>
    \/ part = "runner" /\ RunnerNext
       /\ UNCHANGED <<part, vars, diffVars, sinkVars, itemsVars>>

StoresSpec == StoresInit /\ [][StoresNext]_storesVars
=============================================================================
