------------------------------ MODULE BackendFeed ------------------------------
(***************************************************************************)
(* What a backend behind filterreset and the decoder gets to see: calls of *)
(* SetService, SetEndpoint, DeleteEndpoint and DeleteService that carry    *)
(* one difference in the order of store2localdiff's SendDiff (services     *)
(* first and last), then Sync.  After a reconnection the purge of          *)
(* filterreset deletes whatever was not sent again, in the order Go ranges *)
(* over a map: a service may then go before its endpoints.  A value that   *)
(* the backend already has is never sent again.  Backend modules extend    *)
(* this one and say what their handlers do at each of these calls.         *)
(***************************************************************************)
EXTENDS FiniteSets, Naturals, Sequences, TLC

CONSTANTS Services, Endpoints,   \* namespace/name, namespace/name/key
          ServiceOf,             \* the service of an endpoint's path
          SvcVals, EpVals,       \* the values each service and endpoint may have
          None                   \* absent

ASSUME FeedAssumption == /\ ServiceOf \in [Endpoints -> Services]
                         /\ \A s \in Services : None \notin SvcVals[s]
                         /\ \A e \in Endpoints : None \notin EpVals[e]

VARIABLES toldSvc, toldEp,       \* what the backend was told and not told to delete
          phase,                 \* how far the difference being sent is
          fresh,                 \* the paths set since the last Sync
          doomed                 \* the paths the purge still deletes

feedVars == <<toldSvc, toldEp, phase, fresh, doomed>>

FeedInit == /\ toldSvc = [s \in Services |-> None]
            /\ toldEp = [e \in Endpoints |-> None]
            /\ phase = "svc" /\ fresh = {} /\ doomed = {}

KnownSvcs == {s \in Services : toldSvc[s] # None}
KnownEps == {e \in Endpoints : toldEp[e] # None}
EpsOf(s) == {e \in KnownEps : ServiceOf[e] = s}

CallSetService(s, v) == /\ phase = "svc" /\ v \in SvcVals[s] \ {toldSvc[s]}
                        /\ toldSvc' = [toldSvc EXCEPT ![s] = v]
                        /\ fresh' = fresh \cup {s}
                        /\ UNCHANGED <<toldEp, phase, doomed>>

CallSetEndpoint(e, v) == /\ phase \in {"svc", "ep"} /\ v \in EpVals[e] \ {toldEp[e]}
                         /\ toldSvc[ServiceOf[e]] # None
                         /\ toldEp' = [toldEp EXCEPT ![e] = v]
                         /\ phase' = "ep" /\ fresh' = fresh \cup {e}
                         /\ UNCHANGED <<toldSvc, doomed>>

\* One difference does not set a path and delete it; a purge may delete what was set.
CallDeleteEndpoint(e) == /\ \/ phase \in {"svc", "ep"} /\ e \notin fresh /\ phase' = "ep"
                            \/ phase = "purge" /\ e \in doomed /\ UNCHANGED phase
                         /\ e \in KnownEps
                         /\ toldEp' = [toldEp EXCEPT ![e] = None]
                         /\ doomed' = doomed \ {e}
                         /\ UNCHANGED <<toldSvc, fresh>>

CallDeleteService(s) == /\ \/ /\ phase \in {"svc", "ep", "gone"} /\ EpsOf(s) = {} /\ s \notin fresh
                              /\ phase' = "gone"
                           \/ phase = "purge" /\ s \in doomed /\ UNCHANGED phase
                        /\ s \in KnownSvcs
                        /\ toldSvc' = [toldSvc EXCEPT ![s] = None]
                        /\ doomed' = doomed \ {s}
                        /\ UNCHANGED <<toldEp, fresh>>

\* filterreset's Sync after a Reset: no endpoint outlives its service.
PurgeStarts == /\ phase \in {"svc", "ep"}
               /\ \E D \in SUBSET (KnownSvcs \cup KnownEps) :
                     /\ D # {} /\ \A s \in D \cap Services : EpsOf(s) \subseteq D
                     /\ doomed' = D
               /\ phase' = "purge"
               /\ UNCHANGED <<toldSvc, toldEp, fresh>>

\* The stream starts over, for a sink that filterreset does not protect.
CallReset == /\ phase' = "svc" /\ fresh' = {} /\ doomed' = {}
             /\ toldSvc' = [s \in Services |-> None]
             /\ toldEp' = [e \in Endpoints |-> None]

CallSync == /\ doomed = {} /\ phase' = "svc" /\ fresh' = {}
            /\ UNCHANGED <<toldSvc, toldEp, doomed>>
=============================================================================
