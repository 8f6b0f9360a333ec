------------------------------- MODULE FullState -------------------------------
(***************************************************************************)
(* client/localsink/fullstate: the sink that keeps the whole local state   *)
(* in a tree ordered by path and, at Sync, walks it once to hand over each *)
(* service with its endpoints.  That one walk is enough because of the     *)
(* order of kv.Less, in which the separator comes before every other byte. *)
(* A path is a sequence of bytes.  This sink is not behind filterreset: a  *)
(* Reset of the stream clears the tree.  (Definitions that no action uses  *)
(* are faulty variants.)                                                   *)
(***************************************************************************)
EXTENDS BackendFeed, SequencesExt

CONSTANT Sep                       \* '/'

VARIABLES data,                    \* Sink.data: from paths to values
          groups                   \* what the last Sync handed to the callback

stateVars == <<feedVars, data, groups>>

LessBytes(p1, p2) ==
    LET n == IF Len(p1) < Len(p2) THEN Len(p1) ELSE Len(p2)
        differ == {i \in 1..n : p1[i] # p2[i]}
    IN  IF differ = {} THEN Len(p1) < Len(p2)
        ELSE LET i == CHOOSE x \in differ : \A y \in differ : x <= y IN p1[i] < p2[i]

Less(p1, p2) ==
    LET n == IF Len(p1) < Len(p2) THEN Len(p1) ELSE Len(p2)
        differ == {i \in 1..n : p1[i] # p2[i]}
    IN  IF differ = {} THEN Len(p1) < Len(p2)
        ELSE LET i == CHOOSE x \in differ : \A y \in differ : x <= y
             IN  p1[i] = Sep \/ (p2[i] # Sep /\ p1[i] < p2[i])

Ascend == SetToSortSeq(DOMAIN data, Less)

(***************************************************************************)
(* The walk of Sync: an endpoint is appended to the service last met.      *)
(***************************************************************************)
Walk == LET visit(acc, p) ==
              IF p \in Services THEN Append(acc, [svc |-> p, value |-> data[p], eps |-> <<>>])
              ELSE [acc EXCEPT ![Len(acc)].eps = Append(@, [path |-> p, value |-> data[p]])]
        IN  FoldLeft(visit, <<>>, Ascend)

StateInit == FeedInit /\ data = <<>> /\ groups = <<>>

SetPath(p, v) == data' = (p :> v) @@ data
DeletePath(p) == data' = [q \in DOMAIN data \ {p} |-> data[q]]

SendSet(p, v) == /\ \/ p \in Services /\ CallSetService(p, v)
                    \/ p \in Endpoints /\ CallSetEndpoint(p, v)
                 /\ SetPath(p, v) /\ UNCHANGED groups

SendDelete(p) == /\ \/ p \in Services /\ CallDeleteService(p)
                    \/ p \in Endpoints /\ CallDeleteEndpoint(p)
                 /\ DeletePath(p) /\ UNCHANGED groups

Reset == CallReset /\ data' = <<>> /\ UNCHANGED groups

SendSync == CallSync /\ groups' = Walk /\ UNCHANGED data

StateNext == \/ \E s \in Services : \E v \in SvcVals[s] : SendSet(s, v)
             \/ \E e \in Endpoints : \E v \in EpVals[e] : SendSet(e, v)
             \/ \E p \in Services \cup Endpoints : SendDelete(p)
             \/ Reset \/ SendSync

StateSpec == StateInit /\ [][StateNext]_stateVars
-----------------------------------------------------------------------------
(***************************************************************************)
(* Each Sync hands over every service of the stream once, with exactly the *)
(* endpoints the stream gave it since the last Reset, whatever bytes the   *)
(* names are made of: "a", "a-b" and "a/x" never mix.                      *)
(***************************************************************************)
Grouped == {[svc |-> groups[i].svc, value |-> groups[i].value,
             eps |-> ToSet(groups[i].eps)] : i \in DOMAIN groups}

GroupsExact ==
    [][SendSync =>
         /\ Grouped' = {[svc |-> s, value |-> toldSvc[s],
                         eps |-> {[path |-> e, value |-> toldEp[e]] : e \in EpsOf(s)}] :
                            s \in KnownSvcs}
         /\ Len(groups') = Cardinality(KnownSvcs)]_stateVars
=============================================================================
