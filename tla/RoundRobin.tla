------------------------------ MODULE RoundRobin ------------------------------
(***************************************************************************)
(* backends/userspacelin/roundrobin.go: LoadBalancerRR as functions of its *)
(* map, from a service port to a balancerState.  An index counts from 0,   *)
(* as in the code.  The age of a session is abstracted to whether its time *)
(* to live has run out.  An endpoint is the sequence of its port           *)
(* overrides; its address under an override stands for "ip:port".          *)
(* (Definitions that nothing uses are faulty variants that show a property *)
(* failing.)                                                               *)
(***************************************************************************)
EXTENDS Naturals, Sequences, SequencesExt, TLC

CONSTANT Clients

newBalancerState(affinity) ==
    [endpoints |-> <<>>, index |-> 0, affinity |-> affinity, sessions |-> <<>>]

newServiceInternal(lb, sp, affinity) ==
    IF sp \notin DOMAIN lb THEN lb @@ (sp :> newBalancerState(affinity))
    ELSE [lb EXCEPT ![sp].affinity = @ \/ affinity]

DeleteServiceRR(lb, sp) == [x \in DOMAIN lb \ {sp} |-> lb[x]]

ServiceHasEndpoints(lb, sp) == sp \in DOMAIN lb /\ lb[sp].endpoints # <<>>

(***************************************************************************)
(* NextEndpoint, for a service that has endpoints: the session's endpoint, *)
(* or the next one in turn, which the session then remembers.              *)
(***************************************************************************)
SticksOnRetry(state, c, reset) == state.affinity /\ c \in DOMAIN state.sessions /\ state.sessions[c].fresh

Sticks(state, c, reset) == /\ state.affinity /\ ~reset
                           /\ c \in DOMAIN state.sessions /\ state.sessions[c].fresh

Picked(state, c, reset) == IF Sticks(state, c, reset) THEN state.sessions[c].endpoint
                           ELSE state.endpoints[state.index + 1]

NextEndpoint(lb, sp, c, reset) ==
    LET state == lb[sp]
        used == c :> [endpoint |-> Picked(state, c, reset), fresh |-> TRUE]
    IN  [lb EXCEPT
           ![sp].index = IF Sticks(state, c, reset) THEN @ ELSE (@ + 1) % Len(state.endpoints),
           ![sp].sessions = IF state.affinity THEN used @@ @ ELSE @]

(***************************************************************************)
(* The addresses an endpoint has for a port name.                          *)
(***************************************************************************)
buildPortsToEndpointsMap(e, overrides) ==
    [n \in {overrides[i].name : i \in DOMAIN overrides} |->
        LET mine == SelectSeq(overrides, LAMBDA o : o.name = n)
        IN  [i \in DOMAIN mine |-> <<e, mine[i].port>>]]

ShuffleStrings(s) == {[i \in DOMAIN s |-> s[f[i]]] : f \in Permutations(DOMAIN s)}

\* OnEndpointsAdd for one port name: the states the shuffle may lead to.
AddToPort(lb, sp, affinity, new) ==
    LET made == newServiceInternal(lb, sp, affinity)
    IN  {[made EXCEPT ![sp].endpoints = s, ![sp].index = 0] :
            s \in ShuffleStrings(new \o made[sp].endpoints)}

(***************************************************************************)
(* OnEndpointsDelete for one port name.  The loop ranges over the list as  *)
(* it was while it shortens it: a second match finds its index beyond the  *)
(* end, unless the match before it left room.                              *)
(***************************************************************************)
DeleteLoop(eps, d) ==
    LET step(st, i) == IF st.panics \/ st.array[i] # d THEN st
                       ELSE IF i > st.len THEN [st EXCEPT !.panics = TRUE]
                       ELSE [st EXCEPT !.array[i] = st.array[st.len], !.len = @ - 1]
    IN  FoldLeft(step, [array |-> eps, len |-> Len(eps), panics |-> FALSE],
                 [i \in DOMAIN eps |-> i])

DeleteFromPort(lb, sp, d) ==
    LET loop == DeleteLoop(lb[sp].endpoints, d)
        kept == SubSeq(loop.array, 1, loop.len)
    IN  [lb EXCEPT ![sp].endpoints = kept,
                   ![sp].index = IF loop.len < Len(lb[sp].endpoints) THEN 0 ELSE @,
                   ![sp].sessions = IF kept = <<>> THEN <<>> ELSE @]

CleanupStaleStickySessions(lb, sp) ==
    IF sp \notin DOMAIN lb THEN lb
    ELSE [lb EXCEPT ![sp].sessions =
             [c \in {x \in DOMAIN @ : @[x].fresh} |-> @[c]]]

Expire(lb, sp, c) == [lb EXCEPT ![sp].sessions[c].fresh = FALSE]
=============================================================================
