---------------------------- MODULE MCEndpointIndex ----------------------------
\* Two services, two or three sources, two addresses.
EXTENDS EndpointIndex

CONSTANTS r1, r2

\* A slice for each service.
FixedLabels == [s \in Source |-> {s}]

\* A third slice, the last in the order, may change its service.
FreeLabels == [s \in Source |-> IF s \in Service THEN {s} ELSE Service]
=============================================================================
