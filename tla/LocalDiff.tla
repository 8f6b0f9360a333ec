------------------------------- MODULE LocalDiff -------------------------------
(***************************************************************************)
(* What a local watch job computes (server/jobs/store2localdiff and        *)
(* server/pkg/server/watchstate): the paths a node gets from the contents  *)
(* of the store, and the operations that carry a difference.  The job's    *)
(* three diff stores (services, endpoints with a pod name, endpoints       *)
(* without) have no key in common and are one tree here.  (Definitions     *)
(* that nothing uses are faulty variants that show a property failing.)    *)
(***************************************************************************)
EXTENDS LightDiff, Naturals, Sequences, FiniteSets, Functions

CONSTANTS Svc,          \* service paths: namespace/name
          Named,        \* paths of endpoints with a pod: namespace/name/pod
          Anonymous,    \* paths of the others: namespace/name/hash
          SvcOf,        \* the service an endpoint path belongs to
          HashOf,       \* the hash in an anonymous endpoint's path
          NSources      \* number of endpoint sources (slices) in the store

Endpoint == Named \cup Anonymous

ASSUME PathAssumption ==
    /\ Key = Svc \cup Endpoint
    /\ Svc \cap Endpoint = {} /\ Named \cap Anonymous = {}
    /\ SvcOf \in [Endpoint -> Svc] /\ HashOf \in [Anonymous -> Hash]
    /\ NSources \in Nat \ {0}

\* The paths are finitely many: every set of them can be listed.
ASSUME ListAssumption ==
    \A S \in SUBSET Key :
        Cardinality(S) \in Nat /\ \E s \in [1..Cardinality(S) -> S] : Range(s) = S

(***************************************************************************)
(* The store's contents as the job reads them: services, and the endpoints *)
(* each source has that ForNode selects for the node.  Sources are         *)
(* numbered in the order of the store's tree.                              *)
(***************************************************************************)
Slice == {e \in [Endpoint -> Hash \cup {NoHash}] :
            \A p \in Anonymous : e[p] \in {HashOf[p], NoHash}}

Content == [svcs : [Svc -> Hash \cup {NoHash}], slices : [1..NSources -> Slice]]

EmptyContent == [svcs |-> [p \in Svc |-> NoHash],
                 slices |-> [i \in 1..NSources |-> [p \in Endpoint |-> NoHash]]]

(***************************************************************************)
(* Update sets a path once for every source that has it; endpoints are     *)
(* only visited from their service.  The values a path is set to, and the  *)
(* last of them:                                                           *)
(***************************************************************************)
ValuesSet(c, p) ==
    (IF p \in Svc THEN {c.svcs[p]}
     ELSE IF c.svcs[SvcOf[p]] = NoHash THEN {}
     ELSE {c.slices[i][p] : i \in 1..NSources}) \ {NoHash}

LastSource(c, p) ==
    CHOOSE i \in 1..NSources : /\ c.slices[i][p] # NoHash
                               /\ \A j \in (i + 1)..NSources : c.slices[j][p] = NoHash

LastSet(c, p) == IF ValuesSet(c, p) = {} THEN NoHash
                 ELSE IF p \in Svc THEN c.svcs[p] ELSE c.slices[LastSource(c, p)][p]

\* Setting one value after the other changes a path unless all are the one it had.
Update(tree, c) ==
    [p \in Key |->
        IF ValuesSet(c, p) = {} THEN tree[p]
        ELSE [hash |-> LastSet(c, p),
              state |-> IF ValuesSet(c, p) = {tree[p].hash} THEN SetState(tree[p], tree[p].hash)
                        ELSE "Changed"]]

\* The node's local state: every path with the value it is set to last.
LocalView(c) == [p \in Key |-> LastSet(c, p)]

(***************************************************************************)
(* SendDiff: services come first and go last.  The paths of one kind come  *)
(* in the order of their keys; which order that is makes no difference.    *)
(***************************************************************************)
ResetOp == [op |-> "reset"]
SyncOp == [op |-> "sync"]
SetOp(p, h) == [op |-> "set", path |-> p, hash |-> h]
DeleteOp(p) == [op |-> "delete", path |-> p]

OpItem == {ResetOp, SyncOp} \cup {SetOp(p, h) : p \in Key, h \in Hash}
                            \cup {DeleteOp(p) : p \in Key}

SomeOrder(S) == CHOOSE s \in [1..Cardinality(S) -> S] : Range(s) = S

SendUpdates(tree, S) ==
    LET paths == SomeOrder(S \cap Updated(tree))
    IN  [i \in DOMAIN paths |-> SetOp(paths[i], tree[paths[i]].hash)]

SendDeletes(tree, S) ==
    LET paths == SomeOrder(S \cap Deleted(tree))
    IN  [i \in DOMAIN paths |-> DeleteOp(paths[i])]

SendDiffServicesFirst(tree) ==
    SendUpdates(tree, Svc) \o SendDeletes(tree, Svc)
      \o SendDeletes(tree, Anonymous) \o SendUpdates(tree, Named)
      \o SendDeletes(tree, Named) \o SendUpdates(tree, Anonymous)

SendDiff(tree) ==
    SendUpdates(tree, Svc)
      \o SendDeletes(tree, Anonymous)
      \o SendUpdates(tree, Named) \o SendDeletes(tree, Named)
      \o SendUpdates(tree, Anonymous)
      \o SendDeletes(tree, Svc)
=============================================================================
