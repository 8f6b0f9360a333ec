# A TLA+ model of kpng

kpng takes services, endpoint slices and nodes from Kubernetes (or a file, or
another kpng), keeps them in a revisioned store, computes for each node what
that node has to know, and streams the differences to backends that program
nftables, iptables, ipvs, eBPF or Windows networking. This directory holds TLA+
modules for the path from the store to a backend, the TLC runs that check them
on small instances, and TLAPS proofs of the properties that carry the rest.

`PROJECT.json` lists components, runs, mutants, the line ranges each definition
models, findings, hazards and theorems. To repeat a run or a proof:

    tlc -workers 2 -config LocalWatch_safety.cfg MCLocalWatch
    tlapm ProxyStoreProofs.tla

## 1. The system

| part | source | state | operations |
|---|---|---|---|
| proxy store | `server/proxystore` | ordered tree, synced sets, revision, closed flag; an RWMutex and a condition variable | Update with a transaction, View after a revision, Close |
| kube2store | `server/jobs/kube2store` | three informers | an Update per added, changed or deleted service, node, slice |
| file2store, api2store | `server/jobs/file2store`, `api2store` | last file time and diff stores; a batch of operations | one Update per file version, per change set |
| watch jobs | `server/jobs/store2diff`, `store2localdiff`, `store2globaldiff`, `server/pkg/server/...` | per connection: last revision, diff stores | wait for a request, View, send the diff, send Sync |
| light diff store | `client/lightdiffstore` | tree of hash and state per key | Set, Delete, DeleteByPrefix, Reset, Updated, Deleted |
| watch client | `server/jobs/api2local`, `client/client.go` | the connection | dial, request, receive up to Sync, dial again |
| sinks | `client/localsink` (filterreset, decoder, fullstate, fullstatepipe), `client/serviceevents`, `client/plugins/conntrack` | what was sent on; the full state | Reset, Set, Delete, Sync |
| backends | `backends/*` | rules in the kernel and caches of them | a callback per change set, or an event per change |

The parts meet in three places. Writers and watch jobs share the store: this is
the only shared memory, and it has two locks. A job and a client share a stream
of operations (Reset, Set, Delete, Sync) that can break anywhere, after which
both sides start from nothing except for what the client's filter remembers. A
sink and a backend share the operations of a change set, whose order matters.

What is hard here: a viewer that must not sleep through a revision; a
transaction that must appear at once; a diff that is right whatever was set,
marked and set again; a connection lost in the middle of a diff; a server that
comes back empty; services and endpoints that travel separately but must never
be seen apart. `PROJECT.json` lists the hazards line by line.

## 2. Modules

| module | models | notes |
|---|---|---|
| `Copies` | | keyed collections: a hash per key, `NoHash` for absent |
| `LightDiff` | `client/lightdiffstore` | the diff store as operators on its tree |
| `LightDiffStore` | same | the store with its owner and a reader |
| `SnapshotFeed` | | abstract: each round hands over the contents of the round |
| `ProxyStore` | `server/proxystore` | both locks, condition variable, one action per statement another goroutine can tell apart |
| `RevStore` | | abstract: atomic commits, views that only move forwards |
| `EndpointIndex` | `SetEndpointsOfSource`, `DelEndpointsOfSource`, slice handler | endpoints entered twice in the ordered tree |
| `FilterReset` | `client/localsink/filterreset` | the purge at Sync deletes one path per step |
| `LocalDiff` | `store2localdiff`, `watchstate` | from store contents to operations |
| `LocalWatch` | store, `store2diff`, server, stream, `api2local`, filter | the composition: `LocalDiff` and `FilterReset` |
| `MC*` | | constants for TLC |
| `*Proofs` | | theorems |

How the state corresponds to the code:

- A value is its hash. The code decides everything by comparing hashes, and no
  property here looks inside a value.
- `ProxyStore` has a program counter per goroutine. `writer` and `readers` are
  the RWMutex, `mu` is `c.L`, `waiting` the goroutines in `c.Wait()`. A callback
  is any sequence of `TxSet`, `TxDel`, `TxReset`, `TxSetSync`; `SetService`,
  `SetNode` and the rest are these on keys of their own. `changed` is
  `tx.changes # 0`. `committed` is a history variable: the contents at the last
  revision.
- `LocalWatch` takes the store as `RevStore` has it, which `ProxyStore` is shown
  to implement. A job writes only to its own stream, so a diff is appended in
  one step and a break cuts off any number of the last operations. The job of a
  broken connection is dropped, since nobody can see it any more.
- The job's three diff stores have disjoint keys and are one tree in
  `LocalDiff`. `ForNode` is represented by the endpoints it selects: contents
  vary over all selections, so a change of a node or a hint is a change of
  contents.
- `EndpointIndex` keeps the order of the tree, because the code finds the
  entries of a source by scanning from a key to the first entry of another one.

Definitions that no action uses (`SetStateKeepsMark`, `UpdateLockUnguarded`,
...) are faulty variants of the definition after them. Putting one in the place
of the original must make TLC report the property named in `PROJECT.json`.

## 3. Runs

| run | checks | instance |
|---|---|---|
| `lightdiff_rebuild` | `RebuildInv`; implements `SnapshotFeed` | 3 keys, 2 hashes |
| `lightdiff_api` | `DropsReported`, `ReportsLive` under every call | 3 keys, 2 hashes, prefixes |
| `store_safety` | `StoreInv`, `NoSilentChange`, `NoLostWakeup`; implements `RevStore` | 2 updaters, 2 viewers, Close, 2 revisions, symmetry |
| `store_live` | `ViewsReturn`, `UpdatesFinish` | 1 updater, 2 viewers, Close, 2 revisions |
| `filterreset` | `SinkInv`, `ExactAtSync`, `PurgeSparesSent` | 3 paths, 2 hashes, any stream |
| `watch_safety` | `SyncedToRevision`, `NoOrphans`, `OnlyTowardsGoal` | 2 services, 2 endpoints, 2 hashes, 2 revisions, 1 break |
| `watch_restart` | `OnlyTowardsGoal`, `Converges` | 2 services, 1 endpoint, 2 revisions per server, 1 break, 1 restart |
| `index_replace` | `ReplacesAll`, `EntriesPaired` | 2 services, 3 sources, 2 addresses |
| `watch_orphans`, `watch_initial`, `watch_sources`, `index_hints` | one statement of the repository each, violated | see section 5 |

Why the bounds are enough to meet the interesting cases. Keys never influence
each other in a diff store; three of them and two hashes give every state of an
item next to every other. Two updaters compete for the write lock, two viewers
for the wake-up, and with two revisions a viewer can be overtaken between its
wait and its read. In the watch runs one revision is sent, a second one removes
or changes things, and the break falls anywhere in either diff; two services
are needed so that one can vanish while a non-empty diff still brings a Sync.
`MaxRev`, `MaxBreaks` and `MaxRestarts` are the only bounds in guards. The
watch runs do not check for deadlock: when changes stop, a job waiting for a
revision and a client waiting for an operation is how the system rests. Every
other run checks it.

Fairness. In `ProxyStore` a goroutine inside Update, View or Close keeps
running, and callbacks return. Acquiring a lock is strongly fair because Go's
mutexes hand over to a waiter that has waited too long, and the RWMutex stops
new readers behind a waiting writer and lets the readers in after it. Nobody is
required to call anything. In `LocalWatch` the loops of the job and the client
are weakly fair; commits, breaks and restarts are not, and are finite by their
bounds, so `Converges` says what happens once they stop.

## 4. Proofs

TLAPS proves these for every set of keys, hashes, updaters and viewers:

- `LightDiffStoreProofs`. `RebuildInvariant`: `RebuildInv` is inductive as it
  stands; it says what each item state means for the reader's copy and the
  owner's contents (absent or unchanged items match the copy, a marked item is
  the copy's old value). `RebuildImplementsFeed` follows: a Reset maps to the
  hand-over of the abstract feed, a Set to a change of the round.
  `TypeCorrect`, `DropsAlwaysReported` and `LiveAlwaysReported` are about every
  call the package offers, from the weaker `ApiInv`.
- `ProxyStoreProofs`. `StoreInvariant` proves `StoreInv`: program counters
  determine who holds which lock (`Locks`), where contents and last revision
  agree (`Committed`), and what a viewer knows at each place (`Viewing`).
  Without `Locks` atomicity does not survive a step, without `Viewing` a viewer
  might return the revision it had. `WakeupsNotLost`, `ChangesHaveRevisions`
  and the refinement `StoreIsAtomic` follow from it.
- `FilterResetProofs`. `SinkInvariant` proves `SinkInv`, which ties memory and
  seen paths to the backend and to what was sent, also in the middle of a
  purge. `SyncIsExact` and `PurgeIsSafe` follow.

Assumptions: `NoHash` is not a hash, goroutines of different kinds are
different, and `MaxRev` is a natural number. Each is evaluated by TLC too. The
bound `MaxRev` stays in the proved specification and may be any natural number.

Only model-checked: liveness (`ViewsReturn`, `UpdatesFinish`, `Converges`),
since the prover has no rules for fairness; `LocalWatch` and `EndpointIndex`.

## 5. Where code and text disagree

- The purge of `filterreset` may delete a service before its endpoints
  (`watch_orphans`), while `store2localdiff.go:162` says services go last "so
  that no endpoints are orphaned prematurely". `NoOrphans` holds outside the
  purge.
- A node that connects to a synced store without anything for it gets Reset and
  never Sync (`watch_initial`), while `api.proto` says Sync tells "when the
  initial state is complete". A client that had something keeps it. `Converges`
  holds except for exactly this case.
- Endpoints of one pod in two slices of a service share a path and only the
  last is sent (`watch_sources`).
- A change of an endpoint's hints or pod name alone is not stored
  (`index_hints`).

Two more were met and have no run. A slice that changes its service label
leaves entries under the old service; the runs keep labels fixed. In the light
diff store, Set, Delete and Set of the old value between two Resets can lose an
update; no caller mixes these calls.

## 6. Abstractions and what is left out

Errors from a sink behind `filterreset` (none in the repository returns one for
a well-formed operation), cancellation and shutdown of the client, TLS, metrics,
traces and logs. A closed store ends a job; `LocalWatch` has a restart instead.
The conversion of Kubernetes objects is field copying. Hash collisions are not
modelled. Rule text, kernel calls and generated code are outside of what a
model checker says something about. `PROJECT.json` gives the status and reason
for every component.

## 7. Plan

In this order:

1. `NodeView`: `ForNode` as an operator, so that `LocalDiff` reads nodes, hints
   and traffic policies.
2. `GlobalWatch`: `store2globaldiff`, stream and `api2store`, a second store
   that implements `RevStore` of the first at each Sync.
3. `KubeSync` and `FileSource`: when a set may be declared synced; a file that
   changes while it is read.
4. `FullState` with the path order, `FullStatePipe` with its channels,
   `ServiceEvents`, and `Conntrack` behind `FilterReset`.
5. `DiffStore` (`client/diffstore`), a second implementation of `SnapshotFeed`.
6. Backends: nft apply and removal, the caches of iptables, ipvs destinations
   and ipset entries, the eBPF maps, the userspace load balancer and port
   allocator, the Windows reference counts; the bounded frequency runner.
7. Proofs: `SyncedToRevision` and `NoOrphans` of `LocalWatch` from an invariant
   about the stream and the diff stores, with `SinkInv` and `RebuildInv` as its
   parts; `EntriesPaired`; the refinements of steps 2 and 5.
