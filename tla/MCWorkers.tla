------------------------------- MODULE MCWorkers -------------------------------
(***************************************************************************)
(* Concurrent parts that share nothing and that have something to finish,  *)
(* as one instance: a behaviour is a behaviour of the part chosen at the   *)
(* start, with the others at rest.  The proxy store has one updater, two   *)
(* viewers and Close; the light diff store is under any calls of its API,  *)
(* with two keys that share a prefix.                                      *)
(***************************************************************************)
EXTENDS PortAllocator, UdpProxy, FullStatePipe, LightDiffStore

CONSTANTS u1, v1, v2, p1, h1, s1, Closer, k1, k2, MaxRev

KeyPrefixes == {{k1}, {k1, k2}}

VARIABLES part, tree, sync, rev, shut, changed, writer, readers, mu, waiting, at,
          after, viewed, committed

Store == INSTANCE ProxyStore WITH Updater <- {u1}, Viewer <- {v1, v2}, Path <- {p1},
             Hash <- {h1}, Sets <- {s1}, closed <- shut, pc <- at

parts == {"alloc", "udp", "pipe", "store", "diff"}
storeVars == <<tree, sync, rev, shut, changed, writer, readers, mu, waiting, at,
               after, viewed, committed>>
workersVars == <<part, allocVars, udpVars, pipeVars, storeVars, diffVars>>

AllocPart(A) == part = "alloc" /\ A /\ UNCHANGED <<part, udpVars, pipeVars, storeVars, diffVars>>
UdpPart(A) == part = "udp" /\ A /\ UNCHANGED <<part, allocVars, pipeVars, storeVars, diffVars>>
PipePart(A) == part = "pipe" /\ A /\ UNCHANGED <<part, allocVars, udpVars, storeVars, diffVars>>
StorePart(A) == part = "store" /\ A /\ UNCHANGED <<part, allocVars, udpVars, pipeVars, diffVars>>
DiffPart(A) == part = "diff" /\ A /\ UNCHANGED <<part, allocVars, udpVars, pipeVars, storeVars>>

WorkersInit == /\ part \in parts /\ AllocInit /\ UdpInit /\ PipeInit /\ Store!Init /\ DiffInit
               /\ part # "pipe" => strategy = "Sequence"
WorkersNext == \/ AllocPart(AllocNext) \/ UdpPart(UdpNext) \/ PipePart(PipeNext)
               \/ StorePart(Store!Next) \/ DiffPart(ApiNext)

WorkersSpec ==
    /\ WorkersInit /\ [][WorkersNext]_workersVars
    /\ WF_workersVars(AllocPart(Fill))
    /\ WF_workersVars(UdpPart(ProxyLoop))
    /\ \A n \in Conns : /\ WF_workersVars(UdpPart(~open /\ CopyBreaks(n)))
                        /\ WF_workersVars(UdpPart(Forgets(n)))
                        /\ WF_workersVars(UdpPart(ClosesConn(n)))
    /\ WF_workersVars(PipePart(Dispatch))
    /\ \A k \in Stages : WF_workersVars(PipePart(StageStep(k)))
    /\ Store!Fairness
-----------------------------------------------------------------------------
\* A View returns once there is a revision to see or the store is closed, and an
\* Update that has the write lock gives it back.
CallsReturn == Store!CallsReturn
=============================================================================
