-------------------------------- MODULE UdpProxy --------------------------------
(***************************************************************************)
(* backends/userspacelin/proxysocket.go: udpProxySocket.  ProxyLoop looks  *)
(* a client up in the cache of connections to backends, or opens one and   *)
(* starts a goroutine (proxyClient) that copies the answers back and, when *)
(* it times out or fails, takes the client out of the cache and closes the *)
(* connection.  Each connection ever opened has a number.  (Definitions    *)
(* that no action uses are faulty variants.)                               *)
(***************************************************************************)
EXTENDS Naturals, FiniteSets

CONSTANTS UdpClients, MaxConns,     \* bound: connections opened
          Nobody

VARIABLES open,                     \* the listening socket is open
          loop,                     \* ProxyLoop: "read", "lookup", "write" or "end"
          packet, conn,             \* the client being served, and its connection
          cache,                    \* ActiveClients.Clients
          opened,                   \* number of connections opened
          owner, gor                \* their client, and the state of their proxyClient

udpVars == <<open, loop, packet, conn, cache, opened, owner, gor>>
Conns == 1..MaxConns

UdpInit == /\ open = TRUE /\ loop = "read" /\ packet = Nobody /\ conn = 0
           /\ cache = [c \in UdpClients |-> 0] /\ opened = 0
           /\ owner = [n \in Conns |-> Nobody] /\ gor = [n \in Conns |-> "none"]

ReadsPacket(c) == /\ open /\ loop = "read" /\ loop' = "lookup" /\ packet' = c
                  /\ UNCHANGED <<open, conn, cache, opened, owner, gor>>

(***************************************************************************)
(* getBackendConn, under the lock of the cache.                            *)
(***************************************************************************)
Cached == /\ loop = "lookup" /\ cache[packet] # 0
          /\ loop' = "write" /\ conn' = cache[packet]
          /\ UNCHANGED <<open, packet, cache, opened, owner, gor>>

Connects == /\ loop = "lookup" /\ cache[packet] = 0 /\ opened < MaxConns
            /\ LET n == opened + 1
               IN  /\ opened' = n /\ cache' = [cache EXCEPT ![packet] = n]
                   /\ owner' = [owner EXCEPT ![n] = packet]
                   /\ gor' = [gor EXCEPT ![n] = "copy"]
                   /\ loop' = "write" /\ conn' = n
            /\ UNCHANGED <<open, packet>>

\* No endpoint can be reached: the packet is dropped.
ConnectFails == /\ loop = "lookup" /\ cache[packet] = 0
                /\ loop' = "read" /\ packet' = Nobody
                /\ UNCHANGED <<open, conn, cache, opened, owner, gor>>

\* The write may go to a connection that was closed meanwhile; the packet is lost then.
Writes == /\ loop = "write" /\ loop' = "read" /\ packet' = Nobody /\ conn' = 0
          /\ UNCHANGED <<open, cache, opened, owner, gor>>

\* stopProxy closes the socket: the loop's next read fails.
SocketCloses == open /\ open' = FALSE /\ UNCHANGED <<loop, packet, conn, cache, opened, owner, gor>>

LoopEnds == /\ ~open /\ loop = "read" /\ loop' = "end"
            /\ UNCHANGED <<open, packet, conn, cache, opened, owner, gor>>

(***************************************************************************)
(* proxyClient of connection n.  Its read times out when the client or the *)
(* backend is silent; writing the answer fails once the socket is closed.  *)
(***************************************************************************)
CopyBreaks(n) == /\ gor[n] = "copy" /\ gor' = [gor EXCEPT ![n] = "forget"]
                 /\ UNCHANGED <<open, loop, packet, conn, cache, opened, owner>>

ForgetsNone(n) == /\ gor[n] = "forget" /\ gor' = [gor EXCEPT ![n] = "close"]
                  /\ UNCHANGED <<open, loop, packet, conn, cache, opened, owner>>

Forgets(n) == /\ gor[n] = "forget" /\ gor' = [gor EXCEPT ![n] = "close"]
              /\ cache' = [cache EXCEPT ![owner[n]] = 0]
              /\ UNCHANGED <<open, loop, packet, conn, opened, owner>>

ClosesConn(n) == /\ gor[n] = "close" /\ gor' = [gor EXCEPT ![n] = "closed"]
                 /\ UNCHANGED <<open, loop, packet, conn, cache, opened, owner>>

ProxyClient(n) == CopyBreaks(n) \/ Forgets(n) \/ ClosesConn(n)
ProxyLoop == Cached \/ Connects \/ ConnectFails \/ Writes \/ LoopEnds

UdpNext == \/ ProxyLoop \/ SocketCloses \/ \E c \in UdpClients : ReadsPacket(c)
           \/ \E n \in Conns : ProxyClient(n)

UdpSpec == /\ UdpInit /\ [][UdpNext]_udpVars
           /\ WF_udpVars(ProxyLoop)
           /\ \A n \in Conns : /\ WF_udpVars(~open /\ CopyBreaks(n))
                              /\ WF_udpVars(Forgets(n)) /\ WF_udpVars(ClosesConn(n))
-----------------------------------------------------------------------------
(***************************************************************************)
(* A client has at most one connection that is still copying answers, and  *)
(* the one in the cache is it, or one that is about to be forgotten: when  *)
(* proxyClient deletes the client's entry it deletes its own connection    *)
(* and never the one a later packet opened.                                *)
(***************************************************************************)
OwnEntry == /\ \A c \in UdpClients : cache[c] # 0 => /\ owner[cache[c]] = c
                                                     /\ gor[cache[c]] \in {"copy", "forget"}
            /\ \A n \in Conns : gor[n] \in {"copy", "forget"} => cache[owner[n]] = n

(***************************************************************************)
(* Once the socket is closed every connection is closed and the cache gets *)
(* empty: reads have a deadline, so no proxyClient stays behind.           *)
(***************************************************************************)
Drained == /\ \A n \in Conns : gor[n] \in {"none", "closed"}
           /\ \A c \in UdpClients : cache[c] = 0
StopDrains == ~open ~> (loop = "end" /\ Drained)
=============================================================================
