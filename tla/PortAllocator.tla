----------------------------- MODULE PortAllocator -----------------------------
(***************************************************************************)
(* backends/userspacelin/port_allocator.go: rangeAllocator.  A goroutine   *)
(* marks free ports as used and offers them in a channel; AllocateNext     *)
(* takes one from there or gives up after a while; Release clears the      *)
(* mark.  Ports count from 0; the base of the range adds nothing.          *)
(* (Definitions that no action uses are faulty variants.)                  *)
(***************************************************************************)
EXTENDS Naturals, Sequences, Functions

CONSTANTS Size,            \* PortRange.Size
          BufSize,         \* portsBufSize
          Callers,         \* the services that want a port
          NoPort           \* -1

ASSUME AllocAssumption == Size \in Nat \ {0} /\ BufSize \in Nat \ {0} /\ NoPort \notin 0..Size

VARIABLES used, ports,     \* rangeAllocator.used, .ports
          filling,         \* the port fillPortsOnce is about to send
          resting,         \* the filler waits for nextFreePortCooldown
          asking, held     \* callers in AllocateNext, and the port each holds

allocVars == <<used, ports, filling, resting, asking, held>>
Port == 0..(Size - 1)

AllocTypeOK == /\ used \subseteq Port /\ ports \in Seq(Port) /\ Len(ports) <= BufSize
               /\ filling \in Port \cup {NoPort} /\ resting \in BOOLEAN
               /\ asking \subseteq Callers /\ held \in [Callers -> Port \cup {NoPort}]

AllocInit == /\ used = {} /\ ports = <<>> /\ filling = NoPort /\ resting = FALSE
             /\ asking = {} /\ held = [c \in Callers |-> NoPort]

(***************************************************************************)
(* nextFreePort: the port at the random start j, else the next free one    *)
(* after it, else the first free one before it.                            *)
(***************************************************************************)
First(S) == IF S = {} THEN NoPort ELSE CHOOSE p \in S : \A q \in S : p <= q

nextFreePortNoWrap(j) == First({p \in Port \ used : p >= j})

nextFreePort(j) == LET after == {p \in Port \ used : p >= j}
                   IN  First(IF after # {} THEN after ELSE Port \ used)

FillNext(j) == /\ filling = NoPort /\ ~resting
               /\ LET p == nextFreePort(j)
                  IN  /\ filling' = p
                      /\ used' = used \cup ({p} \ {NoPort})
                      /\ resting' = (p = NoPort)
               /\ UNCHANGED <<ports, asking, held>>

FillSend == /\ filling # NoPort /\ Len(ports) < BufSize
            /\ ports' = Append(ports, filling)
            /\ filling' = NoPort
            /\ UNCHANGED <<used, resting, asking, held>>

FillWakes == /\ resting /\ resting' = FALSE
             /\ UNCHANGED <<used, ports, filling, asking, held>>

AllocateNext(c) == /\ c \notin asking /\ held[c] = NoPort
                   /\ asking' = asking \cup {c}
                   /\ UNCHANGED <<used, ports, filling, resting, held>>

Allocated(c) == /\ c \in asking /\ ports # <<>>
                /\ held' = [held EXCEPT ![c] = Head(ports)]
                /\ ports' = Tail(ports) /\ asking' = asking \ {c}
                /\ UNCHANGED <<used, filling, resting>>

TimesOut(c) == /\ c \in asking /\ asking' = asking \ {c}
               /\ UNCHANGED <<used, ports, filling, resting, held>>

ReleaseNone(c) == /\ held[c] # NoPort
                  /\ held' = [held EXCEPT ![c] = NoPort]
                  /\ UNCHANGED <<used, ports, filling, resting, asking>>

Release(c) == /\ held[c] # NoPort
              /\ used' = used \ {held[c]}
              /\ held' = [held EXCEPT ![c] = NoPort]
              /\ UNCHANGED <<ports, filling, resting, asking>>

Fill == FillSend \/ FillWakes \/ \E j \in Port : FillNext(j)

AllocNext == \/ Fill
             \/ \E c \in Callers : \/ AllocateNext(c) \/ Allocated(c)
                                   \/ TimesOut(c) \/ Release(c)

AllocSpec == AllocInit /\ [][AllocNext]_allocVars /\ WF_allocVars(Fill)
-----------------------------------------------------------------------------
(***************************************************************************)
(* A port that is marked as used is in exactly one place, in the channel,  *)
(* on its way there or held by one caller, and only such ports are marked: *)
(* no port is given out twice and none is lost.                            *)
(***************************************************************************)
HeldPorts == {held[c] : c \in Callers} \ {NoPort}

OnePlace == /\ AllocTypeOK
            /\ used = HeldPorts \cup Range(ports) \cup ({filling} \ {NoPort})
            /\ \A c, d \in Callers : held[c] = held[d] /\ held[c] # NoPort => c = d
            /\ IsInjective(ports)
            /\ HeldPorts \cap Range(ports) = {} /\ filling \notin HeldPorts \cup Range(ports)

(***************************************************************************)
(* When a caller asks and a port of the range is not held by anyone, a     *)
(* port is offered sooner or later, also when the filler had found the     *)
(* range used up and a release came only afterwards.                       *)
(***************************************************************************)
PortsOffered == (asking # {} /\ HeldPorts # Port) ~> (ports # <<>> \/ HeldPorts = Port)
=============================================================================
