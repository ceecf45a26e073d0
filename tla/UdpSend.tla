------------------------------- MODULE UdpSend -------------------------------
(***************************************************************************)
(* Datagrams on their way down: hz_sendto puts payloads on the send_buffer *)
(* of a socket, the packet lcore sweeps over the list of sockets           *)
(* (hz_process_out_udp), turns payloads into frames on ring->out, and the  *)
(* main lcore hands those to the NIC.                                      *)
(*                                                                         *)
(* The list of sockets does not change here, and socket 1 is its head: see *)
(* SocketTable.  The addresses that have a MAC in the ARP table change as  *)
(* AddressTable says, which ArpTable implements.  The rings are rte_rings; *)
(* one enqueue or dequeue is one step, which for ring->out is more than    *)
(* the code ensures.  Frames other than those of the sockets are Noise:    *)
(* ARP frames of the sweep, ARP and ICMP answers, and the requests of the  *)
(* timer.                                                                  *)
(***************************************************************************)
EXTENDS Naturals, Sequences, FiniteSets, Places

CONSTANTS NumSockets,   \* sockets in the list, the youngest first
          Datagrams,    \* what applications send
          Socket,       \* the socket each datagram is sent on
          Addresses,    \* IPv4 addresses
          Dst,          \* the one each datagram is for
          Resolved,     \* the addresses in the ARP table at first
          Capacity,     \* slots of a send_buffer (RING_SIZE - 1)
          OutCapacity,  \* slots of ring->out (RING_SIZE - 1)
          Burst,        \* BURST_SIZE
          Noise,        \* any frame that carries no datagram
          NULL

Sockets == 1 .. NumSockets

ASSUME SocketsAssumption == NumSockets \in Nat \ {0}
ASSUME DatagramsAssumption ==
  /\ Socket \in [Datagrams -> Sockets]
  /\ Dst \in [Datagrams -> Addresses]
  /\ Resolved \subseteq Addresses
  /\ NULL \notin Datagrams
  /\ Noise \notin Datagrams
ASSUME CapacityAssumption ==
  /\ Capacity \in Nat \ {0}
  /\ OutCapacity \in Nat \ {0}
  /\ Burst \in Nat \ {0}

VARIABLES called,       \* datagrams given to hz_sendto, in order
          send_buffer,  \* payloads of each socket, next one out first
          info,         \* the socket the sweep is at, 0 between two sweeps
          udp_payload,  \* the payload the sweep has dequeued
          mapped,       \* addresses with a MAC in the ARP table
          emptied,      \* has a RARP reply emptied the table
          out,          \* ring->out
          wire,         \* datagrams handed to the NIC, in order
          lost          \* datagrams that met a full ring, or that the NIC did not take

tableVars == <<mapped, emptied>>
vars == <<called, send_buffer, info, udp_payload, tableVars, out, wire, lost>>

Init ==
  /\ called = <<>>
  /\ send_buffer = [s \in Sockets |-> <<>>]
  /\ info = 0
  /\ udp_payload = NULL
  /\ mapped = Resolved
  /\ emptied = FALSE
  /\ out = <<>>
  /\ wire = <<>>
  /\ lost = {}

\* rte_ring_mp_enqueue on a send_buffer; both callers ignore its result.
Enqueue(s, d) ==
  \/ /\ Len(send_buffer[s]) < Capacity
     /\ send_buffer' = [send_buffer EXCEPT ![s] = Append(@, d)]
     /\ lost' = lost
  \/ /\ Len(send_buffer[s]) = Capacity
     /\ send_buffer' = send_buffer
     /\ lost' = lost \cup {d}

\* A burst of one frame on ring->out; a full ring drops it without a word.
PutOut(frame) ==
  \/ /\ Len(out) < OutCapacity
     /\ out' = Append(out, frame)
  \/ /\ Len(out) = OutCapacity
     /\ out' = out

Elements(seq) == {seq[i] : i \in 1 .. Len(seq)}

-----------------------------------------------------------------------------
\* hz_sendto
SendTo(d) ==
  /\ \A i \in 1 .. Len(called) : called[i] # d
  /\ called' = Append(called, d)
  /\ Enqueue(Socket[d], d)
  /\ UNCHANGED <<info, udp_payload, tableVars, out, wire>>

-----------------------------------------------------------------------------
(***************************************************************************)
(* The packet lcore.                                                       *)
(***************************************************************************)
Table == INSTANCE AddressTable

\* Between two sweeps it deals with a burst of frames, which may teach it an
\* address, or put an answer on ring->out.
Learn ==
  /\ info = 0
  /\ Table!Learn
  /\ UNCHANGED <<called, send_buffer, info, udp_payload, out, wire, lost>>

\* A RARP reply for an address that is not in the table empties it.
Forget ==
  /\ info = 0
  /\ Table!Forget
  /\ UNCHANGED <<called, send_buffer, info, udp_payload, out, wire, lost>>

\* As Sweep, but it starts behind the head of the list.
SweepPastHead ==
  /\ info = 0
  /\ info' = IF NumSockets > 1 THEN 2 ELSE 0
  /\ UNCHANGED <<called, send_buffer, udp_payload, tableVars, out, wire, lost>>

Sweep ==
  /\ info = 0
  /\ info' = 1
  /\ UNCHANGED <<called, send_buffer, udp_payload, tableVars, out, wire, lost>>

\* As NextSocket, but the sweep goes one past the end of the list.
NextSocketPastEnd == IF info <= NumSockets THEN info + 1 ELSE 0

NextSocket == IF info < NumSockets THEN info + 1 ELSE 0

\* As Dequeue, but takes the youngest payload.
DequeueLast ==
  /\ info # 0
  /\ udp_payload = NULL
  /\ LET buffer == send_buffer[info]
         n == Len(buffer)
     IN  \/ /\ buffer # <<>>
            /\ udp_payload' = buffer[n]
            /\ send_buffer' = [send_buffer EXCEPT ![info] = SubSeq(@, 1, n - 1)]
            /\ info' = info
         \/ /\ buffer = <<>>
            /\ info' = 0
            /\ UNCHANGED <<udp_payload, send_buffer>>
  /\ UNCHANGED <<called, tableVars, out, wire, lost>>

\* The sweep ends at the first socket that has nothing to send.
Dequeue ==
  /\ info # 0
  /\ udp_payload = NULL
  /\ \/ /\ send_buffer[info] # <<>>
        /\ udp_payload' = Head(send_buffer[info])
        /\ send_buffer' = [send_buffer EXCEPT ![info] = Tail(@)]
        /\ info' = info
     \/ /\ send_buffer[info] = <<>>
        /\ info' = 0
        /\ UNCHANGED <<udp_payload, send_buffer>>
  /\ UNCHANGED <<called, tableVars, out, wire, lost>>

\* As SendFrame, but the payload is put back as well.
SendFrameKeep ==
  /\ udp_payload \in Datagrams
  /\ Dst[udp_payload] \in mapped
  /\ PutOut(udp_payload)
  /\ Enqueue(info, udp_payload)
  /\ udp_payload' = NULL
  /\ info' = NextSocket
  /\ UNCHANGED <<called, tableVars, wire>>

\* The destination has a MAC: the datagram goes to ring->out.
SendFrame ==
  /\ udp_payload \in Datagrams
  /\ Dst[udp_payload] \in mapped
  /\ PutOut(udp_payload)
  /\ lost' = IF out' = out THEN lost \cup {udp_payload} ELSE lost
  /\ udp_payload' = NULL
  /\ info' = NextSocket
  /\ UNCHANGED <<called, send_buffer, tableVars, wire>>

\* It has none: an ARP frame goes to ring->out, the payload to the back of
\* its send_buffer.
PutBack ==
  /\ udp_payload \in Datagrams
  /\ Dst[udp_payload] \notin mapped
  /\ PutOut(Noise)
  /\ Enqueue(info, udp_payload)
  /\ udp_payload' = NULL
  /\ info' = NextSocket
  /\ UNCHANGED <<called, tableVars, wire>>

Process == Sweep \/ Dequeue \/ SendFrame \/ PutBack

-----------------------------------------------------------------------------
(***************************************************************************)
(* Other frames, and the main lcore.                                       *)
(***************************************************************************)
\* Among a burst the packet lcore finds an ICMP packet, which it always
\* answers, or an ARP request for this machine.
Answer ==
  /\ info = 0
  /\ PutOut(Noise)
  /\ UNCHANGED <<called, send_buffer, info, udp_payload, tableVars, wire, lost>>

\* The timer asks for an address.
TimerRequest ==
  /\ PutOut(Noise)
  /\ UNCHANGED <<called, send_buffer, info, udp_payload, tableVars, wire, lost>>

\* The main lcore takes a burst off ring->out and offers it to the NIC, which
\* takes the first k of it.  The result of rte_eth_tx_burst is ignored and the
\* whole burst freed, so the rest is lost.
Transmit ==
  LET n == IF Len(out) < Burst THEN Len(out) ELSE Burst
  IN  /\ out # <<>>
      /\ \E k \in 0 .. n :
           /\ wire' = wire \o Only(SubSeq(out, 1, k), Datagrams)
           /\ lost' = lost \cup (Elements(SubSeq(out, k + 1, n)) \cap Datagrams)
      /\ out' = SubSeq(out, n + 1, Len(out))
      /\ UNCHANGED <<called, send_buffer, info, udp_payload, tableVars>>

-----------------------------------------------------------------------------
Next ==
  \/ \E d \in Datagrams : SendTo(d)
  \/ Learn
  \/ Forget
  \/ Process
  \/ Answer
  \/ TimerRequest
  \/ Transmit

\* The packet lcore sweeps and the main lcore transmits for ever.
Fairness == WF_vars(Process) /\ WF_vars(Transmit)

SafeSpec == Init /\ [][Next]_vars
Spec == SafeSpec /\ Fairness

-----------------------------------------------------------------------------
(***************************************************************************)
(* Properties.                                                             *)
(***************************************************************************)
\* Types of the variables; no ring is fuller than its slots.
TypeOK ==
  /\ called \in Seq(Datagrams)
  /\ send_buffer \in [Sockets -> Seq(Datagrams)]
  /\ \A s \in Sockets : Len(send_buffer[s]) <= Capacity
  /\ info \in 0 .. NumSockets
  /\ udp_payload \in Datagrams \cup {NULL}
  /\ udp_payload # NULL => info # 0
  /\ mapped \subseteq Addresses
  /\ emptied \in BOOLEAN
  /\ out \in Seq(Datagrams \cup {Noise})
  /\ Len(out) <= OutCapacity
  /\ wire \in Seq(Datagrams)
  /\ lost \subseteq Datagrams

\* A datagram that hz_sendto accepted is at exactly one place: its socket's
\* send_buffer, in the sweep, on ring->out, with the NIC, or lost to a full ring
\* or to a NIC that did not take it.  It is neither sent twice nor sent for
\* another socket.
OnePlace ==
  \A d \in Datagrams :
    Count(send_buffer[Socket[d]], d)
      + (IF udp_payload = d THEN 1 ELSE 0)
      + Count(out, d) + Count(wire, d)
      + (IF d \in lost THEN 1 ELSE 0)
    = Count(called, d)

\* Everything on the way that datagrams of socket s take, in the order in which
\* it will come out.
UnderWay(s) ==
  LET inHand == IF udp_payload = NULL THEN <<>> ELSE <<udp_payload>>
  IN  wire \o out \o inHand \o send_buffer[s]

\* Datagrams of socket s for destinations resolved beforehand, but for those lost.
ResolvedOf(s) == {d \in Datagrams \ lost : Socket[d] = s /\ Dst[d] \in Resolved}

\* As long as no RARP reply empties the ARP table, the datagrams of a socket
\* for destinations resolved beforehand leave in the order of their hz_sendto,
\* though unresolved ones between them go round and round in the same ring.
ResolvedInOrder ==
  ~emptied => \A s \in Sockets :
    Only(UnderWay(s), ResolvedOf(s)) = Only(called, ResolvedOf(s))

\* d has been offered to the NIC or has met a full ring, or else a RARP reply has
\* made its destination unknown.
Settled(d) == d \in Elements(wire) \cup lost \/ emptied

\* The youngest socket is served: as long as no RARP reply empties the ARP
\* table, its datagrams for destinations resolved beforehand are offered to the
\* NIC, which may take them or not, or meet a full ring, whatever the others send.
YoungestServed ==
  \A d \in Datagrams :
    Socket[d] = 1 /\ Dst[d] \in Resolved
      => (d \in Elements(called) ~> Settled(d))

\* What hz_sendto accepts for a resolved destination is sent to the client.
AllServed ==
  \A d \in Datagrams :
    Dst[d] \in Resolved => (d \in Elements(called) ~> Settled(d))
=============================================================================
