------------------------------ MODULE EchoServer ------------------------------
(***************************************************************************)
(* What clients get echoed.  One of the two echo servers                   *)
(* (udp_server_enter) reads a datagram into buffer, puts a prefix before   *)
(* it and sends it back; the packet lcore answers pings.                   *)
(*                                                                         *)
(* The socket is the queue of UdpReceive with one reader; what hz_sendto   *)
(* does with an echo is in UdpSend.  buffer is a C string to strcat and    *)
(* strlen but not to hz_receive_from, which stores the bytes it has got    *)
(* and no terminator: so the text of an echo is the string in buffer, and  *)
(* buffer keeps what earlier datagrams left in it.  The prefix is the same *)
(* for all echoes and only counted.  A server whose hz_sendto fails closes *)
(* its socket and stops.  What comes after the process has read behind     *)
(* buffer, or has freed the data of a cut payload (UdpReceive), is left    *)
(* open: the properties are about what has happened until then.            *)
(***************************************************************************)
EXTENDS Frames, Sequences

CONSTANTS Clients,
          Texts,        \* what they send, sequences of bytes
          Bytes,        \* the bytes that occur, 0 among them
          BUFFER_SIZE,
          Capacity,     \* slots of receive_buffer (RING_SIZE - 1)
          Idents,       \* identifiers and sequence numbers of pings
          MaxSent,      \* bound on the frames sent
          MaxPings,     \* and on the pings among them
          NULL

ASSUME ClientsAssumption == NULL \notin Clients
ASSUME BytesAssumption == 0 \in Bytes /\ Texts \subseteq Seq(Bytes)
ASSUME IdentsAssumption == Idents \subseteq Word
ASSUME SizeAssumption ==
  /\ BUFFER_SIZE \in Nat \ {0}
  /\ Capacity \in Nat \ {0}
  /\ MaxSent \in Nat
  /\ MaxPings \in Nat

VARIABLES sent,            \* number of frames sent
          pings,           \* the pings among them, and the answers to them
          receive_buffer,  \* payloads: source and data, next one out first
          pc,              \* where the server is in its loop
          buffer,          \* its array
          client_addr,     \* whom the last read came from
          rest,            \* what the last read left, to be queued again
          reads,           \* the parts read so far
          echoes,          \* the echoes given to hz_sendto
          process          \* "running", or "undefined" once C says nothing

serverVars == <<pc, buffer, client_addr, rest, reads, echoes>>
vars == <<sent, pings, receive_buffer, serverVars, process>>

\* The array of the server is not initialised.
Init ==
  /\ sent = 0
  /\ pings = <<>>
  /\ receive_buffer = <<>>
  /\ pc = "receive"
  /\ buffer \in [1 .. BUFFER_SIZE -> Bytes]
  /\ client_addr = NULL
  /\ rest = <<>>
  /\ reads = <<>>
  /\ echoes = <<>>
  /\ process = "running"

Payload(c, data) == [src |-> c, data |-> data]

\* rte_ring_mp_enqueue; its callers ignore that the ring may be full.
Enqueue(p) ==
  receive_buffer' = IF Len(receive_buffer) < Capacity
                      THEN Append(receive_buffer, p) ELSE receive_buffer

-----------------------------------------------------------------------------
\* A client sends, and hz_process_udp queues what it sends; it may still find
\* the socket after its hz_close (SocketTable).
Send(c, text) ==
  /\ sent < MaxSent
  /\ sent' = sent + 1
  /\ \/ Enqueue(Payload(c, text))
     \/ pc = "stopped" /\ UNCHANGED receive_buffer
  /\ UNCHANGED <<pings, serverVars>>

\* hz_process_icmp answers every ICMP packet, whatever its type.
Ping(c, ident, seq_nb) ==
  /\ sent < MaxSent
  /\ sent' = sent + 1
  /\ Len(pings) < MaxPings
  /\ pings' = Append(pings, [src |-> c, ident |-> ident, seq_nb |-> seq_nb,
                             answer |-> HzBuildIcmpRequest(ident, seq_nb), dst |-> c])
  /\ UNCHANGED <<receive_buffer, serverVars>>

\* As Receive, but the address of the client stays that of the first read.
ReceiveKeepAddress ==
  LET p == Head(receive_buffer)
      n == IF Len(p.data) < BUFFER_SIZE THEN Len(p.data) ELSE BUFFER_SIZE
  IN  /\ pc = "receive"
      /\ receive_buffer # <<>>
      /\ receive_buffer' = Tail(receive_buffer)
      /\ client_addr' = IF client_addr = NULL THEN p.src ELSE client_addr
      /\ buffer' = [i \in 1 .. BUFFER_SIZE |-> IF i <= n THEN p.data[i] ELSE buffer[i]]
      /\ reads' = Append(reads, Payload(p.src, SubSeq(p.data, 1, n)))
      /\ rest' = SubSeq(p.data, n + 1, Len(p.data))
      /\ pc' = IF rest' = <<>> THEN "echo" ELSE "requeue"
      /\ UNCHANGED <<sent, pings, echoes>>

\* hz_receive_from takes the next payload and copies what fits.
Receive ==
  LET p == Head(receive_buffer)
      n == IF Len(p.data) < BUFFER_SIZE THEN Len(p.data) ELSE BUFFER_SIZE
  IN  /\ pc = "receive"
      /\ receive_buffer # <<>>
      /\ receive_buffer' = Tail(receive_buffer)
      /\ client_addr' = p.src
      /\ buffer' = [i \in 1 .. BUFFER_SIZE |-> IF i <= n THEN p.data[i] ELSE buffer[i]]
      /\ reads' = Append(reads, Payload(p.src, SubSeq(p.data, 1, n)))
      /\ rest' = SubSeq(p.data, n + 1, Len(p.data))
      /\ pc' = IF rest' = <<>> THEN "echo" ELSE "requeue"
      /\ UNCHANGED <<sent, pings, echoes>>

Requeue ==
  /\ pc = "requeue"
  /\ Enqueue(Payload(client_addr, rest))
  /\ rest' = <<>>
  /\ pc' = "echo"
  /\ UNCHANGED <<sent, pings, buffer, client_addr, reads, echoes>>

\* The string at the beginning of an array that holds a 0.
Ends(array) == {i \in DOMAIN array : array[i] = 0}

\* As StringIn, but the 0 counts.
StringInWithEnd(array) ==
  LET end == CHOOSE i \in Ends(array) : \A j \in Ends(array) : i <= j
  IN  [i \in 1 .. end |-> array[i]]

StringIn(array) ==
  LET end == CHOOSE i \in Ends(array) : \A j \in Ends(array) : i <= j
  IN  [i \in 1 .. end - 1 |-> array[i]]

\* The length of "Echo: ".
PREFIX == 6

\* strcpy, strcat, strlen and hz_sendto; the packet lcore builds the frame.
Echo ==
  /\ pc = "echo"
  /\ Ends(buffer) # {}
  /\ LET text == StringIn(buffer)
     IN  echoes' = Append(echoes,
           [to |-> client_addr, text |-> text,
            frame |-> HzSendUdp(HzSendtoLength(PREFIX + Len(text)))])
  /\ pc' = "receive"
  /\ UNCHANGED <<sent, pings, receive_buffer, buffer, client_addr, rest, reads>>

\* hz_sendto finds no memory or no socket: hz_close, and the server returns.
SendtoFails ==
  /\ pc = "echo"
  /\ Ends(buffer) # {}
  /\ pc' = "stopped"
  /\ UNCHANGED <<sent, pings, receive_buffer, buffer, client_addr, rest, reads, echoes>>

\* Without a 0 in buffer strcat goes on behind it.
Overrun ==
  /\ process = "running"
  /\ pc = "echo"
  /\ Ends(buffer) = {}
  /\ process' = "undefined"
  /\ UNCHANGED <<sent, pings, receive_buffer, serverVars>>

Next ==
  \/ /\ process = "running"
     /\ \/ \E c \in Clients, text \in Texts : Send(c, text)
        \/ \E c \in Clients, ident, seq_nb \in Idents : Ping(c, ident, seq_nb)
        \/ Receive
        \/ Requeue
        \/ Echo
        \/ SendtoFails
     /\ UNCHANGED process
  \/ Overrun

SafeSpec == Init /\ [][Next]_vars

-----------------------------------------------------------------------------
(***************************************************************************)
(* Properties.                                                             *)
(***************************************************************************)
Part == [src : Clients, data : Seq(Bytes)]
Header == [type_code : Word, cksum : Word, ident : Word, seq_nb : Word]
UdpFrame == [pkt_len : Nat, total_length : Word, dgram_len : Word, copied : Word]

\* Types of the variables; an echo holds no 0.
TypeOK ==
  /\ sent \in 0 .. MaxSent
  /\ pings \in Seq([src : Clients, ident : Word, seq_nb : Word, answer : Header,
                     dst : Clients])
  /\ receive_buffer \in Seq(Part)
  /\ Len(receive_buffer) <= Capacity
  /\ pc \in {"receive", "requeue", "echo", "stopped"}
  /\ buffer \in [1 .. BUFFER_SIZE -> Bytes]
  /\ client_addr \in Clients \cup {NULL}
  /\ rest \in Seq(Bytes)
  /\ reads \in Seq(Part)
  /\ echoes \in Seq([to : Clients, text : Seq(Bytes \ {0}), frame : UdpFrame])
  /\ process \in {"running", "undefined"}

\* Each read is answered by one echo, but for the last of a server that stops,
\* and to the client the datagram came from, whatever other clients do
\* meanwhile.  The text of the echo is that of the read up to its 0; nothing is
\* said here of what follows a text that has none.
EchoAnswersRead ==
  /\ Len(echoes) = IF pc = "receive" THEN Len(reads) ELSE Len(reads) - 1
  /\ \A k \in 1 .. Len(echoes) :
       LET text == echoes[k].text
           data == reads[k].data
       IN  /\ echoes[k].to = reads[k].src
           /\ \A i \in 1 .. Len(text) : i <= Len(data) => text[i] = data[i]
           /\ Len(text) < Len(data) => data[Len(text) + 1] = 0

\* "put the echo prefix before the data ... send the echo to the client"
\* (udp_server_test.c:55, :61): behind the data of its read an echo holds nothing
\* that an earlier datagram, perhaps of another client, has left in buffer.
EchoHoldsOwnData ==
  \A k \in 1 .. Len(echoes) : \A j \in 1 .. k - 1 :
    LET own == Len(reads[k].data)
    IN  ~ (own < Len(echoes[k].text) /\ own < Len(reads[j].data))

\* Ethernet, IP and UDP agree on the length of the frame of an echo, and the
\* client that takes it apart gets prefix and text, no byte more or less.
EchoLengths ==
  \A k \in 1 .. Len(echoes) :
    LET frame == echoes[k].frame
    IN  /\ DataLength(frame) = PREFIX + Len(echoes[k].text)
        /\ Ntohs(frame.total_length) = IPV4_HDR + Ntohs(frame.dgram_len)
        /\ frame.pkt_len = ETHER_HDR + Ntohs(frame.total_length)

\* A ping is answered to its sender, under its identifier and sequence number,
\* and the checksum of the answer holds in whichever order of bytes it is
\* tested: the sum runs over words of the machine, not of the network.
PingsVerify ==
  \A k \in 1 .. Len(pings) :
    LET p == pings[k]
    IN  /\ p.dst = p.src
        /\ p.answer.ident = p.ident
        /\ p.answer.seq_nb = p.seq_nb
        /\ Verifies(p.answer)
        /\ Verifies(OtherOrder(p.answer))
=============================================================================
