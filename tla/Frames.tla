-------------------------------- MODULE Frames --------------------------------
(***************************************************************************)
(* The arithmetic of the frame builders: the lengths of a UDP frame        *)
(* (deal_udp.c, udp.c) and the checksum of an ICMP answer (icmp.c).        *)
(*                                                                         *)
(* A field is the number that the machine, little-endian, reads from it.   *)
(* MAC and IP addresses, ports and constant fields are left out, and so    *)
(* are the checksums that rte_ipv4_cksum and rte_ipv4_udptcp_cksum make.   *)
(***************************************************************************)
EXTENDS Integers

Word == {n \in Nat : n < 65536}
Low16(n) == n % 65536
Htons(w) == 256 * (w % 256) + (w \div 256)
Ntohs(w) == Htons(w)

ETHER_HDR == 14
IPV4_HDR == 20
UDP_HDR == 8
ICMP_HDR == 8

-----------------------------------------------------------------------------
(***************************************************************************)
(* UDP                                                                     *)
(***************************************************************************)
\* As HzSendUdp, but the UDP header is not counted in its own length.
HzSendUdpShort(udp_data_length) ==
  LET total_length == udp_data_length + ETHER_HDR + IPV4_HDR + UDP_HDR
      udp_length == Low16(Low16(total_length) - ETHER_HDR - IPV4_HDR - UDP_HDR)
  IN  [pkt_len |-> total_length,
       total_length |-> Htons(Low16(Low16(total_length) - ETHER_HDR)),
       dgram_len |-> Htons(udp_length),
       copied |-> udp_length]

\* hz_send_udp and hz_build_udp_request, whose parameter total_length has 16
\* bits.  The length of the header counts in udp_length, and that many bytes
\* are copied behind the header.
HzSendUdp(udp_data_length) ==
  LET total_length == udp_data_length + ETHER_HDR + IPV4_HDR + UDP_HDR
      udp_length == Low16(Low16(total_length) - ETHER_HDR - IPV4_HDR)
  IN  [pkt_len |-> total_length,
       total_length |-> Htons(Low16(Low16(total_length) - ETHER_HDR)),
       dgram_len |-> Htons(udp_length),
       copied |-> udp_length]

\* The length hz_process_udp gives to hz_create_udp_payload.
DataLength(frame) == Low16(Ntohs(frame.dgram_len) - UDP_HDR)

\* The length hz_sendto gives it: a size_t in a parameter of 16 bits.
HzSendtoLength(len) == Low16(len)

-----------------------------------------------------------------------------
(***************************************************************************)
(* ICMP                                                                    *)
(***************************************************************************)
\* A turn of the second loop of hz_checksum.  For the four words of a header
\* it takes two turns at most (ChecksumLoopEnds in EchoServer_proofs).
Turn(sum) == IF sum > 65535 THEN (sum % 65536) + (sum \div 65536) ELSE sum
Folded(sum) == Turn(Turn(sum))

SumOf(header) == header.type_code + header.cksum + header.ident + header.seq_nb

HzChecksum(header) == 65535 - Folded(SumOf(header))

\* As HzBuildIcmpRequest, but the checksum is made before seq_nb is set.
HzBuildIcmpRequestEarly(ident, seq_nb) ==
  LET blank == [type_code |-> 0, cksum |-> 0, ident |-> ident, seq_nb |-> 0]
  IN  [type_code |-> 0, cksum |-> HzChecksum(blank), ident |-> ident, seq_nb |-> seq_nb]

\* RTE_IP_ICMP_ECHO_REPLY and its code are 0.
HzBuildIcmpRequest(ident, seq_nb) ==
  LET blank == [type_code |-> 0, cksum |-> 0, ident |-> ident, seq_nb |-> seq_nb]
  IN  [type_code |-> 0, cksum |-> HzChecksum(blank), ident |-> ident, seq_nb |-> seq_nb]

\* What a receiver tests: all ones.  It may read words in the other order.
Verifies(header) == Folded(SumOf(header)) = 65535
OtherOrder(header) == [f \in DOMAIN header |-> Htons(header[f])]
=============================================================================
