------------------------------ MODULE MCUdpSend ------------------------------
\* Small instances of UdpSend for TLC.
EXTENDS UdpSend, TLC

CONSTANTS d1, d2, d3, d4, a, b, c

\* Three datagrams on the youngest socket, one on the other; d2 is for an
\* address that the ARP table does not have at first, and nothing is for c.
MCSocket == d1 :> 1 @@ d2 :> 1 @@ d3 :> 1 @@ d4 :> 2
MCDst == d1 :> a @@ d2 :> b @@ d3 :> a @@ d4 :> a
=============================================================================
