---------------------------- MODULE MCUdpReceive ----------------------------
\* Small instances of UdpReceive for TLC.
EXTENDS UdpReceive, TLC

CONSTANTS r1, r2, d1, d2, d3

\* Two datagrams that need two reads each, and an empty one.
MCSize == d1 :> 2 @@ d2 :> 2 @@ d3 :> 0
=============================================================================
