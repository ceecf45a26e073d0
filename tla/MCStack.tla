------------------------------- MODULE MCStack -------------------------------
\* A small instance of Stack for TLC.
EXTENDS Stack, TLC

CONSTANTS t1, t2

\* The two echo servers of udp_server_test.c, their order and their ports.
TwoServers == <<t1, t2>>
TwoPorts == t1 :> 9999 @@ t2 :> 8898

\* Names without a repetition.
FreshSendNames == <<"s1", "s2">>
FreshReceiveNames == <<"r1", "r2">>
=============================================================================
