---------------------------- MODULE MCSocketTable ----------------------------
\* Small instances of SocketTable for TLC.
EXTENDS SocketTable, TLC

CONSTANTS t1, t2

\* The ports of the two echo servers of udp_server_test.c.
TwoPorts == t1 :> 9999 @@ t2 :> 8898
OnePort == t1 :> 9999

\* Names without a repetition.
FreshSendNames == <<"s1", "s2", "s3", "s4", "s5">>
FreshReceiveNames == <<"r1", "r2", "r3", "r4", "r5">>
=============================================================================
