------------------------------ MODULE MCArpTable ------------------------------
\* Small instances of ArpTable for TLC.
EXTENDS ArpTable, TLC

CONSTANTS m1, m2

\* Hosts 2 and 3 of the subnet; the machine itself is 1.
TwoHosts == 2 :> m1 @@ 3 :> m2
=============================================================================
