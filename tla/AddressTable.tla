---------------------------- MODULE AddressTable ----------------------------
(***************************************************************************)
(* What the ARP table is to those who only ask whether an address has a    *)
(* MAC: a set of addresses that grows by one at a time, until one of them  *)
(* comes to stand there alone.  The sweep of UdpSend works with such a     *)
(* table; ArpTable implements it.                                          *)
(***************************************************************************)
CONSTANT Addresses

VARIABLES mapped,   \* addresses with a MAC in the table
          emptied   \* has an address taken the place of all others

Init == mapped \subseteq Addresses /\ emptied = FALSE

Learn ==
  /\ \E a \in Addresses : mapped' = mapped \cup {a}
  /\ emptied' = emptied

Forget ==
  /\ \E a \in Addresses : a \notin mapped /\ mapped' = {a}
  /\ emptied' = TRUE

Next == Learn \/ Forget

SafeSpec == Init /\ [][Next]_<<mapped, emptied>>
=============================================================================
