----------------------------- MODULE FrameQueue -----------------------------
(***************************************************************************)
(* What an rte_ring of mbufs promises the lcores that share it: a bounded  *)
(* queue.  A frame that is put in comes out once, behind those put in      *)
(* before it.  UdpSend uses ring->out as such a queue; Buffers shows how   *)
(* producers with a head and a tail implement it.                          *)
(***************************************************************************)
EXTENDS Naturals, Sequences

CONSTANTS Items,     \* what is put in
          Capacity,  \* slots
          Burst      \* most that is taken at once

VARIABLES queue,     \* next one out first
          misused    \* has a producer that does not wait for others met one

Init == queue = <<>> /\ ~misused

Put ==
  /\ Len(queue) < Capacity
  /\ \E m \in Items : queue' = Append(queue, m)

Take == \E n \in 1 .. Burst : n <= Len(queue) /\ queue' = SubSeq(queue, n + 1, Len(queue))

\* Nothing is promised from here on.
Misuse == misused' = TRUE

Next ==
  \/ ~misused /\ (Put \/ Take) /\ UNCHANGED misused
  \/ Misuse

SafeSpec == Init /\ [][Next]_<<queue, misused>>
=============================================================================
