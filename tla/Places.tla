------------------------------- MODULE Places -------------------------------
(***************************************************************************)
(* Where things are in a queue, for UdpSend and Buffers, whose properties  *)
(* follow datagrams and buffers from queue to queue.                       *)
(***************************************************************************)
EXTENDS Naturals, Sequences, FiniteSets

\* How often d is in seq.
Count(seq, d) == Cardinality({i \in 1 .. Len(seq) : seq[i] = d})

\* What is left of seq when all that is not in S has been taken out; SelectSeq
\* with a set in place of an operator.
Only(seq, S) ==
  LET kept[n \in 0 .. Len(seq)] ==
        IF n = 0 THEN <<>>
        ELSE IF seq[n] \in S THEN Append(kept[n - 1], seq[n])
        ELSE kept[n - 1]
  IN  kept[Len(seq)]
=============================================================================
