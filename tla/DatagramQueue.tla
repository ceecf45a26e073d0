---------------------------- MODULE DatagramQueue ----------------------------
(***************************************************************************)
(* What a bound UDP socket promises the threads that read it: a bounded    *)
(* queue of payloads.  A datagram enters whole at the back, or is lost     *)
(* when the queue is full.  A reader takes the payload at the front and    *)
(* copies at most BufLen units of it; what did not fit goes to the back    *)
(* again, or is lost when the queue has filled up meanwhile.  As long as   *)
(* something is queued, some reader takes it.  Only a payload that takes   *)
(* more than one read can bring the process down.                          *)
(*                                                                         *)
(* No lock, condition variable or waiting thread appears here: UdpReceive  *)
(* describes how the code builds this queue out of an rte_ring, a mutex    *)
(* and a condition variable, and implements this specification.            *)
(***************************************************************************)
EXTENDS Naturals, Sequences

CONSTANTS Receivers,   \* the threads that read the socket
          Datagrams,   \* identities of the datagrams sent to it
          Size,        \* payload length of each datagram
          BufLen,      \* length of the buffer a reader passes
          Capacity,    \* payloads the queue can hold
          NULL

VARIABLES arrived,     \* the datagrams offered so far, oldest first
          queue,       \* the queued payloads, front first
          hand,        \* the payload each reader has taken
          stage,       \* what each reader does with it
          got,         \* units of each datagram handed to readers
          lost,        \* datagrams of which some part was thrown away
          process      \* "running" or "aborted"

vars == <<arrived, queue, hand, stage, got, lost, process>>

Init ==
  /\ arrived = <<>>
  /\ queue = <<>>
  /\ hand = [r \in Receivers |-> NULL]
  /\ stage = [r \in Receivers |-> "idle"]
  /\ got = [d \in Datagrams |-> 0]
  /\ lost = {}
  /\ process = "running"

\* p enters at the back; a full queue loses it.
Put(p) ==
  \/ /\ Len(queue) < Capacity
     /\ queue' = Append(queue, p)
     /\ lost' = lost
  \/ /\ Len(queue) = Capacity
     /\ queue' = queue
     /\ lost' = lost \cup {p.id}

Offer(d) ==
  /\ \A i \in 1 .. Len(arrived) : arrived[i] # d
  /\ arrived' = Append(arrived, d)
  /\ Put([id |-> d, rest |-> Size[d]])
  /\ UNCHANGED <<hand, stage, got>>

Take(r) ==
  /\ stage[r] = "idle"
  /\ queue # <<>>
  /\ hand' = [hand EXCEPT ![r] = Head(queue)]
  /\ queue' = Tail(queue)
  /\ stage' = [stage EXCEPT ![r] = "taken"]
  /\ UNCHANGED <<arrived, got, lost>>

\* The whole payload fits in the reader's buffer.
ReadAll(r) ==
  /\ stage[r] = "taken"
  /\ hand[r].rest <= BufLen
  /\ got' = [got EXCEPT ![hand[r].id] = @ + hand[r].rest]
  /\ hand' = [hand EXCEPT ![r] = NULL]
  /\ stage' = [stage EXCEPT ![r] = "idle"]
  /\ UNCHANGED <<arrived, queue, lost>>

ReadSome(r) ==
  /\ stage[r] = "taken"
  /\ hand[r].rest > BufLen
  /\ got' = [got EXCEPT ![hand[r].id] = @ + BufLen]
  /\ hand' = [hand EXCEPT ![r].rest = @ - BufLen]
  /\ stage' = [stage EXCEPT ![r] = "leftover"]
  /\ UNCHANGED <<arrived, queue, lost>>

PutBack(r) ==
  /\ stage[r] = "leftover"
  /\ Put(hand[r])
  /\ hand' = [hand EXCEPT ![r] = NULL]
  /\ stage' = [stage EXCEPT ![r] = "idle"]
  /\ UNCHANGED <<arrived, got>>

Finish(r) ==
  /\ process = "running"
  /\ ReadAll(r) \/ ReadSome(r) \/ PutBack(r)
  /\ UNCHANGED process

TakeSome ==
  /\ process = "running"
  /\ \E r \in Receivers : Take(r)
  /\ UNCHANGED process

OfferSome ==
  /\ process = "running"
  /\ \E d \in Datagrams : Offer(d)
  /\ UNCHANGED process

Die(r) ==
  /\ process = "running"
  /\ stage[r] = "taken"
  /\ hand[r].rest > BufLen \/ hand[r].rest < Size[hand[r].id]
  /\ process' = "aborted"
  /\ UNCHANGED <<arrived, queue, hand, stage, got, lost>>

Next ==
  \/ OfferSome
  \/ TakeSome
  \/ \E r \in Receivers : Finish(r) \/ Die(r)

\* Someone takes what is queued, and whoever took a payload deals with it.
Fairness ==
  /\ WF_vars(TakeSome)
  /\ \A r \in Receivers : WF_vars(Finish(r))

SafeSpec == Init /\ [][Next]_vars
Spec == SafeSpec /\ Fairness
=============================================================================
