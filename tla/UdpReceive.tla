------------------------------ MODULE UdpReceive ------------------------------
(***************************************************************************)
(* One bound UDP socket on its way up: the packet lcore (hz_process_udp)   *)
(* puts payloads on receive_buffer and signals cond, the threads of the    *)
(* application (hz_receive_from) take them off under the mutex and sleep   *)
(* on cond when there is nothing to take.                                  *)
(*                                                                         *)
(* receive_buffer is an rte_ring.  The code uses only its multi-producer   *)
(* and multi-consumer calls, so one enqueue or dequeue is one step.        *)
(* Payload bytes are abstracted to their number.  A datagram that finds no *)
(* socket or no memory for its payload (udp.c:61, udp.c:69) leaves no      *)
(* trace here, so these early returns are stuttering steps.                *)
(***************************************************************************)
EXTENDS Naturals, Sequences

CONSTANTS Receivers,   \* application threads that read this socket
          PktLcore,    \* the lcore that runs hz_pkt_process
          Datagrams,   \* datagrams the network sends to this socket
          Size,        \* data_length of each datagram
          BufLen,      \* len, the buffer length passed to hz_receive_from
          Capacity,    \* slots of receive_buffer (RING_SIZE - 1)
          NULL

ASSUME ReceiversAssumption ==
  /\ Receivers # {}
  /\ PktLcore \notin Receivers
  /\ NULL \notin Receivers \cup {PktLcore}
ASSUME SizeAssumption == Size \in [Datagrams -> Nat]
ASSUME BufLenAssumption == BufLen \in Nat \ {0}
ASSUME CapacityAssumption == Capacity \in Nat \ {0}

VARIABLES arrived,         \* datagrams offered to receive_buffer, oldest first
          receive_buffer,  \* payloads in the ring, next one out first
          mutex,           \* who holds conn_info->mutex, NULL when free
          pktPc,           \* where the packet lcore is in hz_process_udp
          pktPayload,      \* the datagram it is delivering
          rxPc,            \* where each reader is in hz_receive_from
          udp_payload,     \* the payload each reader has dequeued
          got,             \* bytes of each datagram copied to a caller
          lost,            \* datagrams of which an enqueue failed
          process          \* "running" or "aborted"

vars == <<arrived, receive_buffer, mutex, pktPc, pktPayload,
          rxPc, udp_payload, got, lost, process>>

\* hz_udp_payload: whose data it is and its data_length.
Whole(d) == [id |-> d, rest |-> Size[d]]

Init ==
  /\ arrived = <<>>
  /\ receive_buffer = <<>>
  /\ mutex = NULL
  /\ pktPc = "poll"
  /\ pktPayload = NULL
  /\ rxPc = [r \in Receivers |-> "out"]
  /\ udp_payload = [r \in Receivers |-> NULL]
  /\ got = [d \in Datagrams |-> 0]
  /\ lost = {}
  /\ process = "running"

\* rte_ring_mp_enqueue.  Both callers ignore its result, so a payload that
\* meets a full ring is gone.
Enqueue(p) ==
  \/ /\ Len(receive_buffer) < Capacity
     /\ receive_buffer' = Append(receive_buffer, p)
     /\ lost' = lost
  \/ /\ Len(receive_buffer) = Capacity
     /\ receive_buffer' = receive_buffer
     /\ lost' = lost \cup {p.id}

-----------------------------------------------------------------------------
(***************************************************************************)
(* The packet lcore: hz_process_udp.                                       *)
(***************************************************************************)
pktVars == <<pktPc, pktPayload>>
readerVars == <<rxPc, udp_payload, got>>

\* The frame's address and port match this socket; the payload is copied.
PktArrive(d) ==
  /\ pktPc = "poll"
  /\ \A i \in 1 .. Len(arrived) : arrived[i] # d
  /\ pktPayload' = d
  /\ pktPc' = "enqueue"
  /\ UNCHANGED <<arrived, receive_buffer, mutex, readerVars, lost>>

\* The payload is published before the mutex is taken.
PktEnqueue ==
  /\ pktPc = "enqueue"
  /\ Enqueue(Whole(pktPayload))
  /\ arrived' = Append(arrived, pktPayload)
  /\ pktPayload' = NULL
  /\ pktPc' = "lock"
  /\ UNCHANGED <<mutex, readerVars>>

\* As PktLock, but cond is signalled without holding the mutex.
PktLockForgotten ==
  /\ pktPc = "lock"
  /\ pktPc' = "signal"
  /\ UNCHANGED <<arrived, receive_buffer, mutex, pktPayload, readerVars, lost>>

PktLock ==
  /\ pktPc = "lock"
  /\ mutex = NULL
  /\ mutex' = PktLcore
  /\ pktPc' = "signal"
  /\ UNCHANGED <<arrived, receive_buffer, pktPayload, readerVars, lost>>

Asleep == {r \in Receivers : rxPc[r] = "asleep"}

\* As PktSignal, but nobody is woken.
PktSignalNobody ==
  /\ pktPc = "signal"
  /\ pktPc' = "unlock"
  /\ UNCHANGED <<arrived, receive_buffer, mutex, pktPayload, readerVars, lost>>

\* pthread_cond_signal: some sleeper, if there is one, gets up and goes for
\* the mutex.
PktSignal ==
  /\ pktPc = "signal"
  /\ \/ \E r \in Asleep : rxPc' = [rxPc EXCEPT ![r] = "lock"]
     \/ Asleep = {} /\ rxPc' = rxPc
  /\ pktPc' = "unlock"
  /\ UNCHANGED <<arrived, receive_buffer, mutex, pktPayload,
                 udp_payload, got, lost>>

PktUnlock ==
  /\ pktPc = "unlock"
  /\ mutex' = NULL
  /\ pktPc' = "poll"
  /\ UNCHANGED <<arrived, receive_buffer, pktPayload, readerVars, lost>>

\* hz_process_udp once it has found the socket.
PktStep ==
  /\ process = "running"
  /\ PktEnqueue \/ PktLock \/ PktSignal \/ PktUnlock
  /\ UNCHANGED process

-----------------------------------------------------------------------------
(***************************************************************************)
(* A reader: hz_receive_from.                                              *)
(***************************************************************************)
RxGoto(r, pc) == rxPc' = [rxPc EXCEPT ![r] = pc]

RxCall(r) ==
  /\ rxPc[r] = "out"
  /\ RxGoto(r, "lock")
  /\ UNCHANGED <<arrived, receive_buffer, mutex, pktVars,
                 udp_payload, got, lost>>

\* As RxLock, but does not wait for the mutex to be free.
RxLockBusy(r) ==
  /\ rxPc[r] = "lock"
  /\ mutex' = r
  /\ RxGoto(r, "dequeue")
  /\ UNCHANGED <<arrived, receive_buffer, pktVars, udp_payload, got, lost>>

\* Either the lock on entry, or pthread_cond_wait taking the mutex again.
RxLock(r) ==
  /\ rxPc[r] = "lock"
  /\ mutex = NULL
  /\ mutex' = r
  /\ RxGoto(r, "dequeue")
  /\ UNCHANGED <<arrived, receive_buffer, pktVars, udp_payload, got, lost>>

\* As RxDequeue, but the payload stays on the ring.
RxPeek(r) ==
  /\ rxPc[r] = "dequeue"
  /\ IF receive_buffer = <<>>
       THEN RxGoto(r, "wait") /\ UNCHANGED <<receive_buffer, udp_payload>>
       ELSE /\ udp_payload' = [udp_payload EXCEPT ![r] = Head(receive_buffer)]
            /\ RxGoto(r, "unlock")
            /\ UNCHANGED receive_buffer
  /\ UNCHANGED <<arrived, mutex, pktVars, got, lost>>

\* As RxDequeue, but takes the youngest payload.
RxPop(r) ==
  /\ rxPc[r] = "dequeue"
  /\ IF receive_buffer = <<>>
       THEN RxGoto(r, "wait") /\ UNCHANGED <<receive_buffer, udp_payload>>
       ELSE LET n == Len(receive_buffer)
            IN  /\ udp_payload' = [udp_payload EXCEPT ![r] = receive_buffer[n]]
                /\ receive_buffer' = SubSeq(receive_buffer, 1, n - 1)
                /\ RxGoto(r, "unlock")
  /\ UNCHANGED <<arrived, mutex, pktVars, got, lost>>

\* The condition of the while loop.
RxDequeue(r) ==
  /\ rxPc[r] = "dequeue"
  /\ \/ /\ receive_buffer # <<>>
        /\ udp_payload' = [udp_payload EXCEPT ![r] = Head(receive_buffer)]
        /\ receive_buffer' = Tail(receive_buffer)
        /\ RxGoto(r, "unlock")
     \/ /\ receive_buffer = <<>>
        /\ RxGoto(r, "wait")
        /\ UNCHANGED <<receive_buffer, udp_payload>>
  /\ UNCHANGED <<arrived, mutex, pktVars, got, lost>>

\* pthread_cond_wait releases the mutex and falls asleep in one step.
RxWait(r) ==
  /\ rxPc[r] = "wait"
  /\ mutex' = NULL
  /\ RxGoto(r, "asleep")
  /\ UNCHANGED <<arrived, receive_buffer, pktVars, udp_payload, got, lost>>

\* POSIX lets pthread_cond_wait return without a signal.
RxSpuriousWakeup(r) ==
  /\ rxPc[r] = "asleep"
  /\ RxGoto(r, "lock")
  /\ UNCHANGED <<arrived, receive_buffer, mutex, pktVars,
                 udp_payload, got, lost>>

RxUnlock(r) ==
  /\ rxPc[r] = "unlock"
  /\ mutex' = NULL
  /\ RxGoto(r, "copy")
  /\ UNCHANGED <<arrived, receive_buffer, pktVars, udp_payload, got, lost>>

\* The buffer holds the whole payload: copy it, free it, return.
RxCopyAll(r) ==
  /\ rxPc[r] = "copy"
  /\ udp_payload[r].rest <= BufLen
  /\ got' = [got EXCEPT ![udp_payload[r].id] = @ + udp_payload[r].rest]
  /\ udp_payload' = [udp_payload EXCEPT ![r] = NULL]
  /\ RxGoto(r, "out")
  /\ UNCHANGED <<arrived, receive_buffer, mutex, pktVars, lost>>

\* As RxCopyPart, but data_length keeps its old value.
RxCopyPartKeepLength(r) ==
  /\ rxPc[r] = "copy"
  /\ udp_payload[r].rest > BufLen
  /\ got' = [got EXCEPT ![udp_payload[r].id] = @ + BufLen]
  /\ RxGoto(r, "requeue")
  /\ UNCHANGED <<arrived, receive_buffer, mutex, pktVars, udp_payload, lost>>

\* As RxCopyPart, but taken for payloads of every length.
RxCopyPartAlways(r) ==
  /\ rxPc[r] = "copy"
  /\ got' = [got EXCEPT ![udp_payload[r].id] = @ + BufLen]
  /\ udp_payload' = [udp_payload EXCEPT ![r].rest = @ - BufLen]
  /\ RxGoto(r, "requeue")
  /\ UNCHANGED <<arrived, receive_buffer, mutex, pktVars, lost>>

\* len bytes are copied, the payload keeps the rest.
RxCopyPart(r) ==
  /\ rxPc[r] = "copy"
  /\ udp_payload[r].rest > BufLen
  /\ got' = [got EXCEPT ![udp_payload[r].id] = @ + BufLen]
  /\ udp_payload' = [udp_payload EXCEPT ![r].rest = @ - BufLen]
  /\ RxGoto(r, "requeue")
  /\ UNCHANGED <<arrived, receive_buffer, mutex, pktVars, lost>>

\* The rest goes to the back of the ring, without the mutex and without a
\* signal, and the call returns.
RxRequeue(r) ==
  /\ rxPc[r] = "requeue"
  /\ Enqueue(udp_payload[r])
  /\ udp_payload' = [udp_payload EXCEPT ![r] = NULL]
  /\ RxGoto(r, "out")
  /\ UNCHANGED <<arrived, mutex, pktVars, got>>

\* hz_receive_from, from one call to the next.
RxStep(r) ==
  /\ process = "running"
  /\ \/ RxCall(r)
     \/ RxLock(r)
     \/ RxDequeue(r)
     \/ RxWait(r)
     \/ RxUnlock(r)
     \/ RxCopyAll(r)
     \/ RxCopyPart(r)
     \/ RxRequeue(r)
  /\ UNCHANGED process

\* A first partial read has left the payload with data from rte_malloc.
Cut(p) == p.rest < Size[p.id]

\* Two ways to die in the middle of a read.  Data from rte_malloc goes to
\* free(): glibc may abort, or take it and go on.  And no memory for the rest
\* means a copy to NULL.
RxAbort(r) ==
  /\ process = "running"
  /\ rxPc[r] = "copy"
  /\ Cut(udp_payload[r]) \/ udp_payload[r].rest > BufLen
  /\ process' = "aborted"
  /\ UNCHANGED <<arrived, receive_buffer, mutex, pktVars, readerVars, lost>>

-----------------------------------------------------------------------------
\* What comes from outside: datagrams, and wakeups nobody signalled.
Environment ==
  /\ process = "running"
  /\ \/ \E d \in Datagrams : PktArrive(d)
     \/ \E r \in Receivers : RxSpuriousWakeup(r)
  /\ UNCHANGED process

\* A dead process stays dead.
Dead == process = "aborted" /\ UNCHANGED vars

Next ==
  \/ PktStep
  \/ \E r \in Receivers : RxStep(r) \/ RxAbort(r)
  \/ Environment
  \/ Dead

\* Each lcore runs its loop for ever: the packet lcore finishes what it began,
\* and the application calls hz_receive_from again and again.
Fairness ==
  /\ WF_vars(PktStep)
  /\ \A r \in Receivers : WF_vars(RxStep(r))

SafeSpec == Init /\ [][Next]_vars
Spec == SafeSpec /\ Fairness

-----------------------------------------------------------------------------
(***************************************************************************)
(* Properties.                                                             *)
(***************************************************************************)
Payload == [id : Datagrams, rest : Nat]
InMutex == {"dequeue", "wait", "unlock"}
HoldsPayload == {"unlock", "copy", "requeue"}

\* Types of the variables; the ring never holds more than its slots.
TypeOK ==
  /\ arrived \in Seq(Datagrams)
  /\ receive_buffer \in Seq(Payload)
  /\ Len(receive_buffer) <= Capacity
  /\ mutex \in Receivers \cup {PktLcore, NULL}
  /\ pktPc \in {"poll", "enqueue", "lock", "signal", "unlock"}
  /\ IF pktPc = "enqueue" THEN pktPayload \in Datagrams ELSE pktPayload = NULL
  /\ rxPc \in [Receivers ->
               {"out", "lock", "asleep", "copy", "requeue"} \cup InMutex]
  /\ udp_payload \in [Receivers -> Payload \cup {NULL}]
  /\ \A r \in Receivers :
        IF rxPc[r] \in HoldsPayload
          THEN udp_payload[r] \in Payload ELSE udp_payload[r] = NULL
  /\ got \in [Datagrams -> Nat]
  /\ lost \subseteq Datagrams
  /\ process \in {"running", "aborted"}

\* The mutex of hz_connection_info is held by exactly the thread that is
\* between its lock and its unlock: readers test the ring and decide to sleep,
\* and the packet lcore signals, one at a time.
MutexOwner ==
  /\ \A r \in Receivers : mutex = r <=> rxPc[r] \in InMutex
  /\ mutex = PktLcore <=> pktPc \in {"signal", "unlock"}

\* No wakeup is lost: readers never all sleep, or commit to sleep, on a ring
\* that holds payloads, unless the packet lcore is still to signal.  This is
\* what enqueueing before taking the mutex, and re-queueing a rest without a
\* signal, put at risk.
NoLostWakeup ==
  /\ receive_buffer # <<>>
  /\ \A r \in Receivers : rxPc[r] \in {"wait", "asleep"}
  => pktPc \in {"lock", "signal"}

InRing(d) == \E i \in 1 .. Len(receive_buffer) : receive_buffer[i].id = d
InHand(d) == \E r \in Receivers :
               rxPc[r] \in HoldsPayload /\ udp_payload[r].id = d

\* A datagram has at most one payload, on the ring or with one reader.
OnePayload ==
  /\ \A i, j \in 1 .. Len(receive_buffer) :
        receive_buffer[i].id = receive_buffer[j].id => i = j
  /\ \A r, s \in Receivers :
        /\ rxPc[r] \in HoldsPayload
        /\ rxPc[s] \in HoldsPayload
        /\ udp_payload[r].id = udp_payload[s].id
        => r = s
  /\ \A r \in Receivers :
        rxPc[r] \in HoldsPayload => ~InRing(udp_payload[r].id)

\* What a payload still carries is what its datagram's readers still miss.
Balanced(p) == got[p.id] + p.rest = Size[p.id] /\ p.id \notin lost

\* Every byte offered to the ring is at one place: delivered to a caller, on
\* the ring, with one reader, or lost to a full ring.  Concurrent readers and
\* partial reads neither duplicate nor drop data.
Conservation ==
  /\ OnePayload
  /\ \A i \in 1 .. Len(receive_buffer) : Balanced(receive_buffer[i])
  /\ \A r \in Receivers : rxPc[r] \in HoldsPayload => Balanced(udp_payload[r])
  /\ \A i \in 1 .. Len(arrived) :
        \/ InRing(arrived[i])
        \/ InHand(arrived[i])
        \/ arrived[i] \in lost
        \/ got[arrived[i]] = Size[arrived[i]]

Unread(d) == InRing(d) /\ got[d] = 0

\* Datagrams are first read in the order they arrived, though the rest of a
\* partly read one may be overtaken: while one waits unread, every later one
\* waits unread too or found the ring full.
FirstReadInOrder ==
  \A i, j \in 1 .. Len(arrived) :
    i < j /\ Unread(arrived[i])
      => \/ Unread(arrived[j])
         \/ arrived[j] \in lost /\ got[arrived[j]] = 0

Arrived(d) == \E i \in 1 .. Len(arrived) : arrived[i] = d
Delivered(d) == got[d] = Size[d] /\ ~InRing(d) /\ ~InHand(d)

\* A datagram offered to the ring is in the end read completely, unless a full
\* ring threw part of it away or the process died.
Delivery ==
  \A d \in Datagrams :
    Arrived(d) ~> (Delivered(d) \/ d \in lost \/ process = "aborted")

\* The ring, the mutex and the condition variable together implement the
\* bounded queue of DatagramQueue, its fairness included.
Stage(pc) == CASE pc \in {"unlock", "copy"} -> "taken"
               [] pc = "requeue" -> "leftover"
               [] OTHER -> "idle"
Queue == INSTANCE DatagramQueue WITH
           queue <- receive_buffer,
           hand <- udp_payload,
           stage <- [r \in Receivers |-> Stage(rxPc[r])]
ImplementsQueue == Queue!Spec

=============================================================================
