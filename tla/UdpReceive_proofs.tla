-------------------------- MODULE UdpReceive_proofs --------------------------
(***************************************************************************)
(* Proofs about UdpReceive, for every number of readers, every ring size,  *)
(* every buffer length and every set of datagrams.                         *)
(***************************************************************************)
EXTENDS UdpReceive, SequenceTheorems, TLAPS

\* Append adds its element at the end and disturbs nothing before it.
LEMMA AppendFacts ==
  ASSUME NEW S, NEW s \in Seq(S), NEW e \in S
  PROVE  /\ Append(s, e) \in Seq(S)
         /\ Len(Append(s, e)) = Len(s) + 1
         /\ \A i \in 1 .. Len(s) : Append(s, e)[i] = s[i]
         /\ Append(s, e)[Len(s) + 1] = e
  BY AppendProperties

\* Taking the head of a sequence moves every other element one place forward.
LEMMA TailFacts ==
  ASSUME NEW S, NEW s \in Seq(S), s # <<>>
  PROVE  /\ Len(s) \in Nat \ {0}
         /\ Head(s) = s[1]
         /\ Head(s) \in S
         /\ Tail(s) \in Seq(S)
         /\ Len(Tail(s)) = Len(s) - 1
         /\ \A i \in 1 .. Len(s) - 1 : Tail(s)[i] = s[i + 1]
  <1>1. Len(s) \in Nat /\ Len(s) # 0
    BY EmptySeq, LenProperties
  <1>2. Head(s) = s[1] /\ Head(s) \in S
    BY <1>1, HeadTailProperties, ElementOfSeq
  <1> QED
    BY <1>1, <1>2, HeadTailProperties

\* An enqueue keeps the ring within its slots.
LEMMA EnqueueTypes ==
  ASSUME receive_buffer \in Seq(Payload), Len(receive_buffer) <= Capacity,
         lost \subseteq Datagrams, NEW p \in Payload, Enqueue(p)
  PROVE  /\ receive_buffer' \in Seq(Payload)
         /\ Len(receive_buffer') <= Capacity
         /\ lost' \subseteq Datagrams
  <1>1. p.id \in Datagrams
    BY DEF Payload
  <1>2. CASE Len(receive_buffer) < Capacity
    BY <1>2, AppendFacts, LenProperties, CapacityAssumption DEF Enqueue
  <1>3. CASE Len(receive_buffer) = Capacity
    BY <1>1, <1>3 DEF Enqueue
  <1> QED
    BY <1>2, <1>3, LenProperties, CapacityAssumption

\* The variables keep their types: receive_buffer never outgrows its slots and
\* a reader holds a payload exactly while hz_receive_from works on one.
THEOREM TypeCorrect == SafeSpec => []TypeOK
<1> USE DEF TypeOK, Payload, InMutex, HoldsPayload
<1>1. Init => TypeOK
  BY CapacityAssumption DEF Init
<1>2. TypeOK /\ [Next]_vars => TypeOK'
  <2> SUFFICES ASSUME TypeOK, [Next]_vars PROVE TypeOK'
    OBVIOUS
  <2>1. CASE UNCHANGED vars
    BY <2>1 DEF vars
  <2>2. ASSUME NEW d \in Datagrams, PktArrive(d), UNCHANGED process PROVE TypeOK'
    BY <2>2 DEF PktArrive, readerVars
  <2>3. CASE PktEnqueue /\ UNCHANGED process
    <3>1. Whole(pktPayload) \in Payload
      BY <2>3, SizeAssumption DEF PktEnqueue, Whole
    <3>2. Enqueue(Whole(pktPayload))
      BY <2>3 DEF PktEnqueue
    <3>3. /\ receive_buffer' \in Seq(Payload)
          /\ Len(receive_buffer') <= Capacity
          /\ lost' \subseteq Datagrams
      BY <3>1, <3>2, EnqueueTypes
    <3>4. arrived' \in Seq(Datagrams)
      BY <2>3, AppendFacts DEF PktEnqueue
    <3> QED
      BY <2>3, <3>3, <3>4 DEF PktEnqueue, readerVars
  <2>4. CASE PktLock /\ UNCHANGED process
    BY <2>4 DEF PktLock, readerVars
  <2>5. CASE PktSignal /\ UNCHANGED process
    BY <2>5 DEF PktSignal, Asleep
  <2>6. CASE PktUnlock /\ UNCHANGED process
    BY <2>6 DEF PktUnlock, readerVars
  <2>7. ASSUME NEW r \in Receivers, RxSpuriousWakeup(r), UNCHANGED process
        PROVE TypeOK'
    BY <2>7 DEF RxSpuriousWakeup, RxGoto, pktVars
  <2>8. ASSUME NEW r \in Receivers, RxAbort(r) PROVE TypeOK'
    BY <2>8 DEF RxAbort, pktVars, readerVars
  <2>9. ASSUME NEW r \in Receivers, RxCall(r), UNCHANGED process PROVE TypeOK'
    BY <2>9 DEF RxCall, RxGoto, pktVars
  <2>10. ASSUME NEW r \in Receivers, RxLock(r), UNCHANGED process PROVE TypeOK'
    BY <2>10 DEF RxLock, RxGoto, pktVars
  <2>11. ASSUME NEW r \in Receivers, RxDequeue(r), UNCHANGED process PROVE TypeOK'
    <3>1. CASE receive_buffer = <<>>
      BY <2>11, <3>1 DEF RxDequeue, RxGoto, pktVars
    <3>2. CASE receive_buffer # <<>>
      <4>1. /\ Len(receive_buffer) \in Nat \ {0}
            /\ Head(receive_buffer) \in Payload
            /\ Tail(receive_buffer) \in Seq(Payload)
            /\ Len(Tail(receive_buffer)) = Len(receive_buffer) - 1
        BY <3>2, TailFacts
      <4>2. /\ udp_payload' = [udp_payload EXCEPT ![r] = Head(receive_buffer)]
            /\ receive_buffer' = Tail(receive_buffer)
            /\ rxPc' = [rxPc EXCEPT ![r] = "unlock"]
            /\ UNCHANGED <<arrived, mutex, pktVars, got, lost, process>>
        BY <2>11, <3>2 DEF RxDequeue, RxGoto
      <4> HIDE DEF Payload
      <4>3. /\ receive_buffer' \in Seq(Payload)
            /\ Len(receive_buffer') <= Capacity
        BY <4>1, <4>2, CapacityAssumption
      <4>4. /\ udp_payload' \in [Receivers -> Payload \cup {NULL}]
            /\ rxPc' \in [Receivers ->
                 {"out", "lock", "asleep", "copy", "requeue"} \cup InMutex]
            /\ \A q \in Receivers :
                 IF rxPc'[q] \in HoldsPayload
                   THEN udp_payload'[q] \in Payload
                   ELSE udp_payload'[q] = NULL
        BY <4>1, <4>2
      <4> QED
        BY <4>2, <4>3, <4>4 DEF pktVars
    <3> QED
      BY <3>1, <3>2
  <2>12. ASSUME NEW r \in Receivers, RxWait(r), UNCHANGED process PROVE TypeOK'
    BY <2>12 DEF RxWait, RxGoto, pktVars
  <2>13. ASSUME NEW r \in Receivers, RxUnlock(r), UNCHANGED process PROVE TypeOK'
    BY <2>13 DEF RxUnlock, RxGoto, pktVars
  <2>14. ASSUME NEW r \in Receivers, RxCopyAll(r), UNCHANGED process PROVE TypeOK'
    BY <2>14 DEF RxCopyAll, RxGoto, pktVars
  <2>15. ASSUME NEW r \in Receivers, RxCopyPart(r), UNCHANGED process PROVE TypeOK'
    BY <2>15, BufLenAssumption DEF RxCopyPart, RxGoto, pktVars
  <2>16. ASSUME NEW r \in Receivers, RxRequeue(r), UNCHANGED process PROVE TypeOK'
    <3>1. Enqueue(udp_payload[r]) /\ udp_payload[r] \in Payload
      BY <2>16 DEF RxRequeue
    <3>2. /\ receive_buffer' \in Seq(Payload)
          /\ Len(receive_buffer') <= Capacity
          /\ lost' \subseteq Datagrams
      BY <3>1, EnqueueTypes
    <3> HIDE DEF Payload
    <3> QED
      BY <2>16, <3>2 DEF RxRequeue, RxGoto, pktVars
  <2>17. CASE Dead
    BY <2>17, <2>1 DEF Dead
  <2> QED
    BY <2>1, <2>2, <2>3, <2>4, <2>5, <2>6, <2>7, <2>8, <2>9, <2>10, <2>11,
       <2>12, <2>13, <2>14, <2>15, <2>16, <2>17
       DEF Next, PktStep, RxStep, Environment
<1> QED
  BY <1>1, <1>2, PTL DEF SafeSpec

-----------------------------------------------------------------------------
(***************************************************************************)
(* Every step is one of these; the proofs below split on this list.        *)
(***************************************************************************)
LEMMA StepCases ==
  ASSUME [Next]_vars
  PROVE  \/ \E d \in Datagrams : PktArrive(d)
         \/ PktEnqueue \/ PktLock \/ PktSignal \/ PktUnlock
         \/ \E r \in Receivers :
               \/ RxCall(r) \/ RxLock(r) \/ RxDequeue(r) \/ RxWait(r)
               \/ RxUnlock(r) \/ RxCopyAll(r) \/ RxCopyPart(r) \/ RxRequeue(r)
               \/ RxSpuriousWakeup(r)
               \/ RxAbort(r)
         \/ UNCHANGED vars
  BY DEF Next, PktStep, RxStep, Environment, Dead

\* One lock, one owner: the readers and the packet lcore never hold the mutex
\* of a connection together, and a reader asleep does not hold it.
THEOREM MutualExclusion == SafeSpec => []MutexOwner
<1>1. Init => MutexOwner
  BY ReceiversAssumption DEF Init, MutexOwner, InMutex
<1>2. TypeOK /\ MutexOwner /\ [Next]_vars => MutexOwner'
  <2> SUFFICES ASSUME TypeOK, MutexOwner, [Next]_vars PROVE MutexOwner'
    OBVIOUS
  <2> USE ReceiversAssumption DEF MutexOwner, InMutex
  <2>0. /\ rxPc \in [Receivers ->
               {"out", "lock", "asleep", "copy", "requeue"} \cup InMutex]
        /\ pktPc \in {"poll", "enqueue", "lock", "signal", "unlock"}
    BY DEF TypeOK
  <2>1. CASE UNCHANGED vars
    BY <2>1 DEF vars
  <2>2. CASE \E d \in Datagrams : PktArrive(d)
    BY <2>2 DEF PktArrive, readerVars
  <2>3. CASE PktEnqueue
    BY <2>3 DEF PktEnqueue, readerVars
  <2>4. CASE PktLock
    BY <2>4 DEF PktLock, readerVars
  <2>5. CASE PktSignal
    BY <2>0, <2>5 DEF PktSignal, Asleep
  <2>6. CASE PktUnlock
    BY <2>6 DEF PktUnlock, readerVars
  <2>7. ASSUME NEW r \in Receivers,
               RxCall(r) \/ RxSpuriousWakeup(r) \/ RxCopyAll(r)
                 \/ RxCopyPart(r) \/ RxRequeue(r)
        PROVE  MutexOwner'
    BY <2>0, <2>7
       DEF RxCall, RxSpuriousWakeup, RxCopyAll, RxCopyPart, RxRequeue, RxGoto,
           pktVars
  <2>8. ASSUME NEW r \in Receivers,
               RxLock(r) \/ RxDequeue(r) \/ RxWait(r) \/ RxUnlock(r)
        PROVE  MutexOwner'
    BY <2>0, <2>8 DEF RxLock, RxDequeue, RxWait, RxUnlock, RxGoto, pktVars
  <2>9. ASSUME NEW r \in Receivers, RxAbort(r) PROVE MutexOwner'
    BY <2>9 DEF RxAbort, pktVars, readerVars
  <2> QED
    BY <2>1, <2>2, <2>3, <2>4, <2>5, <2>6, <2>7, <2>8, <2>9, StepCases
<1> QED
  BY <1>1, <1>2, TypeCorrect, PTL DEF SafeSpec

\* No wakeup is lost, though hz_process_udp publishes the payload before it
\* takes the mutex and hz_receive_from re-queues a rest without signalling.
\* When the signal is sent, MutexOwner says that nobody is between testing the
\* ring and falling asleep.
THEOREM WakeupSafety == SafeSpec => []NoLostWakeup
<1>1. Init => NoLostWakeup
  BY DEF Init, NoLostWakeup
<1>2. TypeOK /\ MutexOwner /\ NoLostWakeup /\ [Next]_vars => NoLostWakeup'
  <2> SUFFICES ASSUME TypeOK, MutexOwner, NoLostWakeup, [Next]_vars,
                      receive_buffer' # <<>>,
                      \A r \in Receivers : rxPc'[r] \in {"wait", "asleep"}
               PROVE  pktPc' \in {"lock", "signal"}
    BY DEF NoLostWakeup
  <2>0. rxPc \in [Receivers ->
            {"out", "lock", "asleep", "copy", "requeue"} \cup InMutex]
    BY DEF TypeOK
  <2>1. CASE UNCHANGED vars
    BY <2>1 DEF vars, NoLostWakeup
  <2>2. CASE \E d \in Datagrams : PktArrive(d)
    BY <2>2 DEF PktArrive, readerVars, NoLostWakeup
  <2>3. CASE PktEnqueue \/ PktLock
    BY <2>3 DEF PktEnqueue, PktLock
  <2>4. CASE PktSignal
    <3>1. PICK q \in Receivers : TRUE
      BY ReceiversAssumption
    <3>2. \A r \in Receivers : rxPc[r] # "wait"
      BY <2>4, ReceiversAssumption DEF PktSignal, MutexOwner, InMutex
    <3>3. ASSUME NEW r \in Asleep, rxPc' = [rxPc EXCEPT ![r] = "lock"]
          PROVE  FALSE
      BY <2>0, <3>3 DEF Asleep
    <3>4. CASE Asleep = {} /\ rxPc' = rxPc
      BY <3>1, <3>2, <3>4 DEF Asleep
    <3> QED
      BY <2>4, <3>3, <3>4 DEF PktSignal
  <2>5. CASE PktUnlock
    BY <2>5 DEF PktUnlock, readerVars, NoLostWakeup
  <2>6. ASSUME NEW r \in Receivers,
               RxCall(r) \/ RxSpuriousWakeup(r) \/ RxLock(r) \/ RxUnlock(r)
                 \/ RxCopyAll(r) \/ RxCopyPart(r) \/ RxRequeue(r)
        PROVE  FALSE
    <3>1. rxPc'[r] \notin {"wait", "asleep"}
      BY <2>0, <2>6
         DEF RxCall, RxSpuriousWakeup, RxLock, RxUnlock, RxCopyAll, RxCopyPart,
             RxRequeue, RxGoto
    <3> QED
      BY <3>1
  <2>7. ASSUME NEW r \in Receivers, RxDequeue(r) PROVE FALSE
    BY <2>0, <2>7 DEF RxDequeue, RxGoto
  <2>8. ASSUME NEW r \in Receivers, RxWait(r) PROVE pktPc' \in {"lock", "signal"}
    BY <2>0, <2>8 DEF RxWait, RxGoto, pktVars, NoLostWakeup
  <2>9. ASSUME NEW r \in Receivers, RxAbort(r) PROVE pktPc' \in {"lock", "signal"}
    BY <2>9 DEF RxAbort, pktVars, readerVars, NoLostWakeup
  <2> QED
    BY <2>1, <2>2, <2>3, <2>4, <2>5, <2>6, <2>7, <2>8, <2>9, StepCases
<1> QED
  BY <1>1, <1>2, TypeCorrect, MutualExclusion, PTL DEF SafeSpec

-----------------------------------------------------------------------------
(***************************************************************************)
(* Conservation is not inductive alone: that a datagram enters the ring    *)
(* once rests on which datagrams have been offered.                        *)
(***************************************************************************)
Arrivals ==
  /\ \A i, j \in 1 .. Len(arrived) : arrived[i] = arrived[j] => i = j
  /\ \A i \in 1 .. Len(receive_buffer) : Arrived(receive_buffer[i].id)
  /\ \A r \in Receivers :
        rxPc[r] \in HoldsPayload => Arrived(udp_payload[r].id)
  /\ pktPc = "enqueue" => ~Arrived(pktPayload)
  /\ \A d \in Datagrams : ~Arrived(d) => got[d] = 0 /\ d \notin lost

ConservationInv == Arrivals /\ Conservation

\* Steps that move no payload keep the account.
LEMMA ConservationFrame ==
  ASSUME TypeOK, ConservationInv,
         UNCHANGED <<arrived, receive_buffer, udp_payload, got, lost>>,
         \A r \in Receivers : rxPc'[r] \in HoldsPayload <=> rxPc[r] \in HoldsPayload,
         pktPc' = "enqueue" =>
           \/ pktPc = "enqueue" /\ pktPayload' = pktPayload
           \/ ~Arrived(pktPayload')
  PROVE  ConservationInv'
  <1>1. /\ \A d : InRing(d)' <=> InRing(d)
        /\ \A d : InHand(d)' <=> InHand(d)
        /\ \A d : Arrived(d)' <=> Arrived(d)
        /\ \A q : Balanced(q)' <=> Balanced(q)
    BY DEF InRing, InHand, Arrived, Balanced
  <1>2. Arrivals'
    BY <1>1 DEF ConservationInv, Arrivals
  <1>3. OnePayload'
    BY <1>1 DEF ConservationInv, Conservation, OnePayload
  <1>4. Conservation'
    BY <1>1, <1>3 DEF ConservationInv, Conservation
  <1> QED
    BY <1>2, <1>4 DEF ConservationInv

\* The packet lcore offers a new datagram: on the ring whole, or lost.
LEMMA ConservationPktEnqueue ==
  ASSUME TypeOK, ConservationInv, PktEnqueue
  PROVE  ConservationInv'
  <1> DEFINE d == pktPayload
             n == Len(arrived)
  <1>1. /\ d \in Datagrams
        /\ ~Arrived(d)
        /\ got[d] = 0 /\ d \notin lost
        /\ arrived' = Append(arrived, d)
        /\ pktPc' = "lock"
        /\ UNCHANGED <<rxPc, udp_payload, got>>
        /\ Enqueue(Whole(d))
    BY DEF PktEnqueue, TypeOK, ConservationInv, Arrivals, readerVars
  <1>2. /\ arrived \in Seq(Datagrams)
        /\ receive_buffer \in Seq(Payload)
        /\ n \in Nat
        /\ Len(receive_buffer) \in Nat
    BY LenProperties DEF TypeOK
  <1>3. /\ Len(arrived') = n + 1
        /\ \A i \in 1 .. n : arrived'[i] = arrived[i]
        /\ arrived'[n + 1] = d
    BY <1>1, <1>2, AppendFacts
  <1>4. Whole(d) \in Payload /\ Whole(d).id = d /\ Whole(d).rest = Size[d]
    BY <1>1, SizeAssumption DEF Whole, Payload
  <1>5. \A e : Arrived(e)' <=> Arrived(e) \/ e = d
    BY <1>2, <1>3 DEF Arrived
  <1>6. \A e : InHand(e)' <=> InHand(e)
    BY <1>1 DEF InHand
  <1>7. ~InRing(d) /\ ~InHand(d)
    BY <1>1 DEF ConservationInv, Arrivals, InRing, InHand
  <1>8. /\ \A i, j \in 1 .. Len(arrived') : arrived'[i] = arrived'[j] => i = j
        /\ \A r \in Receivers :
              rxPc'[r] \in HoldsPayload => Arrived(udp_payload[r].id)'
    BY <1>1, <1>2, <1>3, <1>5 DEF ConservationInv, Arrivals, Arrived
  <1>9. CASE receive_buffer' = Append(receive_buffer, Whole(d)) /\ lost' = lost
    <2> DEFINE m == Len(receive_buffer)
    <2>1. /\ Len(receive_buffer') = m + 1
          /\ \A i \in 1 .. m : receive_buffer'[i] = receive_buffer[i]
          /\ receive_buffer'[m + 1] = Whole(d)
      BY <1>2, <1>4, <1>9, AppendFacts
    <2>2. \A e : InRing(e)' <=> InRing(e) \/ e = d
      BY <1>2, <1>4, <2>1 DEF InRing
    <2>3. \A i \in 1 .. m : receive_buffer[i].id # d
      BY <1>7 DEF InRing
    <2>4. \A r \in Receivers : rxPc[r] \in HoldsPayload => udp_payload[r].id # d
      BY <1>7 DEF InHand
    <2>5. Arrivals'
      BY <1>1, <1>2, <1>4, <1>5, <1>8, <1>9, <2>1
         DEF ConservationInv, Arrivals
    <2>6. OnePayload'
      <3>1. \A i, j \in 1 .. m + 1 :
              receive_buffer'[i].id = receive_buffer'[j].id => i = j
        <4>1. \A i, j \in 1 .. m :
                receive_buffer'[i].id = receive_buffer'[j].id => i = j
          BY <2>1 DEF ConservationInv, Conservation, OnePayload
        <4>2. \A i \in 1 .. m : receive_buffer'[i].id # d
          BY <2>1, <2>3
        <4>3. receive_buffer'[m + 1].id = d
          BY <1>4, <2>1
        <4>4. \A i \in 1 .. m + 1 : i \in 1 .. m \/ i = m + 1
          BY <1>2
        <4> QED
          BY <4>1, <4>2, <4>3, <4>4
      <3>2. \A r \in Receivers :
              rxPc[r] \in HoldsPayload => ~InRing(udp_payload[r].id)'
        BY <1>1, <2>2, <2>4 DEF ConservationInv, Conservation, OnePayload
      <3> QED
        BY <1>1, <2>1, <3>1, <3>2 DEF ConservationInv, Conservation, OnePayload
    <2>7. \A i \in 1 .. Len(receive_buffer') : Balanced(receive_buffer[i])'
      BY <1>1, <1>2, <1>4, <1>9, <2>1, SizeAssumption
         DEF ConservationInv, Conservation, Balanced
    <2>8. \A r \in Receivers :
            rxPc'[r] \in HoldsPayload => Balanced(udp_payload[r])'
      BY <1>1, <1>9 DEF ConservationInv, Conservation, Balanced
    <2>9. Conservation'
      BY <1>1, <1>2, <1>3, <1>6, <1>9, <2>2, <2>6, <2>7, <2>8
         DEF ConservationInv, Conservation
    <2> QED
      BY <2>5, <2>9 DEF ConservationInv
  <1>10. CASE receive_buffer' = receive_buffer /\ lost' = lost \cup {d}
    <2>1. \A e : InRing(e)' <=> InRing(e)
      BY <1>10 DEF InRing
    <2>2. Arrivals'
      BY <1>1, <1>5, <1>8, <1>10 DEF ConservationInv, Arrivals
    <2>3. OnePayload'
      BY <1>1, <1>10, <2>1 DEF ConservationInv, Conservation, OnePayload
    <2>4. \A i \in 1 .. Len(receive_buffer') : Balanced(receive_buffer[i])'
      BY <1>1, <1>7, <1>10
         DEF ConservationInv, Conservation, Balanced, InRing
    <2>5. \A r \in Receivers :
            rxPc'[r] \in HoldsPayload => Balanced(udp_payload[r])'
      BY <1>1, <1>7, <1>10
         DEF ConservationInv, Conservation, Balanced, InHand
    <2>6. Conservation'
      BY <1>1, <1>2, <1>3, <1>6, <1>10, <2>1, <2>3, <2>4, <2>5
         DEF ConservationInv, Conservation
    <2> QED
      BY <2>2, <2>6 DEF ConservationInv
  <1> QED
    BY <1>1, <1>4, <1>9, <1>10 DEF Enqueue

\* A reader takes the payload at the front: from the ring into its hand.
LEMMA ConservationDequeue ==
  ASSUME TypeOK, ConservationInv, NEW q \in Receivers, RxDequeue(q),
         receive_buffer # <<>>
  PROVE  ConservationInv'
  <1> DEFINE h == Head(receive_buffer)
             m == Len(receive_buffer)
  <1>1. /\ m \in Nat \ {0}
        /\ h = receive_buffer[1]
        /\ Len(Tail(receive_buffer)) = m - 1
        /\ \A i \in 1 .. m - 1 : Tail(receive_buffer)[i] = receive_buffer[i + 1]
    BY TailFacts DEF TypeOK
  <1>2. /\ receive_buffer' = Tail(receive_buffer)
        /\ udp_payload' = [udp_payload EXCEPT ![q] = h]
        /\ rxPc' = [rxPc EXCEPT ![q] = "unlock"]
        /\ rxPc[q] = "dequeue"
        /\ UNCHANGED <<arrived, pktPc, pktPayload, got, lost>>
    BY DEF RxDequeue, RxGoto, pktVars
  <1>3. /\ udp_payload'[q] = h
        /\ rxPc'[q] \in HoldsPayload
        /\ rxPc[q] \notin HoldsPayload
        /\ \A r \in Receivers \ {q} :
              udp_payload'[r] = udp_payload[r] /\ rxPc'[r] = rxPc[r]
    BY <1>2 DEF TypeOK, HoldsPayload
  <1>4. /\ Len(receive_buffer') = m - 1
        /\ \A i \in 1 .. m - 1 : receive_buffer'[i] = receive_buffer[i + 1]
    BY <1>1, <1>2
  <1>5. \A e : InRing(e) <=> InRing(e)' \/ e = h.id
    <2>1. \A e : InRing(e)' => InRing(e)
      BY <1>1, <1>4 DEF InRing
    <2>2. InRing(h.id)
      BY <1>1 DEF InRing
    <2>3. ASSUME NEW i \in 1 .. m
          PROVE  \/ receive_buffer[i] = h
                 \/ \E j \in 1 .. m - 1 : receive_buffer'[j] = receive_buffer[i]
      <3>1. CASE i = 1
        BY <3>1, <1>1
      <3>2. CASE i # 1
        <4>1. i - 1 \in 1 .. m - 1 /\ receive_buffer'[i - 1] = receive_buffer[i]
          BY <1>1, <1>4, <3>2
        <4> QED
          BY <1>4, <4>1 DEF InRing
      <3> QED
        BY <3>1, <3>2
    <2>4. \A i \in 1 .. m : receive_buffer[i] = h \/ \E j \in 1 .. m - 1 :
              receive_buffer'[j] = receive_buffer[i]
      BY <2>3
    <2> QED
      BY <1>4, <2>1, <2>2, <2>4 DEF InRing
  <1>6. \A e : InHand(e)' <=> InHand(e) \/ e = h.id
    BY <1>3 DEF InHand
  <1>7. \A e : Arrived(e)' <=> Arrived(e)
    BY <1>2 DEF Arrived
  <1>8. \A p : Balanced(p)' <=> Balanced(p)
    BY <1>2 DEF Balanced
  <1>9. Arrivals'
    BY <1>1, <1>2, <1>3, <1>4, <1>7 DEF ConservationInv, Arrivals
  <1>10. (\A e : InRing(e)' => e # h.id) /\ ~InHand(h.id)
    <2>1. \A i \in 1 .. m - 1 : receive_buffer[i + 1].id # h.id
      BY <1>1 DEF ConservationInv, Conservation, OnePayload
    <2> QED
      BY <1>1, <1>4, <1>5, <2>1
         DEF ConservationInv, Conservation, OnePayload, InRing, InHand
  <1>11. OnePayload'
    <2>1. \A i, j \in 1 .. Len(receive_buffer') :
            receive_buffer'[i].id = receive_buffer'[j].id => i = j
      BY <1>1, <1>4 DEF ConservationInv, Conservation, OnePayload
    <2>2. \A r \in Receivers :
            rxPc'[r] \in HoldsPayload => ~InRing(udp_payload[r].id)'
      BY <1>3, <1>5, <1>10 DEF ConservationInv, Conservation, OnePayload
    <2>3. ASSUME NEW r \in Receivers, NEW s \in Receivers,
                 rxPc'[r] \in HoldsPayload, rxPc'[s] \in HoldsPayload,
                 udp_payload'[r].id = udp_payload'[s].id
          PROVE  r = s
      BY <1>3, <1>10, <2>3
         DEF ConservationInv, Conservation, OnePayload, InHand
    <2> QED
      BY <2>1, <2>2, <2>3 DEF OnePayload
  <1>12. Conservation'
    <2>1. \A i \in 1 .. Len(receive_buffer') : Balanced(receive_buffer[i])'
      BY <1>1, <1>4, <1>8 DEF ConservationInv, Conservation
    <2>2. \A r \in Receivers :
            rxPc'[r] \in HoldsPayload => Balanced(udp_payload[r])'
      BY <1>1, <1>3, <1>8 DEF ConservationInv, Conservation
    <2> QED
      BY <1>2, <1>5, <1>6, <1>11, <2>1, <2>2
         DEF ConservationInv, Conservation
  <1> QED
    BY <1>9, <1>12 DEF ConservationInv

\* A reader copies what is in its hand, all of it or BufLen bytes.
LEMMA ConservationCopy ==
  ASSUME TypeOK, ConservationInv, NEW q \in Receivers,
         RxCopyAll(q) \/ RxCopyPart(q)
  PROVE  ConservationInv'
  <1>1. PICK p \in Payload : p = udp_payload[q] /\ rxPc[q] = "copy"
    BY DEF RxCopyAll, RxCopyPart, TypeOK, HoldsPayload
  <1>2. /\ p.id \in Datagrams /\ p.rest \in Nat
        /\ BufLen \in Nat
        /\ Size[p.id] \in Nat
        /\ got[p.id] \in Nat
    BY <1>1, BufLenAssumption, SizeAssumption DEF Payload, TypeOK
  <1>3. /\ ~InRing(p.id)
        /\ \A r \in Receivers \ {q} :
              rxPc[r] \in HoldsPayload => udp_payload[r].id # p.id
        /\ got[p.id] + p.rest = Size[p.id]
        /\ p.id \notin lost
        /\ Arrived(p.id)
    BY <1>1 DEF ConservationInv, Conservation, OnePayload, Arrivals, Balanced,
                HoldsPayload
  <1>4. /\ UNCHANGED <<arrived, receive_buffer, pktPc, pktPayload, lost>>
        /\ \A r \in Receivers \ {q} :
              udp_payload'[r] = udp_payload[r] /\ rxPc'[r] = rxPc[r]
        /\ \A e \in Datagrams : e # p.id => got'[e] = got[e]
    BY <1>1, <1>2 DEF RxCopyAll, RxCopyPart, RxGoto, pktVars, TypeOK
  <1>5. \/ rxPc'[q] = "out" /\ got'[p.id] = Size[p.id]
        \/ /\ rxPc'[q] = "requeue"
           /\ udp_payload'[q].id = p.id
           /\ got'[p.id] + udp_payload'[q].rest = Size[p.id]
    <2>1. CASE RxCopyAll(q)
      BY <1>1, <1>2, <1>3, <2>1 DEF RxCopyAll, RxGoto, TypeOK
    <2>2. CASE RxCopyPart(q)
      <3>1. udp_payload'[q] = [p EXCEPT !.rest = @ - BufLen]
        BY <1>1, <2>2 DEF RxCopyPart, TypeOK
      <3>2. /\ udp_payload'[q].id = p.id
            /\ udp_payload'[q].rest = p.rest - BufLen
        BY <3>1, <1>1 DEF Payload
      <3> QED
        BY <1>1, <1>2, <1>3, <3>2, <2>2 DEF RxCopyPart, RxGoto, TypeOK
    <2> QED
      BY <2>1, <2>2
  <1>6. /\ \A e : InRing(e)' <=> InRing(e)
        /\ \A e : Arrived(e)' <=> Arrived(e)
    BY <1>4 DEF InRing, Arrived
  <1>7. \A e : e # p.id => (InHand(e)' <=> InHand(e))
    BY <1>1, <1>4, <1>5 DEF InHand, HoldsPayload
  <1>8. Arrivals'
    <2>1. \A i \in 1 .. Len(receive_buffer') : Arrived(receive_buffer[i].id)'
      BY <1>4, <1>6 DEF ConservationInv, Arrivals
    <2>2. \A r \in Receivers :
            rxPc'[r] \in HoldsPayload => Arrived(udp_payload[r].id)'
      BY <1>3, <1>4, <1>5, <1>6 DEF ConservationInv, Arrivals, HoldsPayload
    <2>3. \A e \in Datagrams : ~Arrived(e)' => got'[e] = 0 /\ e \notin lost'
      BY <1>3, <1>4, <1>6 DEF ConservationInv, Arrivals
    <2> QED
      BY <1>4, <1>6, <2>1, <2>2, <2>3 DEF ConservationInv, Arrivals
  <1>9. OnePayload'
    BY <1>3, <1>4, <1>5, <1>6
       DEF ConservationInv, Conservation, OnePayload, HoldsPayload
  <1>10. Conservation'
    <2>1. \A i \in 1 .. Len(receive_buffer') : Balanced(receive_buffer[i])'
      <3>1. \A i \in 1 .. Len(receive_buffer) :
              /\ receive_buffer[i].id \in Datagrams
              /\ receive_buffer[i].id # p.id
        <4>1. \A i \in 1 .. Len(receive_buffer) : receive_buffer[i] \in Payload
          BY ElementOfSeq DEF TypeOK
        <4> QED
          BY <1>3, <4>1 DEF InRing, Payload
      <3> QED
        BY <1>4, <3>1 DEF ConservationInv, Conservation, Balanced
    <2>2. \A r \in Receivers :
            rxPc'[r] \in HoldsPayload => Balanced(udp_payload[r])'
      <3>1. \A r \in Receivers :
              rxPc[r] \in HoldsPayload => udp_payload[r].id \in Datagrams
        BY DEF TypeOK, Payload
      <3>2. \A r \in Receivers \ {q} :
              rxPc'[r] \in HoldsPayload => Balanced(udp_payload[r])'
        BY <1>3, <1>4, <3>1 DEF ConservationInv, Conservation, Balanced
      <3>3. rxPc'[q] \in HoldsPayload => Balanced(udp_payload[q])'
        BY <1>3, <1>4, <1>5 DEF Balanced, HoldsPayload
      <3> QED
        BY <3>2, <3>3
    <2>3. \A i \in 1 .. Len(arrived') :
            \/ InRing(arrived[i])'
            \/ InHand(arrived[i])'
            \/ arrived'[i] \in lost'
            \/ got'[arrived'[i]] = Size[arrived'[i]]
      <3>1. \A i \in 1 .. Len(arrived) : arrived[i] \in Datagrams
        BY ElementOfSeq DEF TypeOK
      <3>2. InHand(p.id)' \/ got'[p.id] = Size[p.id]
        BY <1>5 DEF InHand, HoldsPayload
      <3> SUFFICES ASSUME NEW e \in Datagrams, Arrived(e)
                   PROVE  \/ InRing(e)'
                          \/ InHand(e)'
                          \/ e \in lost'
                          \/ got'[e] = Size[e]
        BY <1>4, <3>1 DEF Arrived
      <3>3. InRing(e) \/ InHand(e) \/ e \in lost \/ got[e] = Size[e]
        BY DEF ConservationInv, Conservation, Arrived
      <3>4. CASE e = p.id
        BY <3>2, <3>4
      <3>5. CASE e # p.id
        BY <1>4, <1>6, <1>7, <3>3, <3>5
      <3> QED
        BY <3>4, <3>5
    <2> QED
      BY <1>9, <2>1, <2>2, <2>3 DEF Conservation
  <1> QED
    BY <1>8, <1>10 DEF ConservationInv

\* The rest of a payload goes back to the end of the ring, or is lost.
LEMMA ConservationRequeue ==
  ASSUME TypeOK, ConservationInv, NEW q \in Receivers, RxRequeue(q)
  PROVE  ConservationInv'
  <1> DEFINE m == Len(receive_buffer)
  <1>1. PICK p \in Payload : p = udp_payload[q] /\ rxPc[q] = "requeue"
    BY DEF RxRequeue, TypeOK, HoldsPayload
  <1>2. /\ receive_buffer \in Seq(Payload)
        /\ m \in Nat
        /\ p.id \in Datagrams
    BY <1>1, LenProperties DEF TypeOK, Payload
  <1>3. /\ ~InRing(p.id)
        /\ \A r \in Receivers \ {q} :
              rxPc[r] \in HoldsPayload => udp_payload[r].id # p.id
        /\ Balanced(p)
        /\ Arrived(p.id)
    BY <1>1 DEF ConservationInv, Conservation, OnePayload, Arrivals, HoldsPayload
  <1>4. /\ UNCHANGED <<arrived, pktPc, pktPayload, got>>
        /\ rxPc'[q] \notin HoldsPayload
        /\ \A r \in Receivers \ {q} :
              udp_payload'[r] = udp_payload[r] /\ rxPc'[r] = rxPc[r]
        /\ Enqueue(p)
    BY <1>1 DEF RxRequeue, RxGoto, pktVars, TypeOK, HoldsPayload
  <1>5. \A e : InHand(e)' <=> InHand(e) /\ e # p.id
    BY <1>1, <1>3, <1>4 DEF InHand, HoldsPayload
  <1>6. \A e : Arrived(e)' <=> Arrived(e)
    BY <1>4 DEF Arrived
  <1>7. CASE receive_buffer' = Append(receive_buffer, p) /\ lost' = lost
    <2>1. /\ Len(receive_buffer') = m + 1
          /\ \A i \in 1 .. m : receive_buffer'[i] = receive_buffer[i]
          /\ receive_buffer'[m + 1] = p
      BY <1>2, <1>7, AppendFacts
    <2>2. \A e : InRing(e)' <=> InRing(e) \/ e = p.id
      BY <1>2, <2>1 DEF InRing
    <2>3. \A i \in 1 .. m : receive_buffer[i].id # p.id
      BY <1>3 DEF InRing
    <2>4. Arrivals'
      BY <1>2, <1>3, <1>4, <1>6, <1>7, <2>1 DEF ConservationInv, Arrivals
    <2>5. OnePayload'
      BY <1>2, <1>3, <1>4, <2>1, <2>2, <2>3
         DEF ConservationInv, Conservation, OnePayload
    <2>6. \A i \in 1 .. Len(receive_buffer') : Balanced(receive_buffer[i])'
      BY <1>2, <1>3, <1>4, <1>7, <2>1 DEF ConservationInv, Conservation, Balanced
    <2>7. \A r \in Receivers :
            rxPc'[r] \in HoldsPayload => Balanced(udp_payload[r])'
      BY <1>4, <1>7 DEF ConservationInv, Conservation, Balanced
    <2>8. Conservation'
      BY <1>4, <1>5, <1>7, <2>2, <2>5, <2>6, <2>7
         DEF ConservationInv, Conservation
    <2> QED
      BY <2>4, <2>8 DEF ConservationInv
  <1>8. CASE receive_buffer' = receive_buffer /\ lost' = lost \cup {p.id}
    <2>1. \A e : InRing(e)' <=> InRing(e)
      BY <1>8 DEF InRing
    <2>2. Arrivals'
      BY <1>3, <1>4, <1>6, <1>8 DEF ConservationInv, Arrivals
    <2>3. OnePayload'
      BY <1>4, <1>8, <2>1 DEF ConservationInv, Conservation, OnePayload
    <2>4. \A i \in 1 .. Len(receive_buffer') : Balanced(receive_buffer[i])'
      BY <1>3, <1>4, <1>8 DEF ConservationInv, Conservation, Balanced, InRing
    <2>5. \A r \in Receivers :
            rxPc'[r] \in HoldsPayload => Balanced(udp_payload[r])'
      BY <1>3, <1>4, <1>8 DEF ConservationInv, Conservation, Balanced
    <2>6. Conservation'
      BY <1>4, <1>5, <1>8, <2>1, <2>3, <2>4, <2>5
         DEF ConservationInv, Conservation
    <2> QED
      BY <2>2, <2>6 DEF ConservationInv
  <1> QED
    BY <1>4, <1>7, <1>8 DEF Enqueue

LEMMA ConservationHolds == SafeSpec => []ConservationInv
<1>1. Init => ConservationInv
  BY DEF Init, ConservationInv, Arrivals, Conservation, OnePayload, InRing,
         InHand, Arrived, HoldsPayload
<1>2. TypeOK /\ ConservationInv /\ [Next]_vars => ConservationInv'
  <2> SUFFICES ASSUME TypeOK, ConservationInv, [Next]_vars PROVE ConservationInv'
    OBVIOUS
  <2>1. CASE UNCHANGED vars
    BY <2>1, ConservationFrame DEF vars
  <2>2. ASSUME NEW d \in Datagrams, PktArrive(d) PROVE ConservationInv'
    BY <2>2, ConservationFrame DEF PktArrive, Arrived, readerVars
  <2>3. CASE PktEnqueue
    BY <2>3, ConservationPktEnqueue
  <2>4. CASE PktLock \/ PktUnlock
    BY <2>4, ConservationFrame DEF PktLock, PktUnlock, readerVars
  <2>5. CASE PktSignal
    BY <2>5, ConservationFrame DEF PktSignal, Asleep, HoldsPayload, TypeOK
  <2>6. ASSUME NEW r \in Receivers,
               RxCall(r) \/ RxLock(r) \/ RxWait(r) \/ RxSpuriousWakeup(r)
                 \/ RxUnlock(r)
        PROVE  ConservationInv'
    BY <2>6, ConservationFrame
       DEF RxCall, RxLock, RxWait, RxSpuriousWakeup, RxUnlock, RxGoto, pktVars,
           HoldsPayload, TypeOK
  <2>7. ASSUME NEW r \in Receivers, RxDequeue(r) PROVE ConservationInv'
    <3>1. CASE receive_buffer = <<>>
      BY <2>7, <3>1, ConservationFrame
         DEF RxDequeue, RxGoto, pktVars, HoldsPayload, TypeOK
    <3> QED
      BY <2>7, <3>1, ConservationDequeue
  <2>8. ASSUME NEW r \in Receivers, RxCopyAll(r) \/ RxCopyPart(r)
        PROVE  ConservationInv'
    BY <2>8, ConservationCopy
  <2>9. ASSUME NEW r \in Receivers, RxRequeue(r) PROVE ConservationInv'
    BY <2>9, ConservationRequeue
  <2>10. ASSUME NEW r \in Receivers, RxAbort(r) PROVE ConservationInv'
    BY <2>10, ConservationFrame DEF RxAbort, pktVars, readerVars
  <2> QED
    BY <2>1, <2>2, <2>3, <2>4, <2>5, <2>6, <2>7, <2>8, <2>9, <2>10, StepCases
<1> QED
  BY <1>1, <1>2, TypeCorrect, PTL DEF SafeSpec

\* No byte is duplicated or dropped between hz_process_udp and the callers of
\* hz_receive_from, however many of them read the socket at once: each payload
\* is at one place, and what it carries is what its readers still miss.
THEOREM NothingDuplicated == SafeSpec => []Conservation
  BY ConservationHolds, PTL DEF ConservationInv

-----------------------------------------------------------------------------
(***************************************************************************)
(* The queue: the ring, the mutex and the condition variable make the one  *)
(* of DatagramQueue.  Its fairness is left to model checking.              *)
(***************************************************************************)
\* What the readers do with their payloads, as the queue sees it.
stages == [r \in Receivers |-> Stage(rxPc[r])]

LEMMA StageOf ==
  /\ \A pc \in {"out", "lock", "asleep", "dequeue", "wait"} : Stage(pc) = "idle"
  /\ \A pc \in {"unlock", "copy"} : Stage(pc) = "taken"
  /\ Stage("requeue") = "leftover"
  BY DEF Stage

\* A reader that goes from one place to another.
LEMMA StageGoes ==
  ASSUME TypeOK, NEW q \in Receivers, NEW pc, RxGoto(q, pc)
  PROVE  /\ stages[q] = Stage(rxPc[q])
         /\ stages' = [stages EXCEPT ![q] = Stage(pc)]
         /\ Stage(pc) = Stage(rxPc[q]) => stages' = stages
  BY DEF stages, RxGoto, TypeOK

\* What the queue does not see.
LEMMA Unseen ==
  ASSUME UNCHANGED <<arrived, receive_buffer, udp_payload, got, lost, process>>,
         stages' = stages
  PROVE  UNCHANGED Queue!vars
  BY DEF Queue!vars, stages

LEMMA Entering ==
  ASSUME NEW p, Enqueue(p)
  PROVE  Queue!Put(p)
  BY DEF Enqueue, Queue!Put

\* A reader at work on its payload.
LEMMA Finishing ==
  ASSUME TypeOK, NEW q \in Receivers,
         RxCopyAll(q) \/ RxCopyPart(q) \/ RxRequeue(q), process = "running",
         UNCHANGED process
  PROVE  Queue!Next
<1>1. Queue!ReadAll(q) \/ Queue!ReadSome(q) \/ Queue!PutBack(q)
  <2>1. CASE RxCopyAll(q)
    <3>1. stages[q] = "taken" /\ stages' = [stages EXCEPT ![q] = "idle"]
      BY <2>1, StageGoes, StageOf DEF RxCopyAll
    <3>. QED BY <2>1, <3>1 DEF RxCopyAll, Queue!ReadAll, stages
  <2>2. CASE RxCopyPart(q)
    <3>1. stages[q] = "taken" /\ stages' = [stages EXCEPT ![q] = "leftover"]
      BY <2>2, StageGoes, StageOf DEF RxCopyPart
    <3>. QED BY <2>2, <3>1 DEF RxCopyPart, Queue!ReadSome, stages
  <2>3. CASE RxRequeue(q)
    <3>1. stages[q] = "leftover" /\ stages' = [stages EXCEPT ![q] = "idle"]
      BY <2>3, StageGoes, StageOf DEF RxRequeue
    <3>2. Queue!Put(udp_payload[q])
      BY <2>3, Entering DEF RxRequeue
    <3>. QED BY <2>3, <3>1, <3>2 DEF RxRequeue, Queue!PutBack, stages
  <2>. QED BY <2>1, <2>2, <2>3
<1>2. Queue!Finish(q)
  BY <1>1 DEF Queue!Finish
<1>. QED BY <1>2 DEF Queue!Next

\* Each step of the threads is a step of the queue, or unseen by it.
LEMMA QueueStep ==
  ASSUME TypeOK, ConservationInv, [Next]_vars
  PROVE  [Queue!Next]_Queue!vars
<1>1. CASE UNCHANGED vars
  BY <1>1, Unseen DEF vars, stages
<1>2. ASSUME PktEnqueue, process = "running", UNCHANGED process PROVE Queue!Next
  <2> DEFINE d == pktPayload
  <2>1. /\ d \in Datagrams
        /\ \A i \in 1 .. Len(arrived) : arrived[i] # d
    BY <1>2 DEF PktEnqueue, TypeOK, ConservationInv, Arrivals, Arrived
  <2>2. Queue!Put([id |-> d, rest |-> Size[d]])
    BY <1>2, Entering DEF PktEnqueue, Whole
  <2>3. arrived' = Append(arrived, d) /\ UNCHANGED <<udp_payload, rxPc, got>>
    BY <1>2 DEF PktEnqueue, readerVars
  <2>4. Queue!Offer(d)
    BY <2>1, <2>2, <2>3 DEF Queue!Offer
  <2>. QED BY <1>2, <2>1, <2>4 DEF Queue!Next, Queue!OfferSome
<1>3. ASSUME NEW d \in Datagrams, PktArrive(d), UNCHANGED process
      PROVE  UNCHANGED Queue!vars
  BY <1>3, Unseen DEF PktArrive, readerVars, stages
<1>4. ASSUME PktLock \/ PktUnlock, UNCHANGED process PROVE UNCHANGED Queue!vars
  BY <1>4, Unseen DEF PktLock, PktUnlock, readerVars, stages
<1>5. ASSUME PktSignal, UNCHANGED process PROVE UNCHANGED Queue!vars
  <2>1. stages' = stages
    <3>1. ASSUME NEW r \in Asleep, rxPc' = [rxPc EXCEPT ![r] = "lock"]
          PROVE  stages' = stages
      <4>1. r \in Receivers /\ rxPc[r] = "asleep"
        BY <3>1 DEF Asleep
      <4>2. Stage("lock") = Stage(rxPc[r])
        BY <4>1, StageOf
      <4>. QED BY <3>1, <4>1, <4>2, StageGoes DEF RxGoto
    <3>. QED BY <1>5, <3>1 DEF PktSignal, stages
  <2>. QED BY <1>5, <2>1, Unseen DEF PktSignal
<1>6. ASSUME NEW q \in Receivers, UNCHANGED process,
             RxCall(q) \/ RxLock(q) \/ RxWait(q) \/ RxUnlock(q) \/ RxSpuriousWakeup(q)
      PROVE  UNCHANGED Queue!vars
  <2>1. \E pc : RxGoto(q, pc) /\ Stage(pc) = Stage(rxPc[q])
    BY <1>6, StageOf DEF RxCall, RxLock, RxWait, RxUnlock, RxSpuriousWakeup
  <2>2. stages' = stages
    BY <2>1, StageGoes
  <2>. QED BY <1>6, <2>2, Unseen
           DEF RxCall, RxLock, RxWait, RxUnlock, RxSpuriousWakeup
<1>7. ASSUME NEW q \in Receivers, RxDequeue(q), process = "running", UNCHANGED process
      PROVE  [Queue!Next]_Queue!vars
  <2>1. CASE receive_buffer = <<>>
    <3>1. stages' = stages
      BY <1>7, <2>1, StageGoes, StageOf DEF RxDequeue
    <3>. QED BY <1>7, <2>1, <3>1, Unseen DEF RxDequeue
  <2>2. CASE receive_buffer # <<>>
    <3>1. stages[q] = "idle" /\ stages' = [stages EXCEPT ![q] = "taken"]
      BY <1>7, <2>2, StageGoes, StageOf DEF RxDequeue
    <3>2. Queue!Take(q)
      BY <1>7, <2>2, <3>1 DEF RxDequeue, Queue!Take, stages
    <3>. QED BY <1>7, <3>2 DEF Queue!Next, Queue!TakeSome
  <2>. QED BY <2>1, <2>2
<1>8. ASSUME NEW q \in Receivers, RxAbort(q) PROVE Queue!Next
  <2>1. stages[q] = "taken" /\ stages' = stages
    BY <1>8, StageOf DEF RxAbort, readerVars, stages
  <2>2. Queue!Die(q)
    BY <1>8, <2>1 DEF RxAbort, readerVars, Cut, Queue!Die, stages
  <2>. QED BY <2>2 DEF Queue!Next
<1>. QED BY <1>1, <1>2, <1>3, <1>4, <1>5, <1>6, <1>7, <1>8, Finishing
         DEF Next, PktStep, RxStep, Environment, Dead

\* hz_process_udp and hz_receive_from together make the bounded queue.
THEOREM MakesTheQueue == SafeSpec => Queue!SafeSpec
<1>1. Init => Queue!Init
  BY StageOf DEF Init, Queue!Init
<1>2. TypeOK /\ ConservationInv /\ [Next]_vars => [Queue!Next]_Queue!vars
  BY QueueStep
<1>. QED BY <1>1, <1>2, TypeCorrect, ConservationHolds, PTL DEF SafeSpec, Queue!SafeSpec

-----------------------------------------------------------------------------
(***************************************************************************)
(* The order.                                                              *)
(***************************************************************************)
\* The ring holds what nobody has read from in the order it came, and a rest
\* that goes back to the ring has been read from.
RingInOrder ==
  \A a, b \in 1 .. Len(receive_buffer), i, j \in 1 .. Len(arrived) :
    /\ a < b
    /\ got[receive_buffer[a].id] = 0 /\ got[receive_buffer[b].id] = 0
    /\ receive_buffer[a].id = arrived[i] /\ receive_buffer[b].id = arrived[j]
    => i < j

RestsRead ==
  \A r \in Receivers : rxPc[r] = "requeue" => got[udp_payload[r].id] # 0

OrderInv == RingInOrder /\ RestsRead /\ FirstReadInOrder

\* Steps that move no payload.
LEMMA OrderFrame ==
  ASSUME OrderInv, UNCHANGED <<arrived, receive_buffer, udp_payload, got, lost>>,
         \A r \in Receivers : rxPc'[r] = "requeue" => rxPc[r] = "requeue"
  PROVE  OrderInv'
<1>1. \A d : Unread(d)' <=> Unread(d)
  BY DEF Unread, InRing
<1>2. RingInOrder' /\ RestsRead'
  BY DEF OrderInv, RingInOrder, RestsRead
<1>3. FirstReadInOrder'
  BY <1>1 DEF OrderInv, FirstReadInOrder
<1>. QED BY <1>2, <1>3 DEF OrderInv

\* A new datagram enters behind all others, or is lost.
LEMMA OrderPktEnqueue ==
  ASSUME TypeOK, ConservationInv, OrderInv, PktEnqueue
  PROVE  OrderInv'
<1> DEFINE n == Len(arrived)
           m == Len(receive_buffer)
<1>0. PICK d \in Datagrams : d = pktPayload
  BY DEF PktEnqueue, TypeOK
<1>1. /\ d \in Datagrams /\ ~Arrived(d) /\ got[d] = 0
      /\ arrived \in Seq(Datagrams) /\ arrived' = Append(arrived, d)
      /\ receive_buffer \in Seq(Payload)
      /\ UNCHANGED <<udp_payload, got, rxPc>>
      /\ Whole(d) \in Payload /\ Whole(d).id = d
      /\ Enqueue(Whole(d))
  BY <1>0, SizeAssumption DEF PktEnqueue, readerVars, TypeOK, ConservationInv, Arrivals,
                              Whole, Payload
<1>2. /\ n \in Nat /\ Len(arrived') = n + 1
      /\ \A i \in 1 .. n : arrived'[i] = arrived[i] /\ arrived[i] # d
      /\ arrived'[n + 1] = d
  BY <1>1, AppendFacts, LenProperties DEF Arrived
<1>3. \A a \in 1 .. m : receive_buffer[a].id # d
  BY <1>1 DEF ConservationInv, Arrivals
<1>4. RestsRead'
  BY <1>1 DEF OrderInv, RestsRead
<1>5. CASE receive_buffer' = Append(receive_buffer, Whole(d)) /\ lost' = lost
  <2>1. /\ m \in Nat /\ Len(receive_buffer') = m + 1
        /\ \A a \in 1 .. m : receive_buffer'[a] = receive_buffer[a]
        /\ receive_buffer'[m + 1] = Whole(d)
    BY <1>1, <1>5, AppendFacts, LenProperties
  <2>2. RingInOrder'
    <3> SUFFICES ASSUME NEW a \in 1 .. m + 1, NEW b \in 1 .. m + 1,
                        NEW i \in 1 .. n + 1, NEW j \in 1 .. n + 1, a < b,
                        got[receive_buffer'[a].id] = 0, got[receive_buffer'[b].id] = 0,
                        receive_buffer'[a].id = arrived'[i],
                        receive_buffer'[b].id = arrived'[j]
                 PROVE  i < j
      <4>1. got' = got /\ Len(arrived') = n + 1 /\ Len(receive_buffer') = m + 1
        BY <1>1, <1>2, <2>1
      <4>. QED BY <4>1 DEF RingInOrder
    <3>1. a \in 1 .. m /\ i \in 1 .. n /\ receive_buffer[a].id = arrived[i]
      BY <1>2, <1>3, <2>1
    <3>2. CASE b = m + 1
      BY <1>1, <1>2, <2>1, <3>1, <3>2
    <3>3. CASE b \in 1 .. m
      <4>1. j \in 1 .. n /\ receive_buffer[b].id = arrived[j]
        BY <1>2, <1>3, <2>1, <3>3
      <4>. QED BY <2>1, <3>1, <3>3, <4>1 DEF OrderInv, RingInOrder
    <3>4. b = m + 1 \/ b \in 1 .. m
      BY <2>1
    <3>. QED BY <3>2, <3>3, <3>4
  <2>3. Unread(d)' /\ \A e : e # d => (Unread(e)' <=> Unread(e))
    <3>1. InRing(d)'
      BY <1>1, <2>1 DEF InRing
    <3>2. ASSUME NEW e, e # d PROVE InRing(e)' <=> InRing(e)
      <4>1. Whole(d).id # e /\ 1 .. m + 1 = (1 .. m) \cup {m + 1}
        BY <1>1, <2>1, <3>2
      <4>. QED BY <2>1, <4>1 DEF InRing
    <3>. QED BY <1>1, <3>1, <3>2 DEF Unread
  <2>4. FirstReadInOrder'
    <3> SUFFICES ASSUME NEW i \in 1 .. n + 1, NEW j \in 1 .. n + 1,
                        i < j, Unread(arrived[i])'
                 PROVE  \/ Unread(arrived[j])'
                        \/ arrived'[j] \in lost' /\ got'[arrived'[j]] = 0
      BY <1>2 DEF FirstReadInOrder
    <3>1. i \in 1 .. n /\ arrived'[i] = arrived[i] /\ arrived[i] # d /\ Unread(arrived[i])
      BY <1>2, <2>3
    <3>2. CASE j = n + 1
      BY <1>2, <2>3, <3>2
    <3>3. CASE j \in 1 .. n
      BY <1>1, <1>2, <1>5, <2>3, <3>1, <3>3 DEF OrderInv, FirstReadInOrder
    <3>. QED BY <1>2, <3>2, <3>3
  <2>. QED BY <1>4, <2>2, <2>4 DEF OrderInv
<1>6. CASE receive_buffer' = receive_buffer /\ lost' = lost \cup {d}
  <2>1. RingInOrder'
    BY <1>1, <1>2, <1>3, <1>6 DEF OrderInv, RingInOrder
  <2>2. \A e : Unread(e)' <=> Unread(e)
    BY <1>1, <1>6 DEF Unread, InRing
  <2>3. ~Unread(d)
    BY <1>3 DEF Unread, InRing
  <2>4. FirstReadInOrder'
    BY <1>1, <1>2, <1>6, <2>2, <2>3 DEF OrderInv, FirstReadInOrder
  <2>. QED BY <1>4, <2>1, <2>4 DEF OrderInv
<1>. QED BY <1>1, <1>5, <1>6 DEF Enqueue, Whole

\* The payload at the front is taken: of what nobody has read from it is the
\* one that came first.
LEMMA OrderDequeue ==
  ASSUME TypeOK, ConservationInv, OrderInv, NEW q \in Receivers, RxDequeue(q),
         receive_buffer # <<>>
  PROVE  OrderInv'
<1> DEFINE m == Len(receive_buffer)
<1>0. PICK h \in Payload : h = Head(receive_buffer)
  BY TailFacts DEF TypeOK
<1>1. /\ m \in Nat \ {0} /\ h = receive_buffer[1]
      /\ Len(receive_buffer') = m - 1
      /\ \A a \in 1 .. m - 1 : receive_buffer'[a] = receive_buffer[a + 1]
      /\ UNCHANGED <<arrived, got, lost>>
      /\ \A r \in Receivers : rxPc'[r] = "requeue" =>
                               rxPc[r] = "requeue" /\ udp_payload'[r] = udp_payload[r]
  <2>1. /\ receive_buffer' = Tail(receive_buffer)
        /\ rxPc' = [rxPc EXCEPT ![q] = "unlock"]
        /\ udp_payload' = [udp_payload EXCEPT ![q] = h]
        /\ UNCHANGED <<arrived, got, lost>>
    BY <1>0 DEF RxDequeue, RxGoto
  <2>2. \A r \in Receivers : rxPc'[r] = "requeue" => r # q
    BY <2>1 DEF TypeOK
  <2>3. \A r \in Receivers \ {q} : rxPc'[r] = rxPc[r] /\ udp_payload'[r] = udp_payload[r]
    BY <2>1 DEF TypeOK
  <2>4. /\ m \in Nat \ {0} /\ h = receive_buffer[1]
        /\ Len(receive_buffer') = m - 1
        /\ \A a \in 1 .. m - 1 : receive_buffer'[a] = receive_buffer[a + 1]
    BY <1>0, <2>1, TailFacts DEF TypeOK
  <2>. QED BY <2>1, <2>2, <2>3, <2>4
<1>2. RestsRead'
  BY <1>1 DEF OrderInv, RestsRead
<1>3. RingInOrder'
  <2> SUFFICES ASSUME NEW a \in 1 .. m - 1, NEW b \in 1 .. m - 1,
                      NEW i \in 1 .. Len(arrived), NEW j \in 1 .. Len(arrived), a < b,
                      got[receive_buffer'[a].id] = 0, got[receive_buffer'[b].id] = 0,
                      receive_buffer'[a].id = arrived[i],
                      receive_buffer'[b].id = arrived[j]
               PROVE  i < j
    <3>1. got' = got /\ arrived' = arrived /\ Len(receive_buffer') = m - 1
      BY <1>1
    <3>. QED BY <3>1 DEF RingInOrder
  <2>1. a + 1 \in 1 .. m /\ b + 1 \in 1 .. m /\ a + 1 < b + 1
    BY <1>1
  <2>2. receive_buffer'[a] = receive_buffer[a + 1] /\ receive_buffer'[b] = receive_buffer[b + 1]
    BY <1>1
  <2>. QED BY <2>1, <2>2 DEF OrderInv, RingInOrder
<1>4. \A e : e # h.id => (InRing(e)' <=> InRing(e))
  <2>1. ASSUME NEW a \in 1 .. m, receive_buffer[a].id # h.id
        PROVE  \E c \in 1 .. m - 1 : receive_buffer'[c] = receive_buffer[a]
    <3>1. a # 1
      BY <1>1, <2>1
    <3>2. a - 1 \in 1 .. m - 1 /\ receive_buffer'[a - 1] = receive_buffer[a]
      BY <1>1, <3>1
    <3>. QED BY <3>2
  <2>2. ASSUME NEW c \in 1 .. m - 1
        PROVE  \E a \in 1 .. m : receive_buffer[a] = receive_buffer'[c]
    <3>1. c + 1 \in 1 .. m /\ receive_buffer[c + 1] = receive_buffer'[c]
      BY <1>1
    <3>. QED BY <3>1
  <2>3. Len(receive_buffer') = m - 1
    BY <1>1
  <2>. SUFFICES ASSUME NEW e, e # h.id PROVE InRing(e)' <=> InRing(e)
    OBVIOUS
  <2>4. InRing(e) => InRing(e)'
    BY <2>1, <2>3 DEF InRing
  <2>5. InRing(e)' => InRing(e)
    BY <2>2, <2>3 DEF InRing
  <2>. QED BY <2>4, <2>5
<1>5. ~ InRing(h.id)'
  <2>1. \A a \in 1 .. m - 1 : receive_buffer[a + 1].id # h.id
    BY <1>1 DEF ConservationInv, Conservation, OnePayload
  <2>. QED BY <1>1, <2>1 DEF InRing
<1>6. FirstReadInOrder'
  <2> SUFFICES ASSUME NEW i \in 1 .. Len(arrived), NEW j \in 1 .. Len(arrived),
                      i < j, Unread(arrived[i])'
               PROVE  \/ Unread(arrived[j])'
                      \/ arrived[j] \in lost /\ got[arrived[j]] = 0
    BY <1>1 DEF FirstReadInOrder
  <2>1. arrived[i] # h.id /\ Unread(arrived[i])
    BY <1>1, <1>4, <1>5 DEF Unread
  <2>2. \/ Unread(arrived[j])
        \/ arrived[j] \in lost /\ got[arrived[j]] = 0
    BY <2>1 DEF OrderInv, FirstReadInOrder
  <2>3. CASE arrived[j] # h.id
    BY <1>1, <1>4, <2>2, <2>3 DEF Unread
  <2>4. CASE arrived[j] = h.id /\ Unread(arrived[j])
    <3>1. PICK b \in 1 .. m : receive_buffer[b].id = arrived[i]
      BY <2>1 DEF Unread, InRing
    <3>2. 1 < b /\ got[receive_buffer[b].id] = 0 /\ got[receive_buffer[1].id] = 0
      BY <1>1, <2>1, <2>4, <3>1 DEF Unread
    <3>3. j < i
      BY <1>1, <2>4, <3>1, <3>2 DEF OrderInv, RingInOrder
    <3>. QED BY <3>3, LenProperties DEF TypeOK
  <2>. QED BY <2>2, <2>3, <2>4
<1>. QED BY <1>2, <1>3, <1>6 DEF OrderInv

\* What a reader copies belongs to a datagram that is not on the ring.
LEMMA OrderCopy ==
  ASSUME TypeOK, ConservationInv, OrderInv, NEW q \in Receivers,
         RxCopyAll(q) \/ RxCopyPart(q)
  PROVE  OrderInv'
<1> DEFINE id == udp_payload[q].id
<1>1. /\ UNCHANGED <<arrived, receive_buffer, lost>>
      /\ rxPc[q] = "copy" /\ udp_payload[q] \in Payload
      /\ ~InRing(id) /\ id \notin lost
      /\ \A e \in Datagrams \ {id} : got'[e] = got[e]
      /\ \A r \in Receivers \ {q} : /\ udp_payload'[r] = udp_payload[r]
                                    /\ rxPc'[r] = rxPc[r]
  <2>1. rxPc[q] = "copy" /\ udp_payload[q] \in Payload
    BY DEF RxCopyAll, RxCopyPart, TypeOK, HoldsPayload
  <2>2. ~InRing(id) /\ id \notin lost
    BY <2>1 DEF ConservationInv, Conservation, OnePayload, Balanced, HoldsPayload
  <2>. QED BY <2>1, <2>2 DEF RxCopyAll, RxCopyPart, RxGoto, TypeOK
<1>2. \A r \in Receivers \ {q} :
        rxPc[r] \in HoldsPayload => udp_payload[r].id \in Datagrams \ {id}
  BY <1>1 DEF ConservationInv, Conservation, OnePayload, HoldsPayload, TypeOK, Payload
<1>3. rxPc'[q] = "requeue" => got'[udp_payload'[q].id] # 0
  <2> SUFFICES ASSUME RxCopyPart(q) PROVE got'[udp_payload'[q].id] # 0
    BY DEF RxCopyAll, RxGoto, TypeOK
  <2>1. /\ udp_payload'[q].id = id
        /\ id \in Datagrams /\ got[id] \in Nat /\ got'[id] = got[id] + BufLen
    BY <1>1 DEF RxCopyPart, TypeOK, Payload
  <2>. QED BY <2>1, BufLenAssumption
<1>4. RestsRead'
  BY <1>1, <1>2, <1>3 DEF OrderInv, RestsRead, HoldsPayload
<1>5. \A a \in 1 .. Len(receive_buffer) :
        receive_buffer[a].id \in Datagrams /\ receive_buffer[a].id # id
  <2>1. \A a \in 1 .. Len(receive_buffer) : receive_buffer[a] \in Payload
    BY ElementOfSeq DEF TypeOK
  <2>. QED BY <1>1, <2>1 DEF InRing, Payload
<1>6. RingInOrder'
  BY <1>1, <1>5 DEF OrderInv, RingInOrder
<1>7. \A e : Unread(e)' <=> Unread(e)
  BY <1>1, <1>5 DEF Unread, InRing
<1>8. \A e \in lost : got'[e] = got[e]
  BY <1>1 DEF TypeOK
<1>9. FirstReadInOrder'
  BY <1>1, <1>7, <1>8 DEF OrderInv, FirstReadInOrder
<1>. QED BY <1>4, <1>6, <1>9 DEF OrderInv

\* What goes back to the ring has been read from.
LEMMA OrderRequeue ==
  ASSUME TypeOK, ConservationInv, OrderInv, NEW q \in Receivers, RxRequeue(q)
  PROVE  OrderInv'
<1> DEFINE p == udp_payload[q]
           m == Len(receive_buffer)
<1>1. /\ UNCHANGED <<arrived, got>>
      /\ p \in Payload /\ got[p.id] # 0
      /\ Enqueue(p) /\ lost \subseteq lost'
      /\ receive_buffer \in Seq(Payload)
      /\ \A r \in Receivers : rxPc'[r] = "requeue" =>
                               rxPc[r] = "requeue" /\ udp_payload'[r] = udp_payload[r]
  BY DEF RxRequeue, RxGoto, Enqueue, OrderInv, RestsRead, TypeOK, HoldsPayload
<1>2. RestsRead'
  BY <1>1 DEF OrderInv, RestsRead
<1>3. RingInOrder' /\ (\A e : Unread(e)' <=> Unread(e))
  <2>1. CASE receive_buffer' = Append(receive_buffer, p)
    <3>1. /\ m \in Nat /\ Len(receive_buffer') = m + 1
          /\ \A a \in 1 .. m : receive_buffer'[a] = receive_buffer[a]
          /\ receive_buffer'[m + 1] = p
      BY <1>1, <2>1, AppendFacts, LenProperties
    <3>2. got'[p.id] # 0
      BY <1>1
    <3>. HIDE DEF p
    <3>3. RingInOrder'
      <4> SUFFICES ASSUME NEW a \in 1 .. m + 1, NEW b \in 1 .. m + 1,
                          NEW i \in 1 .. Len(arrived), NEW j \in 1 .. Len(arrived), a < b,
                          got[receive_buffer'[a].id] = 0, got[receive_buffer'[b].id] = 0,
                          receive_buffer'[a].id = arrived[i],
                          receive_buffer'[b].id = arrived[j]
                   PROVE  i < j
        <5>1. got' = got /\ arrived' = arrived /\ Len(receive_buffer') = m + 1
          BY <1>1, <3>1
        <5>. QED BY <5>1 DEF RingInOrder
      <4>1. a \in 1 .. m /\ b \in 1 .. m
        BY <1>1, <3>1, <3>2
      <4>. QED BY <3>1, <4>1 DEF OrderInv, RingInOrder
    <3>4. ASSUME NEW e PROVE Unread(e)' <=> Unread(e)
      <4>1. CASE e = p.id
        BY <1>1, <3>2, <4>1 DEF Unread
      <4>2. CASE e # p.id
        <5>1. InRing(e)' <=> InRing(e)
          BY <3>1, <4>2 DEF InRing
        <5>. QED BY <1>1, <5>1 DEF Unread
      <4>. QED BY <4>1, <4>2
    <3>. QED BY <3>3, <3>4
  <2>2. CASE receive_buffer' = receive_buffer
    BY <1>1, <2>2 DEF OrderInv, RingInOrder, Unread, InRing
  <2>. QED BY <1>1, <2>1, <2>2 DEF Enqueue
<1>4. FirstReadInOrder'
  BY <1>1, <1>3 DEF OrderInv, FirstReadInOrder
<1>. QED BY <1>2, <1>3, <1>4 DEF OrderInv

\* Whatever the readers do with the rests of what they read in part, the first
\* reads follow the order of arrival.
THEOREM FirstReadsInOrder == SafeSpec => []FirstReadInOrder
<1>1. Init => OrderInv
  BY DEF Init, OrderInv, RingInOrder, RestsRead, FirstReadInOrder
<1>2. TypeOK /\ ConservationInv /\ OrderInv /\ [Next]_vars => OrderInv'
  <2> SUFFICES ASSUME TypeOK, ConservationInv, OrderInv, [Next]_vars PROVE OrderInv'
    OBVIOUS
  <2>1. CASE UNCHANGED vars
    BY <2>1, OrderFrame DEF vars
  <2>2. ASSUME NEW d \in Datagrams, PktArrive(d) PROVE OrderInv'
    BY <2>2, OrderFrame DEF PktArrive, readerVars
  <2>3. CASE PktLock \/ PktUnlock
    BY <2>3, OrderFrame DEF PktLock, PktUnlock, readerVars
  <2>4. CASE PktSignal
    BY <2>4, OrderFrame DEF PktSignal, Asleep, TypeOK
  <2>5. ASSUME NEW q \in Receivers,
               RxCall(q) \/ RxLock(q) \/ RxWait(q) \/ RxUnlock(q) \/ RxSpuriousWakeup(q)
        PROVE  OrderInv'
    BY <2>5, OrderFrame DEF RxCall, RxLock, RxWait, RxUnlock, RxSpuriousWakeup, RxGoto, TypeOK
  <2>6. ASSUME NEW q \in Receivers, RxDequeue(q) PROVE OrderInv'
    <3>1. CASE receive_buffer = <<>>
      BY <2>6, <3>1, OrderFrame DEF RxDequeue, RxGoto, TypeOK
    <3>. QED BY <2>6, <3>1, OrderDequeue
  <2>7. ASSUME NEW q \in Receivers, RxAbort(q) PROVE OrderInv'
    BY <2>7, OrderFrame DEF RxAbort, readerVars
  <2>. QED BY <2>1, <2>2, <2>3, <2>4, <2>5, <2>6, <2>7, StepCases,
              OrderPktEnqueue, OrderCopy, OrderRequeue
<1>. QED BY <1>1, <1>2, TypeCorrect, ConservationHolds, PTL DEF SafeSpec, OrderInv
=============================================================================
