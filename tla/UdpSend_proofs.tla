---------------------------- MODULE UdpSend_proofs ----------------------------
(***************************************************************************)
(* Proofs about UdpSend, for any number of sockets, datagrams and          *)
(* addresses, whatever the sizes of the rings and the burst.               *)
(***************************************************************************)
EXTENDS UdpSend, Places_proofs

-----------------------------------------------------------------------------
(***************************************************************************)
(* Types.                                                                  *)
(***************************************************************************)
OfSocket(s) == {d \in Datagrams : Socket[d] = s}

\* A datagram stays with its socket.
OnOwnSocket ==
  /\ \A s \in Sockets : send_buffer[s] \in Seq(OfSocket(s))
  /\ udp_payload # NULL => Socket[udp_payload] = info

\* An enqueue on a send_buffer, as the provers see it.
LEMMA EnqueueFacts ==
  ASSUME TypeOK, OnOwnSocket, NEW s \in Sockets, NEW d \in OfSocket(s), Enqueue(s, d)
  PROVE  /\ send_buffer' \in [Sockets -> Seq(Datagrams)]
         /\ \A z \in Sockets : /\ Len(send_buffer'[z]) <= Capacity
                               /\ send_buffer'[z] \in Seq(OfSocket(z))
                               /\ z # s => send_buffer'[z] = send_buffer[z]
         /\ \/ send_buffer'[s] = Append(send_buffer[s], d) /\ lost' = lost
            \/ send_buffer' = send_buffer /\ lost' = lost \cup {d}
         /\ lost' \subseteq Datagrams
<1>1. /\ send_buffer[s] \in Seq(Datagrams) /\ d \in Datagrams
      /\ send_buffer[s] \in Seq(OfSocket(s))
  BY DEF TypeOK, OnOwnSocket, OfSocket
<1>2. CASE Len(send_buffer[s]) < Capacity /\ lost' = lost
           /\ send_buffer' = [send_buffer EXCEPT ![s] = Append(@, d)]
  <2>1. /\ Append(send_buffer[s], d) \in Seq(Datagrams)
        /\ Append(send_buffer[s], d) \in Seq(OfSocket(s))
        /\ Len(Append(send_buffer[s], d)) = Len(send_buffer[s]) + 1
        /\ Len(send_buffer[s]) \in Nat
    BY <1>1, AppendProperties, LenProperties
  <2>2. /\ send_buffer'[s] = Append(send_buffer[s], d)
        /\ \A z \in Sockets : z # s => send_buffer'[z] = send_buffer[z]
        /\ send_buffer' \in [Sockets -> Seq(Datagrams)]
    BY <1>2, <2>1 DEF TypeOK
  <2>3. Len(send_buffer'[s]) <= Capacity
    BY <1>2, <2>1, <2>2, CapacityAssumption
  <2>. QED BY <1>2, <2>1, <2>2, <2>3 DEF TypeOK, OnOwnSocket
<1>3. CASE send_buffer' = send_buffer /\ lost' = lost \cup {d}
  BY <1>1, <1>3 DEF TypeOK, OnOwnSocket
<1>. QED BY <1>2, <1>3 DEF Enqueue

\* A frame for ring->out.
LEMMA PutOutFacts ==
  ASSUME TypeOK, NEW frame \in Datagrams \cup {Noise}, PutOut(frame)
  PROVE  /\ out' \in Seq(Datagrams \cup {Noise})
         /\ Len(out') <= OutCapacity
         /\ out' = Append(out, frame) \/ out' = out
         /\ Append(out, frame) # out
<1>1. out \in Seq(Datagrams \cup {Noise}) /\ Len(out) <= OutCapacity
  BY DEF TypeOK
<1>2. /\ Append(out, frame) \in Seq(Datagrams \cup {Noise})
      /\ Len(Append(out, frame)) = Len(out) + 1 /\ Len(out) \in Nat
  BY <1>1, AppendProperties, LenProperties
<1>3. CASE Len(out) < OutCapacity /\ out' = Append(out, frame)
  BY <1>2, <1>3, CapacityAssumption
<1>4. CASE out' = out
  BY <1>1, <1>2, <1>4
<1>. QED BY <1>3, <1>4 DEF PutOut

\* The first n in two parts.
LEMMA SplitFront ==
  ASSUME NEW T, NEW seq \in Seq(T), NEW n \in 0 .. Len(seq), NEW k \in 0 .. n
  PROVE  /\ SubSeq(seq, 1, k) \in Seq(T) /\ SubSeq(seq, k + 1, n) \in Seq(T)
         /\ SubSeq(seq, 1, n) = SubSeq(seq, 1, k) \o SubSeq(seq, k + 1, n)
<1> DEFINE front == SubSeq(seq, 1, n)
           a == SubSeq(seq, 1, k)
           b == SubSeq(seq, k + 1, n)
           a1 == SubSeq(front, 1, k)
           b1 == SubSeq(front, k + 1, Len(front))
<1>1. Len(seq) \in Nat /\ n \in Nat /\ n <= Len(seq) /\ k \in Nat /\ k <= n
  BY LenProperties
<1>2. front \in Seq(T) /\ Len(front) = n /\ \A i \in 1 .. n : front[i] = seq[i]
  BY <1>1, SubSeqProperties
<1>3. a \in Seq(T) /\ Len(a) = k /\ \A i \in 1 .. k : a[i] = seq[i]
  BY <1>1, SubSeqProperties
<1>4. b \in Seq(T) /\ Len(b) = n - k /\ \A i \in 1 .. n - k : b[i] = seq[k + i]
  BY <1>1, SubSeqProperties
<1>. HIDE DEF front, a, b
<1>5. a1 \in Seq(T) /\ Len(a1) = k /\ \A i \in 1 .. k : a1[i] = front[i]
  BY <1>1, <1>2, SubSeqProperties
<1>6. b1 \in Seq(T) /\ Len(b1) = n - k /\ \A i \in 1 .. n - k : b1[i] = front[k + i]
  BY <1>1, <1>2, SubSeqProperties
<1>7. front = a1 \o b1
  BY <1>1, <1>2, Split
<1>. HIDE DEF a1, b1
<1>8. a1 = a
  BY <1>1, <1>2, <1>3, <1>5, SeqEqual
<1>9. b1 = b
  <2>1. ASSUME NEW i \in 1 .. n - k PROVE b1[i] = b[i]
    <3>1. k + i \in 1 .. n
      BY <1>1
    <3>. QED BY <3>1, <1>2, <1>4, <1>6
  <2>. QED BY <1>4, <1>6, <2>1, SeqEqual
<1>. QED BY <1>3, <1>4, <1>7, <1>8, <1>9 DEF front, a, b

\* What a burst takes off ring->out.
LEMMA TransmitFacts ==
  ASSUME TypeOK, Transmit
  PROVE  \E sent, unsent, rest \in Seq(Datagrams \cup {Noise}) :
           /\ out = (sent \o unsent) \o rest /\ out' = rest
           /\ Len(rest) <= Len(out)
           /\ wire' = wire \o Only(sent, Datagrams)
           /\ Only(sent, Datagrams) \in Seq(Datagrams)
           /\ lost' = lost \cup (Elements(unsent) \cap Datagrams)
<1> DEFINE n == IF Len(out) < Burst THEN Len(out) ELSE Burst
           Frame == Datagrams \cup {Noise}
<1>1. out \in Seq(Frame) /\ Len(out) \in Nat
  BY LenProperties DEF TypeOK
<1>2. n \in 0 .. Len(out)
  BY <1>1, CapacityAssumption
<1>3. PICK k \in 0 .. n :
        /\ wire' = wire \o Only(SubSeq(out, 1, k), Datagrams)
        /\ lost' = lost \cup (Elements(SubSeq(out, k + 1, n)) \cap Datagrams)
        /\ out' = SubSeq(out, n + 1, Len(out))
  BY DEF Transmit
<1> DEFINE burst == SubSeq(out, 1, n)
           sent == SubSeq(out, 1, k)
           unsent == SubSeq(out, k + 1, n)
           rest == SubSeq(out, n + 1, Len(out))
<1>. HIDE DEF n, Frame
<1>4. rest \in Seq(Frame) /\ out = burst \o rest /\ Len(rest) = Len(out) - n
  BY <1>1, <1>2, Split
<1>5. sent \in Seq(Frame) /\ unsent \in Seq(Frame) /\ burst = sent \o unsent
  BY <1>1, <1>2, <1>3, SplitFront
<1>. HIDE DEF burst, sent, unsent, rest
<1>6. Len(rest) <= Len(out)
  BY <1>1, <1>2, <1>4
<1>7. Only(sent, Datagrams) \in Seq(Datagrams)
  <2>1. Only(sent, Datagrams) \in Seq(Frame \cap Datagrams)
    BY <1>5, OnlyType
  <2>2. Frame \cap Datagrams = Datagrams
    BY DEF Frame
  <2>. QED BY <2>1, <2>2
<1>8. /\ out' = rest /\ wire' = wire \o Only(sent, Datagrams)
      /\ lost' = lost \cup (Elements(unsent) \cap Datagrams)
  BY <1>3 DEF sent, unsent, rest
<1>9. out = (sent \o unsent) \o rest
  BY <1>4, <1>5
<1>. QED BY <1>4, <1>5, <1>6, <1>7, <1>8, <1>9 DEF Frame

TypeInv == TypeOK /\ OnOwnSocket

LEMMA TypeInvHolds == SafeSpec => []TypeInv
<1>1. Init => TypeInv
  <2> SUFFICES ASSUME Init PROVE TypeInv
    OBVIOUS
  <2>1. \A T : <<>> \in Seq(T) /\ Len(<<>>) = 0
    BY EmptySeq
  <2>2. \A s \in Sockets : send_buffer[s] = <<>>
    BY DEF Init
  <2>3. send_buffer \in [Sockets -> Seq(Datagrams)]
    BY <2>1 DEF Init
  <2>4. 0 <= Capacity /\ 0 <= OutCapacity /\ info \in 0 .. NumSockets
    BY CapacityAssumption, SocketsAssumption DEF Init
  <2>. QED BY <2>1, <2>2, <2>3, <2>4, DatagramsAssumption DEF Init, TypeInv, TypeOK, OnOwnSocket
<1>2. TypeInv /\ [Next]_vars => TypeInv'
  <2> SUFFICES ASSUME TypeInv, [Next]_vars PROVE TypeInv'
    OBVIOUS
  <2> USE DEF TypeInv
  <2>1. ASSUME NEW d \in Datagrams, SendTo(d) PROVE TypeInv'
    <3>1. Socket[d] \in Sockets /\ d \in OfSocket(Socket[d]) /\ Enqueue(Socket[d], d)
      BY <2>1, DatagramsAssumption DEF SendTo, OfSocket
    <3>2. called' \in Seq(Datagrams)
      BY <2>1 DEF SendTo, TypeOK
    <3>3. UNCHANGED <<info, udp_payload, tableVars, out, wire>>
      BY <2>1 DEF SendTo
    <3>. QED BY <3>1, <3>2, <3>3, EnqueueFacts DEF TypeOK, OnOwnSocket, tableVars
  <2>2. CASE Learn
    BY <2>2 DEF Learn, Table!Learn, TypeOK, OnOwnSocket
  <2>3. CASE Forget
    BY <2>3 DEF Forget, Table!Forget, TypeOK, OnOwnSocket
  <2>4. CASE Sweep
    BY <2>4, SocketsAssumption DEF Sweep, TypeOK, OnOwnSocket, tableVars
  <2>5. CASE Dequeue
    <3>1. info \in Sockets /\ info \in 0 .. NumSockets
      BY <2>5, SocketsAssumption DEF Dequeue, TypeOK, Sockets
    <3>2. CASE send_buffer[info] = <<>> /\ info' = 0 /\ UNCHANGED <<udp_payload, send_buffer>>
      BY <2>5, <3>2, SocketsAssumption DEF Dequeue, TypeOK, OnOwnSocket, tableVars
    <3>3. CASE /\ send_buffer[info] # <<>>
               /\ udp_payload' = Head(send_buffer[info])
               /\ send_buffer' = [send_buffer EXCEPT ![info] = Tail(@)]
               /\ info' = info
      <4>1. /\ Head(send_buffer[info]) \in OfSocket(info)
            /\ Tail(send_buffer[info]) \in Seq(OfSocket(info))
            /\ Tail(send_buffer[info]) \in Seq(Datagrams)
            /\ Len(Tail(send_buffer[info])) = Len(send_buffer[info]) - 1
            /\ Len(send_buffer[info]) \in Nat /\ Len(send_buffer[info]) <= Capacity
        BY <3>1, <3>3, HeadTailProperties, LenProperties DEF TypeOK, OnOwnSocket
      <4>2. /\ send_buffer' \in [Sockets -> Seq(Datagrams)]
            /\ \A z \in Sockets : Len(send_buffer'[z]) <= Capacity
                                  /\ send_buffer'[z] \in Seq(OfSocket(z))
        BY <3>1, <3>3, <4>1, CapacityAssumption DEF TypeOK, OnOwnSocket
      <4>3. udp_payload' \in Datagrams /\ Socket[udp_payload'] = info /\ info' # 0
        BY <2>5, <3>3, <4>1 DEF OfSocket, Dequeue
      <4>. QED BY <2>5, <3>1, <3>3, <4>2, <4>3 DEF Dequeue, TypeOK, OnOwnSocket, tableVars
    <3>. QED BY <2>5, <3>2, <3>3 DEF Dequeue
  <2>6. CASE SendFrame
    <3>1. /\ info' \in 0 .. NumSockets
          /\ out' \in Seq(Datagrams \cup {Noise}) /\ Len(out') <= OutCapacity
      BY <2>6, PutOutFacts, SocketsAssumption DEF SendFrame, NextSocket, TypeOK
    <3>2. lost' \subseteq Datagrams
      BY <2>6 DEF SendFrame, TypeOK
    <3>. QED BY <2>6, <3>1, <3>2 DEF SendFrame, TypeOK, OnOwnSocket, tableVars
  <2>7. CASE PutBack
    <3>1. /\ info' \in 0 .. NumSockets
          /\ out' \in Seq(Datagrams \cup {Noise}) /\ Len(out') <= OutCapacity
      BY <2>7, PutOutFacts, SocketsAssumption DEF PutBack, NextSocket, TypeOK
    <3>2. info \in Sockets /\ udp_payload \in OfSocket(info)
      BY <2>7, DatagramsAssumption DEF PutBack, TypeOK, OnOwnSocket, OfSocket, Sockets
    <3>3. /\ Enqueue(info, udp_payload) /\ udp_payload' = NULL
          /\ UNCHANGED <<called, tableVars, wire>>
      BY <2>7 DEF PutBack
    <3>. QED BY <3>1, <3>2, <3>3, EnqueueFacts DEF TypeOK, OnOwnSocket, tableVars
  <2>8. CASE Answer \/ TimerRequest
    <3>1. PutOut(Noise) /\ UNCHANGED <<called, send_buffer, info, udp_payload, tableVars, wire, lost>>
      BY <2>8 DEF Answer, TimerRequest
    <3>2. out' \in Seq(Datagrams \cup {Noise}) /\ Len(out') <= OutCapacity
      BY <3>1, PutOutFacts
    <3>. QED BY <3>1, <3>2 DEF TypeOK, OnOwnSocket, tableVars
  <2>9. CASE Transmit
    <3>1. /\ out' \in Seq(Datagrams \cup {Noise}) /\ Len(out') <= Len(out)
          /\ wire' \in Seq(Datagrams)
      <4>1. PICK sent, unsent, rest \in Seq(Datagrams \cup {Noise}) :
              /\ out' = rest /\ Len(rest) <= Len(out)
              /\ wire' = wire \o Only(sent, Datagrams)
              /\ Only(sent, Datagrams) \in Seq(Datagrams)
        BY <2>9, TransmitFacts
      <4>2. wire \in Seq(Datagrams)
        BY DEF TypeOK
      <4>. QED BY <4>1, <4>2, ConcatProperties
    <3>2. Len(out') <= OutCapacity
      BY <3>1, LenProperties, CapacityAssumption DEF TypeOK
    <3>3. lost' \subseteq Datagrams
      BY <2>9, TransmitFacts DEF TypeOK
    <3>4. UNCHANGED <<called, send_buffer, info, udp_payload, tableVars>>
      BY <2>9 DEF Transmit
    <3>. QED BY <3>1, <3>2, <3>3, <3>4 DEF TypeOK, OnOwnSocket, tableVars
  <2>10. CASE UNCHANGED vars
    BY <2>10 DEF vars, tableVars, TypeOK, OnOwnSocket
  <2>. QED
    BY <2>1, <2>2, <2>3, <2>4, <2>5, <2>6, <2>7, <2>8, <2>9, <2>10 DEF Next, Process
<1>. QED BY <1>1, <1>2, PTL DEF SafeSpec

\* No ring is ever fuller than its slots, and the sweep holds a payload only
\* while it is at a socket.
THEOREM TypeCorrect == SafeSpec => []TypeOK
  BY TypeInvHolds, PTL DEF TypeInv

-----------------------------------------------------------------------------
(***************************************************************************)
(* A datagram is at one place.                                             *)
(***************************************************************************)
IsLost(d) == IF d \in lost THEN 1 ELSE 0

CalledOnce == \A d \in Datagrams : Count(called, d) <= 1

PlaceInv == TypeInv /\ CalledOnce /\ OnePlace

\* The sum of OnePlace.
PlacesOf(d) ==
  Count(send_buffer[Socket[d]], d) + Is(udp_payload, d) + Count(out, d)
    + Count(wire, d) + IsLost(d)

LEMMA OnePlaceIs == OnePlace <=> \A d \in Datagrams : PlacesOf(d) = Count(called, d)
  BY DEF OnePlace, PlacesOf, Is, IsLost

LEMMA PlaceTypes ==
  ASSUME TypeInv, NEW d \in Datagrams
  PROVE  /\ Count(send_buffer[Socket[d]], d) \in Nat
         /\ Count(out, d) \in Nat
         /\ Count(wire, d) \in Nat
         /\ Count(called, d) \in Nat
         /\ Is(udp_payload, d) \in Nat
         /\ IsLost(d) \in Nat
<1>1. /\ send_buffer[Socket[d]] \in Seq(Datagrams)
      /\ out \in Seq(Datagrams \cup {Noise})
      /\ wire \in Seq(Datagrams)
      /\ called \in Seq(Datagrams)
  BY DatagramsAssumption DEF TypeInv, TypeOK
<1>2. Is(udp_payload, d) \in Nat /\ IsLost(d) \in Nat
  BY IsType DEF IsLost
<1>. QED BY <1>1, <1>2, CountNat

\* What is at some place is not lost, and not called more than once.
LEMMA OnceOnly ==
  ASSUME PlaceInv, NEW d \in Datagrams
  PROVE  /\ Count(called, d) = 0 => d \notin lost /\ PlacesOf(d) = 0
         /\ udp_payload = d => d \notin lost
<1>1. PlacesOf(d) = Count(called, d) /\ Count(called, d) <= 1
  BY OnePlaceIs DEF PlaceInv, CalledOnce
<1>2. Is(udp_payload, d) = 1 <=> udp_payload = d
  BY IsType
<1>. QED BY <1>1, <1>2, PlaceTypes DEF PlaceInv, PlacesOf, IsLost

\* The types before and after a step, for the sums.
LEMMA PlaceStep ==
  ASSUME PlaceInv, TypeInv',
         \A d \in Datagrams : PlacesOf(d)' - PlacesOf(d) = Count(called', d) - Count(called, d),
         \A d \in Datagrams : Count(called', d) <= 1
  PROVE  PlaceInv'
<1> SUFFICES ASSUME NEW d \in Datagrams PROVE PlacesOf(d)' = Count(called', d)
  <2>1. OnePlace' <=> \A d \in Datagrams : PlacesOf(d)' = Count(called', d)
    BY DEF OnePlace, PlacesOf, Is, IsLost
  <2>. QED BY <2>1 DEF PlaceInv, CalledOnce
<1>1. PlacesOf(d) = Count(called, d)
  BY OnePlaceIs DEF PlaceInv
<1>2. PlacesOf(d) \in Nat /\ Count(called, d) \in Nat
  BY PlaceTypes DEF PlaceInv, PlacesOf
<1>3. PlacesOf(d)' \in Nat
  <2>1. /\ send_buffer'[Socket[d]] \in Seq(Datagrams)
        /\ out' \in Seq(Datagrams \cup {Noise})
        /\ wire' \in Seq(Datagrams)
    BY DatagramsAssumption DEF TypeInv, TypeOK
  <2>2. Is(udp_payload', d) \in Nat /\ IsLost(d)' \in Nat
    BY IsType DEF IsLost
  <2>. QED BY <2>1, <2>2, CountNat DEF PlacesOf
<1>4. Count(called', d) \in Nat
  BY CountNat DEF TypeInv, TypeOK
<1>. QED BY <1>1, <1>2, <1>3, <1>4
\* Nothing but a send_buffer, and what is lost, changes in an enqueue.
LEMMA PlacesEnqueue ==
  ASSUME PlaceInv, NEW s \in Sockets, NEW d \in OfSocket(s), Enqueue(s, d), d \notin lost,
         NEW e \in Datagrams
  PROVE  Count(send_buffer'[Socket[e]], e) + IsLost(e)'
           = Count(send_buffer[Socket[e]], e) + IsLost(e) + Is(d, e)
<1>1. TypeOK /\ OnOwnSocket /\ d \in Datagrams /\ Socket[d] = s /\ Socket[e] \in Sockets
  BY DatagramsAssumption DEF PlaceInv, TypeInv, OfSocket
<1>2. send_buffer[s] \in Seq(Datagrams)
  BY <1>1 DEF TypeOK
<1>3. Count(send_buffer[Socket[e]], e) \in Nat /\ IsLost(e) \in {0, 1} /\ Is(d, e) \in {0, 1}
  BY PlaceTypes, IsType DEF PlaceInv, IsLost
<1>4. CASE send_buffer'[s] = Append(send_buffer[s], d) /\ lost' = lost
  <2>1. IsLost(e)' = IsLost(e)
    BY <1>4 DEF IsLost
  <2>2. CASE Socket[e] = s
    <3>1. Count(Append(send_buffer[s], d), e) = Count(send_buffer[s], e) + Is(d, e)
      BY <1>1, <1>2, CountAppend
    <3>2. /\ Count(send_buffer'[Socket[e]], e) = Count(send_buffer[s], e) + Is(d, e)
          /\ Count(send_buffer[Socket[e]], e) = Count(send_buffer[s], e)
      BY <1>4, <2>2, <3>1
    <3>. QED BY <1>3, <2>1, <3>2
  <2>3. CASE Socket[e] # s
    <3>1. send_buffer'[Socket[e]] = send_buffer[Socket[e]]
      BY <1>1, <2>3, EnqueueFacts
    <3>2. Is(d, e) = 0
      BY <1>1, <2>3, IsType
    <3>. QED BY <1>3, <2>1, <3>1, <3>2
  <2>. QED BY <2>2, <2>3
<1>5. CASE send_buffer' = send_buffer /\ lost' = lost \cup {d}
  <2>1. IsLost(e)' = IsLost(e) + Is(d, e)
    BY <1>5 DEF IsLost, Is
  <2>. QED BY <1>3, <1>5, <2>1
<1>. QED BY <1>1, <1>4, <1>5, EnqueueFacts

\* Noise is no datagram.
LEMMA PlacesNoise ==
  ASSUME TypeOK, PutOut(Noise), NEW e \in Datagrams
  PROVE  Count(out', e) = Count(out, e)
<1>1. out \in Seq(Datagrams \cup {Noise})
  BY DEF TypeOK
<1>2. Count(Append(out, Noise), e) = Count(out, e) + Is(Noise, e) /\ Count(out, e) \in Nat
  BY <1>1, CountAppend, CountNat
<1>3. Is(Noise, e) = 0
  BY DatagramsAssumption, IsType
<1>4. out' = Append(out, Noise) \/ out' = out
  BY PutOutFacts
<1>5. CASE out' = Append(out, Noise)
  BY <1>2, <1>3, <1>5
<1>6. CASE out' = out
  BY <1>6
<1>. QED BY <1>4, <1>5, <1>6

LEMMA PlacesSend ==
  ASSUME PlaceInv, TypeInv', NEW d \in Datagrams, SendTo(d)
  PROVE  PlaceInv'
<1>1. /\ called' = Append(called, d) /\ Enqueue(Socket[d], d)
      /\ udp_payload' = udp_payload /\ out' = out /\ wire' = wire
      /\ \A i \in 1 .. Len(called) : called[i] # d
  BY DEF SendTo
<1>2. called \in Seq(Datagrams) /\ Socket[d] \in Sockets /\ d \in OfSocket(Socket[d])
  BY DatagramsAssumption DEF PlaceInv, TypeInv, TypeOK, OfSocket
<1>3. Count(called, d) = 0
  BY <1>1, <1>2, CountPositive, CountNat
<1>4. d \notin lost
  BY <1>3, OnceOnly
<1>5. ASSUME NEW e \in Datagrams
      PROVE  /\ Count(called', e) = Count(called, e) + Is(d, e)
             /\ Count(called', e) <= 1
             /\ PlacesOf(e)' = PlacesOf(e) + Is(d, e)
  <2>1. Count(called', e) = Count(called, e) + Is(d, e) /\ Is(d, e) \in {0, 1}
    BY <1>1, <1>2, CountAppend, IsType
  <2>2. Count(called', e) <= 1
    <3>1. Count(called, e) \in Nat /\ Count(called, e) <= 1 /\ (Is(d, e) = 1 => d = e)
      BY PlaceTypes, IsType DEF PlaceInv, CalledOnce
    <3>. QED BY <1>3, <2>1, <3>1
  <2>3. Count(send_buffer'[Socket[e]], e) + IsLost(e)'
          = Count(send_buffer[Socket[e]], e) + IsLost(e) + Is(d, e)
    BY <1>1, <1>2, <1>4, PlacesEnqueue
  <2>4. /\ Count(send_buffer[Socket[e]], e) \in Nat /\ IsLost(e) \in Nat
        /\ Is(udp_payload, e) \in Nat /\ Count(out, e) \in Nat /\ Count(wire, e) \in Nat
    BY PlaceTypes DEF PlaceInv
  <2>5. Count(send_buffer'[Socket[e]], e) \in Nat /\ IsLost(e)' \in Nat
    <3>1. send_buffer'[Socket[e]] \in Seq(Datagrams)
      BY DatagramsAssumption DEF TypeInv, TypeOK
    <3>. QED BY <3>1, CountNat DEF IsLost
  <2>6. PlacesOf(e)' = Count(send_buffer'[Socket[e]], e) + Is(udp_payload, e) + Count(out, e)
                         + Count(wire, e) + IsLost(e)'
    BY <1>1 DEF PlacesOf
  <2>7. PlacesOf(e) = Count(send_buffer[Socket[e]], e) + Is(udp_payload, e) + Count(out, e)
                        + Count(wire, e) + IsLost(e)
    BY DEF PlacesOf
  <2>. QED BY <2>1, <2>2, <2>3, <2>4, <2>5, <2>6, <2>7
<1>6. \A e \in Datagrams : /\ PlacesOf(e) \in Nat /\ Count(called, e) \in Nat
                           /\ Is(d, e) \in Nat
  BY PlaceTypes, IsType DEF PlaceInv, PlacesOf
<1>. QED BY <1>5, <1>6, PlaceStep

\* Steps that call nothing need keep the sum only.
LEMMA PlacesKept ==
  ASSUME PlaceInv, TypeInv', called' = called,
         \A e \in Datagrams : PlacesOf(e)' = PlacesOf(e)
  PROVE  PlaceInv'
<1>1. \A e \in Datagrams : PlacesOf(e) \in Nat /\ Count(called, e) \in Nat
  BY PlaceTypes DEF PlaceInv, PlacesOf
<1>2. \A e \in Datagrams : Count(called', e) <= 1
  BY DEF PlaceInv, CalledOnce
<1>. QED BY <1>1, <1>2, PlaceStep

LEMMA PlacesSweep ==
  ASSUME PlaceInv, TypeInv', Process
  PROVE  PlaceInv'
<1>0. TypeOK /\ OnOwnSocket
  BY DEF PlaceInv, TypeInv
<1>1. CASE Sweep
  <2>1. UNCHANGED <<called, send_buffer, udp_payload, out, wire, lost>>
    BY <1>1 DEF Sweep
  <2>. QED BY <2>1, PlacesKept DEF PlacesOf, IsLost
<1>2. CASE Dequeue
  <2>1. UNCHANGED <<called, out, wire, lost>> /\ udp_payload = NULL /\ info \in Sockets
    BY <1>0, <1>2 DEF Dequeue, TypeOK, Sockets
  <2>2. CASE send_buffer[info] = <<>>
    <3>1. UNCHANGED <<udp_payload, send_buffer>>
      BY <1>2, <2>2 DEF Dequeue
    <3>. QED BY <2>1, <3>1, PlacesKept DEF PlacesOf, IsLost
  <2>3. CASE send_buffer[info] # <<>>
    <3> DEFINE d == Head(send_buffer[info])
    <3>1. udp_payload' = d /\ send_buffer' = [send_buffer EXCEPT ![info] = Tail(@)]
      BY <1>2, <2>3 DEF Dequeue
    <3>2. send_buffer[info] \in Seq(Datagrams) /\ send_buffer[info] \in Seq(OfSocket(info))
      BY <1>0, <2>1 DEF TypeOK, OnOwnSocket
    <3>3. d \in OfSocket(info)
      BY <2>3, <3>2, HeadTailProperties
    <3>. HIDE DEF d
    <3>4. ASSUME NEW e \in Datagrams PROVE PlacesOf(e)' = PlacesOf(e)
      <4>1. Is(udp_payload, e) = 0
        BY <2>1, DatagramsAssumption, IsType
      <4>2. Count(send_buffer'[Socket[e]], e) + Is(d, e) = Count(send_buffer[Socket[e]], e)
        <5>1. Socket[e] \in Sockets
          BY DatagramsAssumption
        <5>2. CASE Socket[e] = info
          <6>1. /\ Count(send_buffer[info], e) = Is(d, e) + Count(Tail(send_buffer[info]), e)
                /\ Tail(send_buffer[info]) \in Seq(Datagrams)
            BY <2>3, <3>2, CountHead DEF d
          <6>2. send_buffer'[info] = Tail(send_buffer[info])
            BY <1>0, <2>1, <3>1 DEF TypeOK
          <6>3. Is(d, e) \in Nat /\ Count(Tail(send_buffer[info]), e) \in Nat
            <7>1. Count(Tail(send_buffer[info]), e) \in Nat
              BY <6>1, CountNat
            <7>. QED BY <7>1, IsType
          <6>4. /\ Count(send_buffer'[Socket[e]], e) = Count(Tail(send_buffer[info]), e)
                /\ Count(send_buffer[Socket[e]], e) = Count(send_buffer[info], e)
            BY <5>2, <6>2
          <6>. QED BY <6>1, <6>3, <6>4
        <5>3. CASE Socket[e] # info
          <6>1. send_buffer'[Socket[e]] = send_buffer[Socket[e]]
            BY <1>0, <3>1, <5>1, <5>3 DEF TypeOK
          <6>2. Is(d, e) = 0
            BY <3>3, <5>3, IsType DEF OfSocket
          <6>3. Count(send_buffer[Socket[e]], e) \in Nat
            BY PlaceTypes DEF PlaceInv
          <6>. QED BY <6>1, <6>2, <6>3
        <5>. QED BY <5>2, <5>3
      <4>3. /\ Count(send_buffer[Socket[e]], e) \in Nat /\ Count(out, e) \in Nat
            /\ Count(wire, e) \in Nat /\ IsLost(e) \in Nat
        BY PlaceTypes DEF PlaceInv
      <4>4. Count(send_buffer'[Socket[e]], e) \in Nat /\ Is(d, e) \in Nat
        <5>1. send_buffer'[Socket[e]] \in Seq(Datagrams)
          BY DatagramsAssumption DEF TypeInv, TypeOK
        <5>. QED BY <5>1, CountNat, IsType
      <4>5. PlacesOf(e)' = Count(send_buffer'[Socket[e]], e) + Is(d, e) + Count(out, e)
                             + Count(wire, e) + IsLost(e)
        BY <2>1, <3>1 DEF PlacesOf, IsLost
      <4>6. PlacesOf(e) = Count(send_buffer[Socket[e]], e) + Is(udp_payload, e) + Count(out, e)
                            + Count(wire, e) + IsLost(e)
        BY DEF PlacesOf
      <4>. QED BY <4>1, <4>2, <4>3, <4>4, <4>5, <4>6
    <3>. QED BY <2>1, <3>4, PlacesKept
  <2>. QED BY <2>2, <2>3
<1>3. CASE SendFrame
  <2> DEFINE d == udp_payload
  <2>1. /\ UNCHANGED <<called, send_buffer, wire>> /\ udp_payload' = NULL
        /\ d \in Datagrams /\ PutOut(d)
        /\ lost' = IF out' = out THEN lost \cup {d} ELSE lost
    BY <1>3 DEF SendFrame
  <2>2. d \notin lost
    BY <2>1, OnceOnly
  <2>3. ASSUME NEW e \in Datagrams PROVE PlacesOf(e)' = PlacesOf(e)
    <3>1. Is(NULL, e) = 0 /\ Is(d, e) \in {0, 1}
      BY DatagramsAssumption, IsType
    <3>2. Count(out', e) + IsLost(e)' = Count(out, e) + IsLost(e) + Is(d, e)
      <4>1. Count(out, e) \in Nat /\ IsLost(e) \in Nat
        BY PlaceTypes DEF PlaceInv
      <4>2. CASE out' = Append(out, d) /\ lost' = lost
        <5>1. out \in Seq(Datagrams \cup {Noise}) /\ d \in Datagrams \cup {Noise}
          BY <1>0, <2>1 DEF TypeOK
        <5>2. Count(out', e) = Count(out, e) + Is(d, e) /\ IsLost(e)' = IsLost(e)
          BY <4>2, <5>1, CountAppend DEF IsLost
        <5>. QED BY <3>1, <4>1, <5>2
      <4>3. CASE out' = out /\ lost' = lost \cup {d}
        <5>1. IsLost(e)' = IsLost(e) + Is(d, e)
          BY <2>2, <4>3 DEF IsLost, Is
        <5>. QED BY <3>1, <4>1, <4>3, <5>1
      <4>. QED BY <1>0, <2>1, <4>2, <4>3, PutOutFacts
    <3>3. /\ Count(send_buffer[Socket[e]], e) \in Nat /\ Count(out, e) \in Nat
          /\ Count(wire, e) \in Nat /\ IsLost(e) \in Nat
      BY PlaceTypes DEF PlaceInv
    <3>4. Count(out', e) \in Nat /\ IsLost(e)' \in Nat
      BY CountNat DEF TypeInv, TypeOK, IsLost
    <3>5. PlacesOf(e)' = Count(send_buffer[Socket[e]], e) + Is(NULL, e) + Count(out', e)
                           + Count(wire, e) + IsLost(e)'
      BY <2>1 DEF PlacesOf
    <3>6. PlacesOf(e) = Count(send_buffer[Socket[e]], e) + Is(d, e) + Count(out, e)
                          + Count(wire, e) + IsLost(e)
      BY DEF PlacesOf
    <3>. HIDE DEF d
    <3>. QED BY <3>1, <3>2, <3>3, <3>4, <3>5, <3>6
  <2>. QED BY <2>1, <2>3, PlacesKept
<1>4. CASE PutBack
  <2> DEFINE d == udp_payload
  <2>1. /\ UNCHANGED <<called, wire>> /\ udp_payload' = NULL
        /\ d \in Datagrams /\ PutOut(Noise) /\ Enqueue(info, d)
    BY <1>4 DEF PutBack
  <2>2. d \notin lost /\ info \in Sockets /\ d \in OfSocket(info)
    BY <1>0, <2>1, OnceOnly, DatagramsAssumption DEF TypeOK, OnOwnSocket, OfSocket, Sockets
  <2>3. ASSUME NEW e \in Datagrams PROVE PlacesOf(e)' = PlacesOf(e)
    <3>1. Is(NULL, e) = 0 /\ Is(d, e) \in {0, 1} /\ Count(out', e) = Count(out, e)
      BY <1>0, <2>1, DatagramsAssumption, IsType, PlacesNoise
    <3>2. Count(send_buffer'[Socket[e]], e) + IsLost(e)'
            = Count(send_buffer[Socket[e]], e) + IsLost(e) + Is(d, e)
      BY <2>1, <2>2, PlacesEnqueue
    <3>3. /\ Count(send_buffer[Socket[e]], e) \in Nat /\ Count(out, e) \in Nat
          /\ Count(wire, e) \in Nat /\ IsLost(e) \in Nat
      BY PlaceTypes DEF PlaceInv
    <3>4. Count(send_buffer'[Socket[e]], e) \in Nat /\ IsLost(e)' \in Nat
      <4>1. send_buffer'[Socket[e]] \in Seq(Datagrams)
        BY DatagramsAssumption DEF TypeInv, TypeOK
      <4>. QED BY <4>1, CountNat DEF IsLost
    <3>5. PlacesOf(e)' = Count(send_buffer'[Socket[e]], e) + Is(NULL, e) + Count(out', e)
                           + Count(wire, e) + IsLost(e)'
      BY <2>1 DEF PlacesOf
    <3>6. PlacesOf(e) = Count(send_buffer[Socket[e]], e) + Is(d, e) + Count(out, e)
                          + Count(wire, e) + IsLost(e)
      BY DEF PlacesOf
    <3>. HIDE DEF d
    <3>. QED BY <3>1, <3>2, <3>3, <3>4, <3>5, <3>6
  <2>. QED BY <2>1, <2>3, PlacesKept
<1>. QED BY <1>1, <1>2, <1>3, <1>4 DEF Process

LEMMA PlacesTransmit ==
  ASSUME PlaceInv, TypeInv', Transmit
  PROVE  PlaceInv'
<1>1. UNCHANGED <<called, send_buffer, udp_payload>>
  BY DEF Transmit
<1>2. PICK sent, unsent, rest \in Seq(Datagrams \cup {Noise}) :
        /\ out = (sent \o unsent) \o rest /\ out' = rest
        /\ wire' = wire \o Only(sent, Datagrams)
        /\ Only(sent, Datagrams) \in Seq(Datagrams)
        /\ lost' = lost \cup (Elements(unsent) \cap Datagrams)
  BY TransmitFacts DEF PlaceInv, TypeInv
<1>3. ASSUME NEW e \in Datagrams PROVE PlacesOf(e)' = PlacesOf(e)
  <2>1. Count(out, e) = Count(sent, e) + Count(unsent, e) + Count(rest, e)
    <3>1. PICK burst \in Seq(Datagrams \cup {Noise}) : burst = sent \o unsent
      BY <1>2, ConcatProperties
    <3>2. Count(burst, e) = Count(sent, e) + Count(unsent, e)
      BY <1>2, <3>1, CountConcat
    <3>3. Count(out, e) = Count(burst, e) + Count(rest, e)
      BY <1>2, <3>1, CountConcat
    <3>. QED BY <3>2, <3>3
  <2>2. Count(wire', e) = Count(wire, e) + Count(sent, e)
    <3>1. wire \in Seq(Datagrams)
      BY DEF PlaceInv, TypeInv, TypeOK
    <3>2. Count(wire', e) = Count(wire, e) + Count(Only(sent, Datagrams), e)
      BY <1>2, <3>1, CountConcat
    <3>. QED BY <1>2, <3>2, CountOnly
  <2>3. Count(sent, e) \in Nat /\ Count(unsent, e) \in Nat /\ Count(rest, e) \in Nat
    BY <1>2, CountNat
  <2>4. /\ Count(send_buffer[Socket[e]], e) \in Nat /\ Is(udp_payload, e) \in Nat
        /\ Count(wire, e) \in Nat /\ IsLost(e) \in Nat
    BY PlaceTypes DEF PlaceInv
  <2>5. PlacesOf(e)' = Count(send_buffer[Socket[e]], e) + Is(udp_payload, e) + Count(rest, e)
                         + Count(wire', e) + IsLost(e)'
    BY <1>1, <1>2 DEF PlacesOf
  <2>6. PlacesOf(e) = Count(send_buffer[Socket[e]], e) + Is(udp_payload, e) + Count(out, e)
                        + Count(wire, e) + IsLost(e)
    BY DEF PlacesOf
  <2>7. PlacesOf(e) <= 1
    BY OnePlaceIs DEF PlaceInv, CalledOnce
  <2>8. IsLost(e)' = IsLost(e) + Count(unsent, e)
    <3>1. Count(unsent, e) + IsLost(e) <= 1
      BY <2>1, <2>3, <2>4, <2>6, <2>7
    <3>2. Count(unsent, e) > 0 <=> e \in Elements(unsent)
      BY <1>2, CountPositive DEF Elements
    <3>3. e \in lost' <=> e \in lost \/ e \in Elements(unsent)
      BY <1>2
    <3>. QED BY <2>3, <3>1, <3>2, <3>3 DEF IsLost
  <2>9. \A there, held, onSent, onUnsent, onRest, onWire, gone \in Nat :
          there + held + onRest + (onWire + onSent) + (gone + onUnsent)
            = there + held + (onSent + onUnsent + onRest) + onWire + gone
    OBVIOUS
  <2>10. PlacesOf(e)' = Count(send_buffer[Socket[e]], e) + Is(udp_payload, e) + Count(rest, e)
                         + (Count(wire, e) + Count(sent, e)) + (IsLost(e) + Count(unsent, e))
    BY <2>2, <2>5, <2>8
  <2>11. PlacesOf(e) = Count(send_buffer[Socket[e]], e) + Is(udp_payload, e)
                         + (Count(sent, e) + Count(unsent, e) + Count(rest, e))
                         + Count(wire, e) + IsLost(e)
    BY <2>1, <2>6
  <2>. QED BY <2>3, <2>4, <2>9, <2>10, <2>11
<1>. QED BY <1>1, <1>3, PlacesKept

LEMMA PlaceInvHolds == SafeSpec => []PlaceInv
<1>1. Init /\ TypeInv => PlaceInv
  <2> SUFFICES ASSUME Init, TypeInv, NEW d \in Datagrams
               PROVE  Count(called, d) = 0 /\ PlacesOf(d) = 0
    BY OnePlaceIs DEF PlaceInv, CalledOnce
  <2>1. /\ called = <<>> /\ out = <<>> /\ wire = <<>> /\ udp_payload = NULL /\ lost = {}
        /\ send_buffer[Socket[d]] = <<>>
    BY DatagramsAssumption DEF Init
  <2>2. Is(udp_payload, d) = 0 /\ IsLost(d) = 0
    BY <2>1, DatagramsAssumption, IsType DEF IsLost
  <2>. QED BY <2>1, <2>2, CountEmpty DEF PlacesOf
<1>2. PlaceInv /\ TypeInv' /\ [Next]_vars => PlaceInv'
  <2> SUFFICES ASSUME PlaceInv, TypeInv', [Next]_vars PROVE PlaceInv'
    OBVIOUS
  <2>1. CASE Learn \/ Forget
    <3>1. UNCHANGED <<called, send_buffer, udp_payload, out, wire, lost>>
      BY <2>1 DEF Learn, Forget
    <3>. QED BY <3>1, PlacesKept DEF PlacesOf, IsLost
  <2>2. CASE Answer \/ TimerRequest
    <3>1. PutOut(Noise) /\ UNCHANGED <<called, send_buffer, udp_payload, wire, lost>>
      BY <2>2 DEF Answer, TimerRequest
    <3>2. \A e \in Datagrams : Count(out', e) = Count(out, e)
      BY <3>1, PlacesNoise DEF PlaceInv, TypeInv
    <3>. QED BY <3>1, <3>2, PlacesKept DEF PlacesOf, IsLost
  <2>3. CASE UNCHANGED vars
    BY <2>3, PlacesKept DEF vars, PlacesOf, IsLost
  <2>. QED BY <2>1, <2>2, <2>3, PlacesSend, PlacesSweep, PlacesTransmit DEF Next
<1>. QED BY <1>1, <1>2, TypeInvHolds, PTL DEF SafeSpec

\* A datagram given to hz_sendto is at one place, from its send_buffer to the
\* NIC, whatever goes round in the same rings: hz_process_out_udp neither sends
\* one twice nor drops one that a ring had room for.
THEOREM AtOnePlace == SafeSpec => []OnePlace
  BY PlaceInvHolds, PTL DEF PlaceInv

-----------------------------------------------------------------------------
(***************************************************************************)
(* The order of datagrams.                                                 *)
(***************************************************************************)
InHand == IF udp_payload = NULL THEN <<>> ELSE <<udp_payload>>

AllFrames == Datagrams \cup {Noise}

\* Nothing makes an address unknown but a RARP reply.
StillResolved == ~emptied => Resolved \subseteq mapped

OrderInv == TypeInv /\ StillResolved /\ ResolvedInOrder

LEMMA WayTypes ==
  ASSUME TypeInv, NEW s \in Sockets
  PROVE  /\ wire \in Seq(AllFrames) /\ out \in Seq(AllFrames) /\ InHand \in Seq(AllFrames)
         /\ send_buffer[s] \in Seq(AllFrames)
         /\ UnderWay(s) \in Seq(AllFrames)
         /\ called \in Seq(AllFrames)
<1>1. /\ wire \in Seq(Datagrams) /\ out \in Seq(AllFrames) /\ send_buffer[s] \in Seq(Datagrams)
      /\ udp_payload \in Datagrams \cup {NULL} /\ called \in Seq(Datagrams)
  BY DEF TypeInv, TypeOK, AllFrames
<1>2. Datagrams \subseteq AllFrames
  BY DEF AllFrames
<1>3. /\ wire \in Seq(AllFrames) /\ called \in Seq(AllFrames)
      /\ send_buffer[s] \in Seq(AllFrames)
  BY <1>1, <1>2, SeqMonotonic
<1>4. InHand \in Seq(AllFrames)
  BY <1>1, <1>2, EmptySeq DEF InHand
<1>5. UnderWay(s) = wire \o out \o InHand \o send_buffer[s]
  BY DEF UnderWay, InHand
<1>. QED BY <1>1, <1>3, <1>4, <1>5, ConcatProperties

\* What a set picks from each of the four parts.
LEMMA OnlyUnderWay ==
  ASSUME TypeInv, NEW s \in Sockets, NEW R
  PROVE  Only(UnderWay(s), R) =
           ((Only(wire, R) \o Only(out, R)) \o Only(InHand, R)) \o Only(send_buffer[s], R)
<1>1. /\ wire \in Seq(AllFrames) /\ out \in Seq(AllFrames) /\ InHand \in Seq(AllFrames)
      /\ send_buffer[s] \in Seq(AllFrames)
  BY WayTypes
<1>2. UnderWay(s) = wire \o out \o InHand \o send_buffer[s]
  BY DEF UnderWay, InHand
<1>3. wire \o out \in Seq(AllFrames) /\ (wire \o out) \o InHand \in Seq(AllFrames)
  BY <1>1, ConcatProperties
<1>4. Only(wire \o out, R) = Only(wire, R) \o Only(out, R)
  BY <1>1, OnlyConcat
<1>5. Only((wire \o out) \o InHand, R) = Only(wire \o out, R) \o Only(InHand, R)
  BY <1>1, <1>3, OnlyConcat
<1>6. Only(((wire \o out) \o InHand) \o send_buffer[s], R)
        = Only((wire \o out) \o InHand, R) \o Only(send_buffer[s], R)
  BY <1>1, <1>3, OnlyConcat
<1>. QED BY <1>2, <1>4, <1>5, <1>6
\* The parts as sequences of what R picks.
LEMMA PickedTypes ==
  ASSUME TypeInv, NEW s \in Sockets, NEW R
  PROVE  /\ Only(wire, R) \in Seq(AllFrames \cap R)
         /\ Only(out, R) \in Seq(AllFrames \cap R)
         /\ Only(InHand, R) \in Seq(AllFrames \cap R)
         /\ Only(send_buffer[s], R) \in Seq(AllFrames \cap R)
<1>1. /\ wire \in Seq(AllFrames) /\ out \in Seq(AllFrames) /\ InHand \in Seq(AllFrames)
      /\ send_buffer[s] \in Seq(AllFrames)
  BY WayTypes
<1>. QED BY <1>1, OnlyType

\* It is enough that a step keeps what is under way, but for what it has lost.
LEMMA StillInOrder ==
  ASSUME OrderInv, ~emptied, NEW s \in Sockets, called' = called, lost \subseteq lost',
         Only(UnderWay(s)', ResolvedOf(s)') = Only(UnderWay(s), ResolvedOf(s)')
  PROVE  Only(UnderWay(s)', ResolvedOf(s)') = Only(called', ResolvedOf(s)')
<1> DEFINE R == ResolvedOf(s)
           Q == ResolvedOf(s)'
<1>1. R \cap Q = Q
  BY DEF ResolvedOf
<1>2. UnderWay(s) \in Seq(AllFrames) /\ called \in Seq(AllFrames)
  BY WayTypes DEF OrderInv
<1>3. Only(UnderWay(s), R) = Only(called, R)
  BY DEF OrderInv, ResolvedInOrder
<1>. HIDE DEF R, Q
<1>4. Only(Only(UnderWay(s), R), Q) = Only(UnderWay(s), Q)
  BY <1>1, <1>2, OnlyOnly
<1>5. Only(Only(called, R), Q) = Only(called, Q)
  BY <1>1, <1>2, OnlyOnly
<1>6. Only(UnderWay(s), Q) = Only(called, Q)
  BY <1>3, <1>4, <1>5
<1>. QED BY <1>6 DEF Q

\* Frames that R does not pick come and go unseen.
LEMMA OnlyAdded ==
  ASSUME NEW T, NEW seq \in Seq(T), NEW x \in T, NEW R
  PROVE  /\ Only(Append(seq, x), R) = Only(seq, R) \o Only(<<x>>, R)
         /\ x \notin R => Only(<<x>>, R) = <<>> /\ Only(Append(seq, x), R) = Only(seq, R)
<1>1. <<x>> \in Seq(T) /\ Append(seq, x) = seq \o <<x>>
  OBVIOUS
<1>2. Only(seq \o <<x>>, R) = Only(seq, R) \o Only(<<x>>, R)
  BY <1>1, OnlyConcat
<1>3. x \notin R => Only(<<x>>, R) = <<>>
  BY OnlyOne
<1>. QED BY <1>1, <1>2, <1>3, OnlyAppend

LEMMA OrderSend ==
  ASSUME OrderInv, TypeInv', ~emptied, NEW s \in Sockets, NEW d \in Datagrams, SendTo(d)
  PROVE  Only(UnderWay(s)', ResolvedOf(s)') = Only(called', ResolvedOf(s)')
<1> DEFINE Q == ResolvedOf(s)'
           z == Socket[d]
<1>1. /\ called' = Append(called, d) /\ Enqueue(z, d)
      /\ udp_payload' = udp_payload /\ out' = out /\ wire' = wire
  BY DEF SendTo
<1>2. /\ z \in Sockets /\ d \in OfSocket(z) /\ TypeOK /\ OnOwnSocket /\ d \in AllFrames
      /\ called \in Seq(AllFrames) /\ send_buffer[s] \in Seq(AllFrames)
  BY DatagramsAssumption, WayTypes DEF OrderInv, TypeInv, OfSocket, AllFrames
<1>3. \/ send_buffer'[z] = Append(send_buffer[z], d) /\ lost' = lost
      \/ send_buffer' = send_buffer /\ lost' = lost \cup {d}
  BY <1>1, <1>2, EnqueueFacts
<1>4. UnderWay(s) \in Seq(AllFrames)
  BY WayTypes DEF OrderInv
<1>5. Only(UnderWay(s), Q) = Only(called, Q)
  <2> DEFINE R == ResolvedOf(s)
  <2>1. R \cap Q = Q
    BY <1>3 DEF ResolvedOf
  <2>2. Only(UnderWay(s), R) = Only(called, R)
    BY DEF OrderInv, ResolvedInOrder
  <2>. HIDE DEF R, Q
  <2>3. Only(Only(UnderWay(s), R), Q) = Only(UnderWay(s), Q)
    BY <2>1, <1>4, OnlyOnly
  <2>4. Only(Only(called, R), Q) = Only(called, Q)
    BY <2>1, <1>2, OnlyOnly
  <2>. QED BY <2>2, <2>3, <2>4
<1>6. CASE send_buffer'[s] = send_buffer[s] /\ d \notin Q
  <2>1. UnderWay(s)' = UnderWay(s)
    BY <1>1, <1>6 DEF UnderWay
  <2>2. Only(called', Q) = Only(called, Q)
    BY <1>1, <1>2, <1>6, OnlyAppend
  <2>. QED BY <1>5, <2>1, <2>2
<1>7. CASE send_buffer'[s] = Append(send_buffer[s], d)
  <2>1. UnderWay(s)' = Append(UnderWay(s), d)
    <3>1. /\ UnderWay(s)' = ((wire \o out) \o InHand) \o Append(send_buffer[s], d)
          /\ UnderWay(s) = ((wire \o out) \o InHand) \o send_buffer[s]
      BY <1>1, <1>7 DEF UnderWay, InHand
    <3>2. (wire \o out) \o InHand \in Seq(AllFrames)
      <4>1. wire \in Seq(AllFrames) /\ out \in Seq(AllFrames) /\ InHand \in Seq(AllFrames)
        BY WayTypes DEF OrderInv
      <4>. QED BY <4>1, ConcatProperties
    <3>3. ASSUME NEW front \in Seq(AllFrames)
          PROVE  front \o Append(send_buffer[s], d) = Append(front \o send_buffer[s], d)
      BY <1>2
    <3>. QED BY <3>1, <3>2, <3>3
  <2>2. CASE d \in Q
    <3>1. /\ Only(Append(UnderWay(s), d), Q) = Append(Only(UnderWay(s), Q), d)
          /\ Only(Append(called, d), Q) = Append(Only(called, Q), d)
      BY <1>2, <1>4, <2>2, OnlyAppend
    <3>. QED BY <1>1, <1>5, <2>1, <3>1
  <2>3. CASE d \notin Q
    <3>1. /\ Only(Append(UnderWay(s), d), Q) = Only(UnderWay(s), Q)
          /\ Only(Append(called, d), Q) = Only(called, Q)
      BY <1>2, <1>4, <2>3, OnlyAppend
    <3>. QED BY <1>1, <1>5, <2>1, <3>1
  <2>. QED BY <2>2, <2>3
<1>8. CASE s # z
  <2>1. send_buffer'[s] = send_buffer[s] /\ d \notin Q
    BY <1>1, <1>2, <1>8, EnqueueFacts DEF ResolvedOf
  <2>. QED BY <2>1, <1>6
<1>9. CASE s = z
  <2>1. CASE send_buffer'[z] = Append(send_buffer[z], d) /\ lost' = lost
    BY <2>1, <1>7, <1>9
  <2>2. CASE send_buffer' = send_buffer /\ lost' = lost \cup {d}
    <3>1. d \notin Q
      BY <2>2 DEF ResolvedOf
    <3>. QED BY <2>2, <3>1, <1>6
  <2>. QED BY <1>3, <2>1, <2>2
<1>. QED BY <1>8, <1>9

\* From the parts of what is under way to the whole.
LEMMA SamePicked ==
  ASSUME TypeInv, TypeInv', NEW s \in Sockets, NEW R,
         ((Only(wire', R) \o Only(out', R)) \o Only(InHand', R)) \o Only(send_buffer'[s], R)
           = ((Only(wire, R) \o Only(out, R)) \o Only(InHand, R)) \o Only(send_buffer[s], R)
  PROVE  Only(UnderWay(s)', R) = Only(UnderWay(s), R)
<1>1. Only(UnderWay(s), R) =
        ((Only(wire, R) \o Only(out, R)) \o Only(InHand, R)) \o Only(send_buffer[s], R)
  BY OnlyUnderWay
<1>2. Only(UnderWay(s)', R) =
        ((Only(wire', R) \o Only(out', R)) \o Only(InHand', R)) \o Only(send_buffer'[s], R)
  <2>1. TypeInv' => /\ wire' \in Seq(AllFrames) /\ out' \in Seq(AllFrames)
                    /\ InHand' \in Seq(AllFrames) /\ send_buffer'[s] \in Seq(AllFrames)
    <3>1. TypeInv => /\ wire \in Seq(AllFrames) /\ out \in Seq(AllFrames)
                     /\ InHand \in Seq(AllFrames) /\ send_buffer[s] \in Seq(AllFrames)
      BY WayTypes
    <3>2. TypeInv' => wire' \in Seq(Datagrams) /\ out' \in Seq(AllFrames)
                      /\ send_buffer'[s] \in Seq(Datagrams)
                      /\ udp_payload' \in Datagrams \cup {NULL}
      BY DEF TypeInv, TypeOK, AllFrames
    <3>3. Datagrams \subseteq AllFrames
      BY DEF AllFrames
    <3>. QED BY <3>2, <3>3, SeqMonotonic, EmptySeq DEF InHand
  <2>2. UnderWay(s)' = wire' \o out' \o InHand' \o send_buffer'[s]
    BY DEF UnderWay, InHand
  <2> DEFINE wo == wire' \o out'
             woi == wo \o InHand'
  <2>3. wo \in Seq(AllFrames) /\ woi \in Seq(AllFrames)
    BY <2>1, ConcatProperties
  <2>4. Only(wo, R) = Only(wire', R) \o Only(out', R)
    BY <2>1, OnlyConcat
  <2>. HIDE DEF wo
  <2>5. Only(woi, R) = Only(wo, R) \o Only(InHand', R)
    BY <2>1, <2>3, OnlyConcat
  <2>. HIDE DEF woi
  <2>6. Only(woi \o send_buffer'[s], R) = Only(woi, R) \o Only(send_buffer'[s], R)
    BY <2>1, <2>3, OnlyConcat
  <2>. QED BY <2>2, <2>4, <2>5, <2>6 DEF wo, woi
<1>. QED BY <1>1, <1>2

\* A payload goes from the send_buffer to the sweep.
LEMMA OrderDequeue ==
  ASSUME OrderInv, TypeInv', ~emptied, NEW s \in Sockets, Dequeue
  PROVE  Only(UnderWay(s)', ResolvedOf(s)') = Only(called', ResolvedOf(s)')
<1> DEFINE Q == ResolvedOf(s)'
<1>1. /\ UNCHANGED <<called, out, wire, lost>> /\ udp_payload = NULL /\ info \in Sockets
      /\ TypeOK /\ OnOwnSocket /\ TypeInv
  BY DEF Dequeue, OrderInv, TypeInv, TypeOK, Sockets
<1>2. Only(UnderWay(s)', Q) = Only(UnderWay(s), Q)
  <2>1. CASE send_buffer[info] = <<>>
    <3>1. UNCHANGED <<udp_payload, send_buffer>>
      BY <2>1 DEF Dequeue
    <3>2. UnderWay(s)' = UnderWay(s)
      BY <1>1, <3>1 DEF UnderWay
    <3>. QED BY <3>2
  <2>2. CASE send_buffer[info] # <<>>
    <3> DEFINE d == Head(send_buffer[info])
               rest == Tail(send_buffer[info])
    <3>1. udp_payload' = d /\ send_buffer' = [send_buffer EXCEPT ![info] = rest]
      BY <2>2 DEF Dequeue
    <3>2. /\ d \in OfSocket(info) /\ rest \in Seq(OfSocket(info))
          /\ send_buffer[info] = <<d>> \o rest /\ <<d>> \in Seq(OfSocket(info))
      <4>1. send_buffer[info] \in Seq(OfSocket(info))
        BY <1>1 DEF OnOwnSocket
      <4>. QED BY <2>2, <4>1, HeadTailProperties, SeqEqual
    <3>3. InHand = <<>> /\ InHand' = <<d>>
      BY <1>1, <3>1, <3>2, DatagramsAssumption DEF InHand, OfSocket
    <3>4. Only(InHand', Q) \o Only(send_buffer'[s], Q) = Only(InHand, Q) \o Only(send_buffer[s], Q)
      <4>1. Only(InHand, Q) = <<>>
        BY <3>3, OnlyEmpty
      <4>2. Only(send_buffer[s], Q) \in Seq(AllFrames \cap Q)
        BY <1>1, PickedTypes
      <4>3. <<>> \o Only(send_buffer[s], Q) = Only(send_buffer[s], Q)
        BY <4>2, ConcatEmptySeq
      <4>4. CASE s = info
        <5>1. send_buffer'[s] = rest
          BY <1>1, <3>1, <4>4 DEF TypeOK
        <5>2. Only(<<d>> \o rest, Q) = Only(<<d>>, Q) \o Only(rest, Q)
          BY <3>2, OnlyConcat
        <5>. QED BY <3>2, <3>3, <4>1, <4>3, <4>4, <5>1, <5>2
      <4>5. CASE s # info
        <5>1. send_buffer'[s] = send_buffer[s]
          BY <1>1, <3>1, <4>5 DEF TypeOK
        <5>2. d \notin Q
          BY <3>2, <4>5 DEF OfSocket, ResolvedOf
        <5>3. Only(<<d>>, Q) = <<>>
          BY <5>2, OnlyOne
        <5>. QED BY <3>3, <4>1, <5>1, <5>3
      <4>. QED BY <4>4, <4>5
    <3>5. Only(InHand', Q) \in Seq(AllFrames \cap Q) /\ Only(send_buffer'[s], Q) \in Seq(AllFrames \cap Q)
      <4>1. InHand' \in Seq(AllFrames)
        BY <3>2, <3>3 DEF OfSocket, AllFrames
      <4>2. send_buffer'[s] \in Seq(AllFrames)
        <5>1. send_buffer'[s] \in Seq(Datagrams) /\ Datagrams \subseteq AllFrames
          BY DEF TypeInv, TypeOK, AllFrames
        <5>. QED BY <5>1, SeqMonotonic
      <4>. QED BY <4>1, <4>2, OnlyType
    <3>6. /\ Only(wire, Q) \o Only(out, Q) \in Seq(AllFrames \cap Q)
          /\ Only(InHand, Q) \in Seq(AllFrames \cap Q)
          /\ Only(send_buffer[s], Q) \in Seq(AllFrames \cap Q)
      <4>1. /\ Only(wire, Q) \in Seq(AllFrames \cap Q) /\ Only(out, Q) \in Seq(AllFrames \cap Q)
            /\ Only(InHand, Q) \in Seq(AllFrames \cap Q)
            /\ Only(send_buffer[s], Q) \in Seq(AllFrames \cap Q)
        BY <1>1, PickedTypes
      <4>. QED BY <4>1, ConcatProperties
    <3>. HIDE DEF Q
    <3> DEFINE ahead == Only(wire, Q) \o Only(out, Q)
               hand == Only(InHand, Q)
               queued == Only(send_buffer[s], Q)
               hand1 == Only(InHand', Q)
               queued1 == Only(send_buffer'[s], Q)
               Z == AllFrames \cap Q
    <3>7. (ahead \o hand1) \o queued1 = (ahead \o hand) \o queued
      <4>1. ahead \in Seq(Z)
        BY <3>6
      <4>2. hand \in Seq(Z) /\ queued \in Seq(Z)
        BY <3>6
      <4>3. hand1 \in Seq(Z) /\ queued1 \in Seq(Z)
        BY <3>5
      <4>4. hand1 \o queued1 = hand \o queued
        BY <3>4
      <4>. HIDE DEF ahead, hand, queued, hand1, queued1, Z
      <4>5. Joined(hand1, queued1) = Joined(hand, queued)
        BY <4>4 DEF Joined
      <4>6. Joined(Joined(ahead, hand1), queued1) = Joined(Joined(ahead, hand), queued)
        BY <4>1, <4>2, <4>3, <4>5, Regroup
      <4>. QED BY <4>6 DEF Joined
    <3>8. wire' = wire /\ out' = out
      BY <1>1
    <3>. QED BY <1>1, <3>7, <3>8, SamePicked
  <2>. QED BY <2>1, <2>2
<1>. QED BY <1>1, <1>2, StillInOrder

\* A payload goes from the sweep to ring->out, or is lost.
LEMMA OrderSendFrame ==
  ASSUME OrderInv, TypeInv', ~emptied, NEW s \in Sockets, SendFrame
  PROVE  Only(UnderWay(s)', ResolvedOf(s)') = Only(called', ResolvedOf(s)')
<1> DEFINE Q == ResolvedOf(s)'
           d == udp_payload
<1>1. /\ UNCHANGED <<called, send_buffer, wire>> /\ udp_payload' = NULL
      /\ d \in Datagrams /\ PutOut(d)
      /\ lost' = IF out' = out THEN lost \cup {d} ELSE lost
      /\ TypeInv /\ TypeOK
  BY DEF SendFrame, OrderInv, TypeInv
<1>2. InHand = <<d>> /\ InHand' = <<>> /\ Only(InHand', Q) = <<>>
  BY <1>1, OnlyEmpty, DatagramsAssumption DEF InHand
<1>3. /\ Only(wire, Q) \in Seq(AllFrames \cap Q) /\ Only(out, Q) \in Seq(AllFrames \cap Q)
      /\ Only(InHand, Q) \in Seq(AllFrames \cap Q)
  BY <1>1, PickedTypes
<1>4. out \in Seq(AllFrames) /\ d \in AllFrames
  BY <1>1 DEF TypeOK, AllFrames
<1>5. Only(out', Q) = Only(out, Q) \o Only(InHand, Q)
  <2>1. CASE out' = Append(out, d)
    <3>1. Only(Append(out, d), Q) = Only(out, Q) \o Only(<<d>>, Q)
      BY <1>4, OnlyAdded
    <3>. QED BY <1>2, <2>1, <3>1
  <2>2. CASE out' = out
    <3>1. d \notin Q
      BY <1>1, <2>2 DEF ResolvedOf
    <3>2. Only(<<d>>, Q) = <<>>
      BY <3>1, OnlyOne
    <3>3. Only(out, Q) \o <<>> = Only(out, Q)
      BY <1>3, ConcatEmptySeq
    <3>. QED BY <1>2, <2>2, <3>2, <3>3
  <2>. QED BY <1>1, <2>1, <2>2, PutOutFacts
<1>6. lost \subseteq lost'
  BY <1>1
<1>. HIDE DEF d
<1>7. Only(UnderWay(s)', Q) = Only(UnderWay(s), Q)
  <2>. HIDE DEF Q
  <2>1. (Only(wire, Q) \o Only(out', Q)) \o <<>> = (Only(wire, Q) \o Only(out, Q)) \o Only(InHand, Q)
    <3>1. /\ Only(wire, Q) \o (Only(out, Q) \o Only(InHand, Q)) \in Seq(AllFrames \cap Q)
          /\ Only(wire, Q) \o (Only(out, Q) \o Only(InHand, Q))
               = (Only(wire, Q) \o Only(out, Q)) \o Only(InHand, Q)
      BY <1>3, ConcatAssociative, ConcatProperties
    <3>. QED BY <1>5, <3>1, ConcatEmptySeq
  <2>2. wire' = wire /\ send_buffer' = send_buffer
    BY <1>1
  <2>. QED BY <1>1, <1>2, <2>1, <2>2, SamePicked
<1>. QED BY <1>1, <1>6, <1>7, StillInOrder

\* A payload without a MAC goes back, behind those that have one.
LEMMA OrderPutBack ==
  ASSUME OrderInv, TypeInv', ~emptied, NEW s \in Sockets, PutBack
  PROVE  Only(UnderWay(s)', ResolvedOf(s)') = Only(called', ResolvedOf(s)')
<1> DEFINE Q == ResolvedOf(s)'
           d == udp_payload
<1>1. /\ UNCHANGED <<called, wire>> /\ udp_payload' = NULL
      /\ d \in Datagrams /\ Dst[d] \notin mapped /\ PutOut(Noise) /\ Enqueue(info, d)
      /\ TypeInv /\ TypeOK /\ OnOwnSocket /\ Resolved \subseteq mapped
  BY DEF PutBack, OrderInv, TypeInv, StillResolved
<1>2. InHand = <<d>> /\ InHand' = <<>>
  BY <1>1, DatagramsAssumption DEF InHand
<1>3. d \notin Q /\ Noise \notin Q
  BY <1>1, DatagramsAssumption DEF ResolvedOf
<1>4. info \in Sockets /\ d \in OfSocket(info)
  BY <1>1, DatagramsAssumption DEF TypeOK, OnOwnSocket, OfSocket, Sockets
<1>5. Only(InHand, Q) = <<>> /\ Only(InHand', Q) = <<>>
  BY <1>2, <1>3, OnlyOne, OnlyEmpty
<1>6. Only(out', Q) = Only(out, Q)
  <2>1. out \in Seq(AllFrames) /\ Noise \in AllFrames
    BY <1>1 DEF TypeOK, AllFrames
  <2>2. Only(Append(out, Noise), Q) = Only(out, Q)
    BY <1>3, <2>1, OnlyAppend
  <2>3. out' = Append(out, Noise) \/ out' = out
    BY <1>1, PutOutFacts
  <2>. QED BY <2>2, <2>3
<1>7. Only(send_buffer'[s], Q) = Only(send_buffer[s], Q) /\ lost \subseteq lost'
  <2>1. send_buffer[s] \in Seq(Datagrams)
    BY <1>1 DEF TypeOK
  <2>2. Only(Append(send_buffer[s], d), Q) = Only(send_buffer[s], Q)
    BY <1>1, <1>3, <2>1, OnlyAppend
  <2>3. /\ s # info => send_buffer'[s] = send_buffer[s]
        /\ \/ send_buffer'[info] = Append(send_buffer[info], d) /\ lost' = lost
           \/ send_buffer' = send_buffer /\ lost' = lost \cup {d}
    BY <1>1, <1>4, EnqueueFacts
  <2>4. send_buffer'[s] = send_buffer[s] \/ send_buffer'[s] = Append(send_buffer[s], d)
    BY <2>3
  <2>. QED BY <2>2, <2>3, <2>4
<1>8. Only(UnderWay(s)', Q) = Only(UnderWay(s), Q)
  <2>. HIDE DEF Q, d
  <2>1. wire' = wire
    BY <1>1
  <2>. QED BY <1>1, <1>5, <1>6, <1>7, <2>1, SamePicked
<1>. QED BY <1>1, <1>7, <1>8, StillInOrder

\* The main lcore takes a burst from ring->out to the NIC.
LEMMA OrderTransmit ==
  ASSUME OrderInv, TypeInv', ~emptied, NEW s \in Sockets, Transmit
  PROVE  Only(UnderWay(s)', ResolvedOf(s)') = Only(called', ResolvedOf(s)')
<1> DEFINE Q == ResolvedOf(s)'
<1>1. /\ UNCHANGED <<called, send_buffer, udp_payload>> /\ TypeInv /\ TypeOK
      /\ InHand' = InHand
  BY DEF Transmit, OrderInv, TypeInv, InHand
<1>2. PICK sent, unsent, rest \in Seq(AllFrames) :
        /\ out = (sent \o unsent) \o rest /\ out' = rest
        /\ wire' = wire \o Only(sent, Datagrams)
        /\ Only(sent, Datagrams) \in Seq(Datagrams)
        /\ lost' = lost \cup (Elements(unsent) \cap Datagrams)
  BY <1>1, TransmitFacts DEF AllFrames
<1>3. Datagrams \cap Q = Q
  BY DEF ResolvedOf
<1>4. Only(unsent, Q) = <<>>
  <2>1. Elements(unsent) \cap Q = {}
    BY <1>2 DEF ResolvedOf
  <2>2. unsent \in Seq(Elements(unsent))
    <3>1. Len(unsent) \in Nat /\ unsent \in [1 .. Len(unsent) -> Elements(unsent)]
      BY <1>2, LenProperties DEF Elements
    <3>. QED BY <3>1, SeqDef
  <2>. HIDE DEF Q
  <2>. QED BY <2>1, <2>2, OnlyNone
<1>5. Only(UnderWay(s)', Q) = Only(UnderWay(s), Q)
  <2>. HIDE DEF Q
  <2>1. Only(wire', Q) = Only(wire, Q) \o Only(sent, Q)
    <3>1. wire \in Seq(Datagrams)
      BY <1>1 DEF TypeOK
    <3>2. Only(wire', Q) = Only(wire, Q) \o Only(Only(sent, Datagrams), Q)
      BY <1>2, <3>1, OnlyConcat
    <3>3. Only(Only(sent, Datagrams), Q) = Only(sent, Q)
      BY <1>2, <1>3, OnlyOnly
    <3>. QED BY <3>2, <3>3
  <2>2. /\ Only(wire, Q) \in Seq(AllFrames \cap Q)
        /\ Only(sent, Q) \in Seq(AllFrames \cap Q) /\ Only(rest, Q) \in Seq(AllFrames \cap Q)
    BY <1>1, <1>2, PickedTypes, OnlyType
  <2>3. Only(out, Q) = Only(sent, Q) \o Only(rest, Q)
    <3>1. PICK burst \in Seq(AllFrames) : burst = sent \o unsent
      BY <1>2, ConcatProperties
    <3>2. Only(burst, Q) = Only(sent, Q) \o Only(unsent, Q)
      BY <1>2, <3>1, OnlyConcat
    <3>3. Only(burst, Q) = Only(sent, Q)
      BY <1>4, <2>2, <3>2, ConcatEmptySeq
    <3>4. Only(out, Q) = Only(burst, Q) \o Only(rest, Q)
      BY <1>2, <3>1, OnlyConcat
    <3>. QED BY <3>3, <3>4
  <2>4. Only(wire', Q) \o Only(out', Q) = Only(wire, Q) \o Only(out, Q)
    <3>1. \A a, b, c \in Seq(AllFrames \cap Q) : (a \o b) \o c = a \o (b \o c)
      BY ConcatAssociative, SMTT(20)
    <3>2. (Only(wire, Q) \o Only(sent, Q)) \o Only(rest, Q)
            = Only(wire, Q) \o (Only(sent, Q) \o Only(rest, Q))
      BY <2>2, <3>1
    <3>. QED BY <1>2, <2>1, <2>3, <3>2
  <2>. QED BY <1>1, <2>4, SamePicked
<1>6. lost \subseteq lost'
  BY <1>2
<1>. QED BY <1>1, <1>5, <1>6, StillInOrder

\* Steps that leave what is under way alone, or add noise to it.
LEMMA OrderOthers ==
  ASSUME OrderInv, TypeInv', ~emptied, NEW s \in Sockets,
         UNCHANGED <<called, send_buffer, udp_payload, wire, lost>>,
         out' = out \/ PutOut(Noise)
  PROVE  Only(UnderWay(s)', ResolvedOf(s)') = Only(called', ResolvedOf(s)')
<1> DEFINE Q == ResolvedOf(s)'
<1>1. TypeInv /\ TypeOK /\ InHand' = InHand
  BY DEF OrderInv, TypeInv, InHand
<1>2. Noise \notin Q
  BY DatagramsAssumption DEF ResolvedOf
<1>3. Only(out', Q) = Only(out, Q)
  <2>1. out \in Seq(AllFrames) /\ Noise \in AllFrames
    BY <1>1 DEF TypeOK, AllFrames
  <2>2. Only(Append(out, Noise), Q) = Only(out, Q)
    BY <1>2, <2>1, OnlyAppend
  <2>3. out' = Append(out, Noise) \/ out' = out
    BY <1>1, PutOutFacts
  <2>. QED BY <2>2, <2>3
<1>4. Only(UnderWay(s)', Q) = Only(UnderWay(s), Q)
  <2>. HIDE DEF Q
  <2>1. wire' = wire /\ send_buffer' = send_buffer
    OBVIOUS
  <2>. QED BY <1>1, <1>3, <2>1, SamePicked
<1>. QED BY <1>4, StillInOrder

LEMMA OrderInvHolds == SafeSpec => []OrderInv
<1>1. Init /\ TypeInv => OrderInv
  <2>1. ASSUME Init, NEW s \in Sockets PROVE UnderWay(s) = called
    <3>1. UnderWay(s) = <<>> \o <<>> \o <<>> \o <<>>
      BY <2>1 DEF Init, UnderWay
    <3>2. <<>> \o <<>> = <<>>
      BY ConcatEmptySeq, EmptySeq
    <3>. QED BY <2>1, <3>1, <3>2 DEF Init
  <2>2. Init => Resolved \subseteq mapped
    BY DEF Init
  <2>. QED BY <2>1, <2>2 DEF OrderInv, StillResolved, ResolvedInOrder
<1>2. OrderInv /\ TypeInv' /\ [Next]_vars => OrderInv'
  <2> SUFFICES ASSUME OrderInv, TypeInv', [Next]_vars, ~emptied'
               PROVE  Resolved \subseteq mapped'
                      /\ \A s \in Sockets :
                           Only(UnderWay(s)', ResolvedOf(s)') = Only(called', ResolvedOf(s)')
    BY DEF OrderInv, StillResolved, ResolvedInOrder
  <2>1. ~emptied /\ ~Forget /\ mapped \subseteq mapped' /\ Resolved \subseteq mapped
    BY DEF Next, Process, vars, tableVars, SendTo, Learn, Table!Learn, Forget, Table!Forget,
           Sweep, Dequeue, SendFrame, PutBack, Answer, TimerRequest, Transmit,
           OrderInv, StillResolved, TypeInv, TypeOK
  <2>2. ASSUME NEW s \in Sockets
        PROVE  Only(UnderWay(s)', ResolvedOf(s)') = Only(called', ResolvedOf(s)')
    <3>1. CASE Learn \/ Sweep \/ Answer \/ TimerRequest \/ UNCHANGED vars
      <4>1. /\ UNCHANGED <<called, send_buffer, udp_payload, wire, lost>>
            /\ out' = out \/ PutOut(Noise)
        BY <3>1 DEF Learn, Sweep, Answer, TimerRequest, vars
      <4>. QED BY <2>1, <4>1, OrderOthers
    <3>2. CASE \E d \in Datagrams : SendTo(d)
      BY <2>1, <3>2, OrderSend
    <3>. QED
      BY <2>1, <3>1, <3>2, OrderDequeue, OrderSendFrame, OrderPutBack, OrderTransmit
         DEF Next, Process
  <2>. QED BY <2>1, <2>2
<1>. QED BY <1>1, <1>2, TypeInvHolds, PTL DEF SafeSpec

\* Datagrams of a socket for destinations that are resolved leave in the order
\* of their hz_sendto: those that hz_process_out_udp puts back for want of a MAC
\* overtake none of them, as long as no RARP reply has emptied the table.
THEOREM LeaveInOrder == SafeSpec => []ResolvedInOrder
  BY OrderInvHolds, PTL DEF OrderInv
=============================================================================
