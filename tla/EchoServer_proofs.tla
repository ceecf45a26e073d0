-------------------------- MODULE EchoServer_proofs --------------------------
(***************************************************************************)
(* Proofs about EchoServer, for any clients and texts, any number of       *)
(* frames, any size of the array and the ring.                             *)
(***************************************************************************)
EXTENDS EchoServer, SequenceTheorems, WellFoundedInduction, TLAPS

-----------------------------------------------------------------------------
(***************************************************************************)
(* The arithmetic of Frames, for all words of 16 bits.                     *)
(***************************************************************************)
Byte == {n \in Nat : n < 256}

\* A word has a high and a low byte, and Htons swaps them.
LEMMA HighAndLow ==
  ASSUME NEW w \in Word
  PROVE  \E high, low \in Byte :
           w = 256 * high + low /\ Htons(w) = 256 * low + high
<1> DEFINE high == w \div 256
           low == w % 256
<1>1. w \in Nat /\ w < 65536
  BY DEF Word
<1>2. high \in Nat
  BY <1>1
<1>3. low \in Byte
  BY <1>1 DEF Byte
<1>4. w = 256 * high + low
  BY <1>1
<1>5. Htons(w) = 256 * low + high
  BY DEF Htons
<1>. HIDE DEF high, low
<1>6. high \in Byte
  BY <1>1, <1>2, <1>3, <1>4 DEF Byte
<1>. QED BY <1>3, <1>4, <1>5, <1>6

\* A number of that form has those bytes.
LEMMA HighAndLowUnique ==
  ASSUME NEW high \in Byte, NEW low \in Byte
  PROVE  Htons(256 * high + low) = 256 * low + high
<1>1. (256 * high + low) \div 256 = high
  BY DEF Byte
<1>2. (256 * high + low) % 256 = low
  BY DEF Byte
<1>. QED BY <1>1, <1>2 DEF Htons

\* What Htons writes, Ntohs reads.
LEMMA SwapTwice ==
  ASSUME NEW w \in Word
  PROVE  Htons(w) \in Word /\ Ntohs(Htons(w)) = w
<1>1. PICK high \in Byte, low \in Byte :
        w = 256 * high + low /\ Htons(w) = 256 * low + high
  BY HighAndLow
<1>2. Htons(256 * low + high) = 256 * high + low
  BY HighAndLowUnique
<1>3. 256 * low + high \in Word
  BY DEF Byte, Word
<1>. QED BY <1>1, <1>2, <1>3 DEF Ntohs

\* The bytes of a word swapped are, up to multiples of 65535, 256 times the word.
LEMMA SwapIsTimes256 ==
  ASSUME NEW w \in Word
  PROVE  \E k \in Byte : 256 * w = Htons(w) + 65535 * k
<1>1. PICK high \in Byte, low \in Byte :
        w = 256 * high + low /\ Htons(w) = 256 * low + high
  BY HighAndLow
<1>2. 256 * w = Htons(w) + 65535 * high
  BY <1>1 DEF Byte
<1>. QED BY <1>2

-----------------------------------------------------------------------------
\* A turn of the loop of hz_checksum: a sum keeps its value modulo 65535, and
\* does not become 0.
LEMMA TurnIsModulo ==
  ASSUME NEW sum \in Nat, sum < 5 * 65536
  PROVE  \E k \in 0 .. 4 :
           /\ sum = Turn(sum) + 65535 * k
           /\ k = 0 => Turn(sum) < 65536
           /\ Turn(sum) \in Nat /\ Turn(sum) < 65540
           /\ sum > 0 => Turn(sum) > 0
<1> DEFINE q == sum \div 65536
           r == sum % 65536
<1>1. q \in Nat
  OBVIOUS
<1>2. r \in Nat /\ r < 65536
  OBVIOUS
<1>3. sum = 65536 * q + r
  OBVIOUS
<1>4. Turn(sum) = IF sum > 65535 THEN r + q ELSE sum
  BY DEF Turn
<1>. HIDE DEF q, r
<1>5. q \in 0 .. 4
  BY <1>1, <1>2, <1>3
<1>6. CASE sum > 65535
  <2>1. Turn(sum) = r + q /\ q > 0
    BY <1>2, <1>3, <1>4, <1>5, <1>6
  <2>. QED BY <2>1, <1>2, <1>3, <1>5, <1>6
<1>7. CASE sum <= 65535
  <2>1. Turn(sum) = sum
    BY <1>4, <1>7
  <2>. QED BY <2>1, <1>7
<1>. QED BY <1>6, <1>7

\* So do two turns, which leave a word.
LEMMA FoldedIsModulo ==
  ASSUME NEW sum \in Nat, sum < 5 * 65536
  PROVE  /\ Folded(sum) \in Word
         /\ \E k \in Nat : sum = Folded(sum) + 65535 * k
         /\ sum > 0 => Folded(sum) > 0
<1> DEFINE once == Turn(sum)
<1>1. PICK k \in 0 .. 4 :
        /\ sum = once + 65535 * k
        /\ once \in Nat /\ once < 65540
        /\ sum > 0 => once > 0
  BY TurnIsModulo
<1>. HIDE DEF once
<1>2. PICK m \in 0 .. 4 :
        /\ once = Turn(once) + 65535 * m
        /\ m = 0 => Turn(once) < 65536
        /\ Turn(once) \in Nat
        /\ once > 0 => Turn(once) > 0
  BY <1>1, TurnIsModulo
<1>3. Folded(sum) = Turn(once)
  BY DEF Folded, once
<1>4. Turn(once) < 65536
  BY <1>1, <1>2
<1>5. sum = Turn(once) + 65535 * (k + m) /\ k + m \in Nat
  BY <1>1, <1>2
<1>. QED BY <1>1, <1>2, <1>3, <1>4, <1>5 DEF Word

\* The loop of hz_checksum has done after two turns, for the sum of any four
\* words: it is right to model it by two.
THEOREM ChecksumLoopEnds ==
  ASSUME NEW sum \in Nat, sum <= 4 * 65535
  PROVE  Folded(sum) \in Word
  BY FoldedIsModulo

\* A sum that is a multiple of 65535, and not 0, folds to all ones.
LEMMA MultiplesVerify ==
  ASSUME NEW sum \in Nat, 0 < sum, sum < 5 * 65536,
         NEW n \in Int, sum = 65535 * n
  PROVE  Folded(sum) = 65535
<1>1. PICK k \in Nat : sum = Folded(sum) + 65535 * k
  BY FoldedIsModulo
<1>2. Folded(sum) \in Nat /\ 0 < Folded(sum) /\ Folded(sum) < 65536
  BY FoldedIsModulo DEF Word
<1>. QED BY <1>1, <1>2

\* The sum of the words of an answer, its checksum among them.
LEMMA AnswerSum ==
  ASSUME NEW ident \in Word, NEW seq_nb \in Word
  PROVE  LET header == HzBuildIcmpRequest(ident, seq_nb)
         IN  /\ header \in [type_code : Word, cksum : Word, ident : Word, seq_nb : Word]
             /\ header.ident = ident
             /\ header.seq_nb = seq_nb
             /\ SumOf(header) \in Nat
             /\ 0 < SumOf(header)
             /\ SumOf(header) < 5 * 65536
             /\ \E n \in Nat : SumOf(header) = 65535 * n
<1> DEFINE sum == ident + seq_nb
           cksum == 65535 - Folded(sum)
           header == HzBuildIcmpRequest(ident, seq_nb)
<1>1. header = [type_code |-> 0, cksum |-> cksum, ident |-> ident, seq_nb |-> seq_nb]
  <2> DEFINE blank == [type_code |-> 0, cksum |-> 0, ident |-> ident, seq_nb |-> seq_nb]
  <2>1. SumOf(blank) = sum
    BY DEF SumOf, Word
  <2>2. HzChecksum(blank) = cksum
    BY <2>1 DEF HzChecksum
  <2>. QED BY <2>2 DEF HzBuildIcmpRequest
<1>2. sum \in Nat /\ sum < 5 * 65536
  BY DEF Word
<1>3. Folded(sum) \in Word
  BY <1>2, FoldedIsModulo
<1>4. PICK k \in Nat : sum = Folded(sum) + 65535 * k
  BY <1>2, FoldedIsModulo
<1>5. 0 \in Word /\ cksum \in Word
  BY <1>3 DEF Word
<1>6. SumOf(header) = cksum + sum
  BY <1>1, <1>2, <1>5 DEF SumOf, Word
<1>7. cksum + sum = 65535 * (k + 1)
  BY <1>2, <1>3, <1>4 DEF Word
<1>8. SumOf(header) \in Nat /\ 0 < SumOf(header) /\ SumOf(header) < 5 * 65536
  BY <1>2, <1>5, <1>6, <1>7 DEF Word
<1>9. header \in [type_code : Word, cksum : Word, ident : Word, seq_nb : Word]
  BY <1>1, <1>5
<1>10. \E n \in Nat : SumOf(header) = 65535 * n
  <2>. HIDE DEF header, cksum, sum
  <2>1. k + 1 \in Nat /\ SumOf(header) = 65535 * (k + 1)
    BY <1>6, <1>7
  <2>. QED BY <2>1
<1>11. header.ident = ident /\ header.seq_nb = seq_nb
  BY <1>1
<1>. QED BY <1>8, <1>9, <1>10, <1>11

\* The sum in the other order of bytes is a multiple of 65535, and not 0, if
\* the sum is.
LEMMA OtherOrderSum ==
  ASSUME NEW header \in [type_code : Word, cksum : Word, ident : Word, seq_nb : Word],
         0 < SumOf(header),
         NEW n \in Nat, SumOf(header) = 65535 * n
  PROVE  LET sum == SumOf(OtherOrder(header))
         IN  /\ sum \in Nat /\ 0 < sum /\ sum < 5 * 65536
             /\ \E m \in Int : sum = 65535 * m
<1> DEFINE a == header.type_code
           b == header.cksum
           c == header.ident
           d == header.seq_nb
           sum == SumOf(OtherOrder(header))
<1>1. a \in Word /\ b \in Word /\ c \in Word /\ d \in Word
  OBVIOUS
<1>2. sum = Htons(a) + Htons(b) + Htons(c) + Htons(d)
  BY DEF OtherOrder, SumOf
<1>3. a + b + c + d = 65535 * n /\ 0 < a + b + c + d
  BY <1>1 DEF SumOf, Word
<1>. HIDE DEF a, b, c, d, sum
<1>4. /\ Htons(a) \in Word /\ Htons(b) \in Word
      /\ Htons(c) \in Word /\ Htons(d) \in Word
  BY <1>1, SwapTwice
<1>5. sum \in Nat /\ sum < 5 * 65536
  BY <1>2, <1>4 DEF Word
<1>6. \A w \in Word : Htons(w) = 0 => w = 0
  BY HighAndLow DEF Byte
<1>7. 0 < sum
  BY <1>1, <1>2, <1>3, <1>4, <1>6 DEF Word
<1>8. /\ \E k \in Byte : 256 * a = Htons(a) + 65535 * k
      /\ \E k \in Byte : 256 * b = Htons(b) + 65535 * k
      /\ \E k \in Byte : 256 * c = Htons(c) + 65535 * k
      /\ \E k \in Byte : 256 * d = Htons(d) + 65535 * k
  BY <1>1, SwapIsTimes256
<1>9. PICK k1, k2, k3, k4 \in Byte :
        /\ 256 * a = Htons(a) + 65535 * k1
        /\ 256 * b = Htons(b) + 65535 * k2
        /\ 256 * c = Htons(c) + 65535 * k3
        /\ 256 * d = Htons(d) + 65535 * k4
  BY <1>8
<1> DEFINE m == 256 * n - (k1 + k2 + k3 + k4)
<1>10. m \in Int
  BY <1>9 DEF Byte
<1>11. sum = 65535 * m
  <2>1. 256 * a + 256 * b + 256 * c + 256 * d = 256 * (65535 * n)
    BY <1>1, <1>3 DEF Word
  <2>2. 256 * a + 256 * b + 256 * c + 256 * d
          = sum + 65535 * k1 + 65535 * k2 + 65535 * k3 + 65535 * k4
    <3> DEFINE w1 == Htons(a)  w2 == Htons(b)  w3 == Htons(c)  w4 == Htons(d)
    <3>1. w1 \in Nat /\ w2 \in Nat /\ w3 \in Nat /\ w4 \in Nat
      BY <1>4 DEF Word
    <3>2. k1 \in Nat /\ k2 \in Nat /\ k3 \in Nat /\ k4 \in Nat
      BY <1>9 DEF Byte
    <3>3. sum = w1 + w2 + w3 + w4
      BY <1>2
    <3>4. /\ 256 * a = w1 + 65535 * k1 /\ 256 * b = w2 + 65535 * k2
          /\ 256 * c = w3 + 65535 * k3 /\ 256 * d = w4 + 65535 * k4
      BY <1>9
    <3>. HIDE DEF w1, w2, w3, w4
    <3>. QED BY <3>1, <3>2, <3>3, <3>4
  <2>. QED BY <1>5, <1>9, <2>1, <2>2 DEF Byte
<1>. HIDE DEF m
<1>. QED BY <1>5, <1>7, <1>10, <1>11 DEF sum

\* For every identifier and sequence number of a ping, the checksum of the
\* answer holds in both orders of bytes, and the answer names both.
THEOREM AnswerVerifies ==
  ASSUME NEW ident \in Word, NEW seq_nb \in Word
  PROVE  LET header == HzBuildIcmpRequest(ident, seq_nb)
         IN  /\ header \in [type_code : Word, cksum : Word, ident : Word, seq_nb : Word]
             /\ header.ident = ident
             /\ header.seq_nb = seq_nb
             /\ Verifies(header)
             /\ Verifies(OtherOrder(header))
<1> DEFINE header == HzBuildIcmpRequest(ident, seq_nb)
<1>1. /\ header \in [type_code : Word, cksum : Word, ident : Word, seq_nb : Word]
      /\ header.ident = ident
      /\ header.seq_nb = seq_nb
      /\ SumOf(header) \in Nat
      /\ 0 < SumOf(header)
      /\ SumOf(header) < 5 * 65536
      /\ \E n \in Nat : SumOf(header) = 65535 * n
  BY AnswerSum
<1>. HIDE DEF header
<1>2. Verifies(header)
  BY <1>1, MultiplesVerify DEF Verifies
<1>3. LET sum == SumOf(OtherOrder(header))
      IN  /\ sum \in Nat /\ 0 < sum /\ sum < 5 * 65536
          /\ \E m \in Int : sum = 65535 * m
  BY <1>1, OtherOrderSum
<1>4. Verifies(OtherOrder(header))
  BY <1>3, MultiplesVerify DEF Verifies
<1>. QED BY <1>1, <1>2, <1>4 DEF header

-----------------------------------------------------------------------------
\* The length a client, or hz_process_udp at the other end, takes from a frame
\* is that of the payload it was built for, for every payload whose length fits
\* a word: even when the lengths between have wrapped.
THEOREM LengthSurvives ==
  ASSUME NEW n \in Word
  PROVE  DataLength(HzSendUdp(n)) = n
<1> DEFINE total == n + 42
           udp_length == Low16(Low16(total) - 34)
<1>1. n \in Nat /\ n < 65536
  BY DEF Word
<1>2. udp_length \in Nat /\ udp_length < 65536 /\ udp_length = Low16(n + 8)
  BY <1>1 DEF Low16
<1>3. HzSendUdp(n).dgram_len = Htons(udp_length)
  <2>1. n + 14 + 20 + 8 = total /\ Low16(total) \in Nat
    BY <1>1 DEF Low16
  <2>2. Low16(total) - 14 - 20 = Low16(total) - 34
    BY <2>1
  <2>. QED BY <2>1, <2>2 DEF HzSendUdp, ETHER_HDR, IPV4_HDR, UDP_HDR
<1>4. DataLength(HzSendUdp(n)) = Low16(udp_length - 8)
  <2>1. Ntohs(Htons(udp_length)) = udp_length
    BY <1>2, SwapTwice DEF Word
  <2>. QED BY <1>3, <2>1 DEF DataLength, UDP_HDR
<1>. HIDE DEF udp_length
<1>5. Low16(Low16(n + 8) - 8) = n
  BY <1>1 DEF Low16
<1>. QED BY <1>2, <1>4, <1>5

\* As long as the whole frame counts less than 65536 bytes its lengths agree.
THEOREM LengthsAgree ==
  ASSUME NEW n \in Nat, n <= 65493
  PROVE  LET frame == HzSendUdp(n)
         IN  /\ frame \in [pkt_len : Nat, total_length : Word, dgram_len : Word, copied : Nat]
             /\ DataLength(frame) = n
             /\ Ntohs(frame.total_length) = IPV4_HDR + Ntohs(frame.dgram_len)
             /\ frame.pkt_len = ETHER_HDR + Ntohs(frame.total_length)
<1> DEFINE frame == HzSendUdp(n)
<1>1. Low16(n + 42) = n + 42 /\ Low16(n + 28) = n + 28 /\ Low16(n + 8) = n + 8
  BY DEF Low16
<1>2. frame = [pkt_len |-> n + 42, total_length |-> Htons(n + 28),
               dgram_len |-> Htons(n + 8), copied |-> n + 8]
  <2>1. n + 14 + 20 + 8 = n + 42 /\ (n + 42) - 14 = n + 28 /\ (n + 42) - 14 - 20 = n + 8
    OBVIOUS
  <2>. QED BY <1>1, <2>1 DEF HzSendUdp, ETHER_HDR, IPV4_HDR, UDP_HDR
<1>3. n \in Word /\ n + 28 \in Word /\ n + 8 \in Word
  BY DEF Word
<1>4. /\ Htons(n + 28) \in Word /\ Ntohs(Htons(n + 28)) = n + 28
      /\ Htons(n + 8) \in Word /\ Ntohs(Htons(n + 8)) = n + 8
  BY <1>3, SwapTwice
<1>5. DataLength(frame) = n
  BY <1>3, LengthSurvives
<1>. HIDE DEF frame
<1>6. frame \in [pkt_len : Nat, total_length : Word, dgram_len : Word, copied : Nat]
  BY <1>2, <1>4
<1>7. /\ Ntohs(frame.total_length) = IPV4_HDR + Ntohs(frame.dgram_len)
      /\ frame.pkt_len = ETHER_HDR + Ntohs(frame.total_length)
  BY <1>2, <1>4 DEF IPV4_HDR, ETHER_HDR
<1>. QED BY <1>5, <1>6, <1>7 DEF frame

-----------------------------------------------------------------------------
\* A set of numbers that is not empty has a smallest one.
LEMMA Smallest ==
  ASSUME NEW T, T \subseteq Nat, T # {}
  PROVE  \E m \in T : \A n \in T : m <= n
<1> DEFINE Less == {ss \in Nat \X Nat : ss[1] < ss[2]}
<1>1. IsWellFoundedOn(Less, Nat)
  BY NatLessThanWellFounded DEF OpToRel
<1>. HIDE DEF Less
<1>2. PICK m \in T : \A n \in T : ~ (<<n, m>> \in Less)
  BY <1>1, WFMin
<1>3. \A n \in T : ~ (n < m)
  BY <1>2 DEF Less
<1>. QED BY <1>3

\* The string in an array that holds a 0: the bytes before it, none of them 0.
LEMMA StringInArray ==
  ASSUME NEW size \in Nat, NEW array \in [1 .. size -> Bytes], Ends(array) # {}
  PROVE  LET text == StringIn(array)
         IN  /\ text \in Seq(Bytes \ {0})
             /\ Len(text) + 1 \in 1 .. size
             /\ array[Len(text) + 1] = 0
             /\ \A i \in 1 .. Len(text) : text[i] = array[i]
<1> DEFINE end == CHOOSE i \in Ends(array) : \A j \in Ends(array) : i <= j
           text == [i \in 1 .. end - 1 |-> array[i]]
<1>1. Ends(array) \subseteq 1 .. size /\ \A i \in Ends(array) : array[i] = 0
  BY DEF Ends
<1>2. \E i \in Ends(array) : \A j \in Ends(array) : i <= j
  BY <1>1, Smallest
<1>3. end \in Ends(array) /\ \A j \in Ends(array) : end <= j
  BY <1>2
<1>. HIDE DEF end
<1>4. end \in 1 .. size /\ array[end] = 0 /\ end - 1 \in Nat
  BY <1>1, <1>3
<1>5. \A i \in 1 .. end - 1 : array[i] \in Bytes \ {0}
  BY <1>3, <1>4 DEF Ends
<1>6. text \in Seq(Bytes \ {0}) /\ Len(text) = end - 1
  BY <1>4, <1>5
<1>7. StringIn(array) = text
  BY DEF StringIn, end
<1>. QED BY <1>4, <1>6, <1>7

\* The low 16 bits, whatever the number.
LEMMA LowWord ==
  ASSUME NEW n \in Int
  PROVE  Low16(n) \in Word
  BY DEF Low16, Word

\* What the frame of an echo is made of.
LEMMA FrameTypes ==
  ASSUME NEW n \in Word
  PROVE  HzSendUdp(n) \in UdpFrame
<1> DEFINE total == n + ETHER_HDR + IPV4_HDR + UDP_HDR
           udp_length == Low16(Low16(total) - ETHER_HDR - IPV4_HDR)
           ip_length == Low16(Low16(total) - ETHER_HDR)
<1>1. total \in Nat
  BY DEF Word, ETHER_HDR, IPV4_HDR, UDP_HDR
<1>. HIDE DEF total
<1>2. Low16(total) \in Nat
  BY <1>1, LowWord DEF Word
<1>3. udp_length \in Word /\ ip_length \in Word
  BY <1>2, LowWord DEF ETHER_HDR, IPV4_HDR
<1>4. Htons(udp_length) \in Word /\ Htons(ip_length) \in Word
  BY <1>3, SwapTwice
<1>5. HzSendUdp(n) = [pkt_len |-> total, total_length |-> Htons(ip_length),
                      dgram_len |-> Htons(udp_length), copied |-> udp_length]
  BY DEF HzSendUdp, total
<1>. HIDE DEF udp_length, ip_length
<1>. QED BY <1>1, <1>3, <1>4, <1>5 DEF UdpFrame

-----------------------------------------------------------------------------
\* Between a read and its echo the server has the address of the read, and the
\* array begins with the data of it.
Answering ==
  pc # "receive" =>
    LET last == reads[Len(reads)]
    IN  /\ Len(reads) > 0
        /\ client_addr = last.src
        /\ Len(last.data) <= BUFFER_SIZE
        /\ \A i \in 1 .. Len(last.data) : buffer[i] = last.data[i]

Inv == TypeOK /\ Answering /\ EchoAnswersRead /\ PingsVerify

\* Where no read and no echo comes, what is known of them stays.
LEMMA NothingEchoed ==
  ASSUME Answering, EchoAnswersRead,
         UNCHANGED <<buffer, client_addr, reads, echoes>>,
         \/ UNCHANGED pc
         \/ pc # "receive" /\ pc' # "receive"
  PROVE  Answering' /\ EchoAnswersRead'
<1>1. Answering'
  BY DEF Answering
<1>2. EchoAnswersRead'
  BY DEF EchoAnswersRead
<1>. QED BY <1>1, <1>2

\* A payload put on the ring.
LEMMA EnqueueTypes ==
  ASSUME receive_buffer \in Seq(Part), Len(receive_buffer) <= Capacity,
         NEW p \in Part, Enqueue(p)
  PROVE  receive_buffer' \in Seq(Part) /\ Len(receive_buffer') <= Capacity
<1>1. Len(receive_buffer) \in Nat /\ Capacity \in Nat
  BY LenProperties, SizeAssumption
<1>. QED BY <1>1, AppendProperties DEF Enqueue

\* Clients send; a ping is answered at once.
LEMMA SendKeeps ==
  ASSUME Inv, NEW c \in Clients, NEW text \in Texts, Send(c, text), UNCHANGED process
  PROVE  Inv'
<1>1. Payload(c, text) \in Part
  BY BytesAssumption DEF Payload, Part
<1>2. receive_buffer' \in Seq(Part) /\ Len(receive_buffer') <= Capacity
  <2>1. receive_buffer \in Seq(Part) /\ Len(receive_buffer) <= Capacity
    BY DEF Inv, TypeOK
  <2>2. Enqueue(Payload(c, text)) \/ UNCHANGED receive_buffer
    BY DEF Send
  <2>. QED BY <1>1, <2>1, <2>2, EnqueueTypes
<1>3. sent' \in 0 .. MaxSent
  BY SizeAssumption DEF Inv, TypeOK, Send
<1>4. UNCHANGED <<pings, pc, buffer, client_addr, rest, reads, echoes, process>>
  BY DEF Send, serverVars
<1>5. Answering' /\ EchoAnswersRead'
  BY <1>4, NothingEchoed DEF Inv
<1>6. TypeOK' /\ PingsVerify'
  BY <1>2, <1>3, <1>4 DEF Inv, TypeOK, PingsVerify
<1>. QED BY <1>5, <1>6 DEF Inv

LEMMA PingKeeps ==
  ASSUME Inv, NEW c \in Clients, NEW ident \in Idents, NEW seq_nb \in Idents,
         Ping(c, ident, seq_nb), UNCHANGED process
  PROVE  Inv'
<1> DEFINE answer == HzBuildIcmpRequest(ident, seq_nb)
           p == [src |-> c, ident |-> ident, seq_nb |-> seq_nb, answer |-> answer, dst |-> c]
           Pings == [src : Clients, ident : Word, seq_nb : Word, answer : Header, dst : Clients]
<1>1. ident \in Word /\ seq_nb \in Word
  BY IdentsAssumption
<1>2. /\ answer \in Header
      /\ answer.ident = ident /\ answer.seq_nb = seq_nb
      /\ Verifies(answer) /\ Verifies(OtherOrder(answer))
  BY <1>1, AnswerVerifies DEF Header
<1>3. pings' = Append(pings, p) /\ pings \in Seq(Pings)
  BY DEF Ping, Inv, TypeOK
<1>. HIDE DEF answer
<1>4. p \in Pings
  BY <1>1, <1>2
<1>5. /\ pings' \in Seq(Pings)
      /\ Len(pings) \in Nat /\ Len(pings') = Len(pings) + 1
      /\ \A k \in 1 .. Len(pings) : pings'[k] = pings[k]
      /\ pings'[Len(pings) + 1] = p
  <2>. HIDE DEF p, Pings
  <2>. QED BY <1>3, <1>4, AppendProperties, LenProperties
<1>6. PingsVerify'
  <2> SUFFICES ASSUME NEW k \in 1 .. Len(pings')
               PROVE  LET q == pings'[k]
                      IN  /\ q.dst = q.src
                          /\ q.answer.ident = q.ident
                          /\ q.answer.seq_nb = q.seq_nb
                          /\ Verifies(q.answer)
                          /\ Verifies(OtherOrder(q.answer))
    BY DEF PingsVerify
  <2>1. CASE k = Len(pings) + 1
    BY <1>2, <1>5, <2>1
  <2>2. CASE k \in 1 .. Len(pings)
    BY <1>5, <2>2 DEF Inv, PingsVerify
  <2>. QED BY <1>5, <2>1, <2>2
<1>7. sent' \in 0 .. MaxSent
  BY SizeAssumption DEF Inv, TypeOK, Ping
<1>8. UNCHANGED <<receive_buffer, pc, buffer, client_addr, rest, reads, echoes, process>>
  BY DEF Ping, serverVars
<1>9. TypeOK'
  BY <1>5, <1>7, <1>8 DEF Inv, TypeOK
<1>10. Answering' /\ EchoAnswersRead'
  BY <1>8, NothingEchoed DEF Inv
<1>. QED BY <1>6, <1>9, <1>10 DEF Inv

\* A read stores its bytes, and what lies behind them stays.
LEMMA ReceiveKeeps == ASSUME Inv, Receive, UNCHANGED process PROVE Inv'
<1> DEFINE p == Head(receive_buffer)
           n == IF Len(p.data) < BUFFER_SIZE THEN Len(p.data) ELSE BUFFER_SIZE
           r == Payload(p.src, SubSeq(p.data, 1, n))
<1>1. /\ pc = "receive" /\ receive_buffer # <<>>
      /\ receive_buffer' = Tail(receive_buffer)
      /\ client_addr' = p.src
      /\ buffer' = [i \in 1 .. BUFFER_SIZE |-> IF i <= n THEN p.data[i] ELSE buffer[i]]
      /\ reads' = Append(reads, r)
      /\ rest' = SubSeq(p.data, n + 1, Len(p.data))
      /\ pc' \in {"echo", "requeue"}
      /\ UNCHANGED <<sent, pings, echoes, process>>
  BY DEF Receive
<1>2. /\ p \in Part /\ p.src \in Clients /\ p.data \in Seq(Bytes)
      /\ Tail(receive_buffer) \in Seq(Part)
      /\ Len(Tail(receive_buffer)) <= Capacity
  <2>1. receive_buffer \in Seq(Part) /\ Len(receive_buffer) <= Capacity
    BY DEF Inv, TypeOK
  <2>2. Len(receive_buffer) \in Nat /\ Capacity \in Nat
    BY <2>1, LenProperties, SizeAssumption
  <2>3. /\ p \in Part
        /\ Tail(receive_buffer) \in Seq(Part)
        /\ Len(Tail(receive_buffer)) = Len(receive_buffer) - 1
    BY <1>1, <2>1, HeadTailProperties
  <2>. QED BY <2>1, <2>2, <2>3 DEF Part
<1>. HIDE DEF p
<1>3. /\ Len(p.data) \in Nat /\ \A i \in 1 .. Len(p.data) : p.data[i] \in Bytes
      /\ n \in Nat /\ n <= Len(p.data) /\ n <= BUFFER_SIZE
  BY <1>2, ElementOfSeq, LenProperties, SizeAssumption
<1>. HIDE DEF n
<1>4. /\ r \in Part /\ r.src = p.src /\ Len(r.data) = n
      /\ \A i \in 1 .. n : r.data[i] = p.data[i]
  <2>1. /\ SubSeq(p.data, 1, n) \in Seq(Bytes)
        /\ Len(SubSeq(p.data, 1, n)) = n
        /\ \A i \in 1 .. n : SubSeq(p.data, 1, n)[i] = p.data[i]
    BY <1>3, SubSeqProperties
  <2>. QED BY <1>2, <2>1 DEF Payload, Part
<1>. HIDE DEF r
<1>5. rest' \in Seq(Bytes)
  BY <1>1, <1>3, SubSeqProperties
<1>6. /\ buffer' \in [1 .. BUFFER_SIZE -> Bytes]
      /\ \A i \in 1 .. BUFFER_SIZE : buffer'[i] = IF i <= n THEN p.data[i] ELSE buffer[i]
  BY <1>1, <1>3, SizeAssumption DEF Inv, TypeOK
<1>7. reads \in Seq(Part)
  BY DEF Inv, TypeOK
<1>8. /\ reads' \in Seq(Part)
      /\ Len(reads) \in Nat
      /\ Len(reads') = Len(reads) + 1
      /\ \A j \in 1 .. Len(reads) : reads'[j] = reads[j]
      /\ reads'[Len(reads) + 1] = r
  BY <1>1, <1>4, <1>7, AppendProperties, LenProperties
<1>9. TypeOK'
  BY <1>1, <1>2, <1>5, <1>6, <1>8 DEF Inv, TypeOK
<1>10. Answering'
  <2>1. /\ reads'[Len(reads')] = r /\ Len(reads') > 0
        /\ \A i \in 1 .. n : buffer'[i] = p.data[i]
    BY <1>3, <1>6, <1>8, SizeAssumption
  <2>. QED BY <1>1, <1>3, <1>4, <2>1 DEF Answering
<1>11. EchoAnswersRead'
  <2>1. Len(echoes) = Len(reads)
    BY <1>1 DEF Inv, EchoAnswersRead
  <2>2. \A k \in 1 .. Len(echoes) : reads'[k] = reads[k]
    BY <1>8, <2>1
  <2>3. Len(echoes') = IF pc' = "receive" THEN Len(reads') ELSE Len(reads') - 1
    BY <1>1, <1>8, <2>1
  <2>. QED BY <1>1, <2>2, <2>3 DEF Inv, EchoAnswersRead
<1>. QED BY <1>1, <1>9, <1>10, <1>11 DEF Inv, PingsVerify

\* What was left goes back to the ring, under the address of the read.
LEMMA RequeueKeeps == ASSUME Inv, Requeue, UNCHANGED process PROVE Inv'
<1>1. client_addr \in Clients
  <2>1. /\ Len(reads) > 0 /\ client_addr = reads[Len(reads)].src
        /\ reads \in Seq(Part) /\ Len(reads) \in Nat
    BY LenProperties DEF Inv, Answering, Requeue, TypeOK
  <2>2. reads[Len(reads)] \in Part
    BY <2>1, ElementOfSeq
  <2>. QED BY <2>1, <2>2 DEF Part
<1>2. Payload(client_addr, rest) \in Part
  BY <1>1 DEF Inv, TypeOK, Payload, Part
<1>3. receive_buffer' \in Seq(Part) /\ Len(receive_buffer') <= Capacity
  BY <1>2, EnqueueTypes DEF Inv, TypeOK, Requeue
<1>4. /\ pc = "requeue" /\ pc' = "echo" /\ rest' = <<>>
      /\ UNCHANGED <<sent, pings, buffer, client_addr, reads, echoes, process>>
  BY DEF Requeue
<1>5. TypeOK'
  BY <1>3, <1>4 DEF Inv, TypeOK
<1>6. Answering' /\ EchoAnswersRead'
  BY <1>4, NothingEchoed DEF Inv
<1>. QED BY <1>4, <1>5, <1>6 DEF Inv, PingsVerify

\* The echo of the string in the array.
LEMMA EchoMakes ==
  ASSUME Inv, Echo
  PROVE  LET e == echoes'[Len(echoes) + 1]
         IN  /\ echoes' \in Seq([to : Clients, text : Seq(Bytes \ {0}), frame : UdpFrame])
             /\ Len(echoes) \in Nat /\ Len(echoes') = Len(echoes) + 1
             /\ \A k \in 1 .. Len(echoes) : echoes'[k] = echoes[k]
             /\ e.to = reads[Len(reads)].src
             /\ e.text \in Seq(Bytes \ {0})
             /\ Len(e.text) + 1 \in 1 .. BUFFER_SIZE
             /\ buffer[Len(e.text) + 1] = 0
             /\ \A i \in 1 .. Len(e.text) : e.text[i] = buffer[i]
             /\ e.frame = HzSendUdp(HzSendtoLength(PREFIX + Len(e.text)))
<1> DEFINE text == StringIn(buffer)
           frame == HzSendUdp(HzSendtoLength(PREFIX + Len(text)))
           e == [to |-> client_addr, text |-> text, frame |-> frame]
           Echoes == [to : Clients, text : Seq(Bytes \ {0}), frame : UdpFrame]
<1>1. echoes' = Append(echoes, e) /\ pc = "echo" /\ Ends(buffer) # {}
  BY DEF Echo
<1>2. /\ text \in Seq(Bytes \ {0})
      /\ Len(text) + 1 \in 1 .. BUFFER_SIZE
      /\ buffer[Len(text) + 1] = 0
      /\ \A i \in 1 .. Len(text) : text[i] = buffer[i]
  BY <1>1, StringInArray, SizeAssumption DEF Inv, TypeOK
<1>. HIDE DEF text
<1>3. frame \in UdpFrame
  <2>1. HzSendtoLength(PREFIX + Len(text)) \in Word
    BY <1>2, LenProperties, LowWord DEF HzSendtoLength, PREFIX
  <2>. QED BY <2>1, FrameTypes
<1>. HIDE DEF frame
<1>4. client_addr \in Clients /\ client_addr = reads[Len(reads)].src
  <2>1. /\ Len(reads) > 0 /\ client_addr = reads[Len(reads)].src
        /\ reads \in Seq(Part) /\ Len(reads) \in Nat
    BY <1>1, LenProperties DEF Inv, Answering, TypeOK
  <2>2. reads[Len(reads)] \in Part
    BY <2>1, ElementOfSeq
  <2>. QED BY <2>1, <2>2 DEF Part
<1>5. e \in Echoes /\ e.to = client_addr /\ e.text = text /\ e.frame = frame
  BY <1>2, <1>3, <1>4
<1>6. echoes \in Seq(Echoes)
  BY DEF Inv, TypeOK
<1>. HIDE DEF e, Echoes
<1>7. /\ echoes' \in Seq(Echoes)
      /\ Len(echoes) \in Nat /\ Len(echoes') = Len(echoes) + 1
      /\ \A k \in 1 .. Len(echoes) : echoes'[k] = echoes[k]
      /\ echoes'[Len(echoes) + 1] = e
  BY <1>1, <1>5, <1>6, AppendProperties, LenProperties
<1>. QED BY <1>2, <1>4, <1>5, <1>7 DEF Echoes, frame

LEMMA EchoKeeps == ASSUME Inv, Echo, UNCHANGED process PROVE Inv'
<1> DEFINE e == echoes'[Len(echoes) + 1]
<1>1. /\ echoes' \in Seq([to : Clients, text : Seq(Bytes \ {0}), frame : UdpFrame])
      /\ Len(echoes) \in Nat /\ Len(echoes') = Len(echoes) + 1
      /\ \A k \in 1 .. Len(echoes) : echoes'[k] = echoes[k]
      /\ e.to = reads[Len(reads)].src
      /\ e.text \in Seq(Bytes \ {0})
      /\ Len(e.text) + 1 \in 1 .. BUFFER_SIZE
      /\ buffer[Len(e.text) + 1] = 0
      /\ \A i \in 1 .. Len(e.text) : e.text[i] = buffer[i]
  BY EchoMakes
<1>2. /\ pc = "echo" /\ pc' = "receive"
      /\ UNCHANGED <<sent, pings, receive_buffer, buffer, client_addr, rest, reads, process>>
  BY DEF Echo
<1>3. TypeOK' /\ Answering' /\ PingsVerify'
  BY <1>1, <1>2 DEF Inv, TypeOK, Answering, PingsVerify
<1>4. Len(reads) \in Nat /\ Len(echoes) = Len(reads) - 1
  BY <1>2, LenProperties DEF Inv, TypeOK, EchoAnswersRead
<1>5. EchoAnswersRead'
  <2> DEFINE data == reads[Len(reads)].data
  <2>1. /\ Len(reads) > 0 /\ Len(data) <= BUFFER_SIZE
        /\ \A i \in 1 .. Len(data) : buffer[i] = data[i]
    BY <1>2 DEF Inv, Answering
  <2>2. data \in Seq(Bytes) /\ Len(data) \in Nat
    <3>1. reads \in Seq(Part)
      BY DEF Inv, TypeOK
    <3>2. reads[Len(reads)] \in Part
      BY <1>4, <2>1, <3>1, ElementOfSeq
    <3>. QED BY <3>2, LenProperties DEF Part
  <2>. HIDE DEF data
  <2>3. Len(e.text) \in Nat
    BY <1>1, LenProperties
  <2>4. /\ \A i \in 1 .. Len(e.text) : i <= Len(data) => e.text[i] = data[i]
        /\ Len(e.text) < Len(data) => data[Len(e.text) + 1] = 0
    <3>1. \A i \in 1 .. Len(e.text) : i <= Len(data) => i \in 1 .. Len(data)
      BY <2>2, <2>3
    <3>2. Len(e.text) < Len(data) => Len(e.text) + 1 \in 1 .. Len(data)
      BY <2>2, <2>3
    <3>3. buffer[Len(e.text) + 1] = 0 /\ \A i \in 1 .. Len(e.text) : e.text[i] = buffer[i]
      BY <1>1
    <3>. QED BY <2>1, <3>1, <3>2, <3>3
  <2>5. ASSUME NEW k \in 1 .. Len(echoes')
        PROVE  /\ echoes'[k].to = reads[k].src
               /\ \A i \in 1 .. Len(echoes'[k].text) :
                    i <= Len(reads[k].data) => echoes'[k].text[i] = reads[k].data[i]
               /\ Len(echoes'[k].text) < Len(reads[k].data)
                    => reads[k].data[Len(echoes'[k].text) + 1] = 0
    <3>1. CASE k \in 1 .. Len(echoes)
      <4>1. echoes'[k] = echoes[k]
        BY <1>1, <3>1
      <4>. QED BY <3>1, <4>1 DEF Inv, EchoAnswersRead
    <3>2. CASE k = Len(echoes) + 1
      <4>1. k = Len(reads) /\ echoes'[k] = e
        BY <1>4, <3>2
      <4>. QED BY <1>1, <2>4, <4>1 DEF data
    <3>. QED BY <1>1, <3>1, <3>2
  <2>6. Len(echoes') = Len(reads')
    BY <1>1, <1>2, <1>4
  <2>. QED BY <1>2, <2>5, <2>6 DEF EchoAnswersRead
<1>. QED BY <1>3, <1>5 DEF Inv

\* A server that stops sends nothing more.
LEMMA SendtoFailsKeeps == ASSUME Inv, SendtoFails, UNCHANGED process PROVE Inv'
<1>1. /\ pc = "echo" /\ pc' = "stopped"
      /\ UNCHANGED <<sent, pings, receive_buffer, buffer, client_addr, rest, reads, echoes, process>>
  BY DEF SendtoFails
<1>2. Answering' /\ EchoAnswersRead'
  BY <1>1, NothingEchoed DEF Inv
<1>3. TypeOK'
  BY <1>1 DEF Inv, TypeOK
<1>. QED BY <1>1, <1>2, <1>3 DEF Inv, PingsVerify

LEMMA OverrunKeeps == ASSUME Inv, Overrun PROVE Inv'
<1>1. /\ process' = "undefined"
      /\ UNCHANGED <<sent, pings, receive_buffer, pc, buffer, client_addr, rest, reads, echoes>>
  BY DEF Overrun, serverVars
<1>2. Answering' /\ EchoAnswersRead'
  BY <1>1, NothingEchoed DEF Inv
<1>. QED BY <1>1, <1>2 DEF Inv, TypeOK, PingsVerify

LEMMA InvHolds == SafeSpec => []Inv
<1>1. Init => Inv
  BY EmptySeq, SizeAssumption
     DEF Init, Inv, TypeOK, Answering, EchoAnswersRead, PingsVerify
<1>2. Inv /\ [Next]_vars => Inv'
  <2> SUFFICES ASSUME Inv, [Next]_vars PROVE Inv'
    OBVIOUS
  <2>1. CASE UNCHANGED vars
    <3>1. Answering' /\ EchoAnswersRead'
      BY <2>1, NothingEchoed DEF Inv, vars, serverVars
    <3>. QED BY <2>1, <3>1 DEF vars, serverVars, Inv, TypeOK, PingsVerify
  <2>. QED BY <2>1, SendKeeps, PingKeeps, ReceiveKeeps, RequeueKeeps, EchoKeeps, SendtoFailsKeeps,
           OverrunKeeps DEF Next
<1>. QED BY <1>1, <1>2, PTL DEF SafeSpec

\* Types of the variables, however long the ring, the array and the texts are.
THEOREM TypeCorrect == SafeSpec => []TypeOK
  BY InvHolds, PTL DEF Inv

\* Each read is answered by one echo, to its sender, whose text is that of the
\* read up to its 0.
THEOREM ReadsAreAnswered == SafeSpec => []EchoAnswersRead
  BY InvHolds, PTL DEF Inv

\* Whatever the identifier and the sequence number of a ping, its answer
\* verifies.
THEOREM PingsAreAnswered == SafeSpec => []PingsVerify
  BY InvHolds, PTL DEF Inv

\* The lengths of an echo agree as long as no text can make the frame longer
\* than 65535 bytes: its array has 1024 bytes in the code.
THEOREM LengthsAreRight ==
  ASSUME BUFFER_SIZE <= 65488
  PROVE  SafeSpec => []EchoLengths
<1> DEFINE Right(e) ==
             /\ DataLength(e.frame) = PREFIX + Len(e.text)
             /\ Ntohs(e.frame.total_length) = IPV4_HDR + Ntohs(e.frame.dgram_len)
             /\ e.frame.pkt_len = ETHER_HDR + Ntohs(e.frame.total_length)
<1>1. Init => EchoLengths
  BY DEF Init, EchoLengths
<1>2. Inv /\ EchoLengths /\ [Next]_vars => EchoLengths'
  <2> SUFFICES ASSUME Inv, EchoLengths, [Next]_vars PROVE EchoLengths'
    OBVIOUS
  <2>1. CASE echoes' = echoes
    BY <2>1 DEF EchoLengths
  <2>2. CASE Echo
    <3> DEFINE e == echoes'[Len(echoes) + 1]
               n == Len(e.text)
    <3>1. /\ Len(echoes) \in Nat /\ Len(echoes') = Len(echoes) + 1
          /\ \A k \in 1 .. Len(echoes) : echoes'[k] = echoes[k]
          /\ n + 1 \in 1 .. BUFFER_SIZE
          /\ e.frame = HzSendUdp(HzSendtoLength(PREFIX + n))
          /\ e.text \in Seq(Bytes \ {0})
      BY <2>2, EchoMakes
    <3>2. n \in Nat
      BY <3>1, LenProperties
    <3>. HIDE DEF n
    <3>3. PREFIX + n \in Nat /\ PREFIX + n <= 65493 /\ HzSendtoLength(PREFIX + n) = PREFIX + n
      BY <3>1, <3>2, SizeAssumption DEF PREFIX, HzSendtoLength, Low16
    <3>4. Right(e)
      <4>1. e.frame = HzSendUdp(PREFIX + n)
        BY <3>1, <3>3
      <4>2. LET frame == HzSendUdp(PREFIX + n)
            IN  /\ DataLength(frame) = PREFIX + n
                /\ Ntohs(frame.total_length) = IPV4_HDR + Ntohs(frame.dgram_len)
                /\ frame.pkt_len = ETHER_HDR + Ntohs(frame.total_length)
        <5> DEFINE sum == PREFIX + n
        <5>1. sum \in Nat /\ sum <= 65493
          BY <3>3
        <5>. HIDE DEF sum
        <5>2. /\ DataLength(HzSendUdp(sum)) = sum
              /\ Ntohs(HzSendUdp(sum).total_length)
                   = IPV4_HDR + Ntohs(HzSendUdp(sum).dgram_len)
              /\ HzSendUdp(sum).pkt_len = ETHER_HDR + Ntohs(HzSendUdp(sum).total_length)
          BY <5>1, LengthsAgree
        <5>. QED BY <5>2 DEF sum
      <4>. QED BY <4>1, <4>2 DEF n
    <3>. HIDE DEF e
    <3>5. \A k \in 1 .. Len(echoes) : Right(echoes'[k])
      BY <3>1 DEF EchoLengths
    <3>6. \A k \in 1 .. Len(echoes') : Right(echoes'[k])
      BY <3>1, <3>4, <3>5 DEF e
    <3>. QED BY <3>6 DEF EchoLengths
  <2>3. echoes' = echoes \/ Echo
    <3>1. CASE UNCHANGED vars \/ Overrun
      BY <3>1 DEF vars, serverVars, Overrun
    <3>2. ASSUME NEW c \in Clients, NEW text \in Texts, Send(c, text) PROVE echoes' = echoes
      BY <3>2 DEF Send, serverVars
    <3>3. ASSUME NEW c \in Clients, NEW ident, NEW seq_nb, Ping(c, ident, seq_nb)
          PROVE  echoes' = echoes
      BY <3>3 DEF Ping, serverVars
    <3>4. CASE Receive \/ Requeue \/ SendtoFails
      BY <3>4 DEF Receive, Requeue, SendtoFails
    <3>. QED BY <3>1, <3>2, <3>3, <3>4 DEF Next
  <2>. QED BY <2>1, <2>2, <2>3
<1>. QED BY <1>1, <1>2, InvHolds, PTL DEF SafeSpec
===============================================================================
