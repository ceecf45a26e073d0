------------------------------- MODULE Buffers -------------------------------
(***************************************************************************)
(* The life of packet buffers (mbufs): from the pool to the NIC, over      *)
(* ring->in to the packet lcore, with replies over ring->out back to the   *)
(* NIC, and the ARP requests of the timer among them.                      *)
(*                                                                         *)
(* The main lcore is one thread: it receives, transmits and runs the       *)
(* timer.  The packet lcore deals with bursts of ring->in and sweeps over  *)
(* the sockets.  Both produce on ring->out, which is therefore modelled    *)
(* with the head and the tail of its producers: a position is claimed at   *)
(* the head and published at the tail.  ring->in has one producer and one  *)
(* consumer; its operations are one step.  A step begins where a lcore     *)
(* next touches something it shares: the pool or a ring.  A slot is        *)
(* written in the step that moves the head past it: nobody reads it before *)
(* the tail has passed.                                                    *)
(*                                                                         *)
(* What a frame says is in ArpTable, UdpReceive and UdpSend; here it only  *)
(* matters whether the packet lcore answers it and whether it frees it, so *)
(* that is chosen when it deals with it.                                   *)
(***************************************************************************)
EXTENDS Integers, Sequences, FiniteSets, SequencesExt, Places

CONSTANTS Mbufs,       \* the buffers of the pool
          PoolSlots,   \* slots of the ring in which the pool keeps free ones
          Received,    \* kinds of frames that hosts send
          Swept,       \* kinds of frames that hz_process_out_udp builds
          RING_SIZE,
          BURST_SIZE,
          TxSlots,     \* descriptors of the transmit queue of the NIC
          Asked,       \* addresses the timer asks for in one run
          Positions,   \* values of the head and tail of a ring (2^32)
          MaxFrames,   \* bound on the frames received and built, or NULL
          NULL

ASSUME KindsAssumption ==
  /\ Received \subseteq {"answered", "rarp", "other"}
  /\ Swept \subseteq {"arp", "udp"}
ASSUME SizesAssumption ==
  /\ RING_SIZE \in Nat \ {0, 1}
  /\ BURST_SIZE \in Nat \ {0}
  /\ TxSlots \in Nat
  /\ Asked \in Nat \ {0}
  /\ Positions \in Nat \ {0}
  /\ Positions % RING_SIZE = 0
ASSUME PoolAssumption ==
  /\ NULL \notin Mbufs
  /\ IsFiniteSet(Mbufs)
  /\ PoolSlots \in Nat
  /\ Cardinality(Mbufs) <= PoolSlots
ASSUME BoundAssumption == MaxFrames \in Nat \cup {NULL}

Capacity == RING_SIZE - 1
Lcores == {"main", "packet"}

VARIABLES pool,       \* how often each mbuf is in the pool
          in,         \* ring->in, next one out first
          slots,      \* the slots of ring->out
          prod_head, prod_tail,
          cons,       \* head and tail of its only consumer
          nic,        \* what the NIC has been given and not yet sent
          pc,         \* what each lcore does next
          mbuf,       \* the buffer in which each lcore builds a frame
          head,       \* the head of ring->out that it has read
          tx,         \* what the main lcore has still to free of its burst
          asked,      \* requests in this run of the timer
          rx,         \* what the packet lcore has still to deal with
          shared,     \* mbufs handed on by a lcore that frees them all the same
          frames,     \* frames received and built, if they are bounded
          raced,      \* has an enqueue of the packet lcore undone another's
          process     \* "running", "exited", or "undefined"

ringVars == <<slots, prod_head, prod_tail, cons>>
lcoreVars == <<pc, mbuf, head, tx, asked, rx>>
vars == <<pool, in, ringVars, nic, lcoreVars, shared, frames, raced, process>>

Init ==
  /\ pool = [m \in Mbufs |-> 1]
  /\ in = <<>>
  /\ slots = [i \in 0 .. RING_SIZE - 1 |-> NULL]
  /\ prod_head = 0
  /\ prod_tail = 0
  /\ cons = 0
  /\ nic = <<>>
  /\ pc = [main |-> "receive", packet |-> "deal"]
  /\ mbuf = [t \in Lcores |-> NULL]
  /\ head = [t \in Lcores |-> 0]
  /\ tx = <<>>
  /\ asked = 0
  /\ rx = <<>>
  /\ shared = {}
  /\ frames = 0
  /\ raced = FALSE
  /\ process = "running"

-----------------------------------------------------------------------------
(***************************************************************************)
(* The pool.                                                               *)
(***************************************************************************)
Goto(t, label) == pc' = [pc EXCEPT ![t] = label]
Least(a, b) == IF a < b THEN a ELSE b
FirstOf(seq, n) == SubSeq(seq, 1, n)
Behind(seq, n) == SubSeq(seq, n + 1, Len(seq))

\* Buffers in the pool, each counted as often as it is there.
InPool == Cardinality({place \in Mbufs \X (1 .. PoolSlots) : place[2] <= pool[place[1]]})

\* rte_pktmbuf_free.  Nothing is checked: what is freed twice is in the pool
\* twice, and what finds it full is not in it.
Free(m) == pool' = [pool EXCEPT ![m] = IF InPool < PoolSlots THEN @ + 1 ELSE @]

Build(n) ==
  IF MaxFrames = NULL
    THEN frames' = frames
    ELSE frames + n <= MaxFrames /\ frames' = frames + n

\* rte_pktmbuf_alloc; which buffer it hands out is up to the pool.
Alloc(t) ==
  /\ \E m \in Mbufs :
       /\ pool[m] > 0
       /\ pool' = [pool EXCEPT ![m] = @ - 1]
       /\ mbuf' = [mbuf EXCEPT ![t] = m]
  /\ Build(1)

-----------------------------------------------------------------------------
(***************************************************************************)
(* Enqueues on ring->out.                                                  *)
(***************************************************************************)
Slot(position) == position % RING_SIZE
After(position) == (position + 1) % Positions
Room == (Capacity + cons - prod_head) % Positions
Ready == (prod_tail - cons) % Positions

\* The packet lcore has no more use for the buffer, in the ring or not.
Enqueued(t) ==
  /\ mbuf' = IF t = "packet" THEN [mbuf EXCEPT ![t] = NULL] ELSE mbuf
  /\ Goto(t, "enqueued")

\* As Claim, but the position remembered is the one behind.
ClaimOneBehind(t) ==
  /\ pc[t] = "claim"
  /\ \/ /\ Room > 0
        /\ head' = [head EXCEPT ![t] = After(prod_head)]
        /\ prod_head' = After(prod_head)
        /\ slots' = [slots EXCEPT ![Slot(prod_head)] = mbuf[t]]
        /\ Goto(t, "publish")
        /\ mbuf' = mbuf
     \/ /\ Room = 0
        /\ Enqueued(t)
        /\ UNCHANGED <<head, prod_head, slots>>
  /\ raced' = (raced \/ (Room > 0 /\ t = "main" /\ pc["packet"] = "store"))
  /\ UNCHANGED <<pool, in, prod_tail, cons, nic, tx, asked, rx, shared, frames, process>>

\* rte_ring_mp_enqueue_burst: a compare-and-swap claims a position.  Nobody
\* looks at its result: without room the buffer is not in the ring.
Claim(t) ==
  /\ pc[t] = "claim"
  /\ \/ /\ Room > 0
        /\ head' = [head EXCEPT ![t] = prod_head]
        /\ prod_head' = After(prod_head)
        /\ slots' = [slots EXCEPT ![Slot(prod_head)] = mbuf[t]]
        /\ Goto(t, "publish")
        /\ mbuf' = mbuf
     \/ /\ Room = 0
        /\ Enqueued(t)
        /\ UNCHANGED <<head, prod_head, slots>>
  /\ raced' = (raced \/ (Room > 0 /\ t = "main" /\ pc["packet"] = "store"))
  /\ UNCHANGED <<pool, in, prod_tail, cons, nic, tx, asked, rx, shared, frames, process>>

\* As Publish, but it does not wait.
PublishAtOnce(t) ==
  /\ pc[t] = "publish"
  /\ prod_tail' = After(head[t])
  /\ shared' = IF t = "main" THEN shared \cup {mbuf[t]} ELSE shared
  /\ Enqueued(t)
  /\ UNCHANGED <<pool, in, slots, prod_head, cons, nic, head, tx, asked, rx, frames, raced, process>>

\* As Publish, but every lcore frees what it has put in, as the timer does.
PublishAndFree(t) ==
  /\ pc[t] = "publish"
  /\ prod_tail = head[t]
  /\ prod_tail' = After(prod_tail)
  /\ shared' = IF t = "main" THEN shared \cup {mbuf[t]} ELSE shared
  /\ IF t = "packet" THEN Free(mbuf[t]) ELSE pool' = pool
  /\ Enqueued(t)
  /\ UNCHANGED <<in, slots, prod_head, cons, nic, head, tx, asked, rx, frames, raced, process>>

\* It waits until those who claimed before it have published.
Publish(t) ==
  /\ pc[t] = "publish"
  /\ prod_tail = head[t]
  /\ prod_tail' = After(prod_tail)
  /\ shared' = IF t = "main" THEN shared \cup {mbuf[t]} ELSE shared
  /\ Enqueued(t)
  /\ UNCHANGED <<pool, in, slots, prod_head, cons, nic, head, tx, asked, rx, frames, raced, process>>

\* rte_ring_enqueue_burst by the packet lcore.  ring->out is created with
\* RING_F_SP_ENQ, so it neither compares nor waits: it reads the head,
LoadHead ==
  /\ pc["packet"] = "load"
  /\ head' = [head EXCEPT !["packet"] = prod_head]
  /\ \/ Room > 0 /\ Goto("packet", "store") /\ mbuf' = mbuf
     \/ Room = 0 /\ Enqueued("packet")
  /\ UNCHANGED <<pool, in, ringVars, nic, tx, asked, rx, shared, frames, raced, process>>

\* stores it, even if the timer has claimed the position meanwhile,
StoreHead ==
  LET h == head["packet"]
  IN  /\ pc["packet"] = "store"
      /\ prod_head' = After(h)
      /\ slots' = [slots EXCEPT ![Slot(h)] = mbuf["packet"]]
      /\ Goto("packet", "tail")
      /\ UNCHANGED <<pool, in, prod_tail, cons, nic, mbuf, head, tx, asked, rx, shared,
                     frames, raced, process>>

\* and stores the tail, even if the timer has not published yet.
StoreTail ==
  /\ pc["packet"] = "tail"
  /\ prod_tail' = After(head["packet"])
  /\ raced' = (raced \/ prod_tail # head["packet"])
  /\ Enqueued("packet")
  /\ UNCHANGED <<pool, in, slots, prod_head, cons, nic, head, tx, asked, rx, shared,
                 frames, process>>

-----------------------------------------------------------------------------
(***************************************************************************)
(* The main lcore and the NIC.                                             *)
(***************************************************************************)
\* As Receive, but the ring takes all of the burst.
ReceiveAll ==
  /\ \/ pc["main"] = "receive"
     \/ pc["main"] = "free" /\ tx = <<>>
  /\ \E n \in IF Received = {} THEN {0} ELSE 0 .. BURST_SIZE :
       \E burst \in [1 .. n -> Mbufs] :
         /\ \A m \in Mbufs : Count(burst, m) <= pool[m]
         /\ pool' = [m \in Mbufs |-> pool[m] - Count(burst, m)]
         /\ in' = in \o burst
         /\ Build(n)
  /\ Goto("main", "transmit")
  /\ UNCHANGED <<ringVars, nic, mbuf, head, tx, asked, rx, shared, raced, process>>

\* rte_eth_rx_burst and rte_ring_sp_enqueue_burst.  The NIC takes the buffers
\* from the pool; those for which ring->in has no room are dropped.
Receive ==
  /\ \/ pc["main"] = "receive"
     \/ pc["main"] = "free" /\ tx = <<>>
  /\ \E n \in IF Received = {} THEN {0} ELSE 0 .. BURST_SIZE :
       \E burst \in [1 .. n -> Mbufs] :
         /\ \A m \in Mbufs : Count(burst, m) <= pool[m]
         /\ pool' = [m \in Mbufs |-> pool[m] - Count(burst, m)]
         /\ in' = in \o FirstOf(burst, Least(n, Capacity - Len(in)))
         /\ Build(n)
  /\ Goto("main", "transmit")
  /\ UNCHANGED <<ringVars, nic, mbuf, head, tx, asked, rx, shared, raced, process>>

\* rte_ring_sc_dequeue_burst and rte_eth_tx_burst, which takes as many as it
\* has descriptors for.  After a race the tail may be behind cons, and the
\* burst then holds what the slots held before: nothing, if never written.
Transmit ==
  LET n == Least(Ready, BURST_SIZE)
      burst == [i \in 1 .. n |-> slots[Slot(cons + i - 1)]]
      taken == FirstOf(burst, Least(n, TxSlots - Len(nic)))
  IN  /\ pc["main"] = "transmit"
      /\ cons' = (cons + n) % Positions
      /\ \/ /\ NULL \notin ToSet(burst)
            /\ tx' = burst
            /\ nic' = nic \o taken
            /\ shared' = shared \cup ToSet(taken)
            /\ process' = process
         \/ /\ NULL \in ToSet(burst)
            /\ process' = "undefined"
            /\ UNCHANGED <<tx, nic, shared>>
      /\ Goto("main", "free")
      /\ UNCHANGED <<pool, in, slots, prod_head, prod_tail, mbuf, head, asked, rx, frames, raced>>

\* The loop behind it frees all of the burst, what the NIC has taken included.
FreeSent ==
  /\ pc["main"] = "free"
  /\ tx # <<>>
  /\ Free(Head(tx))
  /\ tx' = Tail(tx)
  /\ UNCHANGED <<in, ringVars, nic, pc, mbuf, head, asked, rx, shared, frames, raced, process>>

\* The NIC has sent a frame and frees its buffer.
NicSent ==
  /\ nic # <<>>
  /\ Free(Head(nic))
  /\ nic' = Tail(nic)
  /\ UNCHANGED <<in, ringVars, lcoreVars, shared, frames, raced, process>>

\* rte_timer_manage finds the timer due: hz_send_arp for the first address.
TimerDue ==
  /\ pc["main"] = "free"
  /\ tx = <<>>
  /\ Alloc("main")
  /\ asked' = 1
  /\ Goto("main", "claim")
  /\ UNCHANGED <<in, ringVars, nic, head, tx, rx, shared, raced, process>>

\* hz_send_arp for another address.
NextRequest ==
  /\ pc["main"] = "request"
  /\ Alloc("main")
  /\ asked' = asked + 1
  /\ Goto("main", "claim")
  /\ UNCHANGED <<in, ringVars, nic, head, tx, rx, shared, raced, process>>

\* The timer frees the request, whether it has got into the ring or not.
FreeRequest ==
  /\ pc["main"] = "enqueued"
  /\ Free(mbuf["main"])
  /\ mbuf' = [mbuf EXCEPT !["main"] = NULL]
  /\ Goto("main", IF asked < Asked THEN "request" ELSE "receive")
  /\ UNCHANGED <<in, ringVars, nic, head, tx, asked, rx, shared, frames, raced, process>>

-----------------------------------------------------------------------------
(***************************************************************************)
(* The packet lcore.                                                       *)
(***************************************************************************)
\* The sweep over the sockets is over: the next burst of ring->in.
NextBurst ==
  LET n == Least(Len(in), BURST_SIZE)
  IN  /\ pc["packet"] = "deal"
      /\ rx = <<>>
      /\ in # <<>>
      /\ rx' = FirstOf(in, n)
      /\ in' = Behind(in, n)
      /\ UNCHANGED <<pool, ringVars, nic, pc, mbuf, head, tx, asked, shared, frames, raced, process>>

\* An ARP request for this machine, or an ICMP packet: hz_send_arp or
\* hz_send_icmp.
Reply ==
  /\ pc["packet"] = "deal"
  /\ rx # <<>>
  /\ "answered" \in Received
  /\ Alloc("packet")
  /\ Goto("packet", "claim")
  /\ UNCHANGED <<in, ringVars, nic, head, tx, asked, rx, shared, raced, process>>

\* As Answered, but the frame is not freed.
AnsweredKept ==
  /\ pc["packet"] = "enqueued"
  /\ rx' = IF rx # <<>> THEN Tail(rx) ELSE rx
  /\ Goto("packet", "deal")
  /\ UNCHANGED <<pool, in, ringVars, nic, mbuf, head, tx, asked, shared, frames, raced, process>>

\* The rest of the turn frees the frame that has been answered.  A frame of the
\* sweep answers none.
Answered ==
  /\ pc["packet"] = "enqueued"
  /\ \/ rx # <<>> /\ Free(Head(rx)) /\ rx' = Tail(rx)
     \/ rx = <<>> /\ UNCHANGED <<pool, rx>>
  /\ Goto("packet", "deal")
  /\ UNCHANGED <<in, ringVars, nic, mbuf, head, tx, asked, shared, frames, raced, process>>

\* Other ARP frames, UDP, whose data is copied, TCP, and whatever is no IPv4.
FreeReceived ==
  /\ pc["packet"] = "deal"
  /\ rx # <<>>
  /\ "other" \in Received
  /\ Free(Head(rx))
  /\ rx' = Tail(rx)
  /\ UNCHANGED <<in, ringVars, nic, pc, mbuf, head, tx, asked, shared, frames, raced, process>>

\* Frames of RARP are not freed.
Rarp ==
  /\ pc["packet"] = "deal"
  /\ rx # <<>>
  /\ "rarp" \in Received
  /\ rx' = Tail(rx)
  /\ UNCHANGED <<pool, in, ringVars, nic, pc, mbuf, head, tx, asked, shared, frames, raced, process>>

\* hz_process_out_udp: hz_send_arp for a socket whose destination has no MAC,
\* or hz_send_udp.
SweepFrame(kind, label) ==
  /\ pc["packet"] = "deal"
  /\ rx = <<>>
  /\ kind \in Swept
  /\ Alloc("packet")
  /\ Goto("packet", label)
  /\ UNCHANGED <<in, ringVars, nic, head, tx, asked, rx, shared, raced, process>>

-----------------------------------------------------------------------------
\* rte_exit of hz_send_arp, hz_send_icmp or hz_send_udp for want of a buffer.
Exit ==
  /\ \/ pc["main"] = "free" /\ tx = <<>>
     \/ pc["main"] = "request"
     \/ pc["packet"] = "deal" /\ rx # <<>> /\ "answered" \in Received
     \/ pc["packet"] = "deal" /\ rx = <<>> /\ Swept # {}
  /\ \A m \in Mbufs : pool[m] = 0
  /\ process' = "exited"
  /\ UNCHANGED <<pool, in, ringVars, nic, lcoreVars, shared, frames, raced>>

Main ==
  \/ Receive \/ Transmit \/ FreeSent
  \/ TimerDue \/ NextRequest \/ Claim("main") \/ Publish("main") \/ FreeRequest

Packet ==
  \/ NextBurst \/ Reply \/ Answered \/ FreeReceived \/ Rarp
  \/ SweepFrame("arp", "claim") \/ Claim("packet") \/ Publish("packet")
  \/ SweepFrame("udp", "load") \/ LoadHead \/ StoreHead \/ StoreTail

Next == process = "running" /\ (Main \/ Packet \/ NicSent \/ Exit)

\* Each lcore has a core to itself and loops for ever; the timer falls due
\* again and again, and rte_timer_manage is called in every turn by then.
Fairness ==
  /\ WF_vars(process = "running" /\ Main)
  /\ WF_vars(process = "running" /\ Packet)
  /\ SF_vars(process = "running" /\ TimerDue)

SafeSpec == Init /\ [][Next]_vars
Spec == SafeSpec /\ Fairness

-----------------------------------------------------------------------------
(***************************************************************************)
(* Properties.                                                             *)
(***************************************************************************)
\* What the consumer of ring->out may take.
Published == [i \in 1 .. Ready |-> slots[Slot(cons + i - 1)]]

Labels == {"receive", "transmit", "free", "request", "deal", "claim", "publish",
           "load", "store", "tail", "enqueued"}

\* Types of the variables; no queue is longer than its slots.
TypeOK ==
  /\ pool \in [Mbufs -> 0 .. PoolSlots]
  /\ in \in Seq(Mbufs) /\ Len(in) <= Capacity
  /\ slots \in [0 .. RING_SIZE - 1 -> Mbufs \cup {NULL}]
  /\ {prod_head, prod_tail, cons} \subseteq 0 .. Positions - 1
  /\ nic \in Seq(Mbufs) /\ Len(nic) <= TxSlots
  /\ pc \in [Lcores -> Labels]
  /\ mbuf \in [Lcores -> Mbufs \cup {NULL}]
  /\ head \in [Lcores -> 0 .. Positions - 1]
  /\ tx \in Seq(Mbufs)
  /\ asked \in 0 .. Asked
  /\ rx \in Seq(Mbufs)
  /\ shared \subseteq Mbufs
  /\ frames \in Nat
  /\ raced \in BOOLEAN
  /\ process \in {"running", "exited", "undefined"}

\* In how many places a buffer is.
Holders(m) ==
  pool[m] + Count(in, m) + Count(Published, m) + Count(nic, m) + Count(tx, m) + Count(rx, m)
    + Cardinality({t \in Lcores : mbuf[t] = m})

\* A buffer is in one place, with one lcore, ring or queue, until the main
\* lcore has handed it on: the requests of the timer, which it frees behind the
\* enqueue, and what it has given to the NIC, which it frees behind the burst,
\* are the only buffers that two may hold.
OneHolder == ~raced => \A m \in Mbufs \ shared : Holders(m) <= 1

\* A buffer that somebody holds is lost only where the code drops it: the frame
\* of a RARP request, a frame for a full ring->out or a full ring->in, and what
\* is freed into a full pool.  Every other path frees what it has finished with.
KnownLeaks ==
  [][\A m \in Mbufs :
       Holders(m) > 0 /\ Holders(m)' = 0 /\ ~raced' =>
         \/ Rarp /\ m = Head(rx)
         \/ pc["packet"] \in {"claim", "load"} /\ Room = 0
         \/ pc["main"] \in {"receive", "free"} /\ Len(in') = Capacity
         \/ InPool = PoolSlots]_vars

\* The two producers of ring->out never wait for each other: while one waits
\* for the tail to reach its position, one of them may move it on.
SomeonePublishes ==
  ~raced /\ (\E t \in Lcores : pc[t] = "publish") =>
    \E t \in Lcores : pc[t] \in {"publish", "tail"} /\ prod_tail = head[t]

Queue == INSTANCE FrameQueue WITH
           Items <- Mbufs, Burst <- BURST_SIZE, queue <- Published, misused <- raced

\* The stages of the enqueues on ring->out, interleaved in any order, are those
\* of a bounded queue from which nothing is lost and in which nothing changes
\* places, until an enqueue of hz_process_out_udp undoes one of the timer's.
ImplementsQueue == Queue!SafeSpec

\* The timer is reloaded automatically: the main lcore sends requests again and
\* again.
TimerReloads == []<>(pc["main"] = "claim") \/ <>(process # "running")
=============================================================================
