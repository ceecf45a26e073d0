# A formal model of yftcp

yftcp is a small UDP/IP stack in user space on top of DPDK.  Its code is in
`src/src/`; line numbers below refer to that directory.  This project models
the parts of it that carry state in TLA+, checks them on small instances with
TLC and proves some of the results for instances of any size with TLAPS.

## 1. The system

### 1.1 Lcores

| lcore | runs | code |
|---|---|---|
| main | `rx_burst` to `ring->in`; `ring->out` to `tx_burst`; the ARP timer | `main.c:79-110`, `timer.c` |
| packet | `hz_pkt_process`: deals with a burst of `ring->in`, then `hz_process_out_udp` | `deal_packet.c` |
| server 1, server 2 | the echo servers on ports 9999 and 8898 | `udp_server_test.c` |

Each lcore loops for ever on a core of its own.  They share two global rings,
the ARP table, the list of connections with the two rings, the mutex and the
condition variable of each, the fd bitmap, the table of ring names and the mbuf
pool.  Apart from the mutex of a connection and the lock of the ring names
nothing is locked.

### 1.2 Components

**UDP receive path** (`udp.c:58-77`, `socket.c:91-131`, `udp_info.c`).
*State:* the `receive_buffer`, `mutex` and `cond` of a connection.
*Operations:* `hz_process_udp` (packet lcore), `hz_receive_from` (application).
*Hard:* the payload is enqueued outside the mutex and signalled inside it; a
payload longer than the caller's buffer is re-queued without mutex or signal; a
full ring drops in silence.
*Correct when:* no reader sleeps while there is something to read and nobody is
to wake it; no byte is delivered twice; only a full ring loses data; datagrams
are first read in order.

**Socket table** (`socket.c`, `conn_status.c`, `list.h`, `red_black.c`).
*State:* the fd bitmap, the list of connections, the names of rings and their
lock.  *Operations:* `hz_socket`, `hz_bind`, `hz_close` and the lookup
`hz_get_conn_info_by_fd`.  *Hard:* bitmap and list are shared by lcores without
a lock; the packet lcore walks along the list while it changes
(`hz_get_conn_info_by_socket`, `hz_process_out_udp`); failures half way through
`hz_socket`; fds are used again.
*Correct when:* two open sockets never share an fd; a call finds the caller's
own open socket; the list stays a list; a datagram finds the socket bound to its
port; every call and every walk returns.

**ARP and RARP** (`arp.c`, `arp_table.c`, `rarp.c`, `timer.c`).
*State:* the ARP table; the frames on the network.  *Operations:* the timer's
requests, the four kinds of incoming frames.  *Hard:* lost, repeated and
reordered frames; the timer reads the table while the packet lcore writes it.
*Correct when:* each address is listed once; every host that answers is learnt;
nothing that has been learnt is forgotten; what the timer reads belongs to the
address it asks for.

**UDP send path** (`socket.c:133-156`, `udp.c:80-110`, `main.c:91-98`).
*State:* the `send_buffer` of each connection, the sweep's position,
`ring->out`.  *Operations:* `hz_sendto`, `hz_process_out_udp`, the transmit half
of the main loop.  *Hard:* datagrams without a MAC circulate; three rings fill
up; sockets share one sweep.
*Correct when:* a datagram is sent at most once and lost only to a full ring or
to a NIC that does not take the whole burst; the order of a socket's datagrams is kept; every socket gets its turn.

**Echo servers** (`udp_server_test.c`).  *State:* the array `buffer` of each
server, the address of the last client.  *Operations:* the loop of read, prefix
and `hz_sendto`.  *Hard:* `buffer` is bytes to the read and a string to the
rest; several clients share it.
*Correct when:* every read is answered once, to its sender, with its text and
nothing else (it is not: section 3).

**Packet buffers and `ring->out`** (`main.c:81-110`, `timer.c`,
`deal_packet.c`, `ring.c`).  *State:* the pool, `ring->in`, the positions and
slots of `ring->out`, the queue of the NIC.  *Operations:* allocation and free,
receiving and sending in bursts, enqueues on `ring->out` by the packet lcore and
by the timer.  *Hard:* the ring is created for one producer and has two, of
which one uses the call for one and the other the call for many; buffers are
freed by lcores that have handed them on; frames are dropped without a free.
*Correct when:* a buffer is with one holder; what nobody needs any more is
freed; the ring is a queue; nobody waits in it for ever.

**Dispatch and start-up** (`main.c:113-193`, `deal_packet.c`, `deal_ipv4.c`,
`tcp.c`).  *State:* none of its own.  *Operations:* creating the singletons,
launching the lcores, choosing the handler of a frame and freeing it.
What could be said of it, that no lcore runs before what it uses exists and
that each kind of frame gets to its handler, is sequential code that the models
follow and no property of theirs is about.

**ICMP echo** (`icmp.c`) and **frame builders** (`deal_udp.c`).  No state, but
arithmetic in 16 bits: lengths in three headers, a checksum summed up by hand.
*Correct when:* the receiver of a frame gets the payload that was given to
`hz_sendto`; checksums hold.

**Helpers** (`function.c`): printing, and a generator of names without a caller.
Not modelled.

The hazards of each component, with the line where each bites and the
properties that watch it, are listed in `PROJECT.json`.

## 2. The modules

| module | what it is |
|---|---|
| `DatagramQueue` | abstract: what a bound socket promises its readers, a bounded lossy queue |
| `UdpReceive` | the receive path: packet lcore, mutex, condition variable, readers |
| `SocketTable` | `hz_socket`, `hz_bind`, `hz_close`, one step per load and store |
| `Stack` | start-up, the servers of `SocketTable`, and the packet lcore that walks along their list |
| `AddressTable` | abstract: what the ARP table promises those who look an address up, a set that grows until it is cut |
| `ArpTable` | timer, ARP and RARP handlers, table, hosts, network |
| `UdpSend` | `hz_sendto`, the sweep, `ring->out`, transmission |
| `FrameQueue` | abstract: what an `rte_ring` of mbufs promises, a bounded queue |
| `Buffers` | who holds an mbuf; `ring->out` with head and tail of its producers |
| `Frames` | lengths and checksums as operators on 16-bit words |
| `EchoServer` | the loop of an echo server, its buffer and its clients, pings |
| `Places` | how often a thing is in a sequence, and what of a sequence is in a set; for the properties of `UdpSend` and `Buffers` |
| `..._proofs` | theorems about the module of that name; `Places_proofs` has the lemmas about counting and filtering, `EchoServer_proofs` also those about `Frames` |
| `MC...` | one instance module for each component that is run |

In each module the operators named "As X, but ..." in their comment are
mutations of X.  No specification uses them: replacing X by one must make TLC
report the property `PROJECT.json` names, which shows that the property can
fail.

### UdpReceive

`receive_buffer` and `mutex` are the fields of that name; `pktPc` and `rxPc` say
where the packet lcore and each reader are; `udp_payload` is the local variable
of `hz_receive_from`.  `arrived`, `got` and `lost` are history: what was offered
to the ring, how many bytes of each datagram callers got, and what met a full
ring.  The packet lcore goes through `PktArrive`, `PktEnqueue`, `PktLock`,
`PktSignal`, `PktUnlock` (`udp.c:58-76`).  A reader goes through `RxCall`,
`RxLock`, `RxDequeue` (the condition of the `while`), `RxWait` or `RxUnlock`,
then `RxCopyAll`, or `RxCopyPart` and `RxRequeue`.  `pthread_cond_wait` is
`RxWait` (release and sleep, in one step) and then `RxLock`; between the two a
signal or a spurious wakeup must come.  rte_ring operations are atomic: this
path uses only multi-producer and multi-consumer ones.

Two ends of the process are modelled as `RxAbort`: a second read of a partly
read payload passes memory of `rte_malloc` to `free` (`socket.c:115-125`), which
glibc may refuse; and the `rte_malloc` of a rest may fail, after which the copy
goes to `NULL`.

`DatagramQueue` says the same without mutex, condition variable and waiting:
something that is queued is eventually taken by some reader.  The refinement
mapping (`ImplementsQueue`) reads `receive_buffer` as the queue and makes
everything between two dequeues one stage of a reader.

### SocketTable

Every load and store of shared memory that is not under a lock is an action:
test of a bit, load and store of its byte (`|=` and `&=` are two accesses), both
halves of `INSERT_NODE_HEAD`, each line of `DELETE_TARGET_NODE`, each turn of
the lookup.  Connections are numbered in the order of insertion and have the
fields `next` and `prev` of `list.h`; as in the code, `prev` of the old head is
not set.  `rings` are the names that exist: `rte_ring_create` refuses a
duplicate, and no ring is ever freed; `RingsRunOut` says whether it may also fail
for want of memory, `MemoryRunsOut` whether `rte_malloc` may.  A failed creation goes to `idle` with
`ring_lock` still held, as `conn_status.c:31-35` and `:40-46` do, possibly after
an abort in `free`.  `owned` is the application's view: the fds it may use.

### Stack

`Stack` extends `SocketTable`: its threads are the servers, and the packet lcore
is added.  `Boot` lists what `init()` creates and launches; an lcore takes steps
only after it has been launched.  `Lookup`, `LookupTurn`, then `Miss` or
`Deliver` are `hz_process_udp` with `hz_get_conn_info_by_socket`; `Sweep`,
`SweepTurn` and `SweepEnds` are `hz_process_out_udp`.  Each turn of a loop reads
one node of the list, and servers may do anything between two turns.  `sought`
and `cleared` are history: the listed connections bound to the port of the
datagram when its lookup began, as long as they stay bound to it, and the
connections closed since.  `failed`, history too, records that a `hz_socket` could
not create one of its rings (`GivesUp`).  A step of the stack is a step of `SocketTable` or leaves
its variables alone, so what holds of the table holds of the stack.

### ArpTable

The nodes are numbered in order of creation and listed from the youngest to
`oldest`.  `TimerStart`, `TimerLookup` and `TimerBuild` are the loop of
`arp_request_timer_cb`, with the table free to change between lookup and copy.
`Deal` is the packet lcore with one frame.  `hz_get_ip_by_mac` compares places,
not bytes, and is modelled that way.  The consequence of `INSERT_NODE_HEAD`
evaluating its argument, a call, at each mention (`arp_table.c:59`) is that the
table is cut down to the new node.  Hosts answer, speak unasked and change their
MAC; `Carry` is a network that loses frames and reorders them, and `Deal` may
leave a frame to be delivered again.

### UdpSend

Sockets are numbered from the head of the list.  `info` and `udp_payload` are
the local variables of `hz_process_out_udp`; `Dequeue` ends the sweep at the
first empty `send_buffer` as `udp.c:86-88` does.  `SendFrame` and `PutBack` are
the two branches on the MAC.  The ARP table is that of `AddressTable`, a set of
addresses that grows (`Learn`) and may be emptied down to one (`Forget`), between
two sweeps; `emptied` is history and records that the second has happened.
`Answer` and `TimerRequest` are the other producers of `ring->out`: the packet
lcore between two sweeps, and the timer at any time.  `Transmit` takes a burst
off `ring->out` and hands it to the NIC, which may take any number of its frames
from the front: `main.c:94-97` ignores how many and frees the others, so that
their datagrams go to `lost`.

### Buffers

`pool` counts how often each mbuf is in the pool: `rte_pktmbuf_free` checks
nothing, so a buffer freed twice is there twice.  `slots`, `prod_head`,
`prod_tail` and `cons` are the fields of `ring->out`.  A multi-producer enqueue
is `Claim` (compare-and-swap of the head, store of the slot) and `Publish`, which
waits for its turn at the tail.  The enqueue of `udp.c:105` is
`rte_ring_enqueue_burst`, which for a ring with `RING_F_SP_ENQ` is the one for a
single producer: `LoadHead`, `StoreHead` and `StoreTail`, which neither compare
nor wait.  `raced` records that such an enqueue has undone one of the timer's;
from then on the ring promises nothing, and `process = "undefined"` when the main
lcore takes a slot that has never been written.

`Main` is the loop of the main lcore (`Receive`, `Transmit`, `FreeSent`, and the
timer's `TimerDue`, `NextRequest`, `FreeRequest`), `Packet` that of the packet
lcore with one action for each way a frame can go.  `NicSent` is the NIC, which
frees a buffer when it has been sent.  `shared` are the buffers that a lcore has
handed on and frees all the same: those given to the NIC (`main.c:95-98` frees
them again) and the timer's requests (`timer.c:33` frees what is on the ring).

`FrameQueue` says of `ring->out` what `UdpSend` assumes of it.  `ImplementsQueue`
maps the published slots to the queue.

### Frames

`HzSendUdp` computes the lengths of a frame as `hz_send_udp` and
`hz_build_udp_request` do: in parameters of 16 bits, so that a value is cut
between two of them, and with `htons`.  `HzBuildIcmpRequest` and `HzChecksum` are
`icmp.c`: the sum over words in the order of the machine, the second loop that
folds it (`Turn`, twice), and the complement.  `DataLength` and `Verifies` are
what a receiver does with them.

### EchoServer

`Receive` and `Requeue` are `hz_receive_from` as the server sees it, `Echo` is
the rest of the turn up to `hz_sendto`.  Bytes are modelled here, because what
`strcat` and `strlen` make of `buffer` depends on where its zeros are.
`Overrun` is a `buffer` without a zero, after which nothing is claimed;
`SendtoFails` is an `hz_sendto` that finds no memory or no socket, after which
the server closes its socket and returns.
`buffer` starts with any contents, as a local array does.  Each echo carries the
lengths of its frame.  `Ping` is a packet for `hz_process_icmp`, which answers
whatever its type is, and records the answer.

### How the modules fit together

`UdpReceive` implements `DatagramQueue`, and `EchoServer` uses a queue of the
same behaviour with one reader.  The list that `UdpSend` sweeps and in which
`UdpReceive` has found its socket is the one of `SocketTable`; `Stack` puts the
two walks of the packet lcore and the servers on one list.  The table
`UdpSend` works with is an instance of `AddressTable`, and `ArpTable` implements
that (`ImplementsTable`): `Mapped` are the addresses it lists, and that the list
ends at another node than the oldest of all says that it has been cut.
`UdpSend` takes `ring->out` for a queue of frames, which is `FrameQueue`, and
`Buffers` implements `FrameQueue` until its two producers meet.  `EchoServer`
builds its frames with `Frames`.

## 3. The runs

| run | properties | instance |
|---|---|---|
| `receive` | `TypeOK`, `MutexOwner`, `NoLostWakeup`, `Conservation`, `FirstReadInOrder`, `Delivery`, `ImplementsQueue` | 2 readers, 3 datagrams of lengths 2, 2 and 0, buffer of 1, ring of 2 |
| `sockets_one_caller` | `TypeOK`, `FdExclusive`, `FoundIsOwn`, `LostOnlyBehindClosed` | 1 lcore, 3 sockets, both types, 5 fds in two bytes, memory may run out |
| `stack` | `StackTypeOK`, `ListEnds`, `MissesOnlyBehindClosed`, `SocketReturns`, `WalksReturn` | 2 servers with all calls, 2 sockets, rings that may not be created, packet lcore |
| `arp` | `TypeOK`, `NoDuplicates`, `TimerPointer`, `MappingsStay`, `ImplementsTable`, `HostsLearnt` | 2 hosts, 2 MACs, 2 nodes, four kinds of frames |
| `send` | `TypeOK`, `OnePlace`, `ResolvedInOrder`, `YoungestServed` | 2 sockets, 4 datagrams, 3 addresses, rings of 2, table that may be emptied |
| `buffers` | `TypeOK`, `OneHolder`, `SomeonePublishes`, `KnownLeaks`, `ImplementsQueue` | 3 mbufs, pool of 4, rings of 2, NIC queue of 1, 5 frames, positions modulo 6 |
| `echo` | `TypeOK`, `EchoAnswersRead`, `EchoLengths`, `PingsVerify` | 2 clients, 6 texts, 3 frames, buffer of 3 bytes, ring of 2, 8 words for pings |

*Why the bounds are enough.*  Receive: two readers are needed for a stolen
payload and a wakeup that goes to the wrong one, and a ring of two is filled by
three datagrams, so that both the arrival and the rest of a partly read payload
meet a full ring; two datagrams of length 2 let rests overtake each other, and an
empty one is a payload with nothing to copy.  The safety part is proved for every
size.  Sockets: three sockets give the list a middle, whose removal is where
`DELETE_TARGET_NODE` goes wrong; fds 6 to 10 lie in two bytes and can run out.
Stack: two lcores suffice for every race on one word; with two sockets the list
has a head and an end, either of which may be closed while the packet lcore
stands on the other or on it, and fds are used again; the creation of each ring
may fail, with the other server before, at or behind the lock.  That no cycle arises with
any number of sockets is proved.  ARP: two hosts are needed for one to vanish
behind the other; one frame under way in each direction is enough for lost,
repeated and late frames, and for both halves of the timer's turn to be separated
by any frame.  Send: rings of two are filled by three datagrams on one socket,
one of them without a MAC; the second socket sees a sweep that stops short; the
third address is one no datagram is for, so that the table may be emptied of all
that anybody wants; of a burst of two the NIC takes two, one or none.  Echo: the texts are empty, with and without a zero, as long
as the buffer, and longer, so that three of them in a row leave every kind of
remainder in the buffer; the ring of two is full when a rest comes back and two
datagrams have arrived meanwhile.  The words of pings are the ends of the range,
both bytes set or one, and pairs whose sums carry; that the checksum holds for
all words is proved.  Buffers: three mbufs are one on each side of `ring->out`
and one under way, and the pool has a slot more than there are buffers, so that
one buffer can be there twice and a second double free finds it full; rings of
two slots run full and, modulo 6, wrap twice; a burst of one suffices because a
burst only does to several what it does to one, except that `Transmit` frees
behind the whole of it, which `FreeSent` does one by one.  Buffers are alike,
hence the symmetry; no liveness is checked in that run.

Named bounds: `MaxConns` (sockets created), `MaxNodes` (ARP nodes created),
`InFlight` (frames under way), `MaxSent` and `MaxPings` (frames clients send to
an echo server), `MaxFrames` (frames received and built in `Buffers`; without
bound in `timer_hangs`), and the sets of datagrams.

*Fairness.*  Lcores never block except on a mutex or a condition variable and
have a core each, so each of their loops is weakly fair: `PktStep` and
`RxStep(r)` in `UdpReceive`, `Step(t)` in `SocketTable`, `Timer` in `ArpTable`,
`Process` and `Transmit` in `UdpSend`; in `Stack` also `BootStep`, for `main`
launches all lcores, and `Packet`, the endless loop of `hz_pkt_process`; `Main`
and `Packet` in `Buffers`.  There the timer is strongly fair as well: its period
has passed in turn after turn of the main loop.  Nothing is assumed of the
environment in `UdpReceive`: no datagram need arrive, no spurious wakeup need
come.  A contended `pthread_mutex` need not be fair, and no property relies on
it: a thread of `UdpReceive` is weakly fair only, so it may lose the mutex to
another as long as the other keeps coming back, and delivery holds all the same.
In `ArpTable` a host that keeps hearing a question answers, and an answer given
for ever gets through (strong fairness of `HostAnswers` and `Answer`): without it
the network may lose everything and nobody is ever learnt.

`CHECK_DEADLOCK FALSE` is set where the system may stop: for the runs of
`SocketTable`, where an application that has made its `MaxConns` sockets may have
nothing left to call, the process may abort, and a thread may wait for a lock that
is never released; for `stack`, where the `free` after a ring that could not be
created may abort the process; for those of `EchoServer`, where
clients stop after `MaxSent` frames and the server then waits for ever or has
stopped; and for those of `Buffers`, which ends
with `rte_exit` when the pool is empty.

### What the runs show to be wrong

| run | property | what the code does |
|---|---|---|
| `close_leaves_linked` | `CloseRemoves` | `prev` is never set, so closing any socket but the youngest leaves it linked and cuts off all older ones (`list.h:20`) |
| `two_servers` | `BindsOwnSocket` | two `hz_socket` at once may get one fd (`socket.c:22`) |
| `echo_shows_earlier` | `EchoHoldsOwnData` | the echo of a text without a final 0 goes on with what an earlier datagram has left in the array (`udp_server_test.c:59`) |
| `older_socket_starved` | `AllServed` | an idle younger socket stops the sweep for ever (`udp.c:87`) |
| `timer_hangs` | `TimerReloads` | the enqueue of `udp.c:105` moves the tail of `ring->out` past the position the timer waits for, and the main lcore never comes back from `timer.c:32` |

Read with the code, but without a run of their own: a `hz_socket` that cannot
create one of its rings keeps the lock of the names (`conn_status.c:31-35`,
`:42-46`), so all later ones wait for ever, which `stack` has and `SocketReturns`
names as the only way to wait for ever; `send_name[16]` equals `receive_name[11]`
(`main.c:25`), so the 17th `hz_socket` of a process is such a call whatever memory
there is (`CreateSendRing`; the names of the runs are all different); a RARP
reply from a new address empties the ARP table, because `INSERT_NODE_HEAD`
evaluates a call at each mention (`arp_table.c:59`; `RarpReply`, and `Forget` in
`AddressTable`); `hz_build_udp_request` copies the 8 bytes of the
UDP header too many (`deal_udp.c:39`; `copied` in `HzSendUdp`); `hz_sendto`
queues its length cut to 16 bits and returns it uncut (`HzSendtoLength`); every
ICMP packet is answered as if it were an echo request (`icmp.c:12`); after the
race of `timer_hangs` the consumer of `ring->out` may overtake its producers and
take slots that are stale or were never written (`Transmit`);
`hz_build_arp_request`
gives frames for one host the destination 00:00:00:00:00:00 (`arp.c:64`), so
that only broadcasts reach anybody, which `ArpTable` models in `Frame` and
`HostAnswers`; `hz_get_ip_by_mac` never finds anything, so that a RARP request
is never answered (`arp_table.c:32`), modelled in `RarpRequest`; the comment
`1024*8个fd` at `socket.c:13` is about an array of 8192 bits of which the loop
below it uses 1024.

## 4. The proofs

TLAPS checks the following for every value of the constants that satisfies the
module's assumptions.

**`UdpReceive_proofs`** assumes of the constants that the ring has at least one
slot, the buffer at least one byte, and that every datagram has a length.

* `TypeCorrect`: `SafeSpec => []TypeOK`.  `TypeOK` says which reader holds a
  payload, so it is inductive as it stands; the ring stays within its slots by
  `EnqueueTypes`.
* `MutualExclusion`: `SafeSpec => []MutexOwner`.  The owner of the mutex is the
  one thread inside the critical section, also across `pthread_cond_wait`.
* `WakeupSafety`: `SafeSpec => []NoLostWakeup`.  Not inductive alone: a reader
  that tests an empty ring and goes to sleep could miss a payload that comes in
  between, unless the packet lcore, which must still signal, is kept out by the
  mutex.  So the step uses `MutexOwner`.
* `NothingDuplicated`: `SafeSpec => []Conservation`.  What a caller got of each
  datagram, what is on the ring, in a reader's hand, or lost adds up to its
  length.  The invariant is strengthened by `Arrivals`: a datagram is offered to
  the ring once.  One lemma per kind of step (`ConservationPktEnqueue`,
  `ConservationDequeue`, `ConservationCopy`, `ConservationRequeue`), and
  `ConservationFrame` for the steps that move no data.
* `MakesTheQueue`: `SafeSpec => Queue!SafeSpec`, the safety part of
  `ImplementsQueue`.  `QueueStep` goes through the steps: locking, waking and
  waiting leave what the queue sees alone (`Unseen`, `StageGoes`), the others
  are its steps.  That a datagram is offered once comes from `Arrivals`.
* `FirstReadsInOrder`: `SafeSpec => []FirstReadInOrder`.  Strengthened by
  `RingInOrder`, the order of unread payloads on the ring, and `RestsRead`, which
  says that what goes back to the ring is not unread, so that it may go to the
  back.  `OrderDequeue` is the step where both are needed.

**`SocketTable_proofs`** assumes that there is a name for each ring, and else
nothing but the types of the constants: any number of lcores, sockets and fds,
names that repeat or not, memory that runs out or not.

* `NoCycle`: `SafeSpec => []ListEnds`.  However insertions and deletions
  interleave, `next` leads to an older connection, so each walk ends.  Three
  strengthenings make it inductive.  `NoPrev`: no `prev` is ever set, so the
  first line of `DELETE_TARGET_NODE` never stores.  `Working`: what a thread has
  in its local variables at each place of a call; in particular a head it has
  read is older than the connection it will insert.  And `TypeOK`.  Steps fall
  into those that leave the nodes alone (`OtherSteps`, each by what it does to
  the one thread that takes it: `OneThread`, `JustGoto`) and those that store to
  a node (`NodeSteps`, from `StoreNode` and `NewNode`).
* `TypeCorrect`: `SafeSpec => []TypeOK`, from the same invariant; fds stay
  between `FIRST_FD` and `MAX_FD` only because of `Working`.
* `FdsAreExclusive`, `FindsItsOwn` and `NoneLostOtherwise` are about one thread,
  which may use any number of sockets and fds and meet any failure: the three
  properties of `sockets_one_caller`.  The invariant `CallerInv` says at each
  place of a call what becomes of the fd it is about (`Handling`), and that an
  open connection is the youngest node with its fd, to which younger nodes lead,
  if not to one younger still or nowhere (`Unique`); with `Linked`, that a walk
  from the head meets each open connection, or a closed one in front of it.
  That only concurrent callers break these properties is what
  `two_servers` shows.

**`ArpTable_proofs`** holds for any subnet, any hosts and MACs, any number of
frames and nodes.

* `ListedOnce` (`NoDuplicates`) and `PointerStaysGood` (`TimerPointer`) follow
  with `TypeCorrect` from one invariant, their conjunction: a node is added only
  if the lookup finds none, which by `LookupFinds` means none is listed, and
  nodes only ever change their MAC, so a pointer the timer holds keeps its
  address even after the table has been cut.
* `ArpRepliesChangeNothing`: `SafeSpec => MappingsStay`, an action property.  In
  a table without duplicates an address is found at its node as long as that
  node is listed (`NoDuplicates` after the step); an ARP reply only adds a node,
  and no other step but `RarpReply` touches the table.
* `TableIsASet`: `SafeSpec => ImplementsTable`, from the same invariant.
  `DealMapped` goes through the three ways in which a frame can change the list
  (`DealCases`): a node that comes last adds its address, a node that comes alone
  leaves no other, a new MAC changes nothing that is listed.

**`UdpSend_proofs`** assumes of the constants their types only: any number of
sockets and datagrams, any sizes of the rings and the burst.

* `TypeCorrect`: `SafeSpec => []TypeOK`.  A datagram is put back on the ring of
  `info`, which must be its own socket's: `OnOwnSocket` is added.
* `AtOnePlace`: `SafeSpec => []OnePlace`.  Strengthened by `CalledOnce`, that
  `hz_sendto` is called at most once with each datagram.  A datagram moves from
  one sequence to another: `CountAppend`, `CountHead`, `CountSplit` and
  `CountOnly` of `Places_proofs` say what that does to the number of its
  occurrences, and one lemma per kind of step (`PlacesSend`, `PlacesSweep`,
  `PlacesTransmit`) that the sum stays; in the last a burst is split twice, where
  the ring goes on and where the NIC stops.  `PlaceStep` is the frame they share.
* `LeaveInOrder`: `SafeSpec => []ResolvedInOrder`.  Strengthened by
  `StillResolved`: what was resolved beforehand is in the table until a RARP
  reply has emptied it, so that such a datagram is never put back.  What a
  filter leaves of `wire \o out \o inHand \o send_buffer[s]` is the same
  before and after (`OnlyConcat`, `OnlyNone`, `Regroup`): taking a datagram up
  moves the end of one part to the beginning of the next, and putting back moves
  one that the filter drops.

**`Places_proofs`** proves what those need of `Count` and `Only` for all
sequences.  `Only` is a recursive function; that it exists and is unique
(`KeptExists`, `KeptUnique`) and that it distributes over concatenation
(`OnlyConcat`) are inductions over a length, made with a least counterexample
(`Smallest`), since the induction theorems of the library take an operator.

**`Buffers_proofs`** assumes what `Buffers` does: `ring->out` has at least two
slots, their number divides the number of positions, and the pool has a slot
for each of finitely many mbufs.

* `TypeCorrect`: `SafeSpec => []TypeOK`.  `Stages` is added: what the local
  variables of both lcores hold at each place of their loops.
* `RingIsQueue`: `SafeSpec => ImplementsQueue`.  The mapping makes the slots from
  `cons` to `prod_tail` the queue.  The invariant `RingInv` says of a ring on
  which nobody has been undone: the lcores between claim and publication wait one
  behind the other at the positions from `prod_tail` to `prod_head` (`Claimed`),
  each with its mbuf in its slot; no more positions are taken than there are
  slots; and what is published is a buffer.  Positions wrap, so this needs some
  arithmetic of remainders (`TurnApart`: positions less than a turn apart with
  the same remainder are the same; `SlotAt`), after which `WindowMore` and
  `WindowSplit` say that publishing appends to the queue and a burst takes its
  first items.  A step that undoes an enqueue sets `raced`, which `FrameQueue`
  allows as `Misuse`.
* `NeverBothWait`: `SafeSpec => []SomeonePublishes`, from the same invariant: one
  of those who wait is at `prod_tail`.
* `InOneHand`: `SafeSpec => []OneHolder`, and `OnlyKnownLeaks`: `SafeSpec =>
  KnownLeaks`.  Both come from one lemma on steps, `EveryStepSteady`: no step
  adds a holder to a buffer that is not shared, and none takes one away except
  where the code drops a frame.  `HoldersAre` and `HoldersWillBe` write the
  holders as a sum of eight numbers, of which each step changes two.  `Sent`,
  that the burst has been freed when the loop of `main.c:95-98` is left, is
  needed for `Transmit`, which overwrites it.

**`Stack_proofs`** lets what is proved of `SocketTable` carry over
(`StackIsSocketTable`, a lemma that only says how `Stack` is built).

* `StackListEnds`: `ListEnds` also under the walks of the packet lcore.
* `StackTypes` and `MissesOnlyThen`: `StackTypeOK` and `MissesOnlyBehindClosed`,
  for any number of servers.  `Meets(c, d)` says that a walk from `c` comes to
  `d`, as membership in every set closed under `next`, so that no recursion is
  needed; `MeetsKept` and `MeetsOrCleared` of `SocketTable_proofs` say that each
  step of a server keeps it, except that closing a connection may cut off that
  one and older ones.

**`EchoServer_proofs`** begins with the arithmetic of `Frames`, for all words,
where a run tries eight.

* `AnswerVerifies`: the checksum of an answer holds for each identifier and
  sequence number, in both orders of bytes: swapping the bytes of all words
  multiplies their sum by 256 modulo 65535, and folding keeps it modulo 65535.
* `ChecksumLoopEnds`: two turns of the loop suffice, so `Folded` is the loop.
* `LengthSurvives`: the receiver computes the length that was given to
  `hz_send_udp`, though the lengths in between wrap; `LengthsAgree`: the headers
  agree up to 65493 bytes.

It then proves the four properties of `echo` for any clients, texts and sizes,
`EchoLengths` for an array of at most 65488 bytes (the code has 1024).  The
invariant adds `Answering`: between a read and its echo `client_addr` is the
sender, and the array begins with the data of the read.

What is not proved.  Every invariant and every action property of a passing run
is a theorem.  Liveness (`Delivery`, `SocketReturns`, `WalksReturn`,
`HostsLearnt`, `YoungestServed`) and the fairness part of `UdpReceive`'s
`ImplementsQueue` need `ENABLED` and are out of the prover's reach: they stay
with TLC.  The runs that end in a violation are counterexamples, which TLC
shows and nobody need prove.

## 5. Not modelled, and why

* Printing and the name generator (`function.c`), and the configuration of the
  NIC (`main.c:133-171`): sequential, and without a property that anyone could
  state.  What CMake generated (`cmake-build-debug`) makes up two thirds of the
  lines of C in the repository, and is no part of the program.
* Bytes of frames and the layout of headers, except the lengths, the four words
  of an ICMP header, and the payloads of `EchoServer`: the builders copy
  addresses and store constants.  The checksums of IP and UDP are DPDK's.
* What a buffer that two hold contains: `Buffers` says who holds it, the other
  modules treat frames as values.  For `ArpTable` an overwritten frame is one
  the network has lost; for `UdpSend` it is outside the model.
* The race on `ring->out` in `UdpSend`, where an enqueue is one step.  Its
  properties hold as long as `raced` of `Buffers` is false.
* Sizes.  `RING_SIZE` is 1024, `BURST_SIZE` 128, the queues of the NIC 1024, the
  pool has 8045 buffers in a ring of 8191 slots; the models keep their relations
  (more slots than buffers in the pool, rings that hold fewer than there may be)
  and not their values.
* The use of a connection after its release: `hz_close` calls `rte_free` on it
  (`socket.c:164`), but it comes from `malloc`, which `rte_free` refuses, so that
  the memory stays as it is; the models rest on that.  `hz_destroy_connection_info`
  has no caller.
* The 6 bytes of a MAC are read and written as one (`arp_table.c:55`, `timer.c`):
  a request with half of each reaches nobody, like one that is lost.
* Memory beside the model: the `memset` of `conn_status.c:92`, which clears a
  `socket_info` with the length of the larger `hz_connection_info`.
* Memory order: the models are sequentially consistent.  The compare-and-swap of
  an enqueue and the mutexes are fences; the plain stores of the socket list and
  of the bitmap may be delayed on x86, which the models do not show.

## 6. What could follow

* `UdpSend` on top of `Buffers` in place of `FrameQueue`, to see which datagrams
  a race on `ring->out` may cost.
* Two callers in `SocketTable_proofs`, once `hz_get_fd_from_bitmap` sets its bit
  atomically: `FdExclusive` should then hold for any number of them.
