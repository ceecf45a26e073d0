-------------------------- MODULE SocketTable_proofs --------------------------
(***************************************************************************)
(* Proofs about SocketTable, for every number of lcores, sockets and fds,  *)
(* whatever ring names there are and whether or not memory runs out.       *)
(***************************************************************************)
EXTENDS SocketTable, SequenceTheorems, TLAPS

\* INSERT_NODE_HEAD never sets prev of the old head, so it is NULL everywhere.
NoPrev == \A c \in Conns : conns[c].prev = 0

\* What a thread relies on from one step of its call to the next: the fd and
\* the connection it works with.
Working(t) ==
  /\ pc[t] \in {"test", "load", "store", "alloc", "lock", "send_ring",
                "receive_ring", "unlock", "read_head", "write_head"}
       => type[t] \in Types /\ fd[t] >= FIRST_FD
  /\ pc[t] \in {"load", "store", "alloc", "lock", "send_ring", "receive_ring",
                "unlock", "read_head", "write_head"}
       => fd[t] < MAX_FD
  /\ pc[t] \in {"write_head", "bind", "close", "unlink_prev", "unlink_next",
                "test_head", "move_head", "clear_node"}
       => conn[t] # 0

AllWorking == \A t \in Threads : Working(t)

Inv == TypeOK /\ ListEnds /\ NoPrev /\ AllWorking

\* A store to a node that leaves prev NULL and next with an older node.
LEMMA StoreNode ==
  ASSUME conns \in Seq(Connection), ListEnds, NoPrev,
         NEW k \in Conns, NEW e \in Connection, e.next < k, e.prev = 0,
         conns' = [conns EXCEPT ![k] = e]
  PROVE  /\ conns' \in Seq(Connection)
         /\ Len(conns') = Len(conns)
         /\ ListEnds'
         /\ NoPrev'
  <1>1. /\ conns' \in Seq(Connection)
        /\ Len(conns') = Len(conns)
        /\ \A c \in Conns : conns'[c] = IF c = k THEN e ELSE conns[c]
    BY ExceptSeq DEF Conns
  <1> QED
    BY <1>1 DEF ListEnds, NoPrev, Conns

\* A new node leads to the head the inserting lcore read: any older node.
LEMMA NewNode ==
  ASSUME conns \in Seq(Connection), ListEnds, NoPrev,
         NEW e \in Connection, e.next <= Len(conns), e.prev = 0,
         conns' = Append(conns, e)
  PROVE  /\ conns' \in Seq(Connection)
         /\ Len(conns') = Len(conns) + 1
         /\ ListEnds'
         /\ NoPrev'
  <1>1. /\ conns' \in Seq(Connection)
        /\ Len(conns') = Len(conns) + 1
        /\ Len(conns) \in Nat
        /\ \A c \in 1 .. Len(conns) : conns'[c] = conns[c]
        /\ conns'[Len(conns) + 1] = e
    BY AppendProperties, LenProperties
  <1>2. ASSUME NEW c \in Conns' PROVE conns'[c].next < c /\ conns'[c].prev = 0
    <2>1. CASE c \in Conns
      BY <1>1, <2>1 DEF ListEnds, NoPrev, Conns
    <2>2. CASE c = Len(conns) + 1
      BY <1>1, <2>2 DEF Connection
    <2> QED
      BY <1>1, <1>2, <2>1, <2>2 DEF Conns
  <1> QED
    BY <1>1, <1>2 DEF ListEnds, NoPrev

\* What the invariant says of one thread and of the node it works with.
LEMMA ThreadFacts ==
  ASSUME Inv, NEW t \in Threads
  PROVE  /\ Len(conns) \in Nat
         /\ FIRST_FD \in Nat /\ MAX_FD \in Nat
         /\ fd[t] \in Nat
         /\ conn[t] \in 0 .. Len(conns)
         /\ \A c \in Conns : conns[c] \in Connection
         /\ \A c \in Conns : conns[c].next \in 0 .. Len(conns)
         /\ conn[t] # 0 => conn[t] \in Conns
  <1>1. /\ conns \in Seq(Connection)
        /\ Len(conns) \in Nat
        /\ \A c \in Conns : conns[c] \in Connection
    BY ElementOfSeq, LenProperties DEF Inv, TypeOK, Conns
  <1>2. \A c \in Conns : conns[c].next \in Nat /\ conns[c].next < c
    BY <1>1 DEF Inv, ListEnds, Connection
  <1>3. \A c \in Conns : conns[c].next \in 0 .. Len(conns)
    BY <1>1, <1>2 DEF Conns
  <1> QED
    BY <1>1, <1>3, FdAssumption DEF Inv, TypeOK, Conns

\* A step of t that leaves all nodes and the other threads' variables alone
\* keeps the invariant if it keeps the types and what t relies on.
LEMMA OneThread ==
  ASSUME Inv, NEW t \in Threads, TypeOK', Working(t)', conns' = conns,
         \A s \in Threads \ {t} :
            pc'[s] = pc[s] /\ fd'[s] = fd[s] /\ type'[s] = type[s] /\ conn'[s] = conn[s]
  PROVE  Inv'
  <1>1. ListEnds' /\ NoPrev'
    BY DEF Inv, ListEnds, NoPrev, Conns
  <1>2. ASSUME NEW s \in Threads PROVE Working(s)'
    <2>1. CASE s = t
      BY <2>1
    <2>2. CASE s # t
      BY <2>2 DEF Inv, AllWorking, Working
    <2> QED
      BY <2>1, <2>2
  <1> QED
    BY <1>1, <1>2 DEF Inv, AllWorking

\* So does a step that changes nothing but its place and the ring names.
LEMMA JustGoto ==
  ASSUME Inv, NEW t \in Threads, NEW label \in Labels, Goto(t, label),
         UNCHANGED <<tableVars, listVars, callVars>>,
         ring_count' \in Nat, ring_lock' \in Threads \cup {NULL},
         process' \in {"running", "aborted"}, Working(t)'
  PROVE  Inv'
  <1>1. TypeOK'
    BY DEF Inv, TypeOK, Goto, tableVars, listVars, callVars
  <1>2. \A s \in Threads \ {t} : pc'[s] = pc[s]
    BY DEF Inv, TypeOK, Goto
  <1> QED
    BY <1>1, <1>2, OneThread DEF tableVars, listVars, callVars

\* Steps that change no node keep the invariant.
LEMMA OtherSteps ==
  ASSUME Inv, NEW t \in Threads, process' \in {"running", "aborted"},
         \/ SocketCall(t) \/ TestBit(t) \/ LoadForSet(t) \/ StoreSet(t)
         \/ Allocate(t) \/ LockNames(t) \/ CreateSendRing(t)
         \/ CreateReceiveRing(t) \/ UnlockNames(t) \/ WriteHead(t)
         \/ BindCall(t) \/ CloseCall(t) \/ BindWalk(t) \/ CloseWalk(t)
         \/ Close(t) \/ TestHead(t) \/ MoveHead(t)
         \/ LoadForClear(t) \/ StoreClear(t)
  PROVE  Inv'
<1> USE ThreadFacts DEF tableVars, listVars, ringVars, callVars, Goto
<1>0. TypeOK /\ Working(t) /\ pc[t] \in Labels
  BY DEF Inv, AllWorking, TypeOK
<1>1. CASE SocketCall(t)
  <2>1. PICK k \in Types : type' = [type EXCEPT ![t] = k]
    BY <1>1 DEF SocketCall
  <2>2. TypeOK'
    BY <1>0, <1>1, <2>1, TypesAssumption DEF SocketCall, TypeOK, Labels
  <2>3. Working(t)'
    BY <1>0, <1>1, <2>1 DEF SocketCall, TypeOK, Working
  <2> QED
    BY <1>0, <1>1, <2>1, <2>2, <2>3, OneThread DEF SocketCall, TypeOK
<1>2. CASE TestBit(t)
  <2>1. TypeOK'
    <3>1. pc' \in [Threads -> Labels]
      BY <1>0, <1>2 DEF TestBit, TypeOK, Labels
    <3>2. fd' \in [Threads -> Nat]
      BY <1>0, <1>2 DEF TestBit, TypeOK
    <3> QED
      BY <1>0, <1>2, <3>1, <3>2 DEF TestBit, TypeOK
  <2>2. Working(t)'
    BY <1>0, <1>2 DEF TestBit, TypeOK, Working
  <2> QED
    BY <1>0, <1>2, <2>1, <2>2, OneThread DEF TestBit, TypeOK
<1>3. CASE LoadForSet(t) \/ LoadForClear(t)
  <2>1. TypeOK'
    <3>1. pc' \in [Threads -> Labels]
      BY <1>0, <1>3 DEF LoadForSet, LoadForClear, LoadByte, TypeOK, Labels
    <3>2. byte' \in [Threads -> SUBSET (FIRST_FD .. MAX_FD - 1)]
      <4>1. byte' = [byte EXCEPT ![t] = hz_fd_table \cap ByteOf(fd[t])]
        BY <1>3 DEF LoadForSet, LoadForClear, LoadByte
      <4>2. hz_fd_table \cap ByteOf(fd[t]) \subseteq FIRST_FD .. MAX_FD - 1
        BY <1>0 DEF TypeOK
      <4> QED
        BY <1>0, <4>1, <4>2 DEF TypeOK
    <3> QED
      BY <1>0, <1>3, <3>1, <3>2 DEF LoadForSet, LoadForClear, LoadByte, TypeOK
  <2>2. Working(t)'
    BY <1>0, <1>3 DEF LoadForSet, LoadForClear, LoadByte, TypeOK, Working
  <2> QED
    BY <1>0, <1>3, <2>1, <2>2, OneThread
       DEF LoadForSet, LoadForClear, LoadByte, TypeOK
<1>4. CASE StoreSet(t)
  <2>1. fd[t] \in FIRST_FD .. MAX_FD - 1
    BY <1>0, <1>4 DEF StoreSet, Working
  <2>2. TypeOK'
    BY <1>0, <1>4, <2>1 DEF StoreSet, TypeOK, Labels
  <2>3. Working(t)'
    BY <1>0, <1>4 DEF StoreSet, TypeOK, Working
  <2> QED
    BY <1>0, <1>4, <2>2, <2>3, OneThread DEF StoreSet, TypeOK
<1>5. CASE Allocate(t)
  <2>1. PICK label \in {"lock", "idle"} : Goto(t, label)
    BY <1>5 DEF Allocate
  <2>2. Working(t)'
    BY <1>0, <1>5, <2>1 DEF Allocate, TypeOK, Working
  <2> QED
    BY <1>0, <1>5, <2>1, <2>2, JustGoto DEF Allocate, TypeOK, Labels
<1>6. CASE LockNames(t)
  <2>1. Working(t)'
    BY <1>0, <1>6 DEF LockNames, TypeOK, Working
  <2> QED
    BY <1>0, <1>6, <2>1, JustGoto DEF LockNames, TypeOK, Labels
<1>7. CASE CreateSendRing(t)
  <2>1. PICK label \in {"receive_ring", "idle"} : Goto(t, label)
    BY <1>7 DEF CreateSendRing, GiveUp
  <2>2. /\ pc[t] = "send_ring"
        /\ UNCHANGED <<tableVars, listVars, ring_count, ring_lock, callVars>>
    BY <1>7 DEF CreateSendRing
  <2>3. Working(t)'
    BY <1>0, <2>1, <2>2 DEF TypeOK, Working
  <2> QED
    BY <1>0, <2>1, <2>2, <2>3, JustGoto DEF TypeOK, Labels
<1>8. CASE CreateReceiveRing(t)
  <2>1. PICK label \in {"unlock", "idle"} : Goto(t, label)
    BY <1>8 DEF CreateReceiveRing, GiveUp
  <2>2. /\ pc[t] = "receive_ring"
        /\ ring_count' = ring_count + 1
        /\ UNCHANGED <<tableVars, listVars, ring_lock, callVars>>
    BY <1>8 DEF CreateReceiveRing
  <2>3. Working(t)'
    BY <1>0, <2>1, <2>2 DEF TypeOK, Working
  <2>4. label \in Labels /\ ring_count' \in Nat /\ ring_lock' \in Threads \cup {NULL}
    BY <1>0, <2>2 DEF TypeOK, Labels
  <2> QED
    BY <2>1, <2>2, <2>3, <2>4, JustGoto
<1>9. CASE UnlockNames(t)
  <2>1. Working(t)'
    BY <1>0, <1>9 DEF UnlockNames, TypeOK, Working
  <2> QED
    BY <1>0, <1>9, <2>1, JustGoto DEF UnlockNames, TypeOK, Labels
<1>10. CASE WriteHead(t)
  <2>1. fd[t] \in FIRST_FD .. MAX_FD - 1
    BY <1>0, <1>10 DEF WriteHead, Working
  <2>2. TypeOK'
    BY <1>0, <1>10, <2>1 DEF WriteHead, TypeOK, Labels
  <2>3. Working(t)'
    BY <1>0, <1>10 DEF WriteHead, TypeOK, Working
  <2> QED
    BY <1>0, <1>10, <2>2, <2>3, OneThread DEF WriteHead, TypeOK
<1>11. CASE BindCall(t) \/ CloseCall(t)
  <2>1. PICK f \in owned[t], label \in {"bind_walk", "close_walk"} :
          /\ fd' = [fd EXCEPT ![t] = f]
          /\ Goto(t, label)
    BY <1>11 DEF BindCall, CloseCall, Call
  <2>2. /\ owned' \in {owned, [owned EXCEPT ![t] = @ \ {fd'[t]}]}
        /\ conn' = [conn EXCEPT ![t] = head]
        /\ UNCHANGED <<tableVars, conns, head, ringVars, type>>
    BY <1>11 DEF BindCall, CloseCall, Call
  <2>3. f \in Nat
    BY <1>0, <2>1 DEF TypeOK
  <2>4. TypeOK'
    BY <1>0, <2>1, <2>2, <2>3 DEF TypeOK, Labels
  <2>5. Working(t)'
    BY <1>0, <2>1 DEF TypeOK, Working
  <2> QED
    BY <1>0, <2>1, <2>2, <2>4, <2>5, OneThread DEF TypeOK
<1>12. CASE BindWalk(t) \/ CloseWalk(t)
  <2> DEFINE next == conns[conn[t]].next
  <2>1. PICK label \in Labels :
          /\ pc' = [pc EXCEPT ![t] = label]
          /\ \/ label = "idle" /\ conn' = conn
             \/ label \in {"bind", "close"} /\ conn' = conn /\ conn[t] # 0
             \/ /\ label \in {"bind_walk", "close_walk"}
                /\ conn[t] # 0 /\ conn' = [conn EXCEPT ![t] = next]
    <3>1. CASE pc' = pc
      <4>1. pc' = [pc EXCEPT ![t] = pc[t]]
        BY <1>0, <3>1 DEF TypeOK
      <4> QED
        BY <1>0, <1>12, <3>1, <4>1 DEF BindWalk, CloseWalk, Walk, TypeOK, Labels
    <3>2. CASE pc' # pc
      BY <1>0, <1>12, <3>2 DEF BindWalk, CloseWalk, Walk, Labels
    <3> QED
      BY <3>1, <3>2
  <2>2. UNCHANGED <<tableVars, conns, head, ringVars, callVars>>
    BY <1>12 DEF BindWalk, CloseWalk, Walk
  <2>3. conn[t] # 0 => next \in 0 .. Len(conns)
    OBVIOUS
  <2>4. TypeOK'
    BY <1>0, <2>1, <2>2, <2>3 DEF TypeOK
  <2>5. Working(t)'
    BY <1>0, <2>1, <2>2 DEF TypeOK, Working
  <2> QED
    BY <1>0, <2>1, <2>2, <2>4, <2>5, OneThread DEF TypeOK
<1>13. CASE Close(t)
  <2>1. PICK label \in {"unlink_prev", "idle"} : Goto(t, label)
    BY <1>13 DEF Close
  <2>2. pc[t] = "close" /\ UNCHANGED <<tableVars, listVars, ringVars, callVars>>
    BY <1>13 DEF Close
  <2>3. Working(t)'
    BY <1>0, <2>1, <2>2 DEF TypeOK, Working
  <2> QED
    BY <1>0, <2>1, <2>2, <2>3, JustGoto DEF TypeOK, Labels
<1>14. CASE TestHead(t)
  <2>1. PICK label \in {"move_head", "clear_node"} : Goto(t, label)
    BY <1>14 DEF TestHead
  <2>2. pc[t] = "test_head" /\ UNCHANGED <<tableVars, listVars, ringVars, callVars>>
    BY <1>14 DEF TestHead
  <2>3. Working(t)'
    BY <1>0, <2>1, <2>2 DEF TypeOK, Working
  <2> QED
    BY <1>0, <2>1, <2>2, <2>3, JustGoto DEF TypeOK, Labels
<1>15. CASE MoveHead(t)
  <2>1. conn[t] # 0
    BY <1>0, <1>15 DEF MoveHead, Working
  <2>2. TypeOK'
    BY <1>0, <1>15, <2>1 DEF MoveHead, TypeOK, Labels
  <2>3. Working(t)'
    BY <1>0, <1>15, <2>1 DEF MoveHead, TypeOK, Working
  <2> QED
    BY <1>0, <1>15, <2>2, <2>3, OneThread DEF MoveHead, TypeOK
<1>16. CASE StoreClear(t)
  <2>1. TypeOK'
    BY <1>0, <1>16 DEF StoreClear, TypeOK, Labels
  <2>2. Working(t)'
    BY <1>0, <1>16 DEF StoreClear, TypeOK, Working
  <2> QED
    BY <1>0, <1>16, <2>1, <2>2, OneThread DEF StoreClear, TypeOK
<1> QED
  BY <1>1, <1>2, <1>3, <1>4, <1>5, <1>6, <1>7, <1>8, <1>9, <1>10, <1>11,
     <1>12, <1>13, <1>14, <1>15, <1>16

\* Steps that store to a node, or add one, keep the invariant.
LEMMA NodeSteps ==
  ASSUME Inv, NEW t \in Threads, process' \in {"running", "aborted"},
         ReadHead(t) \/ Bind(t) \/ UnlinkPrev(t) \/ UnlinkNext(t) \/ ClearNode(t)
  PROVE  Inv'
<1> DEFINE n == conns[conn[t]]
<1> USE DEF Inv, Goto
<1>1. CASE ReadHead(t)
  <2>1. NewConn(t, head) \in Connection
    BY <1>1, ThreadFacts
       DEF ReadHead, NewConn, Connection, TypeOK, AllWorking, Working
  <2>2. NewConn(t, head).next = head /\ NewConn(t, head).prev = 0
    BY DEF NewConn
  <2>3. /\ conns' \in Seq(Connection)
        /\ Len(conns') = Len(conns) + 1
        /\ ListEnds'
        /\ NoPrev'
    <3> HIDE DEF NewConn
    <3> QED
      BY <1>1, <2>1, <2>2, NewNode, ThreadFacts DEF ReadHead, TypeOK
  <2>4. /\ conn' = [conn EXCEPT ![t] = Len(conns) + 1]
        /\ pc' = [pc EXCEPT ![t] = "write_head"]
        /\ pc[t] = "read_head"
        /\ UNCHANGED <<tableVars, head, ringVars, callVars>>
    BY <1>1 DEF ReadHead
  <2>5. TypeOK'
    <3>1. head' \in 0 .. Len(conns') /\ conn' \in [Threads -> 0 .. Len(conns')]
      BY <2>3, <2>4, ThreadFacts DEF TypeOK
    <3>2. pc' \in [Threads -> Labels]
      BY <2>4 DEF TypeOK, Labels
    <3> QED
      <4>1. TypeOK /\ conns' \in Seq(Connection)
        BY <2>3
      <4> HIDE DEF Inv
      <4> QED
        BY <2>4, <3>1, <3>2, <4>1 DEF TypeOK, tableVars, ringVars, callVars
  <2>6. AllWorking'
    BY <2>4, ThreadFacts DEF TypeOK, AllWorking, Working, callVars
  <2> QED
    BY <2>3, <2>5, <2>6
<1>2. CASE Bind(t) \/ UnlinkPrev(t) \/ UnlinkNext(t) \/ ClearNode(t)
  <2>1. /\ conn[t] \in Conns
        /\ n \in Connection
        /\ n.next < conn[t]
        /\ n.prev = 0
    BY <1>2, ThreadFacts DEF Bind, UnlinkPrev, UnlinkNext, ClearNode,
                             AllWorking, Working, ListEnds, NoPrev
  <2> DEFINE Stores(k, e) == /\ k \in Conns
                             /\ e \in Connection
                             /\ e.next < k
                             /\ e.prev = 0
                             /\ conns' = [conns EXCEPT ![k] = e]
  <2>2. conns' = conns \/ \E k, e : Stores(k, e)
    <3>1. CASE Bind(t)
      <4> DEFINE e == [n EXCEPT !.src_port = Port[t]]
      <4>1. conns' = [conns EXCEPT ![conn[t]] = e]
        BY <3>1 DEF Bind
      <4>2. e \in Connection /\ e.next = n.next /\ e.prev = n.prev
        BY <2>1 DEF Connection
      <4>3. Stores(conn[t], e)
        BY <2>1, <4>1, <4>2
      <4> QED
        BY <4>3
    <3>2. CASE UnlinkPrev(t)
      BY <2>1, <3>2 DEF UnlinkPrev
    <3>3. CASE UnlinkNext(t)
      <4>1. CASE n.next = 0
        BY <3>3, <4>1 DEF UnlinkNext
      <4>2. CASE n.next # 0
        <5> DEFINE e == [conns[n.next] EXCEPT !.prev = n.prev]
        <5>1. n.next \in Conns
          BY <2>1, <4>2, ThreadFacts DEF Conns
        <5>2. conns' = [conns EXCEPT ![n.next] = e]
          BY <3>3, <4>2 DEF UnlinkNext
        <5>3. conns[n.next] \in Connection /\ conns[n.next].next < n.next
          BY <5>1, ThreadFacts DEF ListEnds
        <5>4. e \in Connection /\ e.next = conns[n.next].next /\ e.prev = 0
          BY <2>1, <5>3 DEF Connection
        <5>5. Stores(n.next, e)
          BY <5>1, <5>2, <5>3, <5>4
        <5> QED
          BY <5>5
      <4> QED
        BY <4>1, <4>2
    <3>4. CASE ClearNode(t)
      <4> DEFINE e == [n EXCEPT !.next = 0, !.prev = 0, !.state = "closed"]
      <4>1. conns' = [conns EXCEPT ![conn[t]] = e]
        BY <3>4 DEF ClearNode
      <4>2. e \in Connection /\ e.next = 0 /\ e.prev = 0
        BY <2>1 DEF Connection
      <4>3. 0 < conn[t]
        BY <2>1, ThreadFacts DEF Conns
      <4>4. Stores(conn[t], e)
        BY <2>1, <4>1, <4>2, <4>3
      <4> QED
        BY <4>4
    <3> QED
      BY <1>2, <3>1, <3>2, <3>3, <3>4
  <2>3. /\ conns' \in Seq(Connection)
        /\ Len(conns') = Len(conns)
        /\ ListEnds'
        /\ NoPrev'
    <3>1. CASE conns' = conns
      BY <3>1 DEF ListEnds, NoPrev, Conns, TypeOK
    <3>2. ASSUME NEW k, NEW e, Stores(k, e)
          PROVE  /\ conns' \in Seq(Connection)
                 /\ Len(conns') = Len(conns)
                 /\ ListEnds'
                 /\ NoPrev'
      BY <3>2, StoreNode DEF TypeOK
    <3> QED
      BY <2>2, <3>1, <3>2
  <2>4. /\ UNCHANGED <<tableVars, head, conn, ringVars, callVars>>
        /\ \/ pc[t] = "bind" /\ pc' = [pc EXCEPT ![t] = "idle"]
           \/ pc[t] = "unlink_prev" /\ pc' = [pc EXCEPT ![t] = "unlink_next"]
           \/ pc[t] = "unlink_next" /\ pc' = [pc EXCEPT ![t] = "test_head"]
           \/ pc[t] = "clear_node" /\ pc' = [pc EXCEPT ![t] = "reload"]
    BY <1>2 DEF Bind, UnlinkPrev, UnlinkNext, ClearNode
  <2>5. TypeOK'
    BY <2>3, <2>4 DEF TypeOK, Labels, tableVars, ringVars, callVars
  <2>6. AllWorking'
    BY <2>4 DEF TypeOK, AllWorking, Working, callVars
  <2> QED
    BY <2>3, <2>5, <2>6
<1> QED
  BY <1>1, <1>2

\* A node keeps what calls look at.
Kept(c) == /\ conns'[c].next = conns[c].next
           /\ conns'[c].fd = conns[c].fd
           /\ conns'[c].state = conns[c].state

\* What a step does to the nodes as a whole: it keeps them, inserts one in front
\* of the head it reads, or clears the one it closes.
LEMMA NodeChanges ==
  ASSUME Inv, NEW t \in Threads, NewCall(t) \/ Step(t)
  PROVE  /\ Len(conns) \in Nat
         /\ \/ /\ Len(conns') = Len(conns)
               /\ \A c \in Conns : Kept(c)
            \/ /\ pc[t] = "read_head"
               /\ Len(conns') = Len(conns) + 1
               /\ \A c \in Conns : Kept(c)
               /\ conns'[Len(conns) + 1] = NewConn(t, head)
            \/ /\ pc[t] = "clear_node"
               /\ conn[t] \in Conns
               /\ Len(conns') = Len(conns)
               /\ \A c \in Conns \ {conn[t]} : Kept(c)
               /\ conns'[conn[t]].next = 0
               /\ conns'[conn[t]].fd = conns[conn[t]].fd
               /\ conns'[conn[t]].state = "closed"
<1> DEFINE n == conns[conn[t]]
           Stores(k, e) == /\ k \in Conns
                           /\ e \in Connection
                           /\ conns' = [conns EXCEPT ![k] = e]
<1>0. /\ conns \in Seq(Connection)
      /\ Len(conns) \in Nat
      /\ \A c \in Conns : conns[c] \in Connection /\ conns[c].prev = 0
      /\ \A c \in Conns : conns[c].next \in 0 .. Len(conns)
      /\ conn[t] # 0 => conn[t] \in Conns
  BY ThreadFacts DEF Inv, TypeOK, NoPrev
<1>1. CASE conns' = conns
  BY <1>0, <1>1 DEF Kept
<1>2. CASE ReadHead(t)
  <2>1. NewConn(t, head) \in Connection
    BY <1>2, ThreadFacts
       DEF ReadHead, NewConn, Connection, Inv, TypeOK, AllWorking, Working
  <2>2. pc[t] = "read_head" /\ conns' = Append(conns, NewConn(t, head))
    BY <1>2 DEF ReadHead
  <2>. HIDE DEF NewConn
  <2>3. /\ Len(conns') = Len(conns) + 1
        /\ \A c \in Conns : conns'[c] = conns[c]
        /\ conns'[Len(conns) + 1] = NewConn(t, head)
    BY <1>0, <2>1, <2>2, AppendProperties DEF Conns
  <2>. QED BY <1>0, <2>2, <2>3 DEF Kept
<1>3. ASSUME NEW k, NEW e, Stores(k, e)
      PROVE  /\ Len(conns') = Len(conns)
             /\ \A c \in Conns : conns'[c] = IF c = k THEN e ELSE conns[c]
  BY <1>0, <1>3, ExceptSeq DEF Conns
<1>4. CASE Bind(t) \/ UnlinkPrev(t) \/ UnlinkNext(t) \/ ClearNode(t)
  <2>1. conn[t] \in Conns /\ n \in Connection /\ n.prev = 0
    BY <1>0, <1>4 DEF Bind, UnlinkPrev, UnlinkNext, ClearNode, Inv, AllWorking, Working
  <2>2. CASE Bind(t)
    <3> DEFINE e == [n EXCEPT !.src_port = Port[t]]
    <3>1. conns' = [conns EXCEPT ![conn[t]] = e]
      BY <2>2 DEF Bind
    <3>2. e \in Connection /\ e.next = n.next /\ e.fd = n.fd /\ e.state = n.state
      BY <2>1 DEF Connection
    <3>3. Stores(conn[t], e)
      BY <2>1, <3>1, <3>2
    <3>. QED BY <1>0, <1>3, <3>2, <3>3 DEF Kept
  <2>3. CASE UnlinkPrev(t)
    BY <1>1, <2>1, <2>3 DEF UnlinkPrev
  <2>4. CASE UnlinkNext(t)
    <3>1. CASE n.next = 0
      BY <1>1, <2>4, <3>1 DEF UnlinkNext
    <3>2. CASE n.next # 0
      <4> DEFINE m == conns[n.next]
                 e == [m EXCEPT !.prev = n.prev]
      <4>1. n.next \in Conns /\ m \in Connection
        BY <1>0, <2>1, <3>2 DEF Conns
      <4>2. conns' = [conns EXCEPT ![n.next] = e]
        BY <2>4, <3>2 DEF UnlinkNext
      <4>3. e \in Connection /\ e.next = m.next /\ e.fd = m.fd /\ e.state = m.state
        BY <2>1, <4>1 DEF Connection
      <4>4. Stores(n.next, e)
        BY <4>1, <4>2, <4>3
      <4>. HIDE DEF e, Stores
      <4>5. /\ Len(conns') = Len(conns)
            /\ \A c \in Conns : conns'[c] = IF c = n.next THEN e ELSE conns[c]
        BY <1>3, <4>4
      <4>. QED BY <1>0, <4>3, <4>5 DEF Kept
    <3>. QED BY <3>1, <3>2
  <2>5. CASE ClearNode(t)
    <3> DEFINE e == [n EXCEPT !.next = 0, !.prev = 0, !.state = "closed"]
    <3>1. conns' = [conns EXCEPT ![conn[t]] = e] /\ pc[t] = "clear_node"
      BY <2>5 DEF ClearNode
    <3>2. e \in Connection /\ e.next = 0 /\ e.fd = n.fd /\ e.state = "closed"
      BY <2>1 DEF Connection
    <3>3. Stores(conn[t], e)
      BY <2>1, <3>1, <3>2
    <3>. QED BY <1>0, <1>3, <2>1, <3>1, <3>2, <3>3 DEF Kept
  <2>. QED BY <1>4, <2>2, <2>3, <2>4, <2>5
<1>. QED
  BY <1>1, <1>2, <1>4
     DEF NewCall, Step, SocketCall, BindCall, CloseCall, Call, TestBit, LoadForSet,
         LoadForClear, LoadByte, StoreSet, Allocate, LockNames, UnlockNames,
         CreateSendRing, CreateReceiveRing, WriteHead, BindWalk, CloseWalk, Walk,
         Close, TestHead, MoveHead, StoreClear, listVars

\* next is a connection or NULL.
LEMMA LinksInRange ==
  ASSUME Inv
  PROVE  /\ conns \in Seq(Connection)
         /\ Len(conns) \in Nat
         /\ \A c \in Conns : conns[c].next \in 0 .. Len(conns)
<1>1. /\ conns \in Seq(Connection)
      /\ Len(conns) \in Nat
      /\ \A c \in Conns : conns[c] \in Connection
  BY ElementOfSeq, LenProperties DEF Inv, TypeOK, Conns
<1>2. \A c \in Conns : conns[c].next \in Nat /\ conns[c].next < c
  BY <1>1 DEF Inv, ListEnds, Connection
<1>. QED BY <1>1, <1>2 DEF Conns

-----------------------------------------------------------------------------
\* A walk that meets c, and does not stand on it, meets it after the next turn.
LEMMA MeetsNext ==
  ASSUME NEW p \in Conns, NEW c, c # p, Meets(p, c)
  PROVE  Meets(conns[p].next, c)
<1> SUFFICES ASSUME NEW S \in SUBSET Conns, conns[p].next \in S \cup {0}, Closed(S)
             PROVE  c \in S
  BY DEF Meets
<1>1. Closed(S \cup {p}) /\ S \cup {p} \in SUBSET Conns
  BY DEF Closed
<1>. QED BY <1>1 DEF Meets

\* What a walk from a meets once a step has been taken.
MeetsAfter(a, d) ==
  \A S \in SUBSET Conns' :
    a \in S \cup {0} /\ (\A c \in S : conns'[c].next \in S \cup {0}) => d \in S

\* A walk still meets what it would have met, if no next has changed.
LEMMA MeetsKept ==
  ASSUME Len(conns) \in Nat, Len(conns') \in Nat, Len(conns) <= Len(conns'),
         \A c \in Conns : conns[c].next \in 0 .. Len(conns),
         \A c \in Conns : conns'[c].next = conns[c].next
  PROVE  \A a \in 0 .. Len(conns), d \in Conns : Meets(a, d) => MeetsAfter(a, d)
<1> SUFFICES ASSUME NEW a \in 0 .. Len(conns), NEW d, Meets(a, d),
                    NEW S \in SUBSET Conns',
                    a \in S \cup {0},
                    \A c \in S : conns'[c].next \in S \cup {0}
             PROVE  d \in S
  BY DEF MeetsAfter
<1> DEFINE T == S \cap Conns
<1>1. a \in T \cup {0} /\ T \subseteq Conns
  BY DEF Conns
<1>2. Closed(T)
  BY DEF Closed, Conns
<1>3. d \in T
  BY <1>1, <1>2 DEF Meets
<1>. QED BY <1>3

\* If the connection z is cleared then a walk that misses d because of it stands
\* in front of z, and z in front of d.
LEMMA MeetsOrCleared ==
  ASSUME Len(conns) \in Nat, Len(conns') = Len(conns), ListEnds, NEW z \in Conns,
         \A c \in Conns : conns[c].next \in 0 .. Len(conns),
         \A c \in Conns \ {z} : conns'[c].next = conns[c].next,
         conns'[z].next = 0
  PROVE  \A a \in 0 .. Len(conns), d \in Conns :
           Meets(a, d) => MeetsAfter(a, d) \/ (MeetsAfter(a, z) /\ d < z)
                                           \/ d = z
<1> SUFFICES ASSUME NEW a \in 0 .. Len(conns), NEW d \in Conns, Meets(a, d), d # z,
                    NEW S \in SUBSET Conns',
                    a \in S \cup {0},
                    \A c \in S : conns'[c].next \in S \cup {0},
                    d \notin S
             PROVE  MeetsAfter(a, z) /\ d < z
  BY DEF MeetsAfter
<1>1. Conns' = Conns
  BY DEF Conns
<1>2. MeetsAfter(a, z)
  <2> SUFFICES ASSUME NEW R \in SUBSET Conns',
                      a \in R \cup {0},
                      \A c \in R : conns'[c].next \in R \cup {0},
                      z \notin R
               PROVE  FALSE
    BY DEF MeetsAfter
  <2>1. Closed(R \cap S) /\ R \cap S \subseteq Conns
    BY <1>1 DEF Closed
  <2>2. d \in R \cap S
    BY <2>1 DEF Meets
  <2>. QED BY <2>2
<1>3. d < z
  <2> DEFINE R == S \cup {c \in Conns : c <= z}
  <2>1. R \subseteq Conns /\ a \in R \cup {0}
    BY <1>1
  <2>2. ASSUME NEW c \in R PROVE conns[c].next \in R \cup {0}
    <3>1. CASE c <= z
      <4>1. c \in Conns /\ conns[c].next < c /\ conns[c].next \in 0 .. Len(conns)
        BY <2>1, <2>2 DEF ListEnds
      <4>. QED BY <3>1, <4>1 DEF Conns
    <3>2. CASE ~ (c <= z)
      <4>1. c \in S /\ c \in Conns \ {z}
        BY <1>1, <3>2 DEF Conns
      <4>. QED BY <4>1
    <3>. QED BY <3>1, <3>2
  <2>3. d \in R
    BY <2>1, <2>2 DEF Meets, Closed
  <2>. QED BY <2>3 DEF Conns
<1>. QED BY <1>2, <1>3

-----------------------------------------------------------------------------
LEMMA InvHolds == SafeSpec => []Inv
<1>1. Init => Inv
  BY FdAssumption DEF Init, Inv, TypeOK, ListEnds, NoPrev, AllWorking, Working,
                      Conns, Labels
<1>2. Inv /\ [Next]_vars => Inv'
  <2> SUFFICES ASSUME Inv, [Next]_vars PROVE Inv'
    OBVIOUS
  <2>1. CASE UNCHANGED vars
    BY <2>1 DEF vars, tableVars, listVars, ringVars, callVars, Inv, TypeOK,
                ListEnds, NoPrev, AllWorking, Working, Conns
  <2>2. ASSUME NEW t \in Threads, NewCall(t) \/ Step(t) PROVE Inv'
    <3>1. process' \in {"running", "aborted"}
      BY <2>2 DEF NewCall, Step, CreateSendRing, CreateReceiveRing, GiveUp
    <3> QED
      BY <2>2, <3>1, OtherSteps, NodeSteps DEF NewCall, Step
  <2> QED
    BY <2>1, <2>2 DEF Next
<1> QED
  BY <1>1, <1>2, PTL DEF SafeSpec

\* The variables keep their types: fds stay below HZ_MAX_FD_COUNT, and every
\* pointer leads to a connection or is NULL.
THEOREM TypeCorrect == SafeSpec => []TypeOK
  BY InvHolds, PTL DEF Inv

\* However insertions, deletions and lookups of any number of lcores interleave,
\* the list of connections has no cycle.
THEOREM NoCycle == SafeSpec => []ListEnds
  BY InvHolds, PTL DEF Inv

-----------------------------------------------------------------------------
(***************************************************************************)
(* What SocketTable promises an application that makes all its calls from  *)
(* one lcore, for any number of sockets and fds.                           *)
(***************************************************************************)
\* A connection is the only one with its fd that is open, and all younger nodes
\* with that fd were given up: none is younger.  Younger nodes lead to it, to a
\* node younger still, or nowhere.
Unique ==
  \A c \in Open, z \in Conns :
    z > c => conns[z].fd # conns[c].fd /\ (conns[z].next = 0 \/ conns[z].next >= c)

\* The bit of its fd is set.
InTable == \A c \in Open : conns[c].fd \in hz_fd_table

\* The head is not older, except while it is inserted or taken out.
Apart(t, c) == pc[t] \in {"write_head", "clear_node"} /\ c = conn[t]
HeadYoung(t) == \A c \in Open : head = 0 \/ head >= c \/ Apart(t, c)

\* What the one caller knows of the fd and the connection it works with.
Handling(t) ==
  /\ pc[t] \in {"load", "store", "alloc", "lock", "send_ring", "receive_ring",
                "unlock", "read_head", "reload", "restore"}
       => \A c \in Open : conns[c].fd # fd[t]
  /\ pc[t] \in {"alloc", "lock", "send_ring", "receive_ring", "unlock", "read_head"}
       => fd[t] \in hz_fd_table
  /\ pc[t] \in {"store", "restore"} => byte[t] = hz_fd_table \cap ByteOf(fd[t])
  /\ pc[t] = "write_head" => conn[t] = Len(conns)
  /\ pc[t] \in {"bind_walk", "close_walk"}
       => \E c \in Open : conns[c].fd = fd[t] /\ (conn[t] = 0 \/ conn[t] >= c)
  /\ pc[t] \in {"write_head", "bind", "close", "unlink_prev", "unlink_next",
                "test_head", "move_head", "clear_node"}
       => conn[t] \in Open /\ conns[conn[t]].fd = fd[t]
  /\ pc[t] = "move_head" => head = conn[t]
  /\ pc[t] \in {"close_walk", "close", "unlink_prev", "unlink_next", "test_head",
                "move_head", "clear_node"}
       => fd[t] \notin owned[t]

\* What it owns is open.
Owns(t) == \A f \in owned[t] : \E c \in Open : conns[c].fd = f

CallerInv(t) == Unique /\ InTable /\ HeadYoung(t) /\ Handling(t) /\ Owns(t)

\* A walk from p meets c, or a closed connection in front of it.
MeetsOrClosed(p, c) ==
  Meets(p, c) \/ \E z \in Conns \ Open : z > c /\ Meets(p, z)

Linked(t) ==
  /\ \A c \in Open : MeetsOrClosed(head, c) \/ Apart(t, c)
  /\ pc[t] = "write_head" => \A c \in Open : MeetsOrClosed(conn[t], c)

-----------------------------------------------------------------------------
\* Connections as the proofs look at them.
LEMMA ConnFacts ==
  ASSUME Inv
  PROVE  /\ Len(conns) \in Nat
         /\ \A c \in Conns : /\ c \in Nat /\ c > 0
                             /\ conns[c].next \in Nat /\ conns[c].next < c
                             /\ conns[c].fd \in Nat
                             /\ conns[c].state \in {"open", "closed"}
                             /\ conns[c].owner \in Threads
         /\ Open \subseteq Conns
<1>1. \A c \in Conns : conns[c] \in Connection
  BY ElementOfSeq DEF Inv, TypeOK, Conns
<1>. QED BY <1>1, LinksInRange DEF Connection, Open, Conns, Inv, ListEnds

\* The bits after a store to the bitmap that nobody else has come between.
LEMMA BitSet ==
  ASSUME NEW table, NEW f
  PROVE  (table \ ByteOf(f)) \cup (table \cap ByteOf(f)) \cup {f} = table \cup {f}
  OBVIOUS

LEMMA BitCleared ==
  ASSUME NEW table, NEW f
  PROVE  table \ {f} \subseteq (table \ ByteOf(f)) \cup ((table \cap ByteOf(f)) \ {f})
  OBVIOUS

\* hz_socket up to the insertion.
LEMMA CallerSocket ==
  ASSUME NEW t \in Threads, Inv, CallerInv(t),
         \/ SocketCall(t) \/ TestBit(t) \/ LoadForSet(t) \/ StoreSet(t) \/ Allocate(t)
         \/ LockNames(t) \/ CreateSendRing(t) \/ CreateReceiveRing(t) \/ UnlockNames(t)
  PROVE  CallerInv(t)'
<1>0. /\ pc \in [Threads -> Labels] /\ fd \in [Threads -> Nat]
      /\ byte \in [Threads -> SUBSET (FIRST_FD .. MAX_FD - 1)]
  BY DEF Inv, TypeOK
<1>1. UNCHANGED <<conns, head, conn, owned>>
  BY DEF SocketCall, TestBit, LoadForSet, LoadByte, StoreSet, Allocate, LockNames,
         CreateSendRing, CreateReceiveRing, UnlockNames, listVars, callVars
<1>2. Conns' = Conns /\ Open' = Open
  BY <1>1 DEF Conns, Open
<1>3. Unique' /\ Owns(t)'
  BY <1>1, <1>2 DEF CallerInv, Unique, Owns
<1>4. hz_fd_table \subseteq hz_fd_table'
  <2>1. CASE StoreSet(t)
    BY <2>1, BitSet DEF StoreSet, CallerInv, Handling
  <2>. QED BY <2>1 DEF SocketCall, TestBit, LoadForSet, LoadByte, Allocate, LockNames,
              CreateSendRing, CreateReceiveRing, UnlockNames, tableVars
<1>5. InTable'
  BY <1>1, <1>2, <1>4 DEF CallerInv, InTable
<1>6. /\ pc[t] \in {"idle", "test", "load", "store", "alloc", "lock", "send_ring",
                    "receive_ring", "unlock"}
      /\ pc'[t] \in {"idle", "test", "load", "store", "alloc", "lock", "send_ring",
                     "receive_ring", "unlock", "read_head"}
  BY <1>0 DEF SocketCall, TestBit, LoadForSet, LoadByte, StoreSet, Allocate, LockNames,
         CreateSendRing, CreateReceiveRing, UnlockNames, Goto, GiveUp
<1>7. HeadYoung(t)'
  BY <1>1, <1>2, <1>6 DEF CallerInv, HeadYoung, Apart
<1>8. /\ pc'[t] \in {"load", "store", "alloc", "lock", "send_ring", "receive_ring",
                     "unlock", "read_head"}
           => \A c \in Open : conns[c].fd # fd'[t]
      /\ pc'[t] \in {"alloc", "lock", "send_ring", "receive_ring", "unlock", "read_head"}
           => fd'[t] \in hz_fd_table'
      /\ pc'[t] = "store" => byte'[t] = hz_fd_table' \cap ByteOf(fd'[t])
  <2>1. CASE SocketCall(t)
    BY <1>0, <2>1 DEF SocketCall, Goto
  <2>2. CASE TestBit(t)
    BY <1>0, <2>2 DEF TestBit, Goto, CallerInv, InTable, Handling
  <2>3. CASE LoadForSet(t)
    BY <1>0, <2>3 DEF LoadForSet, LoadByte, Goto, callVars, CallerInv, Handling
  <2>4. CASE StoreSet(t)
    BY <1>0, <2>4 DEF StoreSet, Goto, callVars, CallerInv, Handling
  <2>5. CASE \/ Allocate(t) \/ LockNames(t) \/ CreateSendRing(t)
             \/ CreateReceiveRing(t) \/ UnlockNames(t)
    <3>1. /\ UNCHANGED <<hz_fd_table, fd>>
          /\ pc[t] \in {"alloc", "lock", "send_ring", "receive_ring", "unlock"}
          /\ pc'[t] \in {"idle", "lock", "send_ring", "receive_ring", "unlock", "read_head"}
      BY <1>0, <2>5 DEF Allocate, LockNames, CreateSendRing, CreateReceiveRing,
                        UnlockNames, Goto, GiveUp, tableVars, callVars
    <3>. QED BY <3>1 DEF CallerInv, Handling
  <2>. QED BY <2>1, <2>2, <2>3, <2>4, <2>5
<1>9. Handling(t)'
  BY <1>1, <1>2, <1>6, <1>8 DEF Handling
<1>. QED BY <1>3, <1>5, <1>7, <1>9 DEF CallerInv

\* hz_bind and hz_close up to the node they look for.
LEMMA CallerWalk ==
  ASSUME NEW t \in Threads, Inv, CallerInv(t),
         BindCall(t) \/ CloseCall(t) \/ BindWalk(t) \/ CloseWalk(t)
  PROVE  CallerInv(t)'
<1>0. /\ pc \in [Threads -> Labels] /\ fd \in [Threads -> Nat]
      /\ conn \in [Threads -> 0 .. Len(conns)]
      /\ owned \in [Threads -> SUBSET (FIRST_FD .. MAX_FD - 1)]
      /\ head \in 0 .. Len(conns)
  BY DEF Inv, TypeOK
<1>1. UNCHANGED <<conns, head, hz_fd_table>>
  BY DEF BindCall, CloseCall, Call, BindWalk, CloseWalk, Walk, tableVars
<1>2. Conns' = Conns /\ Open' = Open
  BY <1>1 DEF Conns, Open
<1>3. Unique' /\ InTable'
  BY <1>1, <1>2 DEF CallerInv, Unique, InTable
<1>4. owned'[t] \subseteq owned[t]
  BY <1>0 DEF BindCall, CloseCall, BindWalk, CloseWalk, Walk, callVars
<1>5. Owns(t)'
  BY <1>1, <1>2, <1>4 DEF CallerInv, Owns
<1>6. pc[t] \in {"idle", "bind_walk", "close_walk"}
  BY DEF BindCall, CloseCall, Call, BindWalk, CloseWalk, Walk
<1>7. HeadYoung(t)'
  BY <1>1, <1>2, <1>6 DEF CallerInv, HeadYoung, Apart
<1>8. CASE BindCall(t) \/ CloseCall(t)
  <2>1. /\ pc[t] = "idle" /\ pc'[t] \in {"bind_walk", "close_walk"}
        /\ fd'[t] \in owned[t] /\ conn'[t] = head
        /\ pc'[t] = "close_walk" => fd'[t] \notin owned'[t]
    BY <1>0, <1>8 DEF BindCall, CloseCall, Call, Goto
  <2>2. \E c \in Open : conns[c].fd = fd'[t] /\ (head = 0 \/ head >= c)
    BY <2>1 DEF CallerInv, Owns, HeadYoung, Apart
  <2>3. Handling(t)'
    BY <1>1, <1>2, <2>1, <2>2 DEF Handling
  <2>. QED BY <1>3, <1>5, <1>7, <2>3 DEF CallerInv
<1>9. CASE BindWalk(t) \/ CloseWalk(t)
  <2>1. /\ pc[t] \in {"bind_walk", "close_walk"}
        /\ UNCHANGED <<fd, owned>>
        /\ \/ pc'[t] = "idle"
           \/ /\ conn[t] # 0 /\ conns[conn[t]].fd = fd[t] /\ conn'[t] = conn[t]
              /\ pc'[t] = IF pc[t] = "bind_walk" THEN "bind" ELSE "close"
           \/ /\ conn[t] # 0 /\ conns[conn[t]].fd # fd[t]
              /\ conn'[t] = conns[conn[t]].next
              /\ pc'[t] = pc[t]
    BY <1>0, <1>9 DEF BindWalk, CloseWalk, Walk, Goto, callVars
  <2>2. PICK c \in Open : conns[c].fd = fd[t] /\ (conn[t] = 0 \/ conn[t] >= c)
    BY <2>1 DEF CallerInv, Handling
  <2>3. c \in Conns /\ c \in Nat /\ conn[t] \in Nat /\ (conn[t] # 0 => conn[t] \in Conns)
    BY <1>0, ConnFacts DEF Conns
  <2>4. conn[t] # 0 /\ conns[conn[t]].fd = fd[t] => conn[t] = c
    BY <2>2, <2>3 DEF CallerInv, Unique
  <2>5. conn[t] # 0 /\ conns[conn[t]].fd # fd[t]
          => conns[conn[t]].next = 0 \/ conns[conn[t]].next >= c
    BY <2>2, <2>3 DEF CallerInv, Unique
  <2>6. pc[t] = "close_walk" => fd[t] \notin owned[t]
    BY DEF CallerInv, Handling
  <2>7. Handling(t)'
    BY <1>1, <1>2, <2>1, <2>2, <2>4, <2>5, <2>6 DEF Handling
  <2>. QED BY <1>3, <1>5, <1>7, <2>7 DEF CallerInv
<1>. QED BY <1>8, <1>9

\* hz_socket: the insertion.
LEMMA CallerInsert ==
  ASSUME NEW t \in Threads, Inv, CallerInv(t), ReadHead(t) \/ WriteHead(t),
         NewCall(t) \/ Step(t)
  PROVE  CallerInv(t)'
<1>0. /\ pc \in [Threads -> Labels] /\ fd \in [Threads -> Nat]
      /\ conn \in [Threads -> 0 .. Len(conns)]
      /\ owned \in [Threads -> SUBSET (FIRST_FD .. MAX_FD - 1)]
      /\ head \in 0 .. Len(conns)
  BY DEF Inv, TypeOK
<1>1. CASE ReadHead(t)
  <2> DEFINE n == Len(conns) + 1
  <2>1. /\ pc[t] = "read_head" /\ pc'[t] = "write_head"
        /\ conn'[t] = n
        /\ UNCHANGED <<hz_fd_table, head, fd, owned>>
    BY <1>0, <1>1, ConnFacts DEF ReadHead, Goto, tableVars, callVars
  <2>2. /\ Len(conns) \in Nat /\ Len(conns') = n
        /\ \A c \in Conns : Kept(c)
        /\ conns'[n] = NewConn(t, head)
    <3>1. conns \in Seq(Connection)
      BY DEF Inv, TypeOK
    <3>2. conns' = Append(conns, NewConn(t, head))
      BY <1>1 DEF ReadHead
    <3>. QED BY <2>1, <3>1, <3>2, NodeChanges, AppendProperties
  <2>3. conns'[n].fd = fd[t] /\ conns'[n].next = head /\ conns'[n].state = "open"
    BY <2>2 DEF NewConn
  <2>. HIDE DEF n
  <2>4. Conns' = Conns \cup {n} /\ n \in Nat /\ \A c \in Conns : c < n
    BY <2>2 DEF Conns, n
  <2>5. Open' = Open \cup {n}
    BY <2>2, <2>3, <2>4 DEF Open, Kept
  <2>6. \A c \in Open : conns[c].fd # fd[t] /\ (head = 0 \/ head >= c)
    BY <2>1 DEF CallerInv, Handling, HeadYoung, Apart
  <2>7. fd[t] \in hz_fd_table
    BY <2>1 DEF CallerInv, Handling
  <2>8. InTable'
    BY <2>1, <2>2, <2>3, <2>4, <2>5, <2>7, ConnFacts DEF CallerInv, InTable, Kept
  <2>9. Unique'
    <3> SUFFICES ASSUME NEW c \in Open', NEW z \in Conns', z > c
                 PROVE  conns'[z].fd # conns'[c].fd
                        /\ (conns'[z].next = 0 \/ conns'[z].next >= c)
      BY DEF Unique
    <3>1. c \in Open /\ c \in Conns
      BY <2>4, <2>5, ConnFacts
    <3>2. CASE z \in Conns
      BY <2>2, <3>1, <3>2 DEF CallerInv, Unique, Kept
    <3>3. CASE z = n
      BY <2>2, <2>3, <2>6, <3>1, <3>3 DEF Kept
    <3>. QED BY <2>4, <3>2, <3>3
  <2>10. HeadYoung(t)'
    BY <2>1, <2>5, <2>6 DEF HeadYoung, Apart
  <2>11. Owns(t)'
    BY <2>1, <2>2, <2>5, ConnFacts DEF CallerInv, Owns, Kept
  <2>12. Handling(t)'
    BY <2>1, <2>2, <2>3, <2>5 DEF Handling, n
  <2>. QED BY <2>8, <2>9, <2>10, <2>11, <2>12 DEF CallerInv
<1>2. CASE WriteHead(t)
  <2>1. /\ pc[t] = "write_head" /\ pc'[t] = "idle"
        /\ head' = conn[t] /\ owned'[t] = owned[t] \cup {fd[t]}
        /\ UNCHANGED <<hz_fd_table, conns, conn, fd>>
    BY <1>0, <1>2 DEF WriteHead, Goto, tableVars
  <2>2. Conns' = Conns /\ Open' = Open
    BY <2>1 DEF Conns, Open
  <2>3. /\ conn[t] = Len(conns) /\ conn[t] \in Open /\ conns[conn[t]].fd = fd[t]
        /\ \A c \in Open : conn[t] >= c
    BY <2>1, ConnFacts DEF CallerInv, Handling, Conns
  <2>4. Unique' /\ InTable' /\ HeadYoung(t)' /\ Handling(t)'
    BY <2>1, <2>2, <2>3 DEF CallerInv, Unique, InTable, HeadYoung, Handling
  <2>5. Owns(t)'
    BY <2>1, <2>2, <2>3 DEF CallerInv, Owns
  <2>. QED BY <2>4, <2>5 DEF CallerInv
<1>. QED BY <1>1, <1>2

\* hz_bind and hz_close with the node they have found, up to clearing it.
LEMMA CallerFound ==
  ASSUME NEW t \in Threads, Inv, CallerInv(t), NewCall(t) \/ Step(t),
         Bind(t) \/ Close(t) \/ UnlinkPrev(t) \/ UnlinkNext(t) \/ TestHead(t) \/ MoveHead(t)
  PROVE  CallerInv(t)'
<1>0. /\ pc \in [Threads -> Labels] /\ head \in 0 .. Len(conns)
  BY DEF Inv, TypeOK
<1>1. /\ UNCHANGED <<hz_fd_table, conn, fd, owned>>
      /\ pc[t] \in {"bind", "close", "unlink_prev", "unlink_next", "test_head", "move_head"}
      /\ pc'[t] \in {"idle", "unlink_prev", "unlink_next", "test_head", "move_head",
                     "clear_node"}
      /\ pc'[t] # "idle" => pc[t] # "bind"
      /\ pc'[t] = "move_head" => head = conn[t] /\ head' = head
      /\ head' = head \/ (pc[t] = "move_head" /\ pc'[t] = "clear_node"
                          /\ head' = conns[conn[t]].next)
  BY <1>0 DEF Bind, Close, UnlinkPrev, UnlinkNext, TestHead, MoveHead, Goto,
              tableVars, listVars, callVars
<1>2. Len(conns') = Len(conns) /\ \A c \in Conns : Kept(c)
  BY <1>1, NodeChanges
<1>3. Conns' = Conns /\ Open' = Open
  BY <1>2 DEF Conns, Open, Kept
<1>4. Unique' /\ InTable' /\ Owns(t)'
  BY <1>1, <1>2, <1>3, ConnFacts DEF CallerInv, Unique, InTable, Owns, Kept
<1>5. conn[t] \in Open /\ conns[conn[t]].fd = fd[t]
  BY <1>1 DEF CallerInv, Handling
<1>6. Handling(t)'
  BY <1>1, <1>2, <1>3, <1>5, ConnFacts DEF CallerInv, Handling, Kept
<1>7. HeadYoung(t)'
  <2> SUFFICES ASSUME NEW c \in Open, c # conn[t] \/ pc'[t] # "clear_node"
               PROVE  head' = 0 \/ head' >= c
    BY <1>1, <1>3 DEF HeadYoung, Apart
  <2>1. head = 0 \/ head >= c
    BY <1>1 DEF CallerInv, HeadYoung, Apart
  <2>2. CASE head' = head
    BY <2>1, <2>2
  <2>3. CASE pc[t] = "move_head" /\ pc'[t] = "clear_node" /\ head' = conns[conn[t]].next
    <3>1. head = conn[t] /\ conn[t] > c
      BY <1>5, <2>1, <2>3, ConnFacts DEF CallerInv, Handling
    <3>. QED BY <1>5, <2>3, <3>1, ConnFacts DEF CallerInv, Unique
  <2>. QED BY <1>1, <2>2, <2>3
<1>. QED BY <1>4, <1>6, <1>7 DEF CallerInv

\* hz_close clears the node, then the bit.
LEMMA CallerClear ==
  ASSUME NEW t \in Threads, Inv, CallerInv(t), NewCall(t) \/ Step(t),
         ClearNode(t) \/ LoadForClear(t) \/ StoreClear(t)
  PROVE  CallerInv(t)'
<1>0. /\ pc \in [Threads -> Labels]
      /\ byte \in [Threads -> SUBSET (FIRST_FD .. MAX_FD - 1)]
  BY DEF Inv, TypeOK
<1>1. CASE ClearNode(t)
  <2>1. /\ pc[t] = "clear_node" /\ pc'[t] = "reload"
        /\ UNCHANGED <<hz_fd_table, head, conn, fd, owned>>
    BY <1>0, <1>1 DEF ClearNode, Goto, tableVars, callVars
  <2>2. /\ conn[t] \in Open /\ conns[conn[t]].fd = fd[t] /\ fd[t] \notin owned[t]
    BY <2>1 DEF CallerInv, Handling
  <2>3. /\ Len(conns') = Len(conns)
        /\ \A c \in Conns \ {conn[t]} : Kept(c)
        /\ conns'[conn[t]].next = 0
        /\ conns'[conn[t]].fd = fd[t]
        /\ conns'[conn[t]].state = "closed"
    <3>1. conns'[conn[t]].next = 0 /\ conns'[conn[t]].state = "closed"
      <4>1. conns' = [conns EXCEPT ![conn[t]] =
                        [@ EXCEPT !.next = 0, !.prev = 0, !.state = "closed"]]
        BY <1>1 DEF ClearNode
      <4>2. conns \in Seq(Connection) /\ conn[t] \in Conns
        BY <2>2, ConnFacts DEF Inv, TypeOK
      <4>. QED BY <4>1, <4>2, ConnFacts DEF Conns
    <3>2. conn[t] \in Conns /\ ~ Kept(conn[t])
      BY <2>2, <3>1, ConnFacts DEF Kept, Open
    <3>. QED BY <2>1, <2>2, <3>2, NodeChanges
  <2>4. Conns' = Conns /\ Open' = Open \ {conn[t]}
    BY <2>3 DEF Conns, Open, Kept
  <2>5. InTable' /\ HeadYoung(t)'
    BY <2>1, <2>3, <2>4, ConnFacts DEF CallerInv, InTable, HeadYoung, Apart, Kept
  <2>6. Unique'
    <3> SUFFICES ASSUME NEW c \in Open', NEW z \in Conns, z > c
                 PROVE  conns'[z].fd # conns'[c].fd
                        /\ (conns'[z].next = 0 \/ conns'[z].next >= c)
      BY <2>4 DEF Unique
    <3>1. c \in Open /\ c \in Conns \ {conn[t]}
      BY <2>4, ConnFacts
    <3>2. conns[z].fd # conns[c].fd /\ (conns[z].next = 0 \/ conns[z].next >= c)
      BY <3>1 DEF CallerInv, Unique
    <3>. QED BY <2>2, <2>3, <3>1, <3>2 DEF Kept
  <2>7. \A c \in Open' : conns[c].fd # fd[t] /\ Kept(c)
    BY <2>2, <2>3, <2>4, ConnFacts DEF CallerInv, Unique
  <2>8. Owns(t)'
    BY <2>1, <2>2, <2>4, <2>7 DEF CallerInv, Owns, Kept
  <2>9. Handling(t)'
    BY <2>1, <2>7 DEF Handling, Kept
  <2>. QED BY <2>5, <2>6, <2>8, <2>9 DEF CallerInv
<1>2. CASE LoadForClear(t) \/ StoreClear(t)
  <2>1. UNCHANGED <<conns, head, conn, fd, owned>>
    BY <1>2 DEF LoadForClear, LoadByte, StoreClear, listVars, callVars
  <2>2. Conns' = Conns /\ Open' = Open
    BY <2>1 DEF Conns, Open
  <2>3. \/ /\ pc[t] = "reload" /\ pc'[t] = "restore"
           /\ hz_fd_table' = hz_fd_table
           /\ byte'[t] = hz_fd_table \cap ByteOf(fd[t])
        \/ /\ pc[t] = "restore" /\ pc'[t] = "idle"
           /\ hz_fd_table' = (hz_fd_table \ ByteOf(fd[t])) \cup (byte[t] \ {fd[t]})
    BY <1>0, <1>2 DEF LoadForClear, LoadByte, StoreClear, Goto
  <2>4. /\ \A c \in Open : conns[c].fd # fd[t]
        /\ pc[t] = "restore" => byte[t] = hz_fd_table \cap ByteOf(fd[t])
    BY <2>3 DEF CallerInv, Handling
  <2>5. hz_fd_table \ {fd[t]} \subseteq hz_fd_table'
    BY <2>3, <2>4, BitCleared
  <2>6. Unique' /\ InTable' /\ Owns(t)'
    BY <2>1, <2>2, <2>4, <2>5 DEF CallerInv, Unique, InTable, Owns
  <2>7. HeadYoung(t)' /\ Handling(t)'
    BY <2>1, <2>2, <2>3, <2>4 DEF CallerInv, HeadYoung, Handling, Apart
  <2>. QED BY <2>6, <2>7 DEF CallerInv
<1>. QED BY <1>1, <1>2

-----------------------------------------------------------------------------
\* What a walk meets after a step.
MeetsOrClosedAfter(p, c) ==
  \/ MeetsAfter(p, c)
  \/ \E z \in Conns' \ Open' : z > c /\ MeetsAfter(p, z)

\* Nothing is lost by steps that keep the nodes, whether or not one is added.
LEMMA KeptMeets ==
  ASSUME Inv, Len(conns') \in Nat, Len(conns) <= Len(conns'), \A c \in Conns : Kept(c)
  PROVE  \A p \in 0 .. Len(conns), c \in Conns :
           MeetsOrClosed(p, c) => MeetsOrClosedAfter(p, c)
<1>1. \A p \in 0 .. Len(conns), c \in Conns : Meets(p, c) => MeetsAfter(p, c)
  BY LinksInRange, MeetsKept DEF Kept
<1>2. Conns \ Open \subseteq Conns' \ Open'
  BY LinksInRange DEF Conns, Open, Kept
<1>. QED BY <1>1, <1>2 DEF MeetsOrClosed, MeetsOrClosedAfter

\* Nor by clearing a node: a walk meets it instead of what it cuts off.
LEMMA ClearMeets ==
  ASSUME Inv, NEW z \in Open, Len(conns') = Len(conns),
         \A c \in Conns \ {z} : Kept(c),
         conns'[z].next = 0, conns'[z].state = "closed"
  PROVE  \A p \in 0 .. Len(conns), c \in Open \ {z} :
           MeetsOrClosed(p, c) => MeetsOrClosedAfter(p, c)
<1> SUFFICES ASSUME NEW p \in 0 .. Len(conns), NEW c \in Open \ {z}, MeetsOrClosed(p, c)
             PROVE  MeetsOrClosedAfter(p, c)
  OBVIOUS
<1>1. /\ Conns' = Conns
      /\ Conns' \ Open' = (Conns \ Open) \cup {z}
      /\ z \in Conns /\ c \in Conns
  BY ConnFacts DEF Conns, Open, Kept
<1>2. \A d \in Conns : Meets(p, d) => \/ MeetsAfter(p, d)
                                      \/ MeetsAfter(p, z) /\ d < z
                                      \/ d = z
  BY <1>1, LinksInRange, MeetsOrCleared DEF Inv, Kept
<1>3. CASE Meets(p, c)
  BY <1>1, <1>2, <1>3, ConnFacts DEF MeetsOrClosedAfter
<1>4. ASSUME NEW y \in Conns \ Open, y > c, Meets(p, y)
      PROVE  MeetsOrClosedAfter(p, c)
  <2>1. MeetsAfter(p, y) \/ (MeetsAfter(p, z) /\ z > c)
    BY <1>1, <1>2, <1>4, ConnFacts
  <2>. QED BY <1>1, <1>4, <2>1 DEF MeetsOrClosedAfter
<1>. QED BY <1>3, <1>4 DEF MeetsOrClosed

LEMMA LinkedKept ==
  ASSUME NEW t \in Threads, Inv, CallerInv(t), Linked(t), NewCall(t) \/ Step(t)
  PROVE  Linked(t)'
<1>0. /\ pc \in [Threads -> Labels] /\ conn \in [Threads -> 0 .. Len(conns)]
      /\ head \in 0 .. Len(conns)
  BY DEF Inv, TypeOK
<1>1. \A p, c : MeetsOrClosedAfter(p, c) =>
        (head' = p => MeetsOrClosed(head, c)') /\ (conn'[t] = p => MeetsOrClosed(conn[t], c)')
  BY DEF MeetsOrClosedAfter, MeetsOrClosed, MeetsAfter, Meets, Closed
<1>2. CASE ReadHead(t)
  <2> DEFINE n == Len(conns) + 1
  <2>1. /\ pc[t] = "read_head" /\ pc'[t] = "write_head"
        /\ conn'[t] = n /\ head' = head
    BY <1>0, <1>2 DEF ReadHead, Goto
  <2>2. /\ Len(conns) \in Nat /\ Len(conns') = n
        /\ \A c \in Conns : Kept(c)
        /\ conns'[n] = NewConn(t, head)
    <3>1. conns \in Seq(Connection) /\ conns' = Append(conns, NewConn(t, head))
      BY <1>2 DEF ReadHead, Inv, TypeOK
    <3>. QED BY <2>1, <3>1, NodeChanges, AppendProperties
  <2>3. conns'[n].next = head
    BY <2>2 DEF NewConn
  <2>4. Conns' = Conns \cup {n} /\ Open' \subseteq Open \cup {n}
    BY <2>2 DEF Conns, Open, Kept
  <2>5. \A c \in Open : MeetsOrClosedAfter(head, c)
    BY <1>0, <2>1, <2>2, KeptMeets, ConnFacts DEF Linked, Apart
  <2>. HIDE DEF n
  <2>6. \A c \in Conns' : MeetsAfter(head, c) => MeetsAfter(n, c)
    <3>1. n # 0
      BY <2>2 DEF n
    <3>. QED BY <2>3, <3>1 DEF MeetsAfter
  <2>7. MeetsAfter(n, n)
    BY <2>2, <2>4 DEF MeetsAfter, n
  <2>8. \A c \in Open' : MeetsOrClosedAfter(n, c)
    <3>1. \A c \in Open : MeetsOrClosedAfter(n, c)
      BY <2>4, <2>5, <2>6, ConnFacts DEF MeetsOrClosedAfter
    <3>. QED BY <2>4, <2>7, <3>1 DEF MeetsOrClosedAfter
  <2>9. \A c \in Open' : MeetsOrClosed(conn[t], c)'
    BY <1>1, <2>1, <2>8
  <2>10. \A c \in Open' : MeetsOrClosed(head, c)' \/ Apart(t, c)'
    BY <1>1, <2>1, <2>4, <2>5 DEF Apart
  <2>. QED BY <2>9, <2>10 DEF Linked
<1>3. CASE WriteHead(t)
  <2>1. /\ pc[t] = "write_head" /\ pc'[t] = "idle"
        /\ head' = conn[t] /\ conns' = conns
    BY <1>0, <1>3 DEF WriteHead, Goto
  <2>2. Conns' = Conns /\ Open' = Open
    BY <2>1 DEF Conns, Open
  <2>3. \A c \in Open : MeetsOrClosed(conn[t], c)
    BY <2>1 DEF Linked
  <2>4. \A c \in Open : MeetsOrClosed(head, c)'
    BY <2>1, <2>2, <2>3 DEF MeetsOrClosed, Meets, Closed
  <2>. QED BY <2>1, <2>2, <2>4 DEF Linked
<1>4. CASE MoveHead(t)
  <2>1. /\ pc[t] = "move_head" /\ pc'[t] = "clear_node"
        /\ head' = conns[conn[t]].next
        /\ UNCHANGED <<conns, conn>>
    BY <1>0, <1>4 DEF MoveHead, Goto
  <2>2. Conns' = Conns /\ Open' = Open
    BY <2>1 DEF Conns, Open
  <2>3. head = conn[t] /\ conn[t] \in Open /\ conn[t] \in Conns
    BY <2>1, ConnFacts DEF CallerInv, Handling
  <2>4. ASSUME NEW c \in Open \ {conn[t]} PROVE MeetsOrClosed(head', c)
    <3>1. MeetsOrClosed(conn[t], c)
      BY <2>1, <2>3 DEF Linked, Apart
    <3>. QED BY <2>1, <2>3, <3>1, MeetsNext DEF MeetsOrClosed
  <2>5. ASSUME NEW c \in Open \ {conn[t]} PROVE MeetsOrClosed(head, c)'
    BY <2>1, <2>2, <2>4 DEF MeetsOrClosed, Meets, Closed
  <2>. QED BY <2>1, <2>2, <2>5 DEF Linked, Apart
<1>5. CASE ClearNode(t)
  <2>1. /\ pc[t] = "clear_node" /\ pc'[t] = "reload" /\ head' = head
    BY <1>0, <1>5 DEF ClearNode, Goto
  <2>2. conn[t] \in Open /\ conn[t] \in Conns
    BY <2>1, ConnFacts DEF CallerInv, Handling
  <2>3. conns'[conn[t]].next = 0 /\ conns'[conn[t]].state = "closed"
    <3>1. conns' = [conns EXCEPT ![conn[t]] =
                      [@ EXCEPT !.next = 0, !.prev = 0, !.state = "closed"]]
      BY <1>5 DEF ClearNode
    <3>2. conns \in Seq(Connection)
      BY DEF Inv, TypeOK
    <3>. QED BY <2>2, <3>1, <3>2, ConnFacts DEF Conns
  <2>4. Len(conns') = Len(conns) /\ \A c \in Conns \ {conn[t]} : Kept(c)
    <3>1. ~ Kept(conn[t])
      BY <2>2, <2>3, ConnFacts DEF Kept, Open
    <3>. QED BY <2>1, <2>2, <3>1, NodeChanges
  <2>5. Open' = Open \ {conn[t]}
    BY <2>3, <2>4 DEF Conns, Open, Kept
  <2>6. \A c \in Open' : MeetsOrClosedAfter(head, c)
    BY <1>0, <2>1, <2>2, <2>3, <2>4, <2>5, ClearMeets DEF Linked, Apart
  <2>. QED BY <1>1, <2>1, <2>6 DEF Linked
<1>6. CASE ~ (ReadHead(t) \/ WriteHead(t) \/ MoveHead(t) \/ ClearNode(t))
  <2>1. /\ head' = head
        /\ pc[t] \notin {"read_head", "write_head", "clear_node"}
        /\ pc'[t] # "write_head"
    BY <1>0, <1>6
       DEF NewCall, Step, SocketCall, BindCall, CloseCall, Call, TestBit, LoadForSet,
           LoadForClear, LoadByte, StoreSet, Allocate, LockNames, UnlockNames, Bind,
           CreateSendRing, CreateReceiveRing, BindWalk, CloseWalk, Walk, Close,
           UnlinkPrev, UnlinkNext, TestHead, StoreClear, listVars, Goto, GiveUp
  <2>2. Len(conns') = Len(conns) /\ \A c \in Conns : Kept(c)
    BY <2>1, NodeChanges
  <2>3. Open' = Open
    BY <2>2 DEF Open, Conns, Kept
  <2>4. \A c \in Open : MeetsOrClosedAfter(head, c)
    BY <1>0, <2>1, <2>2, KeptMeets, ConnFacts DEF Linked, Apart
  <2>. QED BY <1>1, <2>1, <2>3, <2>4 DEF Linked
<1>. QED BY <1>2, <1>3, <1>4, <1>5, <1>6

-----------------------------------------------------------------------------
LEMMA CallerHolds ==
  ASSUME NEW t, Threads = {t}
  PROVE  SafeSpec => [](Inv /\ CallerInv(t) /\ Linked(t))
<1>. DEFINE I == CallerInv(t) /\ Linked(t)
<1>1. Init => I
  <2> SUFFICES ASSUME Init PROVE I
    OBVIOUS
  <2>1. Conns = {} /\ Open = {} /\ pc[t] = "idle" /\ owned[t] = {}
    BY DEF Init, Conns, Open
  <2>. QED BY <2>1 DEF CallerInv, Unique, InTable, HeadYoung, Handling, Owns, Linked
<1>2. Inv /\ I /\ [Next]_vars => I'
  <2> SUFFICES ASSUME Inv, I, [Next]_vars PROVE I'
    OBVIOUS
  <2>1. CASE UNCHANGED vars
    <3>1. UNCHANGED <<hz_fd_table, byte, conns, head, conn, fd, owned, pc>>
      BY <2>1 DEF vars, tableVars, listVars, callVars
    <3>2. Conns' = Conns /\ Open' = Open
      BY <3>1 DEF Conns, Open
    <3>3. CallerInv(t)'
      BY <3>1, <3>2 DEF CallerInv, Unique, InTable, HeadYoung, Handling, Owns, Apart
    <3>4. Linked(t)'
      BY <3>1, <3>2 DEF Linked, Apart, MeetsOrClosed, Meets, Closed
    <3>. QED BY <3>3, <3>4
  <2>2. CASE NewCall(t) \/ Step(t)
    <3>1. t \in Threads
      OBVIOUS
    <3>2. CallerInv(t)'
      BY <2>2, <3>1, CallerSocket, CallerInsert, CallerWalk, CallerFound, CallerClear
         DEF NewCall, Step
    <3>. QED BY <2>2, <3>1, <3>2, LinkedKept
  <2>. QED BY <2>1, <2>2 DEF Next
<1>. QED BY <1>1, <1>2, InvHolds, PTL DEF SafeSpec

\* With one caller, no two open sockets have one fd, and hz_socket does not
\* give out the fd of an open socket.
THEOREM FdsAreExclusive ==
  ASSUME NEW t, Threads = {t}
  PROVE  SafeSpec => []FdExclusive
<1>1. Inv /\ CallerInv(t) => FdExclusive
  BY ConnFacts DEF CallerInv, Unique, InTable, FdExclusive
<1>. QED BY <1>1, CallerHolds, PTL

\* With one caller, hz_bind and hz_close find the socket that is meant.
THEOREM FindsItsOwn ==
  ASSUME NEW t, Threads = {t}
  PROVE  SafeSpec => []FoundIsOwn
<1>1. Inv /\ CallerInv(t) => FoundIsOwn
  BY ConnFacts DEF CallerInv, Handling, FoundIsOwn
<1>. QED BY <1>1, CallerHolds, PTL

\* With one caller, only sockets older than a closed one drop out of the list.
THEOREM NoneLostOtherwise ==
  ASSUME NEW t, Threads = {t}
  PROVE  SafeSpec => []LostOnlyBehindClosed
<1>1. Inv /\ Linked(t) => LostOnlyBehindClosed
  BY ConnFacts DEF Linked, MeetsOrClosed, LostOnlyBehindClosed, Listed, Apart, Busy
<1>. QED BY <1>1, CallerHolds, PTL
=============================================================================
