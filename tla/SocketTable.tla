----------------------------- MODULE SocketTable -----------------------------
(***************************************************************************)
(* The sockets of the process: the fd bitmap and the list of connections   *)
(* (socket.c), the names of their rings (conn_status.c) and the calls      *)
(* hz_socket, hz_bind and hz_close, made by any number of lcores at once.  *)
(*                                                                         *)
(* Bitmap and list have no lock, so each load and each store of them is a  *)
(* step of its own.  A connection is numbered in the order in which        *)
(* INSERT_NODE_HEAD reads the head of the list; 0 is the NULL pointer.     *)
(* Ring payloads belong to UdpReceive and UdpSend.  The count of the list  *)
(* is written and never read, so it is left out.                           *)
(*                                                                         *)
(* Memory that went from malloc to rte_free, a closed connection, is not   *)
(* handed out again: rte_free finds no header of its own and refuses.      *)
(***************************************************************************)
EXTENDS Naturals, Sequences, FiniteSets

CONSTANTS Threads,       \* lcores that run application code
          Calls,         \* the calls they make: "socket", "bind", "close"
          Types,         \* the type of the sockets they ask for
          Port,          \* the port each of them binds its sockets to
          SEND_NAME,     \* global_ring_name.send_name
          RECEIVE_NAME,  \* global_ring_name.receive_name
          FIRST_FD,      \* HZ_DEFAULT_FD_NUM
          MAX_FD,        \* HZ_MAX_FD_COUNT
          MemoryRunsOut, \* may malloc or rte_malloc fail
          RingsRunOut,   \* may rte_ring_create fail under a fresh name
          MaxConns,      \* bound on the sockets created
          NULL

ASSUME ThreadsAssumption == NULL \notin Threads
ASSUME CallsAssumption == Calls \subseteq {"socket", "bind", "close"}
ASSUME TypesAssumption == Types \subseteq {"dgram", "stream"}
ASSUME FdAssumption == FIRST_FD \in Nat /\ MAX_FD \in Nat /\ FIRST_FD <= MAX_FD
ASSUME NamesAssumption ==
  /\ MaxConns \in Nat
  /\ Len(SEND_NAME) >= MaxConns
  /\ Len(RECEIVE_NAME) >= MaxConns
ASSUME MemoryAssumption == MemoryRunsOut \in BOOLEAN /\ RingsRunOut \in BOOLEAN

VARIABLES hz_fd_table,   \* the fds whose bit is set
          conns,         \* the connections, in the order of their insertion
          head,          \* first connection of the list
          rings,         \* names of the rings that exist
          ring_count,    \* global_ring_name.count
          ring_lock,     \* who holds global_ring_name.lock
          pc,            \* what each thread does next
          fd,            \* the fd it works with
          type,          \* the type of the socket it creates
          byte,          \* what it has loaded: a byte of the bitmap
          conn,          \* or a connection, or the head
          owned,         \* the fds hz_socket gave it and it has not closed
          process        \* "running" or "aborted"

tableVars == <<hz_fd_table, byte>>
listVars == <<conns, head, conn>>
ringVars == <<rings, ring_count, ring_lock>>
callVars == <<fd, type, owned>>
vars == <<tableVars, listVars, ringVars, callVars, pc, process>>

Conns == 1 .. Len(conns)
Open == {c \in Conns : conns[c].state = "open"}
Goto(t, label) == pc' = [pc EXCEPT ![t] = label]

Init ==
  /\ hz_fd_table = {}
  /\ conns = <<>>
  /\ head = 0
  /\ rings = {}
  /\ ring_count = 0
  /\ ring_lock = NULL
  /\ pc = [t \in Threads |-> "idle"]
  /\ fd = [t \in Threads |-> 0]
  /\ type = [t \in Threads |-> "dgram"]
  /\ byte = [t \in Threads |-> {}]
  /\ conn = [t \in Threads |-> 0]
  /\ owned = [t \in Threads |-> {}]
  /\ process = "running"

-----------------------------------------------------------------------------
(***************************************************************************)
(* hz_socket                                                               *)
(***************************************************************************)
Creating == {t \in Threads :
               pc[t] \in {"test", "load", "store", "alloc", "lock", "send_ring",
                          "receive_ring", "unlock", "read_head"}}

SocketCall(t) ==
  /\ pc[t] = "idle"
  /\ "socket" \in Calls
  /\ Len(conns) + Cardinality(Creating) < MaxConns
  /\ fd' = [fd EXCEPT ![t] = FIRST_FD]
  /\ \E k \in Types : type' = [type EXCEPT ![t] = k]
  /\ Goto(t, "test")
  /\ UNCHANGED <<tableVars, listVars, ringVars, owned>>

\* As TestBit, but tries MAX_FD as well.
TestBitPastEnd(t) ==
  /\ pc[t] = "test"
  /\ IF fd[t] > MAX_FD
       THEN Goto(t, "idle") /\ fd' = fd
       ELSE IF fd[t] \in hz_fd_table
              THEN fd' = [fd EXCEPT ![t] = @ + 1] /\ pc' = pc
              ELSE Goto(t, "load") /\ fd' = fd
  /\ UNCHANGED <<tableVars, listVars, ringVars, type, owned>>

\* The loop of hz_get_fd_from_bitmap; it gives up at MAX_FD.
TestBit(t) ==
  /\ pc[t] = "test"
  /\ IF fd[t] >= MAX_FD
       THEN Goto(t, "idle") /\ fd' = fd
       ELSE IF fd[t] \in hz_fd_table
              THEN fd' = [fd EXCEPT ![t] = @ + 1] /\ pc' = pc
              ELSE Goto(t, "load") /\ fd' = fd
  /\ UNCHANGED <<tableVars, listVars, ringVars, type, owned>>

\* A byte of the table holds the bits of eight fds.
ByteOf(f) == {g \in FIRST_FD .. MAX_FD : g \div 8 = f \div 8}

LoadByte(t, here, next) ==
  /\ pc[t] = here
  /\ byte' = [byte EXCEPT ![t] = hz_fd_table \cap ByteOf(fd[t])]
  /\ Goto(t, next)
  /\ UNCHANGED <<hz_fd_table, listVars, ringVars, callVars>>

\* The |= of hz_get_fd_from_bitmap is a load and a store.
LoadForSet(t) == LoadByte(t, "load", "store")

\* As StoreSet, but the bit stays clear.
StoreSetNothing(t) ==
  /\ pc[t] = "store"
  /\ Goto(t, "alloc")
  /\ UNCHANGED <<tableVars, listVars, ringVars, callVars>>

StoreSet(t) ==
  /\ pc[t] = "store"
  /\ hz_fd_table' = (hz_fd_table \ ByteOf(fd[t])) \cup byte[t] \cup {fd[t]}
  /\ Goto(t, "alloc")
  /\ UNCHANGED <<byte, listVars, ringVars, callVars>>

\* malloc of the connection, rte_malloc of its socket_info.  A failure leaves
\* the bit of the fd set.
Allocate(t) ==
  /\ pc[t] = "alloc"
  /\ \/ Goto(t, "lock")
     \/ MemoryRunsOut /\ Goto(t, "idle")
  /\ UNCHANGED <<tableVars, listVars, ringVars, callVars>>

LockNames(t) ==
  /\ pc[t] = "lock"
  /\ ring_lock = NULL
  /\ ring_lock' = t
  /\ Goto(t, "send_ring")
  /\ UNCHANGED <<tableVars, listVars, rings, ring_count, callVars>>

\* rte_ring_create refuses a name that is taken.
CanFail(name) == name \in rings \/ RingsRunOut
CanCreate(name) == name \notin rings

\* hz_socket returns -1 and keeps global_ring_name.lock.  free() of the
\* socket_info, which rte_malloc gave, may abort the process.
GiveUp(t) ==
  /\ Goto(t, "idle")
  /\ process' \in {"running", "aborted"}

CreateSendRing(t) ==
  LET name == SEND_NAME[ring_count + 1]
  IN  /\ pc[t] = "send_ring"
      /\ \/ /\ CanCreate(name)
            /\ rings' = rings \cup {name}
            /\ Goto(t, "receive_ring")
            /\ process' = process
         \/ CanFail(name) /\ GiveUp(t) /\ rings' = rings
      /\ UNCHANGED <<tableVars, listVars, ring_count, ring_lock, callVars>>

\* The send ring is not taken back when this one fails.
CreateReceiveRing(t) ==
  LET name == RECEIVE_NAME[ring_count + 1]
  IN  /\ pc[t] = "receive_ring"
      /\ ring_count' = ring_count + 1
      /\ \/ /\ CanCreate(name)
            /\ rings' = rings \cup {name}
            /\ Goto(t, "unlock")
            /\ process' = process
         \/ CanFail(name) /\ GiveUp(t) /\ rings' = rings
      /\ UNCHANGED <<tableVars, listVars, ring_lock, callVars>>

\* As UnlockNames, but the lock stays taken.
UnlockNamesForgotten(t) ==
  /\ pc[t] = "unlock"
  /\ Goto(t, "read_head")
  /\ UNCHANGED <<tableVars, listVars, ringVars, callVars>>

UnlockNames(t) ==
  /\ pc[t] = "unlock"
  /\ ring_lock' = NULL
  /\ Goto(t, "read_head")
  /\ UNCHANGED <<tableVars, listVars, rings, ring_count, callVars>>

NewConn(t, next) ==
  [fd |-> fd[t], type |-> type[t], src_port |-> NULL, owner |-> t,
   state |-> "open", next |-> next, prev |-> 0]

\* As ReadHead, but the list starts with the node before its next is set.
ReadHeadLate(t) ==
  /\ pc[t] = "read_head"
  /\ conns' = Append(conns, NewConn(t, Len(conns) + 1))
  /\ conn' = [conn EXCEPT ![t] = Len(conns) + 1]
  /\ Goto(t, "write_head")
  /\ UNCHANGED <<tableVars, head, ringVars, callVars>>

\* INSERT_NODE_HEAD: prev = NULL, next = the head it reads.
ReadHead(t) ==
  /\ pc[t] = "read_head"
  /\ conns' = Append(conns, NewConn(t, head))
  /\ conn' = [conn EXCEPT ![t] = Len(conns) + 1]
  /\ Goto(t, "write_head")
  /\ UNCHANGED <<tableVars, head, ringVars, callVars>>

\* INSERT_NODE_HEAD: the list starts with the new node; hz_socket returns fd.
WriteHead(t) ==
  /\ pc[t] = "write_head"
  /\ head' = conn[t]
  /\ owned' = [owned EXCEPT ![t] = @ \cup {fd[t]}]
  /\ Goto(t, "idle")
  /\ UNCHANGED <<tableVars, conns, conn, ringVars, fd, type>>

-----------------------------------------------------------------------------
(***************************************************************************)
(* hz_get_conn_info_by_fd, called by hz_bind and by hz_close.              *)
(***************************************************************************)
\* As Call, but the walk starts behind the head.
CallPastHead(t, name, label) ==
  /\ pc[t] = "idle"
  /\ name \in Calls
  /\ \E f \in owned[t] : fd' = [fd EXCEPT ![t] = f]
  /\ conn' = [conn EXCEPT ![t] = IF head = 0 THEN 0 ELSE conns[head].next]
  /\ Goto(t, label)
  /\ UNCHANGED <<tableVars, conns, head, ringVars, type>>

\* The loop starts at the head of the list.
Call(t, name, label) ==
  /\ pc[t] = "idle"
  /\ name \in Calls
  /\ \E f \in owned[t] : fd' = [fd EXCEPT ![t] = f]
  /\ conn' = [conn EXCEPT ![t] = head]
  /\ Goto(t, label)
  /\ UNCHANGED <<tableVars, conns, head, ringVars, type>>

BindCall(t) == Call(t, "bind", "bind_walk") /\ owned' = owned

\* An application does not use an fd after it has closed it.
CloseCall(t) ==
  /\ Call(t, "close", "close_walk")
  /\ owned' = [owned EXCEPT ![t] = @ \ {fd'[t]}]

\* One turn of the loop.  A call that finds nothing returns: -1 from hz_bind,
\* 0 from hz_close, which then leaves the bit of the fd set.
Walk(t, here, found) ==
  /\ pc[t] = here
  /\ IF conn[t] = 0
       THEN Goto(t, "idle") /\ conn' = conn
       ELSE IF conns[conn[t]].fd = fd[t]
              THEN Goto(t, found) /\ conn' = conn
              ELSE conn' = [conn EXCEPT ![t] = conns[conn[t]].next] /\ pc' = pc
  /\ UNCHANGED <<tableVars, conns, head, ringVars, callVars>>

BindWalk(t) == Walk(t, "bind_walk", "bind")
CloseWalk(t) == Walk(t, "close_walk", "close")

Bind(t) ==
  /\ pc[t] = "bind"
  /\ conns' = [conns EXCEPT ![conn[t]].src_port = Port[t]]
  /\ Goto(t, "idle")
  /\ UNCHANGED <<tableVars, head, conn, ringVars, callVars>>

-----------------------------------------------------------------------------
(***************************************************************************)
(* hz_close, once it has found the connection.  DELETE_TARGET_NODE is one  *)
(* step per line.                                                          *)
(***************************************************************************)
\* Only a UDP connection is taken out; the call returns 1 for any other.
Close(t) ==
  /\ pc[t] = "close"
  /\ IF conns[conn[t]].type = "dgram" THEN Goto(t, "unlink_prev") ELSE Goto(t, "idle")
  /\ UNCHANGED <<tableVars, listVars, ringVars, callVars>>

UnlinkPrev(t) ==
  LET n == conns[conn[t]]
  IN  /\ pc[t] = "unlink_prev"
      /\ conns' = IF n.prev # 0 THEN [conns EXCEPT ![n.prev].next = n.next] ELSE conns
      /\ Goto(t, "unlink_next")
      /\ UNCHANGED <<tableVars, head, conn, ringVars, callVars>>

UnlinkNext(t) ==
  LET n == conns[conn[t]]
  IN  /\ pc[t] = "unlink_next"
      /\ conns' = IF n.next # 0 THEN [conns EXCEPT ![n.next].prev = n.prev] ELSE conns
      /\ Goto(t, "test_head")
      /\ UNCHANGED <<tableVars, head, conn, ringVars, callVars>>

TestHead(t) ==
  /\ pc[t] = "test_head"
  /\ Goto(t, IF head = conn[t] THEN "move_head" ELSE "clear_node")
  /\ UNCHANGED <<tableVars, listVars, ringVars, callVars>>

\* As MoveHead, but the whole list is dropped.
MoveHeadToNull(t) ==
  /\ pc[t] = "move_head"
  /\ head' = 0
  /\ Goto(t, "clear_node")
  /\ UNCHANGED <<tableVars, conns, conn, ringVars, callVars>>

MoveHead(t) ==
  /\ pc[t] = "move_head"
  /\ head' = conns[conn[t]].next
  /\ Goto(t, "clear_node")
  /\ UNCHANGED <<tableVars, conns, conn, ringVars, callVars>>

\* From here on the connection is closed.
ClearNode(t) ==
  /\ pc[t] = "clear_node"
  /\ conns' = [conns EXCEPT ![conn[t]] =
                 [@ EXCEPT !.next = 0, !.prev = 0, !.state = "closed"]]
  /\ Goto(t, "reload")
  /\ UNCHANGED <<tableVars, head, conn, ringVars, callVars>>

\* The &= of hz_reset_fd_about_bitmap; rings and socket_info are not freed.
LoadForClear(t) == LoadByte(t, "reload", "restore")

StoreClear(t) ==
  /\ pc[t] = "restore"
  /\ hz_fd_table' = (hz_fd_table \ ByteOf(fd[t])) \cup (byte[t] \ {fd[t]})
  /\ Goto(t, "idle")
  /\ UNCHANGED <<byte, listVars, ringVars, callVars>>

-----------------------------------------------------------------------------
\* A new call, made when the application pleases.
NewCall(t) ==
  /\ process = "running"
  /\ SocketCall(t) \/ BindCall(t) \/ CloseCall(t)
  /\ UNCHANGED process

\* The next step of the call a thread is in.
Step(t) ==
  /\ process = "running"
  /\ \/ /\ \/ TestBit(t) \/ LoadForSet(t) \/ StoreSet(t)
           \/ Allocate(t) \/ LockNames(t) \/ UnlockNames(t)
           \/ ReadHead(t) \/ WriteHead(t)
           \/ BindWalk(t) \/ Bind(t)
           \/ CloseWalk(t) \/ Close(t)
           \/ UnlinkPrev(t) \/ UnlinkNext(t) \/ TestHead(t) \/ MoveHead(t)
           \/ ClearNode(t) \/ LoadForClear(t) \/ StoreClear(t)
        /\ UNCHANGED process
     \/ CreateSendRing(t)
     \/ CreateReceiveRing(t)

Next == \E t \in Threads : NewCall(t) \/ Step(t)

\* Each thread has an lcore to itself, so it goes on with the call it is in.
Fairness == \A t \in Threads : WF_vars(Step(t))

SafeSpec == Init /\ [][Next]_vars
Spec == SafeSpec /\ Fairness

-----------------------------------------------------------------------------
(***************************************************************************)
(* Properties.                                                             *)
(***************************************************************************)
Labels == {"idle", "test", "load", "store", "alloc", "lock", "send_ring",
           "receive_ring", "unlock", "read_head", "write_head", "bind_walk",
           "bind", "close_walk", "close", "unlink_prev", "unlink_next",
           "test_head", "move_head", "clear_node", "reload", "restore"}

Connection == [fd : Nat, type : Types, src_port : {Port[t] : t \in Threads} \cup {NULL},
               owner : Threads, state : {"open", "closed"}, next : Nat, prev : Nat]

\* Types of the variables.
TypeOK ==
  /\ hz_fd_table \subseteq FIRST_FD .. MAX_FD - 1
  /\ conns \in Seq(Connection)
  /\ head \in 0 .. Len(conns)
  /\ ring_count \in Nat
  /\ ring_lock \in Threads \cup {NULL}
  /\ pc \in [Threads -> Labels]
  /\ fd \in [Threads -> Nat]
  /\ type \in [Threads -> {"dgram", "stream"}]
  /\ byte \in [Threads -> SUBSET (FIRST_FD .. MAX_FD - 1)]
  /\ conn \in [Threads -> 0 .. Len(conns)]
  /\ owned \in [Threads -> SUBSET (FIRST_FD .. MAX_FD - 1)]
  /\ process \in {"running", "aborted"}

\* Every walk along the list ends, from the head or from any connection a
\* reader may stand on, though insertions and deletions of several lcores
\* interleave without a lock: next always leads to an older insertion.
ListEnds == \A c \in Conns : conns[c].next < c

\* When one lcore makes all calls, no two open sockets share an fd, and the fd
\* of an open socket is not up for grabs.
FdExclusive ==
  /\ \A c, d \in Open : conns[c].fd = conns[d].fd => c = d
  /\ \A c \in Open : conns[c].fd \in hz_fd_table

\* What hz_bind and hz_close find for an fd the caller holds is the caller's
\* own, open connection: closed connections that DELETE_TARGET_NODE leaves
\* linked are never taken for a live one, though their fd is given out again.
FoundIsOwn ==
  \A t \in Threads :
    pc[t] \in {"bind", "close", "unlink_prev"} =>
      conns[conn[t]].owner = t /\ conn[t] \in Open

\* A walk that starts at connection c meets d: d is in each set that has c and,
\* with a connection, the next one.
Closed(S) == \A c \in S : conns[c].next \in S \cup {0}
Meets(c, d) == \A S \in SUBSET Conns : c \in S \cup {0} /\ Closed(S) => d \in S

\* The connections a walk from the head meets.
Listed == {c \in Conns : Meets(head, c)}

Busy(t) == pc[t] \in {"write_head", "unlink_next", "test_head", "move_head",
                      "clear_node"}

\* When one lcore makes all calls, an open socket drops out of the list only
\* behind a younger one that was closed: socket by socket, closing the youngest
\* first loses nobody.
LostOnlyBehindClosed ==
  \A c \in Open :
    \/ c \in Listed
    \/ \E t \in Threads : Busy(t)
    \/ \E z \in Listed \ Open : z > c

\* hz_close takes the connection it closes out of the list.
CloseRemoves ==
  (\A t \in Threads : pc[t] = "idle") => Listed \subseteq Open

\* hz_bind gives its port to the socket its caller created.
BindsOwnSocket ==
  \A t \in Threads : pc[t] = "bind" => conns[conn[t]].owner = t
=============================================================================
