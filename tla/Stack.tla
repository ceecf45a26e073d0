-------------------------------- MODULE Stack --------------------------------
(***************************************************************************)
(* The sockets together with the lcores that share them: the main lcore    *)
(* sets the singletons up and starts the packet lcore, which starts the    *)
(* servers and then walks along the list of connections for ever, without  *)
(* a lock, while the servers create, bind and close their sockets.         *)
(*                                                                         *)
(* A turn of the loop of a walk is a step: it reads one node.  What is put *)
(* into the rings of a connection, and taken out of them, is in UdpReceive *)
(* and UdpSend.                                                            *)
(***************************************************************************)
EXTENDS SocketTable

CONSTANTS Servers,      \* the threads in the order in which they are launched
          Destinations  \* ports that clients send to

ASSUME ServersAssumption ==
  /\ Servers \in Seq(Threads)
  /\ \A t \in Threads : \E i \in 1 .. Len(Servers) : Servers[i] = t

\* init() of main.c creates the singletons one by one, the rest are lcores.
Boot == <<"ring", "arp_table", "conn_list", "packet">> \o Servers

VARIABLES boot,     \* how much of it has been done
          packet,   \* what the packet lcore does next
          info,     \* the connection it stands on
          port,     \* the destination port of the datagram it deals with
          sought,   \* open connections bound to it since the lookup began
          cleared,  \* connections closed since the lookup began
          failed    \* has a hz_socket failed to create one of its rings

packetVars == <<packet, info, port, sought, cleared>>
stackVars == <<vars, boot, packetVars, failed>>

StackInit ==
  /\ Init
  /\ boot = 0
  /\ packet = "deal"
  /\ info = 0
  /\ port = NULL
  /\ sought = {}
  /\ cleared = {}
  /\ failed = FALSE

Up(part) == \E i \in 1 .. boot : Boot[i] = part

\* As BootStep, but one lcore too many is launched.
BootStepTooMany ==
  /\ boot <= Len(Boot)
  /\ boot' = boot + 1
  /\ UNCHANGED <<vars, packetVars, failed>>

\* What main does before its loop, and hz_pkt_process before its own.
BootStep ==
  /\ boot < Len(Boot)
  /\ boot' = boot + 1
  /\ UNCHANGED <<vars, packetVars, failed>>

Running == boot = Len(Boot) /\ process = "running"

-----------------------------------------------------------------------------
(***************************************************************************)
(* The packet lcore.                                                       *)
(***************************************************************************)
Bound(p) == {c \in Open : conns[c].src_port = p}
At(label) == Running /\ packet = label

\* The walk is over.
Done ==
  /\ packet' = "deal"
  /\ info' = 0
  /\ port' = NULL
  /\ sought' = {}
  /\ cleared' = {}
  /\ UNCHANGED <<vars, boot, failed>>

\* hz_process_udp calls hz_get_conn_info_by_socket.
Lookup ==
  /\ At("deal")
  /\ packet' = "lookup"
  /\ info' = head
  /\ \E p \in Destinations :
       port' = p /\ sought' = Bound(p) \cap Listed
  /\ cleared' = cleared
  /\ UNCHANGED <<vars, boot, failed>>

\* As LookupTurn, but the loop stops in front of the last connection.
LookupTurnToLast ==
  /\ At("lookup")
  /\ info # 0
  /\ conns[info].src_port # port
  /\ LET n == conns[info].next
     IN  info' = IF n # 0 /\ conns[n].next = 0 THEN 0 ELSE n
  /\ UNCHANGED <<vars, boot, failed, packet, port, sought, cleared>>

\* A turn of its loop over a connection with another port.
LookupTurn ==
  /\ At("lookup")
  /\ info # 0
  /\ conns[info].src_port # port
  /\ info' = conns[info].next
  /\ UNCHANGED <<vars, boot, failed, packet, port, sought, cleared>>

\* No connection: the datagram is dropped.
Miss ==
  /\ At("lookup")
  /\ info = 0
  /\ Done

\* The payload goes into receive_buffer, its reader is signalled.
Deliver ==
  /\ At("lookup")
  /\ info # 0
  /\ conns[info].src_port = port
  /\ Done

\* hz_process_out_udp.
Sweep ==
  /\ At("deal")
  /\ packet' = "sweep"
  /\ info' = head
  /\ UNCHANGED <<vars, boot, failed, port, sought, cleared>>

\* A payload of the connection is on its way.
SweepTurn ==
  /\ At("sweep")
  /\ info # 0
  /\ info' = conns[info].next
  /\ UNCHANGED <<vars, boot, failed, packet, port, sought, cleared>>

\* The end of the list, or an empty send_buffer.
SweepEnds ==
  /\ At("sweep")
  /\ Done

Packet ==
  \/ Lookup \/ LookupTurn \/ Miss \/ Deliver
  \/ Sweep \/ SweepTurn \/ SweepEnds

-----------------------------------------------------------------------------
\* A server creates a ring and goes on, or else its hz_socket returns -1.
GivesUp(t) == pc[t] \in {"send_ring", "receive_ring"} /\ pc'[t] = "idle"

\* A step of a server; the lookup notes which connection it closes.
Server(t, Action) ==
  /\ Up(t)
  /\ Action
  /\ cleared' = IF pc[t] = "clear_node" /\ packet = "lookup" THEN cleared \cup {conn[t]} ELSE cleared
  /\ sought' = {c \in sought : conns'[c].src_port = port}
  /\ failed' = (failed \/ GivesUp(t))
  /\ UNCHANGED <<boot, packet, info, port>>

ServerCall(t) == Server(t, NewCall(t))
ServerStep(t) == Server(t, Step(t))

StackNext ==
  \/ BootStep
  \/ Packet
  \/ \E t \in Threads : ServerCall(t) \/ ServerStep(t)

\* Every lcore launched has a core to itself.
StackFairness ==
  /\ WF_stackVars(BootStep)
  /\ WF_stackVars(Packet)
  /\ \A t \in Threads : WF_stackVars(ServerStep(t))

StackSafeSpec == StackInit /\ [][StackNext]_stackVars
StackSpec == StackSafeSpec /\ StackFairness

-----------------------------------------------------------------------------
(***************************************************************************)
(* Properties.                                                             *)
(***************************************************************************)
\* Types of the variables; a pointer of the packet lcore is to a connection.
StackTypeOK ==
  /\ TypeOK
  /\ boot \in 0 .. Len(Boot)
  /\ packet \in {"deal", "lookup", "sweep"}
  /\ info \in 0 .. Len(conns)
  /\ port \in Destinations \cup {NULL}
  /\ sought \subseteq Conns
  /\ cleared \subseteq Conns
  /\ failed \in BOOLEAN

\* A datagram misses a socket that was in the list, and stayed bound to its
\* port, only if meanwhile that socket or a younger one was closed: the lookup
\* of hz_process_udp takes no lock, but insertions and bindings do not mislead it.
MissesOnlyBehindClosed ==
  packet = "lookup" /\ info = 0 =>
    \A c \in sought : \E z \in cleared : z >= c

\* A call of hz_socket returns unless one has failed to create a ring, and then
\* because that one has kept the lock of the names: nothing else, neither the
\* other caller nor the search for an fd, keeps it waiting.
SocketReturns ==
  \A t \in Threads :
    pc[t] = "test" ~> \/ pc[t] = "idle"
                      \/ process = "aborted"
                      \/ failed /\ ring_lock # NULL

\* The walks of the packet lcore end, though sockets come and go under them:
\* it gets back to ring->in.
WalksReturn ==
  packet \in {"lookup", "sweep"} ~> (packet = "deal" \/ process = "aborted")
=============================================================================
