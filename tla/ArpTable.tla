------------------------------ MODULE ArpTable ------------------------------
(***************************************************************************)
(* Address resolution.  The timer of the main lcore asks for every address *)
(* of the subnet, one after the other (timer.c); the packet lcore deals    *)
(* with ARP and RARP frames and is the only writer of the ARP table        *)
(* (arp.c, rarp.c, arp_table.c); the hosts of the subnet answer, and the   *)
(* network between them loses, repeats and reorders frames.  It carries at  *)
(* most InFlight frames in each direction; one more and others are lost.   *)
(*                                                                         *)
(* The nodes of the table are numbered in the order of their creation.     *)
(* They are linked from the youngest to the oldest, the list starts at the *)
(* last one, and its end is `oldest'.  Nodes are never freed.              *)
(* ring->out and the NIC are part of the network: `sent' are the frames on *)
(* their way to the hosts, `incoming' those on their way to the packet     *)
(* lcore.  A MAC address is read and written as a whole.                   *)
(***************************************************************************)
EXTENDS Naturals, Sequences, FiniteSets

CONSTANTS Hosts,      \* addresses of the hosts, the last byte of their IP
          LOCAL_IP,   \* global_local_ipv4
          LAST_HOST,  \* the last address the timer asks for (254)
          Macs,       \* MAC addresses the hosts may have
          HostMac,    \* the one each of them has at first
          BROADCAST,  \* global_default_arp_mac, ff:ff:ff:ff:ff:ff
          ZERO,       \* 00:00:00:00:00:00
          Chatter,    \* what hosts send without being asked
          InFlight,   \* bound on the frames under way in one direction
          MaxNodes    \* bound on the nodes created

ASSUME HostsAssumption ==
  /\ LAST_HOST \in Nat
  /\ LOCAL_IP \in 1 .. LAST_HOST
  /\ Hosts \subseteq 1 .. LAST_HOST
  /\ LOCAL_IP \notin Hosts
ASSUME MacsAssumption ==
  /\ HostMac \in [Hosts -> Macs]
  /\ BROADCAST \notin Macs
  /\ ZERO \notin Macs
ASSUME ChatterAssumption ==
  Chatter \subseteq {"request", "reply", "revrequest", "revreply"}
ASSUME BoundsAssumption == MaxNodes \in Nat /\ InFlight \in Nat \ {0}

VARIABLES nodes,      \* the nodes created, each with ip and mac
          oldest,     \* the last node of the list
          timerIp,    \* the address the timer is at, 0 between two runs
          timerPc,    \* "lookup" or "build"
          dst_mac,    \* the node the timer found, 0 for NULL
          sent,       \* frames sent, on their way to the hosts
          incoming,   \* frames of the hosts, on their way here
          hostMac     \* the present MAC of each host

timerVars == <<timerIp, timerPc, dst_mac>>
tableVars == <<nodes, oldest>>
vars == <<tableVars, timerVars, sent, incoming, hostMac>>

Init ==
  /\ nodes = <<>>
  /\ oldest = 1
  /\ timerIp = 0
  /\ timerPc = "lookup"
  /\ dst_mac = 0
  /\ sent = {}
  /\ incoming = {}
  /\ hostMac = HostMac

\* f gets onto the network, which may lose any of the others.
Carry(frames, f) ==
  {kept \cup {f} : kept \in {S \in SUBSET frames : Cardinality(S) < InFlight}}

Listed == oldest .. Len(nodes)

\* hz_get_mac_by_ip: the youngest node with this address, 0 if there is none.
MacByIp(ip) ==
  IF \E n \in Listed : nodes[n].ip = ip
    THEN CHOOSE n \in Listed :
           /\ nodes[n].ip = ip
           /\ \A m \in Listed : nodes[m].ip = ip => m <= n
    ELSE 0

\* hz_get_ip_by_mac compares where two addresses are stored, not what they
\* are.  A node's own copy is at that node, the copy of a caller nowhere in
\* the table.
OnStack == 0
IpByMac(place) == IF place \in Listed THEN nodes[place].ip ELSE 0

\* hz_build_arp_request
Frame(op, mac, tip) ==
  [op |-> op, tip |-> tip, tha |-> mac,
   d_addr |-> IF mac # BROADCAST THEN ZERO ELSE mac]

-----------------------------------------------------------------------------
(***************************************************************************)
(* arp_request_timer_cb, run by the main lcore.                            *)
(***************************************************************************)
TimerStart ==
  /\ timerIp = 0
  /\ timerIp' = 1
  /\ UNCHANGED <<tableVars, timerPc, dst_mac, sent, incoming, hostMac>>

TimerLookup ==
  /\ timerIp # 0
  /\ timerPc = "lookup"
  /\ dst_mac' = MacByIp(timerIp)
  /\ timerPc' = "build"
  /\ UNCHANGED <<tableVars, timerIp, sent, incoming, hostMac>>

\* As TimerBuild, but the last address is left out.
TimerBuildShort ==
  /\ timerPc = "build"
  /\ LET mac == IF dst_mac = 0 THEN BROADCAST ELSE nodes[dst_mac].mac
     IN  sent' \in Carry(sent, Frame("request", mac, timerIp))
  /\ timerIp' = IF timerIp + 1 < LAST_HOST THEN timerIp + 1 ELSE 0
  /\ timerPc' = "lookup"
  /\ UNCHANGED <<tableVars, dst_mac, incoming, hostMac>>

\* As TimerBuild, but one address more is asked for.
TimerBuildLong ==
  /\ timerPc = "build"
  /\ LET mac == IF dst_mac = 0 THEN BROADCAST ELSE nodes[dst_mac].mac
     IN  sent' \in Carry(sent, Frame("request", mac, timerIp))
  /\ timerIp' = IF timerIp <= LAST_HOST THEN timerIp + 1 ELSE 0
  /\ timerPc' = "lookup"
  /\ UNCHANGED <<tableVars, dst_mac, incoming, hostMac>>

\* The MAC is read through the pointer that the lookup returned.
TimerBuild ==
  /\ timerPc = "build"
  /\ LET mac == IF dst_mac = 0 THEN BROADCAST ELSE nodes[dst_mac].mac
     IN  sent' \in Carry(sent, Frame("request", mac, timerIp))
  /\ timerIp' = IF timerIp < LAST_HOST THEN timerIp + 1 ELSE 0
  /\ timerPc' = "lookup"
  /\ UNCHANGED <<tableVars, dst_mac, incoming, hostMac>>

Timer == TimerStart \/ TimerLookup \/ TimerBuild

-----------------------------------------------------------------------------
(***************************************************************************)
(* The packet lcore: hz_process_with_arp and hz_process_with_reserve_arp.  *)
(***************************************************************************)
\* INSERT_NODE_HEAD of a new node, which succeeds as long as memory lasts.
Insert(ip, mac) ==
  /\ Len(nodes) < MaxNodes
  /\ nodes' = Append(nodes, [ip |-> ip, mac |-> mac])

ArpRequest(f) ==
  /\ f.op = "request"
  /\ f.tip = LOCAL_IP
  /\ sent' \in Carry(sent, Frame("reply", f.sha, f.sip))
  /\ UNCHANGED tableVars

\* As ArpReply, but an address that is listed is listed again.
ArpReplyAgain(f) ==
  /\ f.op = "reply"
  /\ f.tip = LOCAL_IP
  /\ Insert(f.sip, f.sha) /\ oldest' = oldest
  /\ sent' = sent

\* As ArpReply, but an address that is listed gets the new MAC.
ArpReplyUpdate(f) ==
  /\ f.op = "reply"
  /\ f.tip = LOCAL_IP
  /\ LET n == MacByIp(f.sip)
     IN  \/ n = 0 /\ Insert(f.sip, f.sha)
         \/ n # 0 /\ nodes' = [nodes EXCEPT ![n].mac = f.sha]
  /\ UNCHANGED <<oldest, sent>>

\* A listed address keeps the MAC it was first learnt with.
ArpReply(f) ==
  /\ f.op = "reply"
  /\ f.tip = LOCAL_IP
  /\ \/ MacByIp(f.sip) = 0 /\ Insert(f.sip, f.sha)
     \/ MacByIp(f.sip) # 0 /\ nodes' = nodes
  /\ UNCHANGED <<oldest, sent>>

\* Any other ARP frame.
ArpIgnored(f) ==
  /\ f.op \in {"request", "reply"}
  /\ f.tip # LOCAL_IP
  /\ UNCHANGED <<tableVars, sent>>

RarpRequest(f) ==
  /\ f.op = "revrequest"
  /\ sent' \in IF IpByMac(OnStack) # 0
                 THEN Carry(sent, Frame("revreply", f.sha, f.sip))
                 ELSE {sent}
  /\ UNCHANGED tableVars

\* As RarpReply, but the new node takes the memory of an old one.
RarpReplyReuse(f) ==
  /\ f.op = "revreply"
  /\ LET n == MacByIp(f.sip)
     IN  \/ /\ n # 0
            /\ nodes' = [nodes EXCEPT ![n].mac = f.sha]
            /\ oldest' = oldest
         \/ /\ n = 0
            /\ nodes' = <<[ip |-> f.sip, mac |-> f.sha]>>
            /\ oldest' = 1
  /\ sent' = sent

\* hz_update_arp_table.  The macro INSERT_NODE_HEAD evaluates its argument,
\* the call that creates the node, each time it mentions it: the node that
\* becomes the head has never been linked to the list.
RarpReply(f) ==
  /\ f.op = "revreply"
  /\ LET n == MacByIp(f.sip)
     IN  \/ /\ n # 0
            /\ nodes' = [nodes EXCEPT ![n].mac = f.sha]
            /\ oldest' = oldest
         \/ /\ n = 0
            /\ Insert(f.sip, f.sha)
            /\ oldest' = Len(nodes) + 1
  /\ sent' = sent

\* The network delivers a frame; it may deliver it again.
Deal(f) ==
  /\ f \in incoming
  /\ \/ ArpRequest(f) \/ ArpReply(f) \/ ArpIgnored(f)
     \/ RarpRequest(f) \/ RarpReply(f)
  /\ incoming' \in {incoming, incoming \ {f}}
  /\ UNCHANGED <<timerVars, hostMac>>

-----------------------------------------------------------------------------
(***************************************************************************)
(* The hosts and the network.                                              *)
(***************************************************************************)
Speaks(h, op, tip) ==
  incoming' \in
    Carry(incoming, [op |-> op, sip |-> h, sha |-> hostMac[h], tip |-> tip])

\* A host sees a frame that is for everybody or for its own MAC.
HostAnswers(h) ==
  /\ \E f \in sent : /\ f.op = "request" /\ f.tip = h
                     /\ f.d_addr \in {BROADCAST, hostMac[h]}
  /\ Speaks(h, "reply", LOCAL_IP)
  /\ UNCHANGED <<tableVars, timerVars, sent, hostMac>>

HostSpeaks(h) ==
  /\ \E op \in Chatter, tip \in Hosts \cup {LOCAL_IP} : Speaks(h, op, tip)
  /\ UNCHANGED <<tableVars, timerVars, sent, hostMac>>

\* A host gets a new network card.
HostMoves(h) ==
  /\ \E mac \in Macs : hostMac' = [hostMac EXCEPT ![h] = mac]
  /\ UNCHANGED <<tableVars, timerVars, sent, incoming>>

-----------------------------------------------------------------------------
Next ==
  \/ Timer
  \/ \E f \in incoming : Deal(f)
  \/ \E h \in Hosts : HostAnswers(h) \/ HostSpeaks(h) \/ HostMoves(h)

\* The timer is periodic, a host answers a question it keeps hearing, and an
\* answer given again and again gets through to the packet lcore.
Answer(h) ==
  \E f \in incoming : f.op = "reply" /\ f.sip = h /\ f.tip = LOCAL_IP /\ Deal(f)

Fairness ==
  /\ WF_vars(Timer)
  /\ \A h \in Hosts : SF_vars(HostAnswers(h)) /\ SF_vars(Answer(h))

SafeSpec == Init /\ [][Next]_vars
Spec == SafeSpec /\ Fairness

-----------------------------------------------------------------------------
(***************************************************************************)
(* Properties.                                                             *)
(***************************************************************************)
Incoming == [op : {"request", "reply", "revrequest", "revreply"}, sip : Hosts,
             sha : Macs, tip : Hosts \cup {LOCAL_IP}]
Outgoing == [op : {"request", "reply", "revreply"}, tip : 1 .. LAST_HOST,
             tha : Macs \cup {BROADCAST}, d_addr : {BROADCAST, ZERO}]

\* Types of the variables.
TypeOK ==
  /\ nodes \in Seq([ip : Hosts, mac : Macs])
  /\ oldest \in 1 .. Len(nodes) + 1
  /\ timerIp \in 0 .. LAST_HOST
  /\ timerPc \in {"lookup", "build"}
  /\ timerPc = "build" => timerIp # 0
  /\ dst_mac \in 0 .. Len(nodes)
  /\ sent \subseteq Outgoing
  /\ incoming \subseteq Incoming
  /\ hostMac \in [Hosts -> Macs]

\* An address is listed once, so that hz_get_mac_by_ip and an update by
\* hz_update_arp_table mean the same node.
NoDuplicates ==
  \A m, n \in Listed : nodes[m].ip = nodes[n].ip => m = n

Known(ip) == MacByIp(ip) # 0

\* Only a RARP reply changes or removes a mapping: ARP replies, repeated, late
\* or from a host whose MAC is another by now, do not.
MappingsStay ==
  [][\A h \in Hosts :
       /\ Known(h)
       /\ ~\E f \in incoming : RarpReply(f)
       => /\ MacByIp(h)' # 0
          /\ nodes'[MacByIp(h)'].mac = nodes[MacByIp(h)].mac]_vars

\* As the sweep sees the table: the addresses with a MAC.  From the first cut
\* on the list no longer ends at the oldest node of all.
Mapped == {h \in Hosts : Known(h)}
Table == INSTANCE AddressTable
           WITH Addresses <- Hosts, mapped <- Mapped, emptied <- oldest > 1

\* Whatever frames come, in any order and any number of times, each changes
\* what hz_get_mac_by_ip finds for at most one address, or leaves nothing but
\* one new address; and the list remembers the latter.
ImplementsTable == Table!SafeSpec

\* The node whose MAC the timer copies belongs to the address it asks for,
\* whatever the packet lcore did to the table since the lookup.
TimerPointer ==
  timerPc = "build" /\ dst_mac # 0 => nodes[dst_mac].ip = timerIp

\* Every host gets into the table and stays there, unless a RARP reply cuts
\* the table.
HostsLearnt == \A h \in Hosts : <>[](Known(h) \/ oldest > 1)
=============================================================================
