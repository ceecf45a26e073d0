--------------------------- MODULE ArpTable_proofs ---------------------------
(***************************************************************************)
(* Proofs about ArpTable, for every subnet, every set of hosts and MACs,   *)
(* and any number of frames and nodes.                                     *)
(***************************************************************************)
EXTENDS ArpTable, SequenceTheorems, TLAPS

Node == [ip : Hosts, mac : Macs]

\* In a table without duplicates hz_get_mac_by_ip finds the one node that
\* lists the address, and NULL if there is none.
LEMMA LookupFinds ==
  ASSUME NoDuplicates, oldest \in Nat \ {0}, NEW ip
  PROVE  IF MacByIp(ip) = 0
           THEN \A n \in Listed : nodes[n].ip # ip
           ELSE MacByIp(ip) \in Listed /\ nodes[MacByIp(ip)].ip = ip
  <1>1. CASE \E n \in Listed : nodes[n].ip = ip
    <2>1. PICK n \in Listed : nodes[n].ip = ip
      BY <1>1
    <2>2. \A m \in Listed : nodes[m].ip = ip => m <= n
      BY <2>1 DEF NoDuplicates, Listed
    <2>3. MacByIp(ip) \in Listed /\ nodes[MacByIp(ip)].ip = ip
      BY <1>1, <2>1, <2>2 DEF MacByIp
    <2>4. 0 \notin Listed
      BY DEF Listed
    <2> QED
      BY <2>3, <2>4
  <1>2. CASE ~\E n \in Listed : nodes[n].ip = ip
    BY <1>2 DEF MacByIp
  <1> QED
    BY <1>1, <1>2

\* A new node is the youngest one; the others stay where they are.
LEMMA InsertFacts ==
  ASSUME nodes \in Seq(Node), NEW ip \in Hosts, NEW mac \in Macs, Insert(ip, mac)
  PROVE  /\ nodes' \in Seq(Node)
         /\ Len(nodes') = Len(nodes) + 1
         /\ \A n \in 1 .. Len(nodes) : nodes'[n] = nodes[n]
         /\ nodes'[Len(nodes) + 1].ip = ip
  <1>1. [ip |-> ip, mac |-> mac] \in Node
    BY DEF Node
  <1> QED
    BY <1>1, AppendProperties DEF Insert

\* A node that gets another MAC keeps its address.
LEMMA RewriteFacts ==
  ASSUME nodes \in Seq(Node), NEW k \in 1 .. Len(nodes), NEW mac \in Macs,
         nodes' = [nodes EXCEPT ![k].mac = mac]
  PROVE  /\ nodes' \in Seq(Node)
         /\ Len(nodes') = Len(nodes)
         /\ \A n \in 1 .. Len(nodes) : nodes'[n].ip = nodes[n].ip
  <1>1. /\ nodes \in [1 .. Len(nodes) -> Node]
        /\ Len(nodes) \in Nat
    BY LenProperties
  <1>2. nodes' \in [1 .. Len(nodes) -> Node]
    BY <1>1 DEF Node
  <1>3. nodes' \in Seq(Node)
    BY <1>1, <1>2, IsASeq
  <1>4. Len(nodes') = Len(nodes)
    BY <1>1, <1>2, <1>3, LenProperties
  <1> QED
    BY <1>1, <1>3, <1>4 DEF Node

\* What the network carries are frames that were sent.
LEMMA CarryTypes ==
  ASSUME NEW S, NEW frames \in SUBSET S, NEW f \in S,
         NEW after \in Carry(frames, f)
  PROVE  after \subseteq S
  BY DEF Carry

\* How a frame can change the table: not at all, by a node for an address that
\* is not listed, which comes last or alone, or by another MAC in a node that
\* lists the address.
LEMMA DealCases ==
  ASSUME TypeOK, NoDuplicates, NEW f \in incoming, Deal(f)
  PROVE  \/ nodes' = nodes /\ oldest' = oldest
         \/ /\ \A n \in Listed : nodes[n].ip # f.sip
            /\ Insert(f.sip, f.sha)
            /\ oldest' \in {oldest, Len(nodes) + 1}
         \/ /\ \E k \in Listed : nodes' = [nodes EXCEPT ![k].mac = f.sha]
            /\ oldest' = oldest
  <1>1. oldest \in Nat \ {0}
    BY LenProperties DEF TypeOK
  <1>2. CASE ArpReply(f)
    BY <1>1, <1>2, LookupFinds DEF ArpReply
  <1>3. CASE RarpReply(f)
    BY <1>1, <1>3, LookupFinds DEF RarpReply
  <1>4. CASE ArpRequest(f) \/ ArpIgnored(f) \/ RarpRequest(f)
    BY <1>4 DEF ArpRequest, ArpIgnored, RarpRequest, tableVars
  <1> QED
    BY <1>2, <1>3, <1>4 DEF Deal

Inv == TypeOK /\ NoDuplicates /\ TimerPointer

\* Types, uniqueness and the timer's pointer together are inductive.
LEMMA DealKeepsTable ==
  ASSUME Inv, NEW f \in incoming, Deal(f)
  PROVE  /\ nodes' \in Seq(Node)
         /\ oldest' \in 1 .. Len(nodes') + 1
         /\ dst_mac' \in 0 .. Len(nodes')
         /\ NoDuplicates'
         /\ TimerPointer'
  <1> USE DEF Inv
  <1>1. /\ nodes \in Seq(Node)
        /\ Len(nodes) \in Nat
        /\ oldest \in 1 .. Len(nodes) + 1
        /\ dst_mac \in 0 .. Len(nodes)
    BY LenProperties DEF TypeOK, Node
  <1>2. f.sip \in Hosts /\ f.sha \in Macs
    BY DEF TypeOK, Incoming
  <1>3. UNCHANGED <<timerIp, timerPc, dst_mac>>
    BY DEF Deal, timerVars
  <1>4. CASE nodes' = nodes /\ oldest' = oldest
    BY <1>1, <1>3, <1>4 DEF NoDuplicates, TimerPointer, Listed
  <1>5. CASE /\ \A n \in Listed : nodes[n].ip # f.sip
             /\ Insert(f.sip, f.sha)
             /\ oldest' \in {oldest, Len(nodes) + 1}
    <2>1. /\ nodes' \in Seq(Node)
          /\ Len(nodes') = Len(nodes) + 1
          /\ \A n \in 1 .. Len(nodes) : nodes'[n] = nodes[n]
          /\ nodes'[Len(nodes) + 1].ip = f.sip
      BY <1>1, <1>2, <1>5, InsertFacts
    <2>2. NoDuplicates'
      BY <1>1, <1>5, <2>1 DEF NoDuplicates, Listed
    <2>3. TimerPointer'
      BY <1>1, <1>3, <2>1 DEF TimerPointer
    <2> QED
      BY <1>1, <1>3, <1>5, <2>1, <2>2, <2>3
  <1>6. CASE /\ \E k \in Listed : nodes' = [nodes EXCEPT ![k].mac = f.sha]
             /\ oldest' = oldest
    <2>0. PICK k \in Listed : nodes' = [nodes EXCEPT ![k].mac = f.sha]
      BY <1>6
    <2>1. k \in 1 .. Len(nodes)
      BY <1>1 DEF Listed
    <2>2. /\ nodes' \in Seq(Node)
          /\ Len(nodes') = Len(nodes)
          /\ \A n \in 1 .. Len(nodes) : nodes'[n].ip = nodes[n].ip
      BY <1>1, <1>2, <2>0, <2>1, RewriteFacts
    <2>3. NoDuplicates'
      BY <1>1, <1>6, <2>2 DEF NoDuplicates, Listed
    <2>4. TimerPointer'
      BY <1>1, <1>3, <2>2 DEF TimerPointer
    <2> QED
      BY <1>1, <1>3, <1>6, <2>2, <2>3, <2>4
  <1> QED
    BY <1>4, <1>5, <1>6, DealCases

\* The frames the handlers send are well formed.
LEMMA DealKeepsFrames ==
  ASSUME TypeOK, NEW f \in incoming, Deal(f)
  PROVE  sent' \subseteq Outgoing /\ incoming' \subseteq Incoming
  <1>1. f.sip \in 1 .. LAST_HOST /\ f.sha \in Macs
    BY HostsAssumption DEF TypeOK, Incoming
  <1>2. /\ Frame("reply", f.sha, f.sip) \in Outgoing
        /\ Frame("revreply", f.sha, f.sip) \in Outgoing
    BY <1>1 DEF Frame, Outgoing
  <1>3. sent \in SUBSET Outgoing
    BY DEF TypeOK
  <1>4. \A g \in Outgoing : \A after \in Carry(sent, g) : after \subseteq Outgoing
    BY <1>3, CarryTypes
  <1>5. sent' \subseteq Outgoing
    BY <1>2, <1>3, <1>4
       DEF Deal, ArpRequest, ArpReply, ArpIgnored, RarpRequest, RarpReply
  <1>6. incoming' \subseteq Incoming
    BY DEF Deal, TypeOK
  <1> QED
    BY <1>5, <1>6

LEMMA InvHolds == SafeSpec => []Inv
<1>1. Init => Inv
  BY HostsAssumption, MacsAssumption
     DEF Init, Inv, TypeOK, NoDuplicates, TimerPointer, Listed
<1>2. Inv /\ [Next]_vars => Inv'
  <2> SUFFICES ASSUME Inv, [Next]_vars PROVE Inv'
    OBVIOUS
  <2> USE DEF Inv
  <2>1. /\ nodes \in Seq(Node)
        /\ Len(nodes) \in Nat
        /\ oldest \in 1 .. Len(nodes) + 1
        /\ dst_mac \in 0 .. Len(nodes)
        /\ LAST_HOST \in Nat
        /\ timerIp \in 0 .. LAST_HOST
    BY LenProperties, HostsAssumption DEF TypeOK, Node
  <2>2. CASE UNCHANGED vars
    BY <2>2 DEF vars, tableVars, timerVars, TypeOK, NoDuplicates, TimerPointer, Listed
  <2>3. CASE TimerStart
    BY <2>1, <2>3, HostsAssumption
       DEF TimerStart, tableVars, TypeOK, NoDuplicates, TimerPointer, Listed
  <2>4. CASE TimerLookup
    <3>1. \/ MacByIp(timerIp) = 0
          \/ /\ MacByIp(timerIp) \in 1 .. Len(nodes)
             /\ nodes[MacByIp(timerIp)].ip = timerIp
      BY <2>1, LookupFinds DEF Listed
    <3>2. TypeOK'
      BY <2>1, <2>4, <3>1 DEF TimerLookup, tableVars, TypeOK
    <3>3. NoDuplicates' /\ TimerPointer'
      BY <2>1, <2>4, <3>1
         DEF TimerLookup, tableVars, NoDuplicates, TimerPointer, Listed
    <3> QED
      BY <3>2, <3>3
  <2>5. CASE TimerBuild
    <3> DEFINE mac == IF dst_mac = 0 THEN BROADCAST ELSE nodes[dst_mac].mac
    <3>1. mac \in Macs \cup {BROADCAST}
      <4>1. CASE dst_mac = 0
        BY <4>1
      <4>2. CASE dst_mac # 0
        <5>1. nodes[dst_mac] \in Node
          BY <2>1, <4>2, ElementOfSeq
        <5> QED
          BY <4>2, <5>1 DEF Node
      <4> QED
        BY <4>1, <4>2
    <3>2. timerIp \in 1 .. LAST_HOST
      BY <2>1, <2>5 DEF TimerBuild, TypeOK
    <3>3. Frame("request", mac, timerIp) \in Outgoing
      <4> HIDE DEF mac
      <4> QED
        BY <3>1, <3>2 DEF Frame, Outgoing
    <3>4. sent' \in Carry(sent, Frame("request", mac, timerIp))
      BY <2>5 DEF TimerBuild
    <3>5. sent' \subseteq Outgoing
      BY <3>3, <3>4, CarryTypes DEF TypeOK
    <3>6. TypeOK'
      BY <2>1, <2>5, <3>5, HostsAssumption DEF TimerBuild, tableVars, TypeOK
    <3>7. NoDuplicates' /\ TimerPointer'
      BY <2>5 DEF TimerBuild, tableVars, NoDuplicates, TimerPointer, Listed
    <3> QED
      BY <3>6, <3>7
  <2>6. ASSUME NEW f \in incoming, Deal(f) PROVE Inv'
    <3>1. /\ nodes' \in Seq(Node)
          /\ oldest' \in 1 .. Len(nodes') + 1
          /\ dst_mac' \in 0 .. Len(nodes')
          /\ NoDuplicates'
          /\ TimerPointer'
      BY <2>6, DealKeepsTable
    <3>2. sent' \subseteq Outgoing /\ incoming' \subseteq Incoming
      BY <2>6, DealKeepsFrames
    <3> QED
      BY <2>6, <3>1, <3>2 DEF Deal, timerVars, TypeOK, Node
  <2>7. ASSUME NEW h \in Hosts, HostAnswers(h) \/ HostSpeaks(h) PROVE Inv'
    <3>1. PICK op \in {"request", "reply", "revrequest", "revreply"},
               tip \in Hosts \cup {LOCAL_IP} :
            Speaks(h, op, tip)
      BY <2>7, ChatterAssumption DEF HostAnswers, HostSpeaks
    <3> DEFINE f == [op |-> op, sip |-> h, sha |-> hostMac[h], tip |-> tip]
    <3>2. f \in Incoming
      BY DEF Incoming, TypeOK
    <3>3. incoming' \subseteq Incoming
      BY <3>1, <3>2, CarryTypes DEF Speaks, TypeOK
    <3> QED
      BY <2>7, <3>3 DEF HostAnswers, HostSpeaks, tableVars, timerVars,
                        TypeOK, NoDuplicates, TimerPointer, Listed
  <2>8. ASSUME NEW h \in Hosts, HostMoves(h) PROVE Inv'
    BY <2>8 DEF HostMoves, tableVars, timerVars,
                TypeOK, NoDuplicates, TimerPointer, Listed
  <2> QED
    BY <2>2, <2>3, <2>4, <2>5, <2>6, <2>7, <2>8 DEF Next, Timer
<1> QED
  BY <1>1, <1>2, PTL DEF SafeSpec

\* The table, the timer and the frames keep their types: in particular the
\* timer asks only for addresses of the subnet.
THEOREM TypeCorrect == SafeSpec => []TypeOK
  BY InvHolds, PTL DEF Inv

\* hz_process_with_arp and hz_update_arp_table list an address at most once.
THEOREM ListedOnce == SafeSpec => []NoDuplicates
  BY InvHolds, PTL DEF Inv

\* The MAC that arp_request_timer_cb copies belongs to the address it asks for,
\* though the table changes between its lookup and its copy.
THEOREM PointerStaysGood == SafeSpec => []TimerPointer
  BY InvHolds, PTL DEF Inv

\* A step that is not the update for a RARP reply leaves a known address at
\* its node, with its MAC.
LEMMA StepKeepsMapping ==
  ASSUME Inv, Inv', [Next]_vars, NEW h \in Hosts, Known(h),
         ~\E f \in incoming : RarpReply(f)
  PROVE  /\ MacByIp(h)' # 0
         /\ nodes'[MacByIp(h)'].mac = nodes[MacByIp(h)].mac
  <1> DEFINE n == MacByIp(h)
  <1>1. /\ nodes \in Seq(Node)
        /\ Len(nodes) \in Nat
        /\ oldest \in 1 .. Len(nodes) + 1
    BY LenProperties DEF Inv, TypeOK, Node
  <1>2. n \in Listed /\ nodes[n].ip = h
    BY <1>1, LookupFinds DEF Inv, Known
  <1>3. n \in 1 .. Len(nodes)
    BY <1>1, <1>2 DEF Listed
  <1>4. SUFFICES n \in Listed' /\ nodes'[n] = nodes[n]
    <2>1. NoDuplicates'
      BY DEF Inv
    <2>2. nodes'[n].ip = h
      BY <1>2, <1>4
    <2>3. MacByIp(h)' = n
      <3>1. \A m \in Listed' : nodes'[m].ip = h => m = n
        BY <1>4, <2>1, <2>2 DEF NoDuplicates
      <3>2. \A m \in Listed' : nodes'[m].ip = h => m <= n
        BY <1>3, <3>1
      <3>3. /\ MacByIp(h)' \in Listed'
            /\ nodes'[MacByIp(h)'].ip = h
        BY <1>4, <2>2, <3>2 DEF MacByIp
      <3> QED
        BY <3>1, <3>3
    <2> QED
      BY <1>3, <1>4, <2>3
  <1> HIDE DEF n
  <1>5. CASE UNCHANGED tableVars
    BY <1>2, <1>5 DEF tableVars, Listed
  <1>6. ASSUME NEW f \in incoming, Deal(f)
        PROVE  n \in Listed' /\ nodes'[n] = nodes[n]
    <2>1. CASE ArpReply(f) /\ Insert(f.sip, f.sha)
      <3>1. f.sip \in Hosts /\ f.sha \in Macs
        BY DEF Inv, TypeOK, Incoming
      <3>2. /\ Len(nodes') = Len(nodes) + 1
            /\ \A k \in 1 .. Len(nodes) : nodes'[k] = nodes[k]
        BY <1>1, <2>1, <3>1, InsertFacts
      <3>3. oldest' = oldest
        BY <2>1 DEF ArpReply
      <3> QED
        BY <1>1, <1>2, <1>3, <3>2, <3>3 DEF Listed
    <2>2. CASE ArpReply(f) /\ nodes' = nodes
      BY <1>5, <2>2 DEF ArpReply, tableVars
    <2>3. CASE ArpRequest(f) \/ ArpIgnored(f) \/ RarpRequest(f)
      BY <1>5, <2>3 DEF ArpRequest, ArpIgnored, RarpRequest
    <2>4. ~RarpReply(f)
      OBVIOUS
    <2>5. ArpReply(f) => Insert(f.sip, f.sha) \/ nodes' = nodes
      BY DEF ArpReply
    <2> QED
      BY <1>6, <2>1, <2>2, <2>3, <2>4, <2>5 DEF Deal
  <1>7. \/ UNCHANGED tableVars
        \/ \E f \in incoming : Deal(f)
    BY DEF Next, vars, Timer, TimerStart, TimerLookup, TimerBuild,
           HostAnswers, HostSpeaks, HostMoves
  <1> QED
    BY <1>5, <1>6, <1>7

\* Whatever hz_process_with_arp is given, repeated, late or from a host with
\* another MAC by now, a known address keeps the MAC it was first learnt with;
\* only hz_update_arp_table, for a RARP reply, changes or loses a mapping.
THEOREM ArpRepliesChangeNothing == SafeSpec => MappingsStay
<1> DEFINE Step ==
      \A h \in Hosts :
        /\ Known(h)
        /\ ~\E f \in incoming : RarpReply(f)
        => /\ MacByIp(h)' # 0
           /\ nodes'[MacByIp(h)'].mac = nodes[MacByIp(h)].mac
<1>1. Inv /\ Inv' /\ [Next]_vars => Step
  BY StepKeepsMapping
<1>2. MappingsStay <=> [][Step]_vars
  BY PTL DEF MappingsStay
<1> HIDE DEF Step
<1> QED
  BY <1>1, <1>2, InvHolds, PTL DEF SafeSpec

\* An address is known if a node lists it, before a step and after it.
LEMMA KnownIs ==
  ASSUME NoDuplicates, oldest \in Nat \ {0}, NEW ip
  PROVE  Known(ip) <=> \E n \in Listed : nodes[n].ip = ip
  <1>1. CASE Known(ip)
    BY <1>1, LookupFinds DEF Known
  <1>2. CASE ~Known(ip)
    BY <1>2, LookupFinds DEF Known
  <1> QED
    BY <1>1, <1>2

LEMMA KnownWillBe ==
  ASSUME NoDuplicates', oldest' \in Nat \ {0}, NEW ip
  PROVE  Known(ip)' <=> \E n \in Listed' : nodes'[n].ip = ip
  <1>1. CASE \E n \in Listed' : nodes'[n].ip = ip
    <2>1. PICK n \in Listed' : nodes'[n].ip = ip
      BY <1>1
    <2>2. \A m \in Listed' : nodes'[m].ip = ip => m <= n
      BY <2>1 DEF NoDuplicates, Listed
    <2>3. MacByIp(ip)' \in Listed'
      BY <1>1, <2>1, <2>2 DEF MacByIp
    <2>4. 0 \notin Listed'
      BY DEF Listed
    <2> QED
      BY <1>1, <2>3, <2>4 DEF Known
  <1>2. CASE ~\E n \in Listed' : nodes'[n].ip = ip
    BY <1>2 DEF Known, MacByIp
  <1> QED
    BY <1>1, <1>2

\* The addresses listed before and after a frame has been dealt with.
LEMMA DealMapped ==
  ASSUME Inv, Inv', NEW f \in incoming, Deal(f)
  PROVE  \/ Mapped' = Mapped /\ oldest' = oldest
         \/ Mapped' = Mapped \cup {f.sip} /\ oldest' = oldest
         \/ f.sip \notin Mapped /\ Mapped' = {f.sip} /\ oldest' > 1
  <1>1. /\ nodes \in Seq(Node)
        /\ Len(nodes) \in Nat
        /\ oldest \in 1 .. Len(nodes) + 1
    BY LenProperties DEF Inv, TypeOK, Node
  <1>2. f.sip \in Hosts /\ f.sha \in Macs
    BY DEF Inv, TypeOK, Incoming
  <1>3. Mapped = {h \in Hosts : \E n \in Listed : nodes[n].ip = h}
    BY <1>1, KnownIs DEF Inv, Mapped
  <1>4. oldest' \in Nat \ {0}
    BY LenProperties DEF Inv, TypeOK
  <1>5. Mapped' = {h \in Hosts : \E n \in Listed' : nodes'[n].ip = h}
    BY <1>4, KnownWillBe DEF Inv, Mapped
  <1>6. CASE nodes' = nodes /\ oldest' = oldest
    BY <1>3, <1>5, <1>6 DEF Listed
  <1>7. CASE /\ \A n \in Listed : nodes[n].ip # f.sip
             /\ Insert(f.sip, f.sha)
             /\ oldest' \in {oldest, Len(nodes) + 1}
    <2>1. /\ Len(nodes') = Len(nodes) + 1
          /\ \A n \in 1 .. Len(nodes) : nodes'[n] = nodes[n]
          /\ nodes'[Len(nodes) + 1].ip = f.sip
      BY <1>1, <1>2, <1>7, InsertFacts
    <2>2. f.sip \notin Mapped
      BY <1>3, <1>7
    <2>3. CASE oldest' = oldest
      <3>1. Listed' = Listed \cup {Len(nodes) + 1}
        BY <1>1, <2>1, <2>3 DEF Listed
      <3>2. \A n \in Listed : nodes'[n] = nodes[n]
        BY <1>1, <2>1 DEF Listed
      <3>3. Mapped' = Mapped \cup {f.sip}
        BY <1>2, <1>3, <1>5, <2>1, <3>1, <3>2
      <3> QED
        BY <2>3, <3>3
    <2>4. CASE oldest' = Len(nodes) + 1 /\ oldest' # oldest
      <3>1. Listed' = {Len(nodes) + 1}
        BY <1>1, <2>1, <2>4 DEF Listed
      <3>2. Mapped' = {f.sip}
        BY <1>2, <1>5, <2>1, <3>1
      <3>3. oldest' > 1
        BY <1>1, <2>4
      <3> QED
        BY <2>2, <3>2, <3>3
    <2> QED
      BY <1>7, <2>3, <2>4
  <1>8. CASE /\ \E k \in Listed : nodes' = [nodes EXCEPT ![k].mac = f.sha]
             /\ oldest' = oldest
    <2>1. PICK k \in Listed : nodes' = [nodes EXCEPT ![k].mac = f.sha]
      BY <1>8
    <2>2. k \in 1 .. Len(nodes)
      BY <1>1 DEF Listed
    <2>3. /\ Len(nodes') = Len(nodes)
          /\ \A n \in 1 .. Len(nodes) : nodes'[n].ip = nodes[n].ip
      BY <1>1, <1>2, <2>1, <2>2, RewriteFacts
    <2>4. Listed' = Listed /\ \A n \in Listed : nodes'[n].ip = nodes[n].ip
      BY <1>1, <1>8, <2>3 DEF Listed
    <2> QED
      BY <1>3, <1>5, <1>8, <2>4
  <1> QED
    BY <1>6, <1>7, <1>8, DealCases DEF Inv

\* To the sweep, which asks hz_get_mac_by_ip and no more, the ARP table is the
\* set of addresses UdpSend takes it for: hz_process_with_arp adds one at a
\* time, hz_update_arp_table may leave one alone, and nothing else happens.
THEOREM TableIsASet == SafeSpec => ImplementsTable
<1>1. Init => Table!Init
  BY DEF Init, Table!Init, Mapped
<1>2. Inv /\ Inv' /\ [Next]_vars => [Table!Next]_<<Mapped, oldest > 1>>
  <2> SUFFICES ASSUME Inv, Inv', [Next]_vars
               PROVE  [Table!Next]_<<Mapped, oldest > 1>>
    OBVIOUS
  <2>1. CASE UNCHANGED tableVars
    <3>1. Mapped' = Mapped /\ oldest' = oldest
      BY <2>1 DEF tableVars, Mapped, Known, MacByIp, Listed
    <3> QED
      BY <3>1
  <2>2. ASSUME NEW f \in incoming, Deal(f)
        PROVE  [Table!Next]_<<Mapped, oldest > 1>>
    <3>1. f.sip \in Hosts
      BY DEF Inv, TypeOK, Incoming
    <3>2. CASE Mapped' = Mapped /\ oldest' = oldest
      BY <3>2
    <3>3. CASE Mapped' = Mapped \cup {f.sip} /\ oldest' = oldest
      BY <3>1, <3>3 DEF Table!Next, Table!Learn
    <3>4. CASE f.sip \notin Mapped /\ Mapped' = {f.sip} /\ oldest' > 1
      <4>1. (oldest > 1)' = TRUE
        BY <3>4
      <4> QED
        BY <3>1, <3>4, <4>1 DEF Table!Next, Table!Forget
    <3> QED
      BY <2>2, <3>2, <3>3, <3>4, DealMapped
  <2>3. \/ UNCHANGED tableVars
        \/ \E f \in incoming : Deal(f)
    BY DEF Next, vars, Timer, TimerStart, TimerLookup, TimerBuild,
           HostAnswers, HostSpeaks, HostMoves
  <2> QED
    BY <2>1, <2>2, <2>3
<1> QED
  BY <1>1, <1>2, InvHolds, PTL DEF SafeSpec, ImplementsTable, Table!SafeSpec
=============================================================================
