----------------------------- MODULE Stack_proofs -----------------------------
(***************************************************************************)
(* Proofs about Stack, for every number of servers, sockets, fds and       *)
(* ports: what is proved of the list of connections in SocketTable_proofs  *)
(* carries over, and the walks of the packet lcore can rely on it.         *)
(***************************************************************************)
EXTENDS Stack, SocketTable_proofs

\* A step of the stack is a step of the socket table, or none.
LEMMA StackStep == [StackNext]_stackVars => [Next]_vars
<1> SUFFICES ASSUME StackNext PROVE [Next]_vars
  BY DEF stackVars
<1>1. CASE BootStep
  BY <1>1 DEF BootStep
<1>2. CASE Packet
  BY <1>2 DEF Packet, Lookup, LookupTurn, Miss, Deliver, Done, Sweep,
              SweepTurn, SweepEnds
<1>3. ASSUME NEW t \in Threads, ServerCall(t) \/ ServerStep(t) PROVE [Next]_vars
  BY <1>3 DEF ServerCall, ServerStep, Server, Next
<1>. QED BY <1>1, <1>2, <1>3 DEF StackNext

\* Whatever is true of the socket table is true of it in the stack, whose other
\* steps leave the table alone.
LEMMA StackIsSocketTable == StackSafeSpec => SafeSpec
<1>1. StackInit => Init
  BY DEF StackInit
<1>. QED BY <1>1, StackStep, PTL DEF StackSafeSpec, SafeSpec

\* The list of connections has no cycle, also with the packet lcore walking
\* along it.
THEOREM StackListEnds == StackSafeSpec => []ListEnds
  BY StackIsSocketTable, NoCycle, PTL

-----------------------------------------------------------------------------
\* While it looks for a port, the packet lcore either still meets each open
\* connection bound to it when it began, or one has been closed that is not
\* older.
Seeking ==
  packet = "lookup" =>
    \A c \in sought : /\ conns[c].src_port = port
                      /\ Meets(info, c) \/ \E z \in cleared : z >= c

StackInv == Inv /\ StackTypeOK /\ Seeking

\* The packet lcore keeps it: it passes only connections with another port.
LEMMA PacketKeeps == StackInv /\ Packet => StackInv'
<1> SUFFICES ASSUME StackInv, Packet PROVE StackInv'
  OBVIOUS
<1>. USE DEF StackInv, Done
<1>1. UNCHANGED <<vars, boot, failed>>
  BY DEF Packet, Lookup, LookupTurn, Miss, Deliver, Sweep, SweepTurn, SweepEnds
<1>2. Inv' /\ TypeOK'
  BY <1>1 DEF Inv, TypeOK, ListEnds, NoPrev, AllWorking, Working, Conns,
              vars, tableVars, listVars, ringVars, callVars
<1>3. /\ Len(conns) \in Nat /\ head \in 0 .. Len(conns)
      /\ conns' = conns /\ head' = head
      /\ \A c \in Conns : conns[c].next \in 0 .. Len(conns)
  <2>1. /\ Len(conns) \in Nat
        /\ \A c \in Conns : conns[c].next \in 0 .. Len(conns)
    BY LinksInRange
  <2>. QED BY <1>1, <2>1 DEF Inv, TypeOK, vars, listVars
<1>4. Conns' = Conns
  BY <1>3 DEF Conns
<1>5. CASE Lookup
  <2>1. PICK p \in Destinations : port' = p /\ sought' = Bound(p) \cap Listed
    BY <1>5 DEF Lookup
  <2>2. /\ packet' = "lookup" /\ info' = head /\ cleared' = cleared
    BY <1>5 DEF Lookup
  <2>3. StackTypeOK'
    BY <1>1, <1>2, <1>3, <1>4, <2>1, <2>2 DEF StackTypeOK, Listed
  <2>4. Seeking'
    BY <1>3, <2>1, <2>2 DEF Seeking, Bound, Listed, Meets, Closed, Conns
  <2>. QED BY <1>2, <2>3, <2>4
<1>6. CASE LookupTurn
  <2>1. /\ packet = "lookup" /\ info \in Conns /\ conns[info].src_port # port
        /\ info' = conns[info].next
        /\ UNCHANGED <<packet, port, sought, cleared>>
    BY <1>6 DEF LookupTurn, At, StackTypeOK, Conns
  <2>2. StackTypeOK'
    BY <1>1, <1>2, <1>3, <1>4, <2>1 DEF StackTypeOK
  <2>3. ASSUME NEW c \in sought, Meets(info, c) PROVE Meets(info', c)
    <3>1. c # info
      BY <2>1, <2>3 DEF Seeking
    <3>. QED BY <2>1, <2>3, <3>1, MeetsNext
  <2>4. Seeking'
    BY <1>3, <2>1, <2>3 DEF Seeking, Meets, Closed, Conns
  <2>. QED BY <1>2, <2>2, <2>4
<1>7. CASE Miss \/ Deliver \/ Sweep \/ SweepTurn \/ SweepEnds
  <2>1. packet' \in {"deal", "sweep"}
    BY <1>7 DEF Miss, Deliver, Sweep, SweepTurn, SweepEnds, At
  <2>2. /\ info' \in {0, head} \/ (info \in Conns /\ info' = conns[info].next)
        /\ port' \in {port, NULL} /\ sought' \in {sought, {}} /\ cleared' \in {cleared, {}}
    BY <1>7 DEF Miss, Deliver, Sweep, SweepTurn, SweepEnds, StackTypeOK, Conns
  <2>3. StackTypeOK'
    BY <1>1, <1>2, <1>3, <1>4, <2>1, <2>2 DEF StackTypeOK
  <2>. QED BY <1>2, <2>1, <2>3 DEF Seeking
<1>. QED BY <1>5, <1>6, <1>7 DEF Packet

\* So do the servers: inserting and binding leave all links alone, and a
\* connection that is cleared cuts off older ones only.
LEMMA ServerKeeps ==
  ASSUME StackInv, NEW t \in Threads, ServerCall(t) \/ ServerStep(t), Inv'
  PROVE  StackInv'
<1>. USE DEF StackInv
<1>1. /\ NewCall(t) \/ Step(t)
      /\ cleared' = IF pc[t] = "clear_node" /\ packet = "lookup"
                      THEN cleared \cup {conn[t]} ELSE cleared
      /\ sought' = {c \in sought : conns'[c].src_port = port}
      /\ failed' = (failed \/ GivesUp(t))
      /\ UNCHANGED <<boot, packet, info, port>>
  BY DEF ServerCall, ServerStep, Server
<1>2. /\ Len(conns) \in Nat /\ Len(conns') \in Nat
      /\ Len(conns) <= Len(conns')
      /\ \A c \in Conns : conns[c].next \in 0 .. Len(conns)
      /\ info \in 0 .. Len(conns)
      /\ sought \subseteq Conns
      /\ cleared \subseteq Conns
      /\ pc[t] = "clear_node" => conn[t] \in Conns
      /\ ListEnds
  <2>1. /\ Len(conns) \in Nat /\ Len(conns') \in Nat
        /\ Len(conns) <= Len(conns')
    BY <1>1, LinksInRange, NodeChanges
  <2>2. pc[t] = "clear_node" => conn[t] \in Conns
    BY ThreadFacts DEF Inv, AllWorking, Working
  <2>. QED BY <2>1, <2>2, LinksInRange DEF StackTypeOK, Inv
<1>3. StackTypeOK'
  <2>1. info \in 0 .. Len(conns') /\ Conns \subseteq Conns'
    BY <1>2 DEF Conns
  <2>2. sought' \subseteq Conns' /\ cleared' \subseteq Conns'
    BY <1>1, <1>2, <2>1
  <2>3. failed' \in BOOLEAN
    BY <1>1
  <2>. QED BY <1>1, <2>1, <2>2, <2>3 DEF StackTypeOK, Inv
<1>4. ASSUME packet = "lookup", NEW c \in sought
      PROVE  MeetsAfter(info, c) \/ \E z \in cleared' : z >= c
  <2>1. CASE \E z \in cleared : z >= c
    BY <1>1, <2>1
  <2>2. CASE Meets(info, c) /\ \A k \in Conns : conns'[k].next = conns[k].next
    BY <1>2, <1>4, <2>2, MeetsKept
  <2>3. CASE /\ Meets(info, c) /\ pc[t] = "clear_node"
             /\ Len(conns') = Len(conns)
             /\ \A k \in Conns \ {conn[t]} : conns'[k].next = conns[k].next
             /\ conns'[conn[t]].next = 0
    <3>1. MeetsAfter(info, c) \/ c < conn[t] \/ c = conn[t]
      BY <1>2, <1>4, <2>3, MeetsOrCleared
    <3>2. conn[t] \in cleared' /\ conn[t] \in Nat /\ c \in Nat
      BY <1>1, <1>2, <1>4, <2>3 DEF Conns
    <3>3. c <= conn[t] => \E z \in cleared' : z >= c
      BY <3>2
    <3>. QED BY <3>1, <3>2, <3>3
  <2>4. \/ \A k \in Conns : conns'[k].next = conns[k].next
        \/ /\ pc[t] = "clear_node"
           /\ Len(conns') = Len(conns)
           /\ \A k \in Conns \ {conn[t]} : conns'[k].next = conns[k].next
           /\ conns'[conn[t]].next = 0
    BY <1>1, NodeChanges DEF Kept
  <2>5. Meets(info, c) \/ \E z \in cleared : z >= c
    BY <1>4 DEF Seeking
  <2>. QED BY <2>1, <2>2, <2>3, <2>4, <2>5
<1>5. \A c : MeetsAfter(info, c) => Meets(info, c)'
  BY <1>1 DEF MeetsAfter, Meets, Closed
<1>6. Seeking'
  BY <1>1, <1>4, <1>5 DEF Seeking
<1>. QED BY <1>3, <1>6

LEMMA StackInvHolds == StackSafeSpec => []StackInv
<1>1. StackInit /\ Inv => StackInv
  <2> SUFFICES ASSUME StackInit, Inv PROVE StackInv
    OBVIOUS
  <2>1. 0 \in 0 .. Len(Boot) /\ 0 \in 0 .. Len(conns)
    <3>1. Len(Boot) \in Nat
      BY ServersAssumption DEF Boot
    <3>2. Len(conns) \in Nat
      BY LinksInRange DEF Inv
    <3>. QED BY <3>1, <3>2
  <2>2. StackTypeOK
    BY <2>1 DEF StackInit, StackTypeOK, Inv
  <2>. QED BY <2>2 DEF StackInit, StackInv, Seeking
<1>2. StackInv /\ [StackNext]_stackVars /\ Inv' => StackInv'
  <2> SUFFICES ASSUME StackInv, [StackNext]_stackVars, Inv' PROVE StackInv'
    OBVIOUS
  <2>1. CASE BootStep
    <3>1. /\ boot' \in 0 .. Len(Boot)
          /\ UNCHANGED <<vars, packetVars, failed>>
      BY <2>1 DEF BootStep, StackInv, StackTypeOK
    <3>2. UNCHANGED <<conns, packet, info, port, sought, cleared>>
      BY <3>1 DEF vars, listVars, packetVars
    <3>3. StackTypeOK'
      BY <3>1, <3>2 DEF StackInv, StackTypeOK, Inv, Conns
    <3>. QED BY <3>2, <3>3 DEF StackInv, Seeking, Meets, Closed, Conns
  <2>2. CASE UNCHANGED stackVars
    <3>1. UNCHANGED <<conns, boot, packet, info, port, sought, cleared, failed>>
      BY <2>2 DEF stackVars, vars, listVars, packetVars
    <3>. QED BY <3>1 DEF StackInv, StackTypeOK, Inv, Conns, Seeking, Meets, Closed
  <2>. QED BY <2>1, <2>2, PacketKeeps, ServerKeeps DEF StackNext
<1>3. StackSafeSpec => []Inv
  BY StackIsSocketTable, InvHolds, PTL
<1>. QED BY <1>1, <1>2, <1>3, PTL DEF StackSafeSpec

\* Types of the variables; the pointer the packet lcore holds stays one to a
\* connection, though connections are closed under it.
THEOREM StackTypes == StackSafeSpec => []StackTypeOK
  BY StackInvHolds, PTL DEF StackInv

\* A datagram misses a socket only if that one or a younger one was closed
\* while hz_process_udp looked for it.
THEOREM MissesOnlyThen == StackSafeSpec => []MissesOnlyBehindClosed
<1>1. StackInv => MissesOnlyBehindClosed
  <2> SUFFICES ASSUME StackInv, packet = "lookup", info = 0, NEW c \in sought
               PROVE  \E z \in cleared : z >= c
    BY DEF MissesOnlyBehindClosed
  <2>1. ~ Meets(info, c)
    <3>1. {} \in SUBSET Conns /\ info \in {} \cup {0} /\ Closed({})
      BY DEF Closed
    <3>. QED BY <3>1 DEF Meets
  <2>. QED BY <2>1 DEF StackInv, Seeking
<1>. QED BY <1>1, StackInvHolds, PTL
===============================================================================
