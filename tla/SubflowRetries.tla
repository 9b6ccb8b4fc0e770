--------------------------- MODULE SubflowRetries ----------------------------
(***************************************************************************)
(* Proof that a handshake of SubflowManager is given up only for a reason: *)
(* the attempts of either end are counted against what went wrong on that  *)
(* path.                                                                   *)
(***************************************************************************)
EXTENDS SubflowProofs

(* As long as nothing went wrong on its path, a handshake goes on in the   *)
(* one way it should, with one packet under way.                           *)
OnCourse(f) ==
  \/ /\ state["client"][f] = "CLOSED" /\ state["server"][f] = "LISTEN"
     /\ net["server"][f] = << >> /\ net["client"][f] = << >>
  \/ /\ state["client"][f] = "SYN_SENT" /\ state["server"][f] = "LISTEN"
     /\ net["server"][f] = <<Syn>> /\ net["client"][f] = << >>
  \/ /\ state["client"][f] = "SYN_SENT" /\ state["server"][f] = "SYN_RCVD"
     /\ net["server"][f] = << >> /\ net["client"][f] = <<SynAck>>
  \/ /\ state["client"][f] = "ESTABLISHED" /\ state["server"][f] = "SYN_RCVD"
     /\ net["server"][f] # << >> /\ Head(net["server"][f]).flag = "ACK"
     /\ net["client"][f] = << >>
  \/ state["server"][f] = "ESTABLISHED"

(* Each SYN of the client but the last has met with a fault, and the last  *)
(* one too if nothing is under way any more.                               *)
Spent(f) == MaxSyn - synCount["client"][f]

Counted(f) ==
  state["client"][f] = "SYN_SENT" =>
    /\ Spent(f) <= faults[f] + 1
    /\ ~InFlight(f) => Spent(f) <= faults[f]

Attempts(f) == Counted(f) /\ (faults[f] = 0 => OnCourse(f))

AllAttempts == Running => \A f \in Flows : Attempts(f)

-----------------------------------------------------------------------------
(* Paths. *)

(* The first packet of a queue stays the first. *)
LEMMA HeadStays ==
  ASSUME NEW S, NEW q \in Seq(S), NEW e \in S
  PROVE  /\ Append(q, e) # << >>
         /\ q # << >> => Head(Append(q, e)) = Head(q)
<1>1. Append(q, e) \in Seq(S) /\ Len(Append(q, e)) = Len(q) + 1 /\ Len(q) \in Nat
  BY AppendElements
<1>2. Append(q, e) # << >>
  BY <1>1
<1>3. ASSUME q # << >> PROVE Head(Append(q, e)) = Head(q)
  <2>1. Len(q) \in Nat /\ Len(q) # 0 /\ Head(q) = q[1]
    BY <1>3
  <2>2. Append(q, e)[1] = q[1]
    BY <2>1, AppendElements
  <2>. QED
    BY <1>1, <2>1, <2>2
<1>. QED
  BY <1>2, <1>3

(* A path on which nothing happens. *)
LEMMA SamePath ==
  ASSUME NEW f \in Flows, Attempts(f), faults'[f] = faults[f],
         \A h \in Hosts : /\ state'[h][f] = state[h][f] /\ synCount'[h][f] = synCount[h][f]
                          /\ net'[h][f] = net[h][f]
  PROVE  Attempts(f)'
<1>1. InFlight(f)' <=> InFlight(f)
  BY DEF InFlight
<1>2. Counted(f)'
  BY <1>1 DEF Attempts, Counted, Spent, Hosts
<1>3. OnCourse(f) => OnCourse(f)'
  BY DEF OnCourse, Hosts
<1>. QED
  BY <1>2, <1>3 DEF Attempts

(* A path on which something went wrong: its course does not matter. *)
LEMMA FaultyPath ==
  ASSUME NEW f \in Flows, Counted(f)', faults'[f] # 0
  PROVE  Attempts(f)'
  BY DEF Attempts

(* A path that both ends have established. *)
LEMMA DonePath ==
  ASSUME NEW f \in Flows, state'["client"][f] = "ESTABLISHED",
         state'["server"][f] = "ESTABLISHED"
  PROVE  Attempts(f)'
  BY DEF Attempts, Counted, OnCourse

(* A path on which the client is established may get a segment more. *)
LEMMA SegmentPath ==
  ASSUME NEW f \in Flows, Attempts(f), TypeOK, faults'[f] = faults[f],
         state["client"][f] = "ESTABLISHED", state'["client"][f] = "ESTABLISHED",
         state'["server"][f] = state["server"][f],
         net'["client"][f] = net["client"][f],
         NEW p \in Packet, net'["server"][f] = Append(net["server"][f], p)
  PROVE  Attempts(f)'
<1>1. net["server"][f] \in Seq(Packet)
  BY DEF TypeOK, Hosts
<1>2. /\ net'["server"][f] # << >>
      /\ net["server"][f] # << >> => Head(net'["server"][f]) = Head(net["server"][f])
  BY <1>1, HeadStays
<1>3. OnCourse(f) => OnCourse(f)'
  BY <1>2 DEF OnCourse
<1>. QED
  BY <1>3 DEF Attempts, Counted

(* Something is under way once it is put there. *)
LEMMA Underway ==
  ASSUME NEW h \in Hosts, NEW f \in Flows, NEW q \in Seq(Packet), NEW p \in Packet,
         net'[h][f] = Append(q, p)
  PROVE  InFlight(f)'
<1>1. Append(q, p) # << >>
  BY HeadStays
<1>. QED
  BY <1>1 DEF InFlight

(* The server takes a packet and answers it on the same path. *)
LEMMA TakeAndAnswer ==
  ASSUME TypeOK, NEW f \in Flows, NEW p \in Packet,
         net' = [net EXCEPT !["server"][f] = Tail(@), !["client"][f] = Append(@, p)]
  PROVE  /\ net["client"][f] \in Seq(Packet)
         /\ net'["server"][f] = Tail(net["server"][f])
         /\ net'["client"][f] = Append(net["client"][f], p)
<1>1. /\ net["client"] \in [Flows -> Seq(Packet)] /\ net["server"] \in [Flows -> Seq(Packet)]
      /\ net'["server"] = [net["server"] EXCEPT ![f] = Tail(@)]
      /\ net'["client"] = [net["client"] EXCEPT ![f] = Append(@, p)]
  BY DEF TypeOK, Hosts
<1>. QED
  BY <1>1

-----------------------------------------------------------------------------
(* Steps. *)

(* The client opens a subflow: one attempt, and it is under way. *)
LEMMA OpenAttempts ==
  ASSUME TypeOK, IInv, NEW f \in Flows, Attempts(f), state["client"][f] = "CLOSED",
         state'["client"][f] = "SYN_SENT", synCount'["client"][f] = MaxSyn - 1,
         state'["server"][f] = state["server"][f], faults'[f] = faults[f],
         net'["server"][f] = Append(net["server"][f], Syn),
         net'["client"][f] = net["client"][f]
  PROVE  Attempts(f)'
<1>1. "server" \in Hosts /\ net["server"][f] \in Seq(Packet) /\ Syn \in Packet
      /\ faults[f] \in Nat
  BY PacketTypes DEF TypeOK, Hosts
<1>2. InFlight(f)'
  BY <1>1, Underway
<1>3. Counted(f)'
  BY <1>1, <1>2, SubflowAssumption DEF Counted, Spent
<1>4. OnCourse(f) => OnCourse(f)'
  <2>1. state["server"][f] # "ESTABLISHED"
    BY DEF IInv, PeerAgrees
  <2>2. Append(<< >>, Syn) = <<Syn>>
    OBVIOUS
  <2>. QED
    BY <2>1, <2>2 DEF OnCourse
<1>. QED
  BY <1>3, <1>4 DEF Attempts

(* A host sends its packet of the handshake again, after a fault if its    *)
(* last is still under way.                                                *)
LEMMA TimeoutAttempts ==
  ASSUME TypeOK, IInv, NEW h \in Hosts, NEW f \in Flows, Attempts(f), Awaits(h, f),
         \A k \in Hosts : state'[k][f] = state[k][f],
         faults'[f] = IF InFlight(f) THEN faults[f] + 1 ELSE faults[f],
         synCount'[h][f] = synCount[h][f] - 1,
         synCount'[Peer(h)][f] = synCount[Peer(h)][f],
         NEW p \in Packet, net'[Peer(h)][f] = Append(net[Peer(h)][f], p)
  PROVE  Attempts(f)'
<1>1. Peer(h) \in Hosts /\ net[Peer(h)][f] \in Seq(Packet) /\ faults[f] \in Nat
      /\ synCount["client"][f] \in 0..MaxSyn /\ MaxSyn \in Nat
  BY SubflowAssumption DEF TypeOK, Hosts, Peer
<1>2. InFlight(f)'
  BY <1>1, Underway
<1>3. Counted(f)'
  <2>1. CASE h = "client"
    <3>1. /\ state["client"][f] = "SYN_SENT"
          /\ synCount'["client"][f] = synCount["client"][f] - 1
      BY <2>1 DEF Awaits, Handshake
    <3>2. Spent(f) <= faults[f] + 1 /\ (~InFlight(f) => Spent(f) <= faults[f])
      BY <3>1 DEF Attempts, Counted
    <3>3. Spent(f) <= faults'[f]
      BY <3>2
    <3>4. Spent(f)' <= faults'[f] + 1
      <4>1. Spent(f)' = Spent(f) + 1 /\ Spent(f) \in Int
        BY SMTT(30), <1>1, <3>1 DEF Spent
      <4>2. faults'[f] \in Nat
        BY <1>1
      <4>. QED
        BY <3>3, <4>1, <4>2
    <3>. QED
      BY ZenonT(30), <1>2, <3>4 DEF Counted
  <2>2. CASE h = "server"
    <3>1. Peer(h) = "client"
      BY <2>2 DEF Peer
    <3>2. Spent(f)' = Spent(f)
      BY <3>1 DEF Spent
    <3>3. state'["client"][f] = state["client"][f]
      BY DEF Hosts
    <3>4. faults[f] + 1 <= faults'[f] + 1
      BY <1>1
    <3>5. state["client"][f] = "SYN_SENT" => Spent(f) <= faults'[f] + 1
      <4>1. Spent(f) \in Int
        BY <1>1 DEF Spent
      <4>2. state["client"][f] = "SYN_SENT" => Spent(f) <= faults[f] + 1
        BY DEF Attempts, Counted
      <4>3. faults'[f] \in Nat
        BY <1>1
      <4>. QED
        BY <1>1, <3>4, <4>1, <4>2, <4>3
    <3>. QED
      BY ZenonT(30), <1>2, <3>2, <3>3, <3>5 DEF Counted
  <2>. QED
    BY <2>1, <2>2 DEF Hosts
<1>4. faults'[f] # 0
  <2>1. CASE InFlight(f)
    BY <1>1, <2>1
  <2>2. CASE ~InFlight(f)
    <3>1. net["server"][f] = << >> /\ net["client"][f] = << >>
      BY <2>2 DEF InFlight, Hosts
    <3>2. state["client"][f] = "SYN_SENT" \/ state["server"][f] = "SYN_RCVD"
      BY DEF Awaits, Handshake, Hosts
    <3>3. state["client"][f] = "SYN_SENT" => state["server"][f] # "ESTABLISHED"
      BY DEF IInv, PeerAgrees
    <3>4. <<Syn>> # << >> /\ <<SynAck>> # << >>
      OBVIOUS
    <3>5. ~OnCourse(f)
      BY <3>1, <3>2, <3>3, <3>4 DEF OnCourse
    <3>. QED
      BY <2>2, <3>5 DEF Attempts
  <2>. QED
    BY <2>1, <2>2
<1>. QED
  BY <1>3, <1>4, FaultyPath

(* Every step keeps the count; one case for each action. *)
LEMMA AttemptsStep ==
  AllAttempts /\ IInv /\ TypeOK /\ [Next]_vars => AllAttempts'
<1>. SUFFICES ASSUME AllAttempts, IInv, TypeOK, [Next]_vars, Running',
                     NEW g \in Flows
     PROVE  Attempts(g)'
  BY DEF AllAttempts
<1>0. "client" \in Hosts /\ "server" \in Hosts /\ Master \in Flows /\ Joins \subseteq Flows
  BY DEF Hosts, Flows
<1>1. CASE UNCHANGED vars
  <2>1. UNCHANGED <<state, synCount, net, faults, stopped>>
    BY <1>1 DEF vars
  <2>2. Attempts(g)
    BY <2>1 DEF AllAttempts, Running
  <2>3. faults'[g] = faults[g]
    BY <2>1
  <2>4. \A h \in Hosts : /\ state'[h][g] = state[h][g] /\ synCount'[h][g] = synCount[h][g]
                         /\ net'[h][g] = net[h][g]
    BY ZenonT(30), <2>1
  <2>. QED
    BY ZenonT(30), <2>2, <2>3, <2>4, SamePath
<1>2. Next => Attempts(g)
  BY DEF Next, ServerStep, ClientStep, AllAttempts, Connect, ConnectNewSubflow, ServerListen,
         ServerSynAgain, ServerEstablish, ServerReceive, ClientEstablish, ClientSynAckAgain,
         ClientAck, ClientAckJoin, Acknowledge, DataTimeout, SynTimeout, Lose, Write,
         SendPendingData, Arrives
<1>3. ASSUME NEW f \in Flows, state["client"][f] = "CLOSED", Attempts(f), Attempts(g),
             Open(f, net), UNCHANGED faults
      PROVE  Attempts(g)'
  <2>1. /\ state' = [state EXCEPT !["client"][f] = "SYN_SENT"]
        /\ synCount' = [synCount EXCEPT !["client"][f] = MaxSyn - 1]
        /\ net' = [net EXCEPT !["server"][f] = Append(@, Syn)]
    BY <1>3 DEF Open
  <2>2. CASE g = f
    <3>1. /\ state'["client"][f] = "SYN_SENT" /\ state'["server"][f] = state["server"][f]
          /\ synCount'["client"][f] = MaxSyn - 1
          /\ net'["server"][f] = Append(net["server"][f], Syn)
          /\ net'["client"][f] = net["client"][f]
      BY <1>0, <2>1 DEF TypeOK
    <3>. QED
      BY <1>3, <2>2, <3>1, OpenAttempts
  <2>3. CASE g # f
    <3>1. \A h \in Hosts : /\ state'[h][g] = state[h][g] /\ synCount'[h][g] = synCount[h][g]
                           /\ net'[h][g] = net[h][g]
      BY <1>0, <2>1, <2>3 DEF TypeOK
    <3>. QED
      BY <1>3, <3>1, SamePath
  <2>. QED
    BY <2>2, <2>3
<1>4. CASE Connect
  BY <1>0, <1>2, <1>3, <1>4 DEF Connect, AllAttempts
<1>5. ASSUME NEW f \in Joins, ConnectNewSubflow(f) PROVE Attempts(g)'
  BY <1>0, <1>2, <1>3, <1>5 DEF ConnectNewSubflow, Joinable, AllAttempts
<1>6. ASSUME NEW h \in Hosts, NEW f \in Flows, SynTimeout(h, f) PROVE Attempts(g)'
  <2>. DEFINE p == IF h = "client" THEN Syn ELSE SynAck
  <2>1. /\ Running /\ Awaits(h, f) /\ SendSyn(h, f, net) /\ UNCHANGED state
        /\ IF InFlight(f) THEN Fault(f) ELSE UNCHANGED <<faults, left>>
    BY <1>6 DEF SynTimeout
  <2>2. /\ synCount' = [synCount EXCEPT ![h][f] = @ - 1]
        /\ net' = [net EXCEPT ![Peer(h)][f] = Append(@, p)]
    BY <2>1 DEF SendSyn, Running
  <2>3. Attempts(f) /\ Attempts(g)
    BY <2>1 DEF AllAttempts
  <2>4. CASE g = f
    <3>1. /\ Peer(h) \in Hosts /\ Peer(h) # h /\ p \in Packet
      BY PacketTypes DEF Peer, Hosts
    <3>2. /\ synCount'[h][f] = synCount[h][f] - 1
          /\ synCount'[Peer(h)][f] = synCount[Peer(h)][f]
          /\ net'[Peer(h)][f] = Append(net[Peer(h)][f], p)
      BY <2>2, <3>1 DEF TypeOK
    <3>3. faults'[f] = IF InFlight(f) THEN faults[f] + 1 ELSE faults[f]
      BY <2>1 DEF Fault, TypeOK
    <3>4. \A k \in Hosts : state'[k][f] = state[k][f]
      BY <2>1
    <3>. HIDE DEF p
    <3>5. Attempts(f)'
      BY <2>1, <2>3, <3>1, <3>2, <3>3, <3>4, TimeoutAttempts
    <3>. QED
      BY <2>4, <3>5
  <2>5. CASE g # f
    <3>1. \A k \in Hosts : /\ state'[k][g] = state[k][g] /\ synCount'[k][g] = synCount[k][g]
                           /\ net'[k][g] = net[k][g]
      BY <2>1, <2>2, <2>5 DEF TypeOK, Hosts, Peer
    <3>2. faults'[g] = faults[g]
      BY <2>1, <2>5 DEF Fault, TypeOK
    <3>. QED
      BY <2>3, <3>1, <3>2, SamePath
  <2>. QED
    BY <2>4, <2>5
<1>7. ASSUME NEW h \in Hosts, NEW f \in Flows, Lose(h, f) PROVE Attempts(g)'
  <2>1. /\ Running /\ net[h][f] # << >> /\ net' = [net EXCEPT ![h][f] = Tail(@)]
        /\ faults' = [faults EXCEPT ![f] = @ + 1] /\ UNCHANGED <<state, synCount>>
    BY <1>7 DEF Lose, Fault
  <2>2. Attempts(g) /\ faults[g] \in Nat /\ synCount["client"][g] \in 0..MaxSyn
    BY <1>0, <2>1 DEF AllAttempts, TypeOK
  <2>3. CASE g = f
    <3>1. faults'[f] = faults[f] + 1
      BY <2>1 DEF TypeOK
    <3>2. Counted(f)'
      <4>1. Spent(f)' = Spent(f) /\ Spent(f) \in Int
        BY <2>1, <2>2, <2>3, SubflowAssumption DEF Spent
      <4>2. state["client"][f] = "SYN_SENT" => Spent(f) <= faults'[f]
        BY <2>2, <2>3, <3>1 DEF Attempts, Counted
      <4>3. state["client"][f] = "SYN_SENT" => Spent(f)' <= faults'[f] + 1
        BY <2>2, <2>3, <3>1, <4>1, <4>2
      <4>. QED
        BY <2>1, <4>1, <4>2, <4>3 DEF Counted
    <3>. QED
      BY <2>2, <2>3, <3>1, <3>2, FaultyPath
  <2>4. CASE g # f
    <3>1. \A k \in Hosts : net'[k][g] = net[k][g]
      BY <2>1, <2>4 DEF TypeOK
    <3>2. faults'[g] = faults[g]
      BY <2>1, <2>4 DEF TypeOK
    <3>. QED
      BY <2>1, <2>2, <3>1, <3>2, SamePath
  <2>. QED
    BY <2>3, <2>4
<1>8. ASSUME NEW f \in Flows, ServerListen(f) PROVE Attempts(g)'
  <2>1. /\ Running /\ net["server"][f] # << >> /\ state["server"][f] = "LISTEN"
        /\ UNCHANGED faults
    BY <1>8 DEF ServerListen, Arrives
  <2>2. Attempts(g) /\ Attempts(f) /\ faults[f] \in Nat
    BY <2>1 DEF AllAttempts, TypeOK
  <2>3. CASE f \in Joins /\ ~fully["server"]
    <3>1. net' = [net EXCEPT !["server"][f] = Tail(@)] /\ UNCHANGED <<state, synCount>>
      BY <1>8, <2>3 DEF ServerListen
    <3>2. state["client"][f] = "CLOSED"
      BY <2>3 DEF IInv, FullyInOrder
    <3>3. CASE g = f
      <4>1. faults[f] # 0
        BY <2>1, <2>2, <3>2 DEF Attempts, OnCourse
      <4>. QED
        BY <2>1, <3>1, <3>2, <3>3, <4>1 DEF Attempts, Counted
    <3>4. CASE g # f
      <4>1. \A k \in Hosts : net'[k][g] = net[k][g]
        BY <3>1, <3>4 DEF TypeOK
      <4>. QED
        BY <2>1, <2>2, <3>1, <4>1, SamePath
    <3>. QED
      BY <3>3, <3>4
  <2>4. CASE ~(f \in Joins /\ ~fully["server"])
    <3>1. /\ state' = [state EXCEPT !["server"][f] = "SYN_RCVD"]
          /\ synCount' = [synCount EXCEPT !["server"][f] = MaxSyn - 1]
          /\ net' = [net EXCEPT !["server"][f] = Tail(@), !["client"][f] = Append(@, SynAck)]
      BY <1>8, <2>4 DEF ServerListen
    <3>2. CASE g = f
      <4>1. /\ state'["client"][f] = state["client"][f] /\ state'["server"][f] = "SYN_RCVD"
            /\ synCount'["client"][f] = synCount["client"][f]
        BY <1>0, <3>1 DEF TypeOK
      <4>5. /\ net'["server"][f] = Tail(net["server"][f])
            /\ net'["client"][f] = Append(net["client"][f], SynAck)
            /\ net["client"][f] \in Seq(Packet)
        BY <3>1, PacketTypes, TakeAndAnswer
      <4>2. InFlight(f)'
        BY <1>0, <4>5, PacketTypes, Underway
      <4>3. Counted(f)'
        BY <2>1, <2>2, <4>1, <4>2 DEF Attempts, Counted, Spent
      <4>4. OnCourse(f) => OnCourse(f)'
        <5>1. Tail(<<Syn>>) = << >> /\ Append(<< >>, SynAck) = <<SynAck>>
          OBVIOUS
        <5>. QED
          BY <2>1, <4>1, <4>5, <5>1 DEF OnCourse
      <4>. QED
        BY <2>1, <2>2, <3>2, <4>3, <4>4 DEF Attempts
    <3>3. CASE g # f
      <4>1. \A k \in Hosts : /\ state'[k][g] = state[k][g] /\ synCount'[k][g] = synCount[k][g]
                             /\ net'[k][g] = net[k][g]
        BY <3>1, <3>3 DEF TypeOK
      <4>. QED
        BY <2>1, <2>2, <4>1, SamePath
    <3>. QED
      BY <3>2, <3>3
  <2>. QED
    BY <2>3, <2>4
<1>9. ASSUME NEW f \in Flows, ServerSynAgain(f) PROVE Attempts(g)'
  <2>. DEFINE taken == [net EXCEPT !["server"][f] = Tail(@)]
  <2>1. /\ Running /\ net["server"][f] # << >> /\ Head(net["server"][f]).flag = "SYN"
        /\ state["server"][f] = "SYN_RCVD" /\ SendSyn("server", f, taken)
        /\ UNCHANGED <<state, faults>>
    BY <1>9 DEF ServerSynAgain, Arrives
  <2>2. /\ synCount' = [synCount EXCEPT !["server"][f] = @ - 1]
        /\ net' = [net EXCEPT !["server"][f] = Tail(@), !["client"][f] = Append(@, SynAck)]
    BY <2>1 DEF SendSyn, Running, Peer
  <2>3. Attempts(g) /\ Attempts(f)
    BY <2>1 DEF AllAttempts
  <2>4. CASE g = f
    <3>1. /\ synCount'["client"][f] = synCount["client"][f]
          /\ net'["client"][f] = Append(net["client"][f], SynAck)
          /\ net["client"][f] \in Seq(Packet)
      <4>1. synCount'["client"][f] = synCount["client"][f]
        BY <1>0, <2>2 DEF TypeOK
      <4>. QED
        BY <2>2, <4>1, PacketTypes, TakeAndAnswer
    <3>2. InFlight(f)'
      BY <1>0, <3>1, PacketTypes, Underway
    <3>3. Counted(f)'
      BY <2>1, <2>3, <3>1, <3>2 DEF Attempts, Counted, Spent
    <3>4. ~OnCourse(f)
      BY <2>1 DEF OnCourse
    <3>. QED
      BY <2>1, <2>3, <2>4, <3>3, <3>4 DEF Attempts
  <2>5. CASE g # f
    <3>1. \A k \in Hosts : /\ state'[k][g] = state[k][g] /\ synCount'[k][g] = synCount[k][g]
                           /\ net'[k][g] = net[k][g]
      BY <2>1, <2>2, <2>5 DEF TypeOK
    <3>. QED
      BY <2>1, <2>3, <3>1, SamePath
  <2>. QED
    BY <2>4, <2>5
<1>10. ASSUME NEW f \in Flows, Receive(f, Head(net["server"][f])), UNCHANGED <<synCount, faults>>,
              state["client"][f] = "ESTABLISHED", Attempts(g),
              state' = [state EXCEPT !["server"][f] = "ESTABLISHED"]
       PROVE  Attempts(g)'
  <2>1. CASE g = f
    <3>1. state'["client"][f] = "ESTABLISHED" /\ state'["server"][f] = "ESTABLISHED"
      BY <1>0, <1>10 DEF TypeOK
    <3>. QED
      BY <2>1, <3>1, DonePath
  <2>2. CASE g # f
    <3>1. \A k \in Hosts : net'[k][g] = net[k][g]
      BY <1>10, <2>2 DEF Receive, TypeOK
    <3>2. \A k \in Hosts : state'[k][g] = state[k][g]
      BY <1>10, <2>2 DEF TypeOK
    <3>. QED
      BY <1>10, <3>1, <3>2, SamePath
  <2>. QED
    BY <2>1, <2>2
<1>11. ASSUME NEW f \in Flows, ServerEstablish(f) PROVE Attempts(g)'
  <2>1. /\ net["server"][f] # << >> /\ Head(net["server"][f]).flag = "ACK"
        /\ Receive(f, Head(net["server"][f])) /\ UNCHANGED <<synCount, faults>>
        /\ state' = [state EXCEPT !["server"][f] = "ESTABLISHED"]
    BY <1>11 DEF ServerEstablish, Arrives
  <2>2. Head(net["server"][f]) \in On(net["server"][f])
    <3>1. net["server"][f] \in Seq(Packet)
      BY <1>0 DEF TypeOK
    <3>. QED
      BY <2>1, <3>1, TailOn
  <2>3. state["client"][f] = "ESTABLISHED"
    BY <2>1, <2>2 DEF IInv, ToServer
  <2>4. Attempts(g)
    BY <1>2, <1>11 DEF Next, ServerStep
  <2>. QED
    BY <1>10, <2>1, <2>3, <2>4
<1>12. ASSUME NEW f \in Flows, ServerReceive(f) PROVE Attempts(g)'
  <2>1. /\ state["server"][f] = "ESTABLISHED" /\ UNCHANGED <<state, synCount, faults>>
        /\ Receive(f, Head(net["server"][f]))
    BY <1>12 DEF ServerReceive
  <2>2. state' = [state EXCEPT !["server"][f] = "ESTABLISHED"]
    BY <1>0, <2>1 DEF TypeOK
  <2>3. state["client"][f] = "ESTABLISHED"
    BY <2>1 DEF IInv, PeerAgrees
  <2>4. Attempts(g)
    BY <1>2, <1>12 DEF Next, ServerStep
  <2>. QED
    BY <1>10, <2>1, <2>2, <2>3, <2>4
<1>13. ASSUME NEW F \in SUBSET Flows, NEW queues \in [Flows -> Seq(Packet)],
              net'["server"] = WithSegments(F, queues), queues[g] = net["server"][g],
              net'["client"][g] = net["client"][g],
              g \in F => state["client"][g] = "ESTABLISHED",
              \A h \in Hosts : state'[h][g] = state[h][g],
              UNCHANGED <<synCount, faults>>, Attempts(g)
       PROVE  Attempts(g)'
  <2>1. CASE g \in F
    <3>1. Segment(sent[g] + 1) \in Packet
      BY PacketTypes DEF TypeOK
    <3>2. net'["server"][g] = Append(net["server"][g], Segment(sent[g] + 1))
      BY <1>13, <2>1 DEF WithSegments
    <3>. QED
      BY <1>0, <1>13, <2>1, <3>1, <3>2, SegmentPath
  <2>2. CASE g \notin F
    <3>1. net'["server"][g] = net["server"][g]
      BY <1>13, <2>2 DEF WithSegments
    <3>2. \A h \in Hosts : /\ state'[h][g] = state[h][g] /\ synCount'[h][g] = synCount[h][g]
                           /\ net'[h][g] = net[h][g]
      BY <1>13, <3>1 DEF Hosts
    <3>. QED
      BY <1>13, <3>2, SamePath
  <2>. QED
    BY <2>1, <2>2
<1>14. ASSUME NEW F \in SUBSET Flows, SendPendingData(F) PROVE Attempts(g)'
  <2>. DEFINE queues == net["server"]
  <2>1. /\ net'["server"] = WithSegments(F, queues) /\ net'["client"] = net["client"]
        /\ UNCHANGED <<state, synCount, faults>>
        /\ Schedulable(F, Available(active["client"], state["client"]))
    BY <1>0, <1>14 DEF SendPendingData, TypeOK
  <2>2. \A f \in F : state["client"][f] = "ESTABLISHED"
    BY <2>1 DEF Schedulable, Available
  <2>3. queues \in [Flows -> Seq(Packet)] /\ queues[g] = net["server"][g]
    BY <1>0 DEF TypeOK
  <2>4. Attempts(g)
    BY <1>2, <1>14 DEF Next
  <2>. HIDE DEF queues
  <2>. QED
    BY <1>13, <2>1, <2>2, <2>3, <2>4
<1>15. ASSUME NEW f \in Flows, NEW F \in SUBSET Flows, ClientEstablish(f, F) PROVE Attempts(g)'
  <2>. DEFINE behind == [net["server"] EXCEPT ![f] = Append(@, FinalAck)]
  <2>1. /\ Running /\ net["client"][f] # << >> /\ state["client"][f] = "SYN_SENT"
        /\ UNCHANGED <<synCount, faults>>
        /\ state' = [state EXCEPT !["client"][f] = "ESTABLISHED"]
        /\ net'["client"] = [net["client"] EXCEPT ![f] = Tail(@)]
        /\ net'["server"] = WithSegments(F, behind)
        /\ Schedulable(F, Available(active'["client"], state'["client"]))
    BY <1>0, <1>15 DEF ClientEstablish, Arrives
  <2>2. /\ net["client"] \in [Flows -> Seq(Packet)] /\ net["server"] \in [Flows -> Seq(Packet)]
        /\ behind \in [Flows -> Seq(Packet)]
    <3>1. net["client"] \in [Flows -> Seq(Packet)] /\ net["server"] \in [Flows -> Seq(Packet)]
      BY <1>0 DEF TypeOK
    <3>2. Append(net["server"][f], FinalAck) \in Seq(Packet)
      BY <3>1, PacketTypes, AppendElements
    <3>. QED
      BY <3>1, <3>2
  <2>3. Attempts(g) /\ Attempts(f)
    BY <2>1 DEF AllAttempts
  <2>4. CASE g = f
    <3>1. state'["client"][f] = "ESTABLISHED" /\ state'["server"][f] = state["server"][f]
      BY <1>0, <2>1 DEF TypeOK
    <3>2. OnCourse(f) => OnCourse(f)'
      <4>. SUFFICES ASSUME OnCourse(f) PROVE OnCourse(f)'
        OBVIOUS
      <4>1. state["server"][f] # "ESTABLISHED"
        BY <2>1 DEF IInv, PeerAgrees
      <4>2. /\ state["server"][f] = "SYN_RCVD" /\ net["server"][f] = << >>
            /\ net["client"][f] = <<SynAck>>
        BY <2>1, <4>1 DEF OnCourse
      <4>3. net'["client"][f] = << >>
        BY <2>1, <2>2, <4>2
      <4>4. behind[f] = <<FinalAck>>
        BY <2>2, <4>2
      <4>5. net'["server"][f] # << >> /\ Head(net'["server"][f]).flag = "ACK"
        <5>. DEFINE segment == Segment(sent[f] + 1)
        <5>1. \/ net'["server"][f] = behind[f]
              \/ net'["server"][f] = Append(behind[f], segment)
          BY <2>1, <2>2 DEF WithSegments
        <5>2. segment \in Packet
          BY PacketTypes DEF TypeOK
        <5>. HIDE DEF segment
        <5>3. net'["server"][f] # << >> /\ Head(net'["server"][f]) = FinalAck
          <6>1. /\ <<FinalAck>> \in Seq(Packet) /\ <<FinalAck>> # << >>
                /\ Head(<<FinalAck>>) = FinalAck
            BY PacketTypes
          <6>2. /\ Append(<<FinalAck>>, segment) # << >>
                /\ Head(Append(<<FinalAck>>, segment)) = Head(<<FinalAck>>)
            BY <5>2, <6>1, HeadStays
          <6>3. CASE net'["server"][f] = behind[f]
            BY <4>4, <6>1, <6>3
          <6>4. CASE net'["server"][f] = Append(behind[f], segment)
            BY <4>4, <6>1, <6>2, <6>4
          <6>. QED
            BY <5>1, <6>3, <6>4
        <5>. QED
          BY <5>3, PacketFields
      <4>. QED
        BY <3>1, <4>2, <4>3, <4>5 DEF OnCourse
    <3>. QED
      BY <2>1, <2>3, <2>4, <3>1, <3>2 DEF Attempts, Counted
  <2>5. CASE g # f
    <3>1. behind[g] = net["server"][g] /\ net'["client"][g] = net["client"][g]
      BY <2>1, <2>2, <2>5
    <3>2. \A h \in Hosts : state'[h][g] = state[h][g]
      BY <2>1, <2>5 DEF TypeOK
    <3>3. g \in F => state["client"][g] = "ESTABLISHED"
      BY <1>0, <2>1, <3>2 DEF Schedulable, Available
    <3>4. net'["server"] = WithSegments(F, behind) /\ UNCHANGED <<synCount, faults>>
      BY <2>1
    <3>5. behind \in [Flows -> Seq(Packet)]
      BY <2>2
    <3>. HIDE DEF behind
    <3>. QED
      BY <1>13, <2>3, <3>1, <3>2, <3>3, <3>4, <3>5
  <2>. QED
    BY <2>4, <2>5
<1>16. ASSUME NEW f \in Flows, state["client"][f] = "ESTABLISHED", net["client"][f] # << >>,
              net' = [net EXCEPT !["client"][f] = Tail(@)],
              UNCHANGED <<state, synCount, faults>>, Attempts(f), Attempts(g)
       PROVE  Attempts(g)'
  <2>1. CASE g = f
    <3>1. OnCourse(f) => state["server"][f] = "ESTABLISHED"
      BY <1>16 DEF OnCourse
    <3>. QED
      BY <1>16, <2>1, <3>1 DEF Attempts, Counted, OnCourse
  <2>2. CASE g # f
    <3>1. \A k \in Hosts : net'[k][g] = net[k][g]
      BY <1>16, <2>2 DEF TypeOK
    <3>. QED
      BY <1>16, <3>1, SamePath
  <2>. QED
    BY <2>1, <2>2
<1>17. ASSUME NEW f \in Flows, ClientSynAckAgain(f) PROVE Attempts(g)'
  <2>1. Running /\ Attempts(f) /\ Attempts(g)
    BY <1>17 DEF ClientSynAckAgain, Arrives, AllAttempts
  <2>. QED
    BY <1>16, <1>17, <2>1 DEF ClientSynAckAgain, Arrives
<1>18. ASSUME NEW f \in Flows, ClientAck(f) PROVE Attempts(g)'
  <2>1. Running /\ Attempts(f) /\ Attempts(g)
    BY <1>18 DEF ClientAck, Acknowledge, Arrives, AllAttempts
  <2>. QED
    BY <1>16, <1>18, <2>1 DEF ClientAck, Acknowledge, Arrives
<1>19. ASSUME NEW f \in Flows, NEW j \in Joins, ClientAckJoin(f, j) PROVE Attempts(g)'
  <2>1. /\ Running /\ net["client"][f] # << >> /\ state["client"][f] = "ESTABLISHED"
        /\ state["client"][j] = "CLOSED" /\ UNCHANGED faults
        /\ state' = [state EXCEPT !["client"][j] = "SYN_SENT"]
        /\ synCount' = [synCount EXCEPT !["client"][j] = MaxSyn - 1]
        /\ net' = [net EXCEPT !["client"][f] = Tail(@), !["server"][j] = Append(@, Syn)]
    BY <1>19 DEF ClientAckJoin, Acknowledge, Arrives, Joinable, Open
  <2>2. Attempts(f) /\ Attempts(g) /\ Attempts(j) /\ f # j
    BY <1>0, <2>1 DEF AllAttempts
  <2>3. CASE g = j
    <3>1. /\ state'["client"][j] = "SYN_SENT" /\ state'["server"][j] = state["server"][j]
          /\ synCount'["client"][j] = MaxSyn - 1
          /\ net'["server"][j] = Append(net["server"][j], Syn)
          /\ net'["client"][j] = net["client"][j]
      BY <1>0, <2>1, <2>2 DEF TypeOK
    <3>. QED
      BY <1>0, <2>1, <2>2, <2>3, <3>1, OpenAttempts
  <2>4. CASE g = f
    <3>1. state'["client"][f] = "ESTABLISHED" /\ state'["server"][f] = state["server"][f]
      BY <1>0, <2>1, <2>2 DEF TypeOK
    <3>2. OnCourse(f) => state["server"][f] = "ESTABLISHED"
      BY <2>1 DEF OnCourse
    <3>. QED
      BY <2>1, <2>2, <2>4, <3>1, <3>2 DEF Attempts, Counted, OnCourse
  <2>5. CASE g \notin {f, j}
    <3>1. \A k \in Hosts : /\ state'[k][g] = state[k][g] /\ synCount'[k][g] = synCount[k][g]
                           /\ net'[k][g] = net[k][g]
      BY <1>0, <2>1, <2>5 DEF TypeOK
    <3>. QED
      BY <2>1, <2>2, <3>1, SamePath
  <2>. QED
    BY <2>3, <2>4, <2>5
<1>20. ASSUME NEW f \in Flows, DataTimeout(f) PROVE Attempts(g)'
  <2>1. /\ Running /\ state["client"][f] = "ESTABLISHED" /\ ~InFlight(f)
        /\ UNCHANGED <<state, synCount, faults>>
        /\ net' = [net EXCEPT !["server"][f] = Append(@, Segment(sent[f]))]
    BY <1>20 DEF DataTimeout
  <2>2. Attempts(f) /\ Attempts(g)
    BY <2>1 DEF AllAttempts
  <2>3. CASE g = f
    <3>1. OnCourse(f) => state["server"][f] = "ESTABLISHED"
      BY <1>0, <2>1 DEF OnCourse, InFlight
    <3>. QED
      BY <2>1, <2>2, <2>3, <3>1 DEF Attempts, Counted, OnCourse
  <2>4. CASE g # f
    <3>1. \A k \in Hosts : net'[k][g] = net[k][g]
      BY <2>1, <2>4 DEF TypeOK
    <3>. QED
      BY <2>1, <2>2, <3>1, SamePath
  <2>. QED
    BY <2>3, <2>4
<1>21. CASE Write
  <2>1. Running /\ UNCHANGED <<state, synCount, net, faults>>
    BY <1>21 DEF Write
  <2>2. Attempts(g)
    BY <2>1 DEF AllAttempts
  <2>. QED
    BY <2>1, <2>2, SamePath
<1>. QED
  BY <1>1, <1>4, <1>5, <1>6, <1>7, <1>8, <1>9, <1>11, <1>12, <1>14, <1>15, <1>17, <1>18, <1>19,
     <1>20, <1>21 DEF Next, ServerStep, ClientStep

LEMMA AttemptsInit == Init => AllAttempts
<1>. SUFFICES ASSUME Init, NEW f \in Flows PROVE Attempts(f)
  BY DEF AllAttempts
<1>1. /\ state["client"][f] = "CLOSED" /\ state["server"][f] = "LISTEN"
      /\ net["server"][f] = << >> /\ net["client"][f] = << >>
  BY DEF Init, Hosts
<1>. QED
  BY <1>1 DEF Attempts, Counted, OnCourse

-----------------------------------------------------------------------------
(* The end of the simulation. *)

(* Only a host without an attempt left ends it. *)
LEMMA GivenUp ==
  ASSUME TypeOK, NEW h \in Hosts, NEW f \in Flows, NEW queues, Running,
         SendSyn(h, f, queues), faults'[f] \in Nat,
         h = "client" /\ synCount[h][f] = 0 => faults'[f] >= MaxSyn,
         h = "server" => faults'[f] >= 1
  PROVE  GaveUpForReason'
<1>1. stopped = {} /\ (stopped' = stopped \/ (stopped' = {<<h, f>>} /\ synCount[h][f] = 0))
  BY DEF Running, SendSyn
<1>2. \A g \in Flows, k \in Hosts :
        <<k, g>> \in stopped' => k = h /\ g = f /\ synCount[h][f] = 0
  BY <1>1
<1>. QED
  BY <1>2 DEF GaveUpForReason, Hosts

LEMMA GaveUpStep ==
  GaveUpForReason /\ AllAttempts /\ IInv /\ TypeOK /\ [Next]_vars => GaveUpForReason'
<1>. SUFFICES ASSUME GaveUpForReason, AllAttempts, IInv, TypeOK, [Next]_vars
     PROVE  GaveUpForReason'
  OBVIOUS
<1>0. "client" \in Hosts /\ "server" \in Hosts /\ Joins \subseteq Flows
  BY DEF Hosts, Flows
<1>1. CASE UNCHANGED vars
  BY <1>1 DEF vars, GaveUpForReason
<1>2. CASE Running /\ UNCHANGED stopped
  BY <1>2 DEF Running, GaveUpForReason
<1>3. ASSUME NEW h \in Hosts, NEW f \in Flows, SynTimeout(h, f) PROVE GaveUpForReason'
  <2>1. /\ Running /\ Awaits(h, f) /\ SendSyn(h, f, net)
        /\ IF InFlight(f) THEN Fault(f) ELSE UNCHANGED <<faults, left>>
    BY <1>3 DEF SynTimeout
  <2>2. /\ faults[f] \in Nat /\ MaxSyn \in Nat
        /\ faults'[f] = IF InFlight(f) THEN faults[f] + 1 ELSE faults[f]
    BY <2>1, SubflowAssumption DEF TypeOK, Fault
  <2>3. Attempts(f)
    BY <2>1 DEF AllAttempts
  <2>4. faults'[f] \in Nat
    BY <2>2
  <2>5. h = "client" /\ synCount[h][f] = 0 => faults'[f] >= MaxSyn
    <3>. SUFFICES ASSUME h = "client", synCount[h][f] = 0 PROVE faults'[f] >= MaxSyn
      OBVIOUS
    <3>1. state["client"][f] = "SYN_SENT" /\ Spent(f) = MaxSyn
      BY <2>1, <2>2 DEF Awaits, Handshake, Spent
    <3>2. MaxSyn <= faults[f] + 1 /\ (~InFlight(f) => MaxSyn <= faults[f])
      BY <2>3, <3>1 DEF Attempts, Counted
    <3>. QED
      BY <2>2, <3>2
  <2>6. h = "server" => faults'[f] >= 1
    <3>. SUFFICES ASSUME h = "server", ~InFlight(f) PROVE faults[f] # 0
      BY <2>2
    <3>1. net["server"][f] = << >> /\ net["client"][f] = << >>
      BY <1>0 DEF InFlight
    <3>2. state["server"][f] = "SYN_RCVD"
      BY <2>1 DEF Awaits, Handshake
    <3>3. <<SynAck>> # << >>
      OBVIOUS
    <3>. QED
      BY <2>3, <3>1, <3>2, <3>3 DEF Attempts, OnCourse
  <2>. QED
    BY <2>1, <2>4, <2>5, <2>6, GivenUp
<1>4. ASSUME NEW f \in Flows, ServerSynAgain(f) PROVE GaveUpForReason'
  <2>. DEFINE taken == [net EXCEPT !["server"][f] = Tail(@)]
  <2>1. /\ Running /\ net["server"][f] # << >> /\ Head(net["server"][f]).flag = "SYN"
        /\ state["server"][f] = "SYN_RCVD" /\ SendSyn("server", f, taken) /\ UNCHANGED faults
    BY <1>4 DEF ServerSynAgain, Arrives
  <2>2. Attempts(f) /\ faults[f] \in Nat
    BY <2>1 DEF AllAttempts, TypeOK
  <2>3. faults'[f] >= 1
    BY <2>1, <2>2 DEF Attempts, OnCourse
  <2>4. faults'[f] \in Nat /\ "server" # "client"
    BY <2>1, <2>2
  <2>. HIDE DEF taken
  <2>5. PICK h \in Hosts : h = "server"
    BY ZenonT(30), <1>0
  <2>. QED
    BY <2>1, <2>3, <2>4, <2>5, GivenUp
<1>5. ASSUME NEW f \in Flows, NEW F,
             \/ ServerListen(f) \/ ServerEstablish(f) \/ ServerReceive(f)
             \/ ClientEstablish(f, F) \/ ClientSynAckAgain(f) \/ ClientAck(f)
             \/ (\E j \in Joins : ClientAckJoin(f, j)) \/ DataTimeout(f)
             \/ Connect \/ ConnectNewSubflow(f) \/ (\E h \in Hosts : Lose(h, f))
             \/ Write \/ SendPendingData(F)
      PROVE  Running /\ UNCHANGED stopped
  BY <1>5 DEF ServerListen, ServerEstablish, ServerReceive, ClientEstablish, ClientSynAckAgain,
              ClientAck, ClientAckJoin, Acknowledge, DataTimeout, Connect, ConnectNewSubflow,
              Lose, Write, SendPendingData, Arrives
<1>6. Master \in Flows
  BY DEF Flows
<1>. QED
  BY <1>0, <1>1, <1>2, <1>3, <1>4, <1>5, <1>6 DEF Next, ServerStep, ClientStep

-----------------------------------------------------------------------------
(* The fatal error of OnSubflowClosed is earned: a client that gives up    *)
(* has met with as many losses and early timers on that path as it made    *)
(* attempts, a server with one at least, for any number of attempts.       *)
THEOREM GivenUpForReason == Spec => []GaveUpForReason
<1>1. Init => AllAttempts /\ GaveUpForReason
  <2>1. Init => GaveUpForReason
    BY DEF Init, GaveUpForReason
  <2>. QED
    BY <2>1, AttemptsInit
<1>2. AllAttempts /\ GaveUpForReason /\ IInv /\ TypeOK /\ [Next]_vars
        => (AllAttempts /\ GaveUpForReason)'
  BY AttemptsStep, GaveUpStep
<1>. QED
  BY <1>1, <1>2, Invariant, PTL DEF Spec
=============================================================================
