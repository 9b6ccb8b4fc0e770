--------------------------- MODULE SubflowProofs ----------------------------
(***************************************************************************)
(* Proofs about SubflowManager, for every number of joins, retries,        *)
(* segments and faults.                                                    *)
(***************************************************************************)
EXTENDS SubflowManager, SequenceTheorems, FiniteSetTheorems, TLAPS

(* The packets of a queue. *)
On(q) == {q[i] : i \in 1..Len(q)}

(* The parts of the inductive invariant: the states a subflow takes at     *)
(* either end; what the packets under way to the server, and to the        *)
(* client, say about the two ends; the order in which the connection       *)
(* becomes fully established; and the two ends of each subflow.            *)
EndStates ==
  \A f \in Flows :
    /\ state["client"][f] \in {"CLOSED", "SYN_SENT", "ESTABLISHED"}
    /\ state["server"][f] \in {"LISTEN", "SYN_RCVD", "ESTABLISHED"}

ToServer ==
  \A f \in Flows : \A p \in On(net["server"][f]) :
    /\ p.dss => p.flag = "ACK"
    /\ p.flag = "ACK" => state["client"][f] = "ESTABLISHED"

ToClient ==
  \A f \in Flows : \A p \in On(net["client"][f]) :
    /\ state["server"][f] # "LISTEN"
    /\ p.dss => fully["server"]

FullyInOrder ==
  /\ fully["client"] => fully["server"]
  /\ fully["server"] => state["client"][Master] = "ESTABLISHED"
  /\ \A f \in Joins : state["client"][f] # "CLOSED" => fully["client"]

IInv == EndStates /\ ToServer /\ ToClient /\ FullyInOrder /\ PeerAgrees

-----------------------------------------------------------------------------
(* Queues. *)

(* What remains of a queue was in it. *)
LEMMA TailElements ==
  ASSUME NEW S, NEW q \in Seq(S), q # << >>
  PROVE  /\ Tail(q) \in Seq(S) /\ Head(q) \in S
         /\ \A i \in 1..Len(Tail(q)) : i + 1 \in 1..Len(q) /\ Tail(q)[i] = q[i + 1]
  OBVIOUS

(* A queue that grows keeps its packets. *)
LEMMA AppendElements ==
  ASSUME NEW S, NEW q \in Seq(S), NEW e \in S
  PROVE  /\ Append(q, e) \in Seq(S) /\ Len(Append(q, e)) = Len(q) + 1
         /\ Append(q, e)[Len(q) + 1] = e
         /\ \A i \in 1..Len(q) : Append(q, e)[i] = q[i]
  OBVIOUS

LEMMA PacketTypes ==
  /\ Syn \in Packet /\ SynAck \in Packet /\ FinalAck \in Packet
  /\ \A k \in Nat : Segment(k) \in Packet
  /\ \A k \in Nat, b \in BOOLEAN : Ack(k, b) \in Packet
  BY DEF Syn, SynAck, FinalAck, Segment, Ack, Packet

(* SendPendingData gives no more segments away than there are. *)
LEMMA SchedulableCount ==
  ASSUME NEW F, NEW avail \in SUBSET Flows, unsent \in Nat, Schedulable(F, avail)
  PROVE  F \in SUBSET Flows /\ unsent - Cardinality(F) \in 0..unsent
<1>1. IsFiniteSet(Flows)
  <2>1. IsFiniteSet(Joins)
    BY SubflowAssumption
  <2>2. Flows = Joins \cup {Master}
    BY DEF Flows
  <2>. QED
    BY <2>1, <2>2, FS_AddElement
<1>2. IsFiniteSet(avail) /\ Cardinality(avail) \in Nat
  BY <1>1, FS_Subset, FS_CardinalityType
<1>. QED
  BY <1>2 DEF Schedulable

-----------------------------------------------------------------------------
(* Types. *)

(* The ways in which the queues change. *)
LEMMA TakeType ==
  ASSUME TypeOK, NEW h \in Hosts, NEW f \in Flows, net[h][f] # << >>
  PROVE  /\ [net EXCEPT ![h][f] = Tail(@)] \in [Hosts -> [Flows -> Seq(Packet)]]
         /\ Head(net[h][f]) \in Packet
  BY TailElements DEF TypeOK

LEMMA PutType ==
  ASSUME NEW queues \in [Hosts -> [Flows -> Seq(Packet)]], NEW h \in Hosts, NEW f \in Flows,
         NEW p \in Packet
  PROVE  [queues EXCEPT ![h][f] = Append(@, p)] \in [Hosts -> [Flows -> Seq(Packet)]]
  BY AppendElements

LEMMA SegmentsType ==
  ASSUME TypeOK, NEW F \in SUBSET Flows, NEW queues \in [Flows -> Seq(Packet)]
  PROVE  WithSegments(F, queues) \in [Flows -> Seq(Packet)]
<1>. SUFFICES ASSUME NEW f \in Flows
     PROVE  (IF f \in F THEN Append(queues[f], Segment(sent[f] + 1)) ELSE queues[f])
              \in Seq(Packet)
  BY DEF WithSegments
<1>1. Segment(sent[f] + 1) \in Packet
  BY PacketTypes DEF TypeOK
<1>. QED
  BY <1>1, AppendElements

LEMMA SendType ==
  ASSUME TypeOK, NEW F, NEW avail \in SUBSET Flows, Schedulable(F, avail), Send(F)
  PROVE  /\ F \in SUBSET Flows
         /\ unsent' \in 0..written /\ sent' \in [Flows -> Nat]
         /\ UNCHANGED <<written, acked, rcvd>>
<1>1. F \in SUBSET Flows /\ unsent - Cardinality(F) \in 0..unsent
  BY SchedulableCount DEF TypeOK
<1>. QED
  BY <1>1, SubflowAssumption DEF Send, TypeOK

LEMMA SendSynType ==
  ASSUME TypeOK, NEW h \in Hosts, NEW f \in Flows,
         NEW queues \in [Hosts -> [Flows -> Seq(Packet)]], SendSyn(h, f, queues)
  PROVE  /\ net' \in [Hosts -> [Flows -> Seq(Packet)]]
         /\ synCount' \in [Hosts -> [Flows -> 0..MaxSyn]]
         /\ stopped' \in SUBSET (Hosts \X Flows)
<1>1. Peer(h) \in Hosts
  BY DEF Peer, Hosts
<1>2. CASE synCount[h][f] = 0
  BY <1>2 DEF SendSyn, TypeOK
<1>3. CASE synCount[h][f] # 0
  <2>1. net' \in [Hosts -> [Flows -> Seq(Packet)]]
    <3>. DEFINE p == IF h = "client" THEN Syn ELSE SynAck
    <3>1. p \in Packet
      BY PacketTypes
    <3>2. net' = [queues EXCEPT ![Peer(h)][f] = Append(@, p)]
      BY <1>3 DEF SendSyn
    <3>. QED
      BY <1>1, <3>1, <3>2, PutType
  <2>2. synCount[h][f] - 1 \in 0..MaxSyn
    BY <1>3, SubflowAssumption DEF TypeOK
  <2>3. synCount' = [synCount EXCEPT ![h][f] = @ - 1] /\ UNCHANGED stopped
    BY <1>3 DEF SendSyn
  <2>4. synCount' \in [Hosts -> [Flows -> 0..MaxSyn]]
    BY <2>2, <2>3 DEF TypeOK
  <2>. QED
    BY <2>1, <2>3, <2>4 DEF TypeOK
<1>. QED
  BY <1>2, <1>3

LEMMA OpenType ==
  ASSUME TypeOK, NEW f \in Flows, NEW queues \in [Hosts -> [Flows -> Seq(Packet)]],
         Open(f, queues)
  PROVE  /\ net' \in [Hosts -> [Flows -> Seq(Packet)]]
         /\ state' \in [Hosts -> [Flows -> SubflowStates]]
         /\ synCount' \in [Hosts -> [Flows -> 0..MaxSyn]]
         /\ subflows' \in [Hosts -> Seq(Flows)]
<1>1. "client" \in Hosts /\ "server" \in Hosts
  BY DEF Hosts
<1>2. net' \in [Hosts -> [Flows -> Seq(Packet)]]
  BY <1>1, PutType, PacketTypes DEF Open
<1>3. state' \in [Hosts -> [Flows -> SubflowStates]]
  BY <1>1 DEF Open, TypeOK, SubflowStates
<1>4. MaxSyn - 1 \in 0..MaxSyn
  BY SubflowAssumption
<1>5. synCount' \in [Hosts -> [Flows -> 0..MaxSyn]]
  BY <1>1, <1>4 DEF Open, TypeOK
<1>6. subflows' \in [Hosts -> Seq(Flows)]
  BY <1>1, AppendElements DEF Open, TypeOK
<1>. QED
  BY <1>2, <1>3, <1>5, <1>6

LEMMA ReceiveType ==
  ASSUME TypeOK, NEW f \in Flows, net["server"][f] # << >>,
         Receive(f, Head(net["server"][f]))
  PROVE  /\ net' \in [Hosts -> [Flows -> Seq(Packet)]]
         /\ fully' \in [Hosts -> BOOLEAN] /\ rcvd' \in [Flows -> Nat]
         /\ UNCHANGED <<unsent, written, sent, acked>>
<1>. DEFINE p == Head(net["server"][f])
            taken == [net EXCEPT !["server"][f] = Tail(@)]
<1>1. "client" \in Hosts /\ "server" \in Hosts
  BY DEF Hosts
<1>2. taken \in [Hosts -> [Flows -> Seq(Packet)]] /\ p \in Packet
  BY <1>1, TakeType
<1>3. rcvd' \in [Flows -> Nat] /\ fully' \in [Hosts -> BOOLEAN]
  BY <1>1, <1>2 DEF Receive, TypeOK, Packet
<1>4. Ack(rcvd'[f], fully'["server"]) \in Packet
  BY <1>1, <1>3, PacketTypes
<1>5. CASE p.seg = 0
  <2>1. net' = taken
    BY <1>1, <1>2, <1>5 DEF Receive, TypeOK
  <2>. QED
    BY <1>2, <1>3, <2>1 DEF Receive
<1>6. CASE p.seg # 0
  <2>1. net' = [taken EXCEPT !["client"][f] = Append(@, Ack(rcvd'[f], fully'["server"]))]
    BY <1>1, <1>6 DEF Receive
  <2>2. net' \in [Hosts -> [Flows -> Seq(Packet)]]
    BY <1>1, <1>2, <1>4, <2>1, PutType
  <2>. QED
    BY <1>3, <2>2 DEF Receive
<1>. QED
  BY <1>5, <1>6

LEMMA TypeInit == Init => TypeOK
<1>. SUFFICES ASSUME Init PROVE TypeOK
  OBVIOUS
<1>. QED
  BY SubflowAssumption DEF Init, TypeOK, Hosts, Flows, SubflowStates

(* Every step keeps the types; one case for each action. *)
LEMMA TypeStep == TypeOK /\ [Next]_vars => TypeOK'
<1>. SUFFICES ASSUME TypeOK, [Next]_vars PROVE TypeOK'
  OBVIOUS
<1>. USE DEF Hosts
<1>1. CASE UNCHANGED vars
  BY <1>1 DEF vars, meta, data, TypeOK
<1>2. CASE Connect
  <2>1. net \in [Hosts -> [Flows -> Seq(Packet)]] /\ Master \in Flows
    BY DEF TypeOK, Flows
  <2>2. Open(Master, net)
    BY <1>2 DEF Connect
  <2>3. metaState' \in [Hosts -> {"Closed", "Listening", "PreEstablished", "Established"}]
    BY <1>2 DEF Connect, TypeOK
  <2>. QED
    BY <1>2, <2>1, <2>2, <2>3, OpenType DEF Connect, TypeOK, data
<1>3. ASSUME NEW f \in Joins, ConnectNewSubflow(f) PROVE TypeOK'
  <2>1. net \in [Hosts -> [Flows -> Seq(Packet)]] /\ f \in Flows
    BY DEF TypeOK, Flows
  <2>2. Open(f, net)
    BY <1>3 DEF ConnectNewSubflow
  <2>. QED
    BY <1>3, <2>1, <2>2, OpenType DEF ConnectNewSubflow, TypeOK, data
<1>4. ASSUME NEW f \in Flows, ServerListen(f) PROVE TypeOK'
  <2>. DEFINE taken == [net EXCEPT !["server"][f] = Tail(@)]
  <2>1. taken \in [Hosts -> [Flows -> Seq(Packet)]]
    BY <1>4, TakeType DEF ServerListen, Arrives
  <2>2. CASE f \in Joins /\ ~fully["server"]
    BY <1>4, <2>1, <2>2 DEF ServerListen, TypeOK, meta, data
  <2>3. CASE ~(f \in Joins /\ ~fully["server"])
    <3>1. net' = [taken EXCEPT !["client"][f] = Append(@, SynAck)]
      BY <1>4, <2>3 DEF ServerListen
    <3>2. net' \in [Hosts -> [Flows -> Seq(Packet)]]
      BY <2>1, <3>1, PutType, PacketTypes
    <3>8. /\ state' = [state EXCEPT !["server"][f] = "SYN_RCVD"]
          /\ synCount' = [synCount EXCEPT !["server"][f] = MaxSyn - 1]
          /\ subflows' = [subflows EXCEPT !["server"] = Append(@, f)]
      BY <1>4, <2>3 DEF ServerListen, JoinsMeta
    <3>9. active' = active
      BY <1>4, <2>3 DEF ServerListen, JoinsMeta
    <3>3. state' \in [Hosts -> [Flows -> SubflowStates]]
      BY <3>8 DEF TypeOK, SubflowStates
    <3>4. MaxSyn - 1 \in 0..MaxSyn
      BY SubflowAssumption
    <3>5. synCount' \in [Hosts -> [Flows -> 0..MaxSyn]]
      BY <3>8, <3>4 DEF TypeOK
    <3>6. subflows' \in [Hosts -> Seq(Flows)]
      BY <3>8, AppendElements DEF TypeOK
    <3>7. metaState' \in [Hosts -> {"Closed", "Listening", "PreEstablished", "Established"}]
      BY SMTT(30), <1>4, <2>3 DEF ServerListen, TypeOK
    <3>. QED
      BY <1>4, <2>3, <3>2, <3>3, <3>5, <3>6, <3>7, <3>9
         DEF ServerListen, TypeOK, data
  <2>. QED
    BY <2>2, <2>3
<1>5. ASSUME NEW f \in Flows, ServerSynAgain(f) PROVE TypeOK'
  <2>1. [net EXCEPT !["server"][f] = Tail(@)] \in [Hosts -> [Flows -> Seq(Packet)]]
    BY <1>5, TakeType DEF ServerSynAgain, Arrives
  <2>. QED
    BY <1>5, <2>1, SendSynType DEF ServerSynAgain, TypeOK, meta, data
<1>6. ASSUME NEW f \in Flows, ServerEstablish(f) PROVE TypeOK'
  <2>1. state' \in [Hosts -> [Flows -> SubflowStates]]
    BY <1>6 DEF ServerEstablish, TypeOK, SubflowStates
  <2>2. active' \in [Hosts -> Seq(Flows)]
    BY <1>6, AppendElements DEF ServerEstablish, TypeOK
  <2>3. metaState' \in [Hosts -> {"Closed", "Listening", "PreEstablished", "Established"}]
    BY <1>6 DEF ServerEstablish, TypeOK
  <2>. QED
    BY <1>6, <2>1, <2>2, <2>3, ReceiveType DEF ServerEstablish, Arrives, TypeOK
<1>7. ASSUME NEW f \in Flows, ServerReceive(f) PROVE TypeOK'
  BY <1>7, ReceiveType DEF ServerReceive, TypeOK
<1>8. ASSUME NEW f \in Flows, NEW F \in SUBSET Flows, ClientEstablish(f, F) PROVE TypeOK'
  <2>. DEFINE behind == [net["server"] EXCEPT ![f] = Append(@, FinalAck)]
  <2>1. Available(active'["client"], state'["client"]) \in SUBSET Flows
    BY DEF Available
  <2>2. unsent' \in 0..written /\ sent' \in [Flows -> Nat] /\ UNCHANGED <<written, acked, rcvd>>
    BY <1>8, <2>1, SendType DEF ClientEstablish
  <2>3. behind \in [Flows -> Seq(Packet)]
    BY PacketTypes, AppendElements DEF TypeOK
  <2>4. WithSegments(F, behind) \in [Flows -> Seq(Packet)]
    BY <2>3, SegmentsType
  <2>5. [net["client"] EXCEPT ![f] = Tail(@)] \in [Flows -> Seq(Packet)]
    BY <1>8, TailElements DEF ClientEstablish, Arrives, TypeOK
  <2>6. net' \in [Hosts -> [Flows -> Seq(Packet)]]
    <3>1. net' = [h \in Hosts |-> IF h = "client" THEN [net["client"] EXCEPT ![f] = Tail(@)]
                                  ELSE WithSegments(F, behind)]
      BY <1>8 DEF ClientEstablish
    <3>. QED
      BY <2>4, <2>5, <3>1
  <2>7. state' \in [Hosts -> [Flows -> SubflowStates]]
    BY <1>8 DEF ClientEstablish, TypeOK, SubflowStates
  <2>8. active' \in [Hosts -> Seq(Flows)]
    BY <1>8, AppendElements DEF ClientEstablish, TypeOK
  <2>9. metaState' \in [Hosts -> {"Closed", "Listening", "PreEstablished", "Established"}]
    BY <1>8 DEF ClientEstablish, TypeOK
  <2>. QED
    BY <1>8, <2>2, <2>6, <2>7, <2>8, <2>9 DEF ClientEstablish, TypeOK
<1>9. ASSUME NEW f \in Flows, ClientSynAckAgain(f) PROVE TypeOK'
  BY <1>9, TakeType DEF ClientSynAckAgain, Arrives, TypeOK, meta, data
<1>10. ASSUME NEW f \in Flows, Acknowledge(f)
       PROVE  acked' \in [Flows -> Nat] /\ fully' \in [Hosts -> BOOLEAN]
  <2>1. Head(net["client"][f]) \in Packet
    BY <1>10, TakeType DEF Acknowledge, Arrives
  <2>. QED
    BY <1>10, <2>1 DEF Acknowledge, TypeOK, Packet
<1>11. ASSUME NEW f \in Flows, ClientAck(f) PROVE TypeOK'
  <2>1. net' \in [Hosts -> [Flows -> Seq(Packet)]]
    BY <1>11, TakeType DEF ClientAck, Acknowledge, Arrives
  <2>. QED
    BY <1>10, <1>11, <2>1 DEF ClientAck, Acknowledge, TypeOK
<1>12. ASSUME NEW f \in Flows, NEW j \in Joins, ClientAckJoin(f, j) PROVE TypeOK'
  <2>1. [net EXCEPT !["client"][f] = Tail(@)] \in [Hosts -> [Flows -> Seq(Packet)]]
    BY <1>12, TakeType DEF ClientAckJoin, Acknowledge, Arrives
  <2>2. j \in Flows
    BY DEF Flows
  <2>. QED
    BY <1>10, <1>12, <2>1, <2>2, OpenType DEF ClientAckJoin, Acknowledge, TypeOK
<1>13. ASSUME NEW f \in Flows, DataTimeout(f) PROVE TypeOK'
  <2>1. Segment(sent[f]) \in Packet /\ net \in [Hosts -> [Flows -> Seq(Packet)]]
    BY PacketTypes DEF TypeOK
  <2>2. net' \in [Hosts -> [Flows -> Seq(Packet)]]
    BY <1>13, <2>1, PutType DEF DataTimeout
  <2>. QED
    BY <1>13, <2>2 DEF DataTimeout, TypeOK, meta, data
<1>14. ASSUME NEW h \in Hosts, NEW f \in Flows, SynTimeout(h, f) PROVE TypeOK'
  <2>1. faults' \in [Flows -> Nat] /\ left' \in 0..MaxFaults
    <3>1. CASE InFlight(f)
      <4>1. Fault(f)
        BY <1>14, <3>1 DEF SynTimeout
      <4>. QED
        BY SMTT(30), <4>1, SubflowAssumption DEF Fault, TypeOK
    <3>2. CASE ~InFlight(f)
      BY <1>14, <3>2 DEF SynTimeout, TypeOK
    <3>. QED
      BY <3>1, <3>2
  <2>2. net \in [Hosts -> [Flows -> Seq(Packet)]] /\ SendSyn(h, f, net)
    BY <1>14 DEF SynTimeout, TypeOK
  <2>3. UNCHANGED <<meta, state, data>>
    BY <1>14 DEF SynTimeout
  <2>. QED
    BY <2>1, <2>2, <2>3, SendSynType DEF TypeOK, meta, data
<1>15. ASSUME NEW h \in Hosts, NEW f \in Flows, Lose(h, f) PROVE TypeOK'
  <2>1. faults' \in [Flows -> Nat] /\ left' \in 0..MaxFaults
    <3>1. /\ left > 0 /\ left' = left - 1
          /\ faults' = [faults EXCEPT ![f] = @ + 1]
      BY <1>15 DEF Lose, Fault
    <3>2. left \in 0..MaxFaults /\ faults \in [Flows -> Nat] /\ MaxFaults \in Nat
      BY SubflowAssumption DEF TypeOK
    <3>. QED
      BY <3>1, <3>2
  <2>2. net' \in [Hosts -> [Flows -> Seq(Packet)]]
    BY <1>15, TakeType DEF Lose
  <2>. QED
    BY <1>15, <2>1, <2>2 DEF Lose, TypeOK, meta, data
<1>16. CASE Write
  <2>1. MaxData \in Nat /\ written \in Nat /\ unsent \in Nat /\ unsent <= written
    BY SubflowAssumption DEF TypeOK
  <2>2. written < MaxData /\ written' = written + 1 /\ unsent' = unsent + 1
    BY <1>16 DEF Write
  <2>3. written' \in 0..MaxData /\ unsent' \in 0..written'
    BY <2>1, <2>2
  <2>. QED
    BY <1>16, <2>3 DEF Write, TypeOK, meta
<1>17. ASSUME NEW F \in SUBSET Flows, SendPendingData(F) PROVE TypeOK'
  <2>1. Available(active["client"], state["client"]) \in SUBSET Flows
    BY DEF Available
  <2>2. unsent' \in 0..written /\ sent' \in [Flows -> Nat] /\ UNCHANGED <<written, acked, rcvd>>
    BY <1>17, <2>1, SendType DEF SendPendingData
  <2>3. net' \in [Hosts -> [Flows -> Seq(Packet)]]
    BY <1>17, SegmentsType DEF SendPendingData, TypeOK
  <2>. QED
    BY <1>17, <2>2, <2>3 DEF SendPendingData, TypeOK, meta
<1>. QED
  BY <1>1, <1>2, <1>3, <1>4, <1>5, <1>6, <1>7, <1>8, <1>9, <1>11, <1>12, <1>13, <1>14, <1>15,
     <1>16, <1>17 DEF Next, ServerStep, ClientStep

(* The lists, states, counters and queues always are what the code takes   *)
(* them to be; above all, no m_synCount goes below zero.                   *)
THEOREM TypeCorrect == Spec => []TypeOK
  BY TypeInit, TypeStep, PTL DEF Spec
-----------------------------------------------------------------------------
(* Both ends. *)

LEMMA TailOn ==
  ASSUME NEW S, NEW q \in Seq(S), q # << >>
  PROVE  Head(q) \in On(q) /\ On(Tail(q)) \subseteq On(q)
<1>1. Head(q) = q[1] /\ 1 \in 1..Len(q)
  OBVIOUS
<1>2. \A i \in 1..Len(Tail(q)) : i + 1 \in 1..Len(q) /\ Tail(q)[i] = q[i + 1]
  BY TailElements
<1>. QED
  BY <1>1, <1>2 DEF On

LEMMA AppendOn ==
  ASSUME NEW S, NEW q \in Seq(S), NEW e \in S
  PROVE  On(Append(q, e)) \subseteq On(q) \cup {e}
<1>. SUFFICES ASSUME NEW i \in 1..Len(Append(q, e)) PROVE Append(q, e)[i] \in On(q) \cup {e}
  BY DEF On
<1>1. i \in 1..Len(q) \/ i = Len(q) + 1
  BY AppendElements
<1>. QED
  BY <1>1, AppendElements DEF On

(* The new queues hold, but for what is in fresh, no packet the old do not. *)
OnlyFresh(h, f, fresh) == On(net'[h][f]) \subseteq On(net[h][f]) \cup fresh

LEMMA TakeOn ==
  ASSUME TypeOK, NEW h \in Hosts, NEW f \in Flows, net[h][f] # << >>,
         net' = [net EXCEPT ![h][f] = Tail(@)]
  PROVE  \A k \in Hosts, g \in Flows : OnlyFresh(k, g, {})
<1>1. On(net'[h][f]) \subseteq On(net[h][f])
  BY TailOn DEF TypeOK
<1>2. \A k \in Hosts, g \in Flows : <<k, g>> # <<h, f>> => net'[k][g] = net[k][g]
  BY DEF TypeOK
<1>. QED
  BY <1>1, <1>2 DEF OnlyFresh

LEMMA PutOn ==
  ASSUME TypeOK, NEW h \in Hosts, NEW f \in Flows, NEW e \in Packet,
         net' = [net EXCEPT ![h][f] = Append(@, e)]
  PROVE  /\ OnlyFresh(h, f, {e})
         /\ \A k \in Hosts, g \in Flows : <<k, g>> # <<h, f>> => OnlyFresh(k, g, {})
<1>1. On(net'[h][f]) \subseteq On(net[h][f]) \cup {e}
  BY AppendOn DEF TypeOK
<1>2. \A k \in Hosts, g \in Flows : <<k, g>> # <<h, f>> => net'[k][g] = net[k][g]
  BY DEF TypeOK
<1>. QED
  BY <1>1, <1>2 DEF OnlyFresh

(* A packet is taken at h and another put on the way to k, on subflow g. *)
LEMMA TakePutOn ==
  ASSUME TypeOK, NEW h \in Hosts, NEW f \in Flows, net[h][f] # << >>,
         NEW k \in Hosts, NEW g \in Flows, k # h, NEW e \in Packet,
         net' = [net EXCEPT ![h][f] = Tail(@), ![k][g] = Append(@, e)]
  PROVE  /\ OnlyFresh(k, g, {e})
         /\ \A l \in Hosts, i \in Flows : <<l, i>> # <<k, g>> => OnlyFresh(l, i, {})
<1>4. /\ net[h] \in [Flows -> Seq(Packet)] /\ net[k] \in [Flows -> Seq(Packet)]
      /\ net'[h] = [net[h] EXCEPT ![f] = Tail(@)]
      /\ net'[k] = [net[k] EXCEPT ![g] = Append(@, e)]
  BY DEF TypeOK
<1>5. /\ net[h][f] \in Seq(Packet) /\ net'[h][f] = Tail(net[h][f])
      /\ net[k][g] \in Seq(Packet) /\ net'[k][g] = Append(net[k][g], e)
  BY <1>4
<1>1. On(net'[h][f]) \subseteq On(net[h][f])
  <2>1. On(Tail(net[h][f])) \subseteq On(net[h][f])
    BY <1>5, TailOn
  <2>. QED
    BY <1>5, <2>1
<1>2. On(net'[k][g]) \subseteq On(net[k][g]) \cup {e}
  <2>1. On(Append(net[k][g], e)) \subseteq On(net[k][g]) \cup {e}
    BY <1>5, AppendOn
  <2>. QED
    BY <1>5, <2>1
<1>3. \A l \in Hosts, i \in Flows :
        <<l, i>> \notin {<<h, f>>, <<k, g>>} => net'[l][i] = net[l][i]
  BY DEF TypeOK
<1>. QED
  BY <1>1, <1>2, <1>3 DEF OnlyFresh

LEMMA PacketFields ==
  /\ Syn.flag = "SYN" /\ ~Syn.dss /\ SynAck.flag = "SYN+ACK" /\ ~SynAck.dss
  /\ FinalAck.flag = "ACK" /\ ~FinalAck.dss
  /\ \A k \in Nat : Segment(k).flag = "ACK"
  /\ \A k \in Nat, b \in BOOLEAN : Ack(k, b).flag = "ACK" /\ Ack(k, b).dss = b
  BY DEF Syn, SynAck, FinalAck, Segment, Ack

(* SendSyn puts the handshake's packet of its host on the way, or nothing. *)
LEMMA SendSynOn ==
  ASSUME TypeOK, NEW h \in Hosts, NEW f \in Flows, SendSyn(h, f, net)
  PROVE  /\ h = "client" => /\ \A g \in Flows : OnlyFresh("server", g, {Syn})
                            /\ \A g \in Flows : OnlyFresh("client", g, {})
         /\ h = "server" => /\ \A g \in Flows : OnlyFresh("server", g, {})
                            /\ OnlyFresh("client", f, {SynAck})
                            /\ \A g \in Flows \ {f} : OnlyFresh("client", g, {})
<1>. DEFINE p == IF h = "client" THEN Syn ELSE SynAck
<1>1. CASE net' = net
  BY <1>1 DEF OnlyFresh
<1>2. CASE net' = [net EXCEPT ![Peer(h)][f] = Append(@, p)]
  <2>1. Peer(h) \in Hosts /\ p \in Packet
    BY PacketTypes DEF Peer, Hosts
  <2>2. /\ OnlyFresh(Peer(h), f, {p})
        /\ \A k \in Hosts, g \in Flows : <<k, g>> # <<Peer(h), f>> => OnlyFresh(k, g, {})
    BY <1>2, <2>1, PutOn
  <2>3. CASE h = "client"
    BY <2>2, <2>3 DEF Peer, Hosts, OnlyFresh
  <2>4. CASE h = "server"
    BY <2>2, <2>4 DEF Peer, Hosts, OnlyFresh
  <2>. QED
    BY <2>3, <2>4
<1>. QED
  BY <1>1, <1>2 DEF SendSyn

(* The queues to the server with the segments of F behind. *)
LEMMA SegmentsOn ==
  ASSUME TypeOK, NEW F \in SUBSET Flows, NEW queues \in [Flows -> Seq(Packet)], NEW g \in Flows
  PROVE  On(WithSegments(F, queues)[g]) \subseteq
           On(queues[g]) \cup (IF g \in F THEN {Segment(sent[g] + 1)} ELSE {})
<1>1. Segment(sent[g] + 1) \in Packet /\ queues[g] \in Seq(Packet)
  BY PacketTypes DEF TypeOK
<1>2. CASE g \in F
  <2>1. WithSegments(F, queues)[g] = Append(queues[g], Segment(sent[g] + 1))
    BY <1>2 DEF WithSegments
  <2>. QED
    BY <1>1, <1>2, <2>1, AppendOn
<1>3. CASE g \notin F
  BY <1>3 DEF WithSegments
<1>. QED
  BY <1>2, <1>3

(* A step that changes no state and takes packets away. *)
LEMMA OnlyTaken ==
  ASSUME IInv, UNCHANGED <<state, fully>>,
         \A h \in Hosts, f \in Flows : OnlyFresh(h, f, {})
  PROVE  IInv'
<1>1. \A h \in Hosts, f \in Flows : On(net'[h][f]) \subseteq On(net[h][f])
  BY DEF OnlyFresh
<1>2. EndStates' /\ FullyInOrder' /\ PeerAgrees'
  BY DEF IInv, EndStates, FullyInOrder, PeerAgrees
<1>3. ToServer'
  BY <1>1 DEF IInv, ToServer, Hosts
<1>4. ToClient'
  BY <1>1 DEF IInv, ToClient, Hosts
<1>. QED
  BY <1>2, <1>3, <1>4 DEF IInv

(* The client opens f: only a SYN is new, and nothing else was on that     *)
(* path from the client.                                                   *)
LEMMA OpenStep ==
  ASSUME IInv, TypeOK, NEW f \in Flows, state["client"][f] = "CLOSED",
         state' = [state EXCEPT !["client"][f] = "SYN_SENT"],
         fully["server"]' = fully["server"],
         fully["client"] => fully["client"]', fully["client"]' => fully["server"],
         f \in Joins => fully["client"]',
         \A g \in Flows : OnlyFresh("server", g, {Syn}) /\ OnlyFresh("client", g, {})
  PROVE  IInv'
<1>1. /\ \A g \in Flows : On(net'["server"][g]) \subseteq On(net["server"][g]) \cup {Syn}
      /\ \A g \in Flows : On(net'["client"][g]) \subseteq On(net["client"][g])
  BY DEF OnlyFresh
<1>2. /\ state'["server"] = state["server"]
      /\ state'["client"][f] = "SYN_SENT"
      /\ \A g \in Flows \ {f} : state'["client"][g] = state["client"][g]
  BY DEF TypeOK, Hosts
<1>3. EndStates' /\ PeerAgrees'
  BY <1>2 DEF IInv, EndStates, PeerAgrees
<1>4. ToServer'
  BY <1>1, <1>2, PacketFields DEF IInv, ToServer
<1>5. ToClient'
  BY <1>1, <1>2 DEF IInv, ToClient
<1>6. FullyInOrder'
  BY <1>2, SubflowAssumption DEF IInv, FullyInOrder, Flows
<1>. QED
  BY <1>3, <1>4, <1>5, <1>6 DEF IInv

(* A step that changes nothing at the client but adds an acknowledgement   *)
(* of the server, with a DSS if the server is fully established.           *)
LEMMA ReceiveStep ==
  ASSUME IInv, TypeOK, NEW f \in Flows, net["server"][f] # << >>,
         Receive(f, Head(net["server"][f])),
         state'["client"] = state["client"],
         state["server"][f] = "SYN_RCVD" => Head(net["server"][f]).flag = "ACK",
         state["server"][f] # "LISTEN",
         state' = [state EXCEPT !["server"][f] = "ESTABLISHED"]
  PROVE  IInv'
<1>. DEFINE p == Head(net["server"][f])
            a == Ack(rcvd'[f], fully'["server"])
<1>1. "client" \in Hosts /\ "server" \in Hosts
  BY DEF Hosts
<1>2. p \in On(net["server"][f]) /\ p \in Packet
  <2>1. net["server"][f] \in Seq(Packet)
    BY <1>1 DEF TypeOK
  <2>. QED
    BY <1>1, <2>1, TailOn, TailElements
<1>3. /\ fully'["client"] = fully["client"] /\ fully'["server"] = (fully["server"] \/ p.dss)
      /\ fully'["server"] \in BOOLEAN
  BY <1>1, <1>2 DEF Receive, TypeOK, Packet
<1>4. rcvd'[f] \in Nat
  BY ReceiveType
<1>5. a \in Packet /\ a.dss = fully'["server"]
  BY <1>3, <1>4, PacketTypes, PacketFields
<1>6. \A g \in Flows : /\ OnlyFresh("server", g, {})
                       /\ OnlyFresh("client", g, IF g = f THEN {a} ELSE {})
  <2>1. CASE p.seg = 0
    <3>1. net' = [net EXCEPT !["server"][f] = Tail(@)]
      BY <1>1, <2>1 DEF Receive, TypeOK
    <3>. QED
      BY <1>1, <3>1, TakeOn DEF OnlyFresh
  <2>2. CASE p.seg # 0
    <3>1. net' = [net EXCEPT !["server"][f] = Tail(@), !["client"][f] = Append(@, a)]
      BY <1>1, <2>2 DEF Receive
    <3>2. /\ OnlyFresh("client", f, {a})
          /\ \A k \in Hosts, g \in Flows : <<k, g>> # <<"client", f>> => OnlyFresh(k, g, {})
      <4>1. PICK e \in Packet : e = a
        BY <1>5
      <4>2. net' = [net EXCEPT !["server"][f] = Tail(@), !["client"][f] = Append(@, e)]
        BY <3>1, <4>1
      <4>3. /\ OnlyFresh("client", f, {e})
            /\ \A k \in Hosts, g \in Flows : <<k, g>> # <<"client", f>> => OnlyFresh(k, g, {})
        BY <1>1, <4>2, TakePutOn
      <4>. QED
        BY <4>1, <4>3
    <3>. QED
      BY <1>1, <3>2
  <2>. QED
    BY <2>1, <2>2
<1>7. /\ \A g \in Flows : On(net'["server"][g]) \subseteq On(net["server"][g])
      /\ \A g \in Flows \ {f} : On(net'["client"][g]) \subseteq On(net["client"][g])
      /\ On(net'["client"][f]) \subseteq On(net["client"][f]) \cup {a}
  BY <1>6 DEF OnlyFresh
<1>8. /\ state'["server"][f] = "ESTABLISHED"
      /\ \A g \in Flows \ {f} : state'["server"][g] = state["server"][g]
  BY <1>1 DEF TypeOK
<1>9. p.dss => state["client"][Master] = "ESTABLISHED"
  <2>1. p.dss => state["client"][f] = "ESTABLISHED"
    BY <1>2 DEF IInv, ToServer
  <2>. QED
    BY <2>1 DEF IInv, FullyInOrder, Flows
<1>10. state["client"][f] = "ESTABLISHED"
  BY <1>2 DEF IInv, EndStates, ToServer, PeerAgrees
<1>11. EndStates' /\ PeerAgrees'
  BY <1>8, <1>10 DEF IInv, EndStates, PeerAgrees
<1>12. ToServer'
  BY <1>7 DEF IInv, ToServer
<1>13. ToClient'
  BY <1>3, <1>5, <1>7, <1>8 DEF IInv, ToClient
<1>14. FullyInOrder'
  BY <1>3, <1>9 DEF IInv, FullyInOrder
<1>. QED
  BY <1>11, <1>12, <1>13, <1>14 DEF IInv

(* A step of the client that only sends segments on established subflows. *)
LEMMA SegmentsStep ==
  ASSUME IInv, NEW f \in Flows, UNCHANGED fully,
         state'["server"] = state["server"],
         \A g \in Flows \ {f} : state'["client"][g] = state["client"][g],
         state'["client"][f] = state["client"][f]
           \/ (state["client"][f] = "SYN_SENT" /\ state'["client"][f] = "ESTABLISHED"
                /\ state["server"][f] # "LISTEN"),
         \A g \in Flows : OnlyFresh("client", g, {}),
         \A g \in Flows : \A p \in On(net'["server"][g]) :
           \/ p \in On(net["server"][g])
           \/ p.flag = "ACK" /\ state'["client"][g] = "ESTABLISHED"
  PROVE  IInv'
<1>1. \A g \in Flows : /\ state["client"][g] = "ESTABLISHED" => state'["client"][g] = "ESTABLISHED"
                       /\ state["client"][g] = "CLOSED" <=> state'["client"][g] = "CLOSED"
  <2>. SUFFICES ASSUME NEW g \in Flows
       PROVE  /\ state["client"][g] = "ESTABLISHED" => state'["client"][g] = "ESTABLISHED"
              /\ state["client"][g] = "CLOSED" <=> state'["client"][g] = "CLOSED"
    OBVIOUS
  <2>1. CASE g = f
    BY <2>1
  <2>2. CASE g # f
    BY <2>2
  <2>. QED
    BY <2>1, <2>2
<1>2. EndStates' /\ PeerAgrees'
  BY DEF IInv, EndStates, PeerAgrees
<1>3. ToServer'
  BY <1>1 DEF IInv, ToServer
<1>4. ToClient'
  BY DEF IInv, ToClient, OnlyFresh
<1>5. FullyInOrder'
  BY <1>1 DEF IInv, FullyInOrder, Flows
<1>. QED
  BY <1>2, <1>3, <1>4, <1>5 DEF IInv

LEMMA IInvInit == Init => IInv
<1>. SUFFICES ASSUME Init PROVE IInv
  OBVIOUS
<1>1. /\ \A f \in Flows : state["client"][f] = "CLOSED" /\ state["server"][f] = "LISTEN"
      /\ ~fully["client"] /\ ~fully["server"]
      /\ \A h \in Hosts, f \in Flows : net[h][f] = << >>
  BY DEF Init, Hosts
<1>2. \A h \in Hosts, f \in Flows : On(net[h][f]) = {}
  BY <1>1 DEF On
<1>3. ToServer /\ ToClient
  BY <1>2 DEF ToServer, ToClient, Hosts
<1>4. EndStates /\ FullyInOrder /\ PeerAgrees
  BY <1>1 DEF EndStates, FullyInOrder, PeerAgrees, Flows
<1>. QED
  BY <1>3, <1>4 DEF IInv

(* Every step keeps the invariant; one case for each action. *)
LEMMA IInvStep == IInv /\ TypeOK /\ [Next]_vars => IInv'
<1>. SUFFICES ASSUME IInv, TypeOK, [Next]_vars PROVE IInv'
  OBVIOUS
<1>0. "client" \in Hosts /\ "server" \in Hosts /\ Master \in Flows /\ Joins \subseteq Flows
  BY DEF Hosts, Flows
<1>1. CASE UNCHANGED vars
  <2>1. UNCHANGED <<state, fully, net>>
    BY <1>1 DEF vars, meta
  <2>. QED
    BY <2>1, OnlyTaken DEF OnlyFresh
<1>2. CASE Connect
  <2>1. /\ state["client"][Master] = "CLOSED" /\ UNCHANGED fully
        /\ state' = [state EXCEPT !["client"][Master] = "SYN_SENT"]
        /\ net' = [net EXCEPT !["server"][Master] = Append(@, Syn)]
    BY <1>2 DEF Connect, Open
  <2>2. \A g \in Flows : OnlyFresh("server", g, {Syn}) /\ OnlyFresh("client", g, {})
    BY <1>0, <2>1, PacketTypes, PutOn DEF OnlyFresh
  <2>3. Master \notin Joins /\ (fully["client"] => fully["server"])
    BY SubflowAssumption DEF IInv, FullyInOrder
  <2>. QED
    BY <1>0, <2>1, <2>2, <2>3, OpenStep
<1>3. ASSUME NEW f \in Joins, ConnectNewSubflow(f) PROVE IInv'
  <2>1. /\ state["client"][f] = "CLOSED" /\ fully["client"] /\ UNCHANGED fully
        /\ state' = [state EXCEPT !["client"][f] = "SYN_SENT"]
        /\ net' = [net EXCEPT !["server"][f] = Append(@, Syn)]
    BY <1>3 DEF ConnectNewSubflow, Joinable, MayJoin, Open
  <2>2. \A g \in Flows : OnlyFresh("server", g, {Syn}) /\ OnlyFresh("client", g, {})
    BY <1>0, <2>1, PacketTypes, PutOn DEF OnlyFresh
  <2>3. fully["server"]
    BY <2>1 DEF IInv, FullyInOrder
  <2>. QED
    BY <1>0, <2>1, <2>2, <2>3, OpenStep
<1>4. ASSUME NEW f \in Flows, ServerListen(f) PROVE IInv'
  <2>1. net["server"][f] # << >> /\ state["server"][f] = "LISTEN" /\ UNCHANGED fully
    BY <1>4 DEF ServerListen, Arrives, meta
  <2>2. CASE f \in Joins /\ ~fully["server"]
    <3>1. net' = [net EXCEPT !["server"][f] = Tail(@)] /\ UNCHANGED state
      BY <1>4, <2>2 DEF ServerListen
    <3>. QED
      BY <1>0, <2>1, <3>1, TakeOn, OnlyTaken
  <2>3. CASE ~(f \in Joins /\ ~fully["server"])
    <3>1. /\ state' = [state EXCEPT !["server"][f] = "SYN_RCVD"]
          /\ net' = [net EXCEPT !["server"][f] = Tail(@), !["client"][f] = Append(@, SynAck)]
      BY <1>4, <2>3 DEF ServerListen
    <3>2. /\ OnlyFresh("client", f, {SynAck})
          /\ \A k \in Hosts, g \in Flows : <<k, g>> # <<"client", f>> => OnlyFresh(k, g, {})
      BY <1>0, <2>1, <3>1, PacketTypes, TakePutOn
    <3>3. /\ \A g \in Flows : On(net'["server"][g]) \subseteq On(net["server"][g])
          /\ \A g \in Flows \ {f} : On(net'["client"][g]) \subseteq On(net["client"][g])
          /\ On(net'["client"][f]) \subseteq On(net["client"][f]) \cup {SynAck}
      BY <1>0, <3>2 DEF OnlyFresh
    <3>4. /\ state'["client"] = state["client"] /\ state'["server"][f] = "SYN_RCVD"
          /\ \A g \in Flows \ {f} : state'["server"][g] = state["server"][g]
      BY <1>0, <3>1 DEF TypeOK
    <3>5. EndStates' /\ PeerAgrees' /\ FullyInOrder'
      BY <2>1, <3>4 DEF IInv, EndStates, PeerAgrees, FullyInOrder
    <3>6. ToServer'
      BY <3>3, <3>4 DEF IInv, ToServer
    <3>7. ToClient'
      BY <2>1, <3>3, <3>4, PacketFields DEF IInv, ToClient
    <3>. QED
      BY <3>5, <3>6, <3>7 DEF IInv
  <2>. QED
    BY <2>2, <2>3
<1>5. ASSUME NEW f \in Flows, ServerSynAgain(f) PROVE IInv'
  <2>. DEFINE taken == [net EXCEPT !["server"][f] = Tail(@)]
  <2>1. /\ net["server"][f] # << >> /\ state["server"][f] = "SYN_RCVD"
        /\ UNCHANGED <<state, fully>> /\ SendSyn("server", f, taken)
    BY <1>5 DEF ServerSynAgain, Arrives, meta
  <2>2. CASE net' = taken
    BY <1>0, <2>1, <2>2, TakeOn, OnlyTaken
  <2>3. CASE net' = [taken EXCEPT !["client"][f] = Append(@, SynAck)]
    <3>1. net' = [net EXCEPT !["server"][f] = Tail(@), !["client"][f] = Append(@, SynAck)]
      BY <2>3
    <3>2. /\ OnlyFresh("client", f, {SynAck})
          /\ \A k \in Hosts, g \in Flows : <<k, g>> # <<"client", f>> => OnlyFresh(k, g, {})
      BY <1>0, <2>1, <3>1, PacketTypes, TakePutOn
    <3>3. /\ \A g \in Flows : On(net'["server"][g]) \subseteq On(net["server"][g])
          /\ \A g \in Flows \ {f} : On(net'["client"][g]) \subseteq On(net["client"][g])
          /\ On(net'["client"][f]) \subseteq On(net["client"][f]) \cup {SynAck}
      BY <1>0, <3>2 DEF OnlyFresh
    <3>4. EndStates' /\ PeerAgrees' /\ FullyInOrder' /\ ToServer'
      BY <2>1, <3>3 DEF IInv, EndStates, PeerAgrees, FullyInOrder, ToServer
    <3>5. ToClient'
      BY <2>1, <3>3, PacketFields DEF IInv, ToClient
    <3>. QED
      BY <3>4, <3>5 DEF IInv
  <2>. QED
    BY <2>1, <2>2, <2>3 DEF SendSyn, Peer
<1>6. ASSUME NEW f \in Flows, ServerEstablish(f) PROVE IInv'
  <2>1. /\ net["server"][f] # << >> /\ Head(net["server"][f]).flag = "ACK"
        /\ state["server"][f] = "SYN_RCVD" /\ Receive(f, Head(net["server"][f]))
        /\ state' = [state EXCEPT !["server"][f] = "ESTABLISHED"]
    BY <1>6 DEF ServerEstablish, Arrives
  <2>2. state'["client"] = state["client"]
    BY <1>0, <2>1 DEF TypeOK
  <2>. QED
    BY <2>1, <2>2, ReceiveStep
<1>7. ASSUME NEW f \in Flows, ServerReceive(f) PROVE IInv'
  <2>1. /\ net["server"][f] # << >> /\ state["server"][f] = "ESTABLISHED"
        /\ Receive(f, Head(net["server"][f])) /\ UNCHANGED state
    BY <1>7 DEF ServerReceive
  <2>2. state' = [state EXCEPT !["server"][f] = "ESTABLISHED"]
    BY <1>0, <2>1 DEF TypeOK
  <2>. QED
    BY <2>1, <2>2, ReceiveStep
<1>8. ASSUME NEW f \in Flows, NEW F \in SUBSET Flows, ClientEstablish(f, F) PROVE IInv'
  <2>. DEFINE behind == [net["server"] EXCEPT ![f] = Append(@, FinalAck)]
  <2>1. /\ net["client"][f] # << >> /\ state["client"][f] = "SYN_SENT" /\ UNCHANGED fully
        /\ state' = [state EXCEPT !["client"][f] = "ESTABLISHED"]
        /\ net'["client"] = [net["client"] EXCEPT ![f] = Tail(@)]
        /\ net'["server"] = WithSegments(F, behind)
        /\ Schedulable(F, Available(active'["client"], state'["client"]))
    BY <1>0, <1>8 DEF ClientEstablish, Arrives
  <2>2. /\ state'["server"] = state["server"] /\ state'["client"][f] = "ESTABLISHED"
        /\ \A g \in Flows \ {f} : state'["client"][g] = state["client"][g]
    BY <1>0, <2>1 DEF TypeOK
  <2>3. \A g \in F : state'["client"][g] = "ESTABLISHED"
    BY <2>1 DEF Schedulable, Available
  <2>4. /\ net["client"] \in [Flows -> Seq(Packet)] /\ net["server"] \in [Flows -> Seq(Packet)]
        /\ behind \in [Flows -> Seq(Packet)]
    <3>1. net["client"] \in [Flows -> Seq(Packet)] /\ net["server"] \in [Flows -> Seq(Packet)]
      BY <1>0 DEF TypeOK
    <3>2. Append(net["server"][f], FinalAck) \in Seq(Packet)
      BY <3>1, PacketTypes, AppendElements
    <3>. QED
      BY <3>1, <3>2
  <2>5. \A g \in Flows : OnlyFresh("client", g, {})
    <3>1. On(Tail(net["client"][f])) \subseteq On(net["client"][f])
      BY <2>1, <2>4, TailOn
    <3>. QED
      BY <2>1, <2>4, <3>1 DEF OnlyFresh
  <2>6. \A g \in Flows : \A p \in On(net'["server"][g]) :
          \/ p \in On(net["server"][g])
          \/ p.flag = "ACK" /\ state'["client"][g] = "ESTABLISHED"
    <3>. SUFFICES ASSUME NEW g \in Flows, NEW p \in On(net'["server"][g]),
                         p \notin On(net["server"][g])
         PROVE  p.flag = "ACK" /\ state'["client"][g] = "ESTABLISHED"
      OBVIOUS
    <3>1. p \in On(behind[g]) \/ (g \in F /\ p = Segment(sent[g] + 1))
      <4>1. On(WithSegments(F, behind)[g]) \subseteq
              On(behind[g]) \cup (IF g \in F THEN {Segment(sent[g] + 1)} ELSE {})
        <5>. HIDE DEF behind
        <5>1. behind \in [Flows -> Seq(Packet)]
          BY <2>4
        <5>. QED
          BY <5>1, SegmentsOn
      <4>3. net'["server"] = WithSegments(F, behind)
        BY <2>1
      <4>. HIDE DEF behind
      <4>2. p \in On(WithSegments(F, behind)[g])
        BY <4>3
      <4>. QED
        BY <4>1, <4>2
    <3>2. On(behind[g]) \subseteq On(net["server"][g]) \cup (IF g = f THEN {FinalAck} ELSE {})
      <4>1. CASE g = f
        <5>1. behind[g] = Append(net["server"][g], FinalAck)
          BY <2>4, <4>1
        <5>. QED
          BY <2>4, <4>1, <5>1, AppendOn, PacketTypes
      <4>2. CASE g # f
        BY <2>4, <4>2
      <4>. QED
        BY <4>1, <4>2
    <3>3. sent[g] + 1 \in Nat
      BY SMTT(30) DEF TypeOK
    <3>. QED
      <4>. HIDE DEF behind
      <4>1. Segment(sent[g] + 1).flag = "ACK" /\ FinalAck.flag = "ACK"
        BY <3>3, PacketFields
      <4>2. p.flag = "ACK" /\ (g \in F \/ g = f)
        BY <3>1, <3>2, <4>1
      <4>. QED
        BY <2>2, <2>3, <4>2
  <2>7. state["server"][f] # "LISTEN"
    <3>1. Head(net["client"][f]) \in On(net["client"][f])
      BY <2>1, <2>4, TailOn
    <3>. QED
      BY <3>1 DEF IInv, ToClient
  <2>. QED
    BY <2>1, <2>2, <2>5, <2>6, <2>7, SegmentsStep
<1>9. ASSUME NEW f \in Flows, ClientSynAckAgain(f) PROVE IInv'
  <2>1. /\ net["client"][f] # << >> /\ net' = [net EXCEPT !["client"][f] = Tail(@)]
        /\ UNCHANGED <<state, fully>>
    BY <1>9 DEF ClientSynAckAgain, Arrives, meta
  <2>. QED
    BY <1>0, <2>1, TakeOn, OnlyTaken
<1>10. ASSUME NEW f \in Flows, Acknowledge(f)
       PROVE  /\ net["client"][f] # << >> /\ fully'["server"] = fully["server"]
              /\ fully["client"] => fully'["client"]
              /\ fully'["client"] => fully["server"]
  <2>1. /\ net["client"][f] # << >>
        /\ fully' = [fully EXCEPT !["client"] = @ \/ Head(net["client"][f]).dss]
    BY <1>10 DEF Acknowledge, Arrives
  <2>2. Head(net["client"][f]) \in On(net["client"][f])
    <3>1. net["client"][f] \in Seq(Packet)
      BY <1>0 DEF TypeOK
    <3>. QED
      BY <2>1, <3>1, TailOn
  <2>3. Head(net["client"][f]).dss => fully["server"]
    BY <2>2 DEF IInv, ToClient
  <2>. QED
    BY <1>0, <2>1, <2>3 DEF IInv, FullyInOrder, TypeOK
<1>11. ASSUME NEW f \in Flows, ClientAck(f) PROVE IInv'
  <2>1. net' = [net EXCEPT !["client"][f] = Tail(@)] /\ UNCHANGED state
    BY <1>11 DEF ClientAck
  <2>2. /\ net["client"][f] # << >> /\ fully'["server"] = fully["server"]
        /\ fully["client"] => fully'["client"]
        /\ fully'["client"] => fully["server"]
    BY <1>10, <1>11 DEF ClientAck
  <2>3. \A h \in Hosts, g \in Flows : On(net'[h][g]) \subseteq On(net[h][g])
    BY <1>0, <2>1, <2>2, TakeOn DEF OnlyFresh
  <2>4. EndStates' /\ PeerAgrees' /\ FullyInOrder'
    BY <2>1, <2>2 DEF IInv, EndStates, PeerAgrees, FullyInOrder
  <2>5. ToServer' /\ ToClient'
    BY <1>0, <2>1, <2>2, <2>3 DEF IInv, ToServer, ToClient
  <2>. QED
    BY <2>4, <2>5 DEF IInv
<1>12. ASSUME NEW f \in Flows, NEW j \in Joins, ClientAckJoin(f, j) PROVE IInv'
  <2>1. /\ net["client"][f] # << >> /\ fully'["server"] = fully["server"]
        /\ fully["client"] => fully'["client"]
        /\ fully'["client"] => fully["server"]
    BY <1>10, <1>12 DEF ClientAckJoin
  <2>2. /\ fully'["client"] /\ state["client"][j] = "CLOSED"
        /\ state' = [state EXCEPT !["client"][j] = "SYN_SENT"]
        /\ net' = [net EXCEPT !["client"][f] = Tail(@), !["server"][j] = Append(@, Syn)]
    BY <1>12 DEF ClientAckJoin, Joinable, Open
  <2>3. /\ OnlyFresh("server", j, {Syn})
        /\ \A k \in Hosts, g \in Flows : <<k, g>> # <<"server", j>> => OnlyFresh(k, g, {})
    BY <1>0, <2>1, <2>2, PacketTypes, TakePutOn
  <2>4. \A g \in Flows : OnlyFresh("server", g, {Syn}) /\ OnlyFresh("client", g, {})
    BY <1>0, <2>3 DEF OnlyFresh
  <2>. QED
    BY <1>0, <2>1, <2>2, <2>4, OpenStep
<1>13. ASSUME NEW f \in Flows, DataTimeout(f) PROVE IInv'
  <2>1. /\ state["client"][f] = "ESTABLISHED" /\ UNCHANGED <<state, fully>>
        /\ net' = [net EXCEPT !["server"][f] = Append(@, Segment(sent[f]))]
    BY <1>13 DEF DataTimeout, meta
  <2>2. sent[f] \in Nat
    BY DEF TypeOK
  <2>3. /\ OnlyFresh("server", f, {Segment(sent[f])})
        /\ \A k \in Hosts, g \in Flows : <<k, g>> # <<"server", f>> => OnlyFresh(k, g, {})
    BY <1>0, <2>1, <2>2, PacketTypes, PutOn
  <2>4. /\ \A g \in Flows : OnlyFresh("client", g, {})
        /\ \A g \in Flows : \A p \in On(net'["server"][g]) :
             p \in On(net["server"][g]) \/ (g = f /\ p = Segment(sent[f]))
    BY <1>0, <2>3 DEF OnlyFresh
  <2>5. Segment(sent[f]).flag = "ACK"
    BY <2>2, PacketFields
  <2>. QED
    BY <2>1, <2>4, <2>5, SegmentsStep
<1>14. ASSUME NEW h \in Hosts, NEW f \in Flows, SynTimeout(h, f) PROVE IInv'
  <2>1. Awaits(h, f) /\ SendSyn(h, f, net) /\ UNCHANGED <<state, fully>>
    BY <1>14 DEF SynTimeout, meta
  <2>2. EndStates' /\ PeerAgrees' /\ FullyInOrder'
    BY <2>1 DEF IInv, EndStates, PeerAgrees, FullyInOrder
  <2>3. CASE h = "client"
    <3>1. \A g \in Flows : OnlyFresh("server", g, {Syn}) /\ OnlyFresh("client", g, {})
      BY <2>1, <2>3, SendSynOn
    <3>2. ToServer' /\ ToClient'
      BY <2>1, <3>1, PacketFields DEF IInv, ToServer, ToClient, OnlyFresh
    <3>. QED
      BY <2>2, <3>2 DEF IInv
  <2>4. CASE h = "server"
    <3>1. /\ \A g \in Flows : OnlyFresh("server", g, {})
          /\ OnlyFresh("client", f, {SynAck})
          /\ \A g \in Flows \ {f} : OnlyFresh("client", g, {})
      BY <2>1, <2>4, SendSynOn
    <3>2. state["server"][f] # "LISTEN"
      BY <2>1, <2>4 DEF Awaits, Handshake
    <3>3. ToServer' /\ ToClient'
      BY <2>1, <3>1, <3>2, PacketFields DEF IInv, ToServer, ToClient, OnlyFresh
    <3>. QED
      BY <2>2, <3>3 DEF IInv
  <2>. QED
    BY <2>3, <2>4 DEF Hosts
<1>15. ASSUME NEW h \in Hosts, NEW f \in Flows, Lose(h, f) PROVE IInv'
  <2>1. net[h][f] # << >> /\ net' = [net EXCEPT ![h][f] = Tail(@)] /\ UNCHANGED <<state, fully>>
    BY <1>15 DEF Lose, meta
  <2>. QED
    BY <2>1, TakeOn, OnlyTaken
<1>16. CASE Write
  <2>1. UNCHANGED <<state, fully, net>>
    BY <1>16 DEF Write, meta
  <2>. QED
    BY <2>1, OnlyTaken DEF OnlyFresh
<1>17. ASSUME NEW F \in SUBSET Flows, SendPendingData(F) PROVE IInv'
  <2>1. /\ UNCHANGED <<state, fully>> /\ net'["client"] = net["client"]
        /\ net'["server"] = WithSegments(F, net["server"])
        /\ Schedulable(F, Available(active["client"], state["client"]))
    BY <1>0, <1>17 DEF SendPendingData, meta, TypeOK
  <2>2. \A g \in F : state["client"][g] = "ESTABLISHED"
    BY <2>1 DEF Schedulable, Available
  <2>3. net["server"] \in [Flows -> Seq(Packet)]
    BY <1>0 DEF TypeOK
  <2>4. \A g \in Flows : \A p \in On(net'["server"][g]) :
          \/ p \in On(net["server"][g])
          \/ p.flag = "ACK" /\ state["client"][g] = "ESTABLISHED"
    <3>. SUFFICES ASSUME NEW g \in Flows, NEW p \in On(net'["server"][g])
         PROVE  \/ p \in On(net["server"][g])
                \/ p.flag = "ACK" /\ state["client"][g] = "ESTABLISHED"
      OBVIOUS
    <3>1. On(WithSegments(F, net["server"])[g]) \subseteq
            On(net["server"][g]) \cup (IF g \in F THEN {Segment(sent[g] + 1)} ELSE {})
      <4>. DEFINE queues == net["server"]
      <4>1. queues \in [Flows -> Seq(Packet)]
        BY <2>3
      <4>. HIDE DEF queues
      <4>2. On(WithSegments(F, queues)[g]) \subseteq
              On(queues[g]) \cup (IF g \in F THEN {Segment(sent[g] + 1)} ELSE {})
        BY <1>0, <4>1, SegmentsOn
      <4>. QED
        BY <4>2 DEF queues
    <3>2. p \in On(WithSegments(F, net["server"])[g])
      BY <2>1
    <3>3. sent[g] + 1 \in Nat
      BY DEF TypeOK
    <3>. QED
      BY <2>2, <3>1, <3>2, <3>3, PacketFields
  <2>5. \A g \in Flows : OnlyFresh("client", g, {})
    BY <2>1 DEF OnlyFresh
  <2>. QED
    BY <1>0, <2>1, <2>4, <2>5, SegmentsStep
<1>. QED
  BY <1>1, <1>2, <1>3, <1>4, <1>5, <1>6, <1>7, <1>8, <1>9, <1>11, <1>12, <1>13, <1>14, <1>15,
     <1>16, <1>17 DEF Next, ServerStep, ClientStep

LEMMA Invariant == Spec => [](TypeOK /\ IInv)
<1>1. Init => TypeOK /\ IInv
  BY TypeInit, IInvInit
<1>2. TypeOK /\ IInv /\ [Next]_vars => (TypeOK /\ IInv)'
  BY TypeStep, IInvStep
<1>. QED
  BY <1>1, <1>2, PTL DEF Spec

(* No end of a subflow is established alone, whatever is lost and whatever *)
(* timer runs out when.                                                    *)
THEOREM EndsAgree == Spec => []PeerAgrees
<1>1. IInv => PeerAgrees
  BY DEF IInv
<1>. QED
  BY <1>1, Invariant, PTL

(* The server has received a DSS before the client opens a join, so that   *)
(* NewSubflowJoinRequest never ignores one.                                *)
THEOREM JoinsAccepted == Spec => []JoinNeverRefused
<1>1. IInv => JoinNeverRefused
  BY DEF IInv, FullyInOrder, JoinNeverRefused
<1>. QED
  BY <1>1, Invariant, PTL

-----------------------------------------------------------------------------
(* The list of active subflows. *)

LEMMA ActiveSame ==
  ASSUME ActiveOnce, UNCHANGED active,
         \A h \in Hosts, f \in Flows :
           state'[h][f] = "ESTABLISHED" <=> state[h][f] = "ESTABLISHED"
  PROVE  ActiveOnce'
<1>. SUFFICES ASSUME NEW h \in Hosts
     PROVE  /\ IsInjective(active'[h])
            /\ Range(active'[h]) = {f \in Flows : state'[h][f] = "ESTABLISHED"}
  BY DEF ActiveOnce
<1>1. active'[h] = active[h]
  OBVIOUS
<1>2. {f \in Flows : state'[h][f] = "ESTABLISHED"} = {f \in Flows : state[h][f] = "ESTABLISHED"}
  OBVIOUS
<1>. QED
  BY <1>1, <1>2 DEF ActiveOnce

LEMMA AppendOnce ==
  ASSUME NEW S, NEW q \in Seq(S), NEW e \in S, IsInjective(q), e \notin Range(q)
  PROVE  IsInjective(Append(q, e)) /\ Range(Append(q, e)) = Range(q) \cup {e}
<1>1. /\ DOMAIN q = 1..Len(q) /\ DOMAIN Append(q, e) = 1..(Len(q) + 1) /\ Len(q) \in Nat
      /\ \A i \in 1..Len(q) : Append(q, e)[i] = q[i]
      /\ Append(q, e)[Len(q) + 1] = e
  BY AppendElements
<1>2. \A i \in 1..(Len(q) + 1) : i \in 1..Len(q) \/ i = Len(q) + 1
  BY <1>1
<1>3. \A i \in 1..Len(q) : i \in 1..(Len(q) + 1) /\ q[i] # e
  BY <1>1 DEF Range
<1>4. IsInjective(Append(q, e))
  <2>. SUFFICES ASSUME NEW i \in 1..(Len(q) + 1), NEW k \in 1..(Len(q) + 1),
                       Append(q, e)[i] = Append(q, e)[k]
       PROVE  i = k
    BY <1>1 DEF IsInjective
  <2>. QED
    BY <1>1, <1>2, <1>3 DEF IsInjective
<1>5. Range(Append(q, e)) = Range(q) \cup {e}
  <2>1. Range(Append(q, e)) = {Append(q, e)[i] : i \in 1..(Len(q) + 1)}
    BY <1>1 DEF Range
  <2>2. Range(q) = {q[i] : i \in 1..Len(q)}
    BY <1>1 DEF Range
  <2>3. Len(q) + 1 \in 1..(Len(q) + 1)
    BY <1>1
  <2>. QED
    BY <1>1, <1>2, <1>3, <2>1, <2>2, <2>3
<1>. QED
  BY <1>4, <1>5

LEMMA ActiveAdded ==
  ASSUME ActiveOnce, TypeOK, NEW h \in Hosts, NEW f \in Flows, state[h][f] # "ESTABLISHED",
         active' = [active EXCEPT ![h] = Append(@, f)],
         state' = [state EXCEPT ![h][f] = "ESTABLISHED"]
  PROVE  ActiveOnce'
<1>. SUFFICES ASSUME NEW k \in Hosts
     PROVE  /\ IsInjective(active'[k])
            /\ Range(active'[k]) = {g \in Flows : state'[k][g] = "ESTABLISHED"}
  BY DEF ActiveOnce
<1>1. CASE k # h
  <2>1. active'[k] = active[k] /\ state'[k] = state[k]
    BY <1>1 DEF TypeOK
  <2>. QED
    BY <2>1 DEF ActiveOnce
<1>2. CASE k = h
  <2>1. active[h] \in Seq(Flows) /\ active'[h] = Append(active[h], f)
    BY DEF TypeOK
  <2>2. /\ IsInjective(active[h])
        /\ Range(active[h]) = {g \in Flows : state[h][g] = "ESTABLISHED"}
    BY DEF ActiveOnce
  <2>3. f \notin Range(active[h])
    BY <2>2
  <2>4. IsInjective(active'[h]) /\ Range(active'[h]) = Range(active[h]) \cup {f}
    BY <2>1, <2>2, <2>3, AppendOnce
  <2>5. \A g \in Flows : state'[h][g] = "ESTABLISHED" <=> (g = f \/ state[h][g] = "ESTABLISHED")
    BY DEF TypeOK
  <2>. QED
    BY <1>2, <2>2, <2>4, <2>5
<1>. QED
  BY <1>1, <1>2

(* An established subflow never leaves that state, and becomes one only    *)
(* together with its entry in the list.                                    *)
LEMMA ActiveStep == ActiveOnce /\ TypeOK /\ [Next]_vars => ActiveOnce'
<1>. SUFFICES ASSUME ActiveOnce, TypeOK, [Next]_vars PROVE ActiveOnce'
  OBVIOUS
<1>0. "client" \in Hosts /\ "server" \in Hosts /\ Master \in Flows /\ Joins \subseteq Flows
  BY DEF Hosts, Flows
<1>1. CASE UNCHANGED <<active, state>>
  BY <1>1, ActiveSame
<1>2. ASSUME NEW f \in Flows, state["client"][f] = "CLOSED", UNCHANGED active,
             state' = [state EXCEPT !["client"][f] = "SYN_SENT"]
      PROVE  ActiveOnce'
  <2>1. \A h \in Hosts, g \in Flows :
          state'[h][g] = "ESTABLISHED" <=> state[h][g] = "ESTABLISHED"
    BY <1>0, <1>2 DEF TypeOK
  <2>. QED
    BY <1>2, <2>1, ActiveSame
<1>3. CASE Connect
  BY <1>0, <1>2, <1>3 DEF Connect, Open
<1>4. ASSUME NEW f \in Joins, ConnectNewSubflow(f) PROVE ActiveOnce'
  BY <1>0, <1>2, <1>4 DEF ConnectNewSubflow, Joinable, Open
<1>5. ASSUME NEW f \in Flows, NEW j \in Joins, ClientAckJoin(f, j) PROVE ActiveOnce'
  BY <1>0, <1>2, <1>5 DEF ClientAckJoin, Acknowledge, Joinable, Open
<1>6. ASSUME NEW f \in Flows, ServerListen(f) PROVE ActiveOnce'
  <2>1. CASE UNCHANGED <<active, state>>
    BY <2>1, <1>1
  <2>2. CASE UNCHANGED active /\ state' = [state EXCEPT !["server"][f] = "SYN_RCVD"]
    <3>1. state["server"][f] = "LISTEN"
      BY <1>6 DEF ServerListen
    <3>2. \A h \in Hosts, g \in Flows :
            state'[h][g] = "ESTABLISHED" <=> state[h][g] = "ESTABLISHED"
      BY <1>0, <2>2, <3>1 DEF TypeOK
    <3>. QED
      BY <2>2, <3>2, ActiveSame
  <2>. QED
    BY <1>6, <2>1, <2>2 DEF ServerListen, JoinsMeta, meta
<1>7. ASSUME NEW f \in Flows, ServerEstablish(f) PROVE ActiveOnce'
  <2>1. /\ state["server"][f] # "ESTABLISHED"
        /\ active' = [active EXCEPT !["server"] = Append(@, f)]
        /\ state' = [state EXCEPT !["server"][f] = "ESTABLISHED"]
    BY <1>7 DEF ServerEstablish
  <2>. QED
    BY <1>0, <2>1, ActiveAdded
<1>8. ASSUME NEW f \in Flows, NEW F \in SUBSET Flows, ClientEstablish(f, F) PROVE ActiveOnce'
  <2>1. /\ state["client"][f] # "ESTABLISHED"
        /\ active' = [active EXCEPT !["client"] = Append(@, f)]
        /\ state' = [state EXCEPT !["client"][f] = "ESTABLISHED"]
    BY <1>8 DEF ClientEstablish
  <2>. QED
    BY <1>0, <2>1, ActiveAdded
<1>9. ASSUME NEW f \in Flows,
             \/ ServerSynAgain(f) \/ ServerReceive(f) \/ ClientSynAckAgain(f)
             \/ ClientAck(f) \/ DataTimeout(f)
      PROVE  UNCHANGED <<active, state>>
  BY <1>9 DEF ServerSynAgain, ServerReceive, ClientSynAckAgain, ClientAck, Acknowledge,
              DataTimeout, meta
<1>10. ASSUME NEW h \in Hosts, NEW f \in Flows, SynTimeout(h, f) \/ Lose(h, f)
       PROVE  UNCHANGED <<active, state>>
  BY <1>10 DEF SynTimeout, Lose, meta
<1>11. ASSUME NEW F \in SUBSET Flows, Write \/ SendPendingData(F)
       PROVE  UNCHANGED <<active, state>>
  BY <1>11 DEF Write, SendPendingData, meta
<1>12. UNCHANGED vars => UNCHANGED <<active, state>>
  BY DEF vars, meta
<1>. QED
  BY <1>1, <1>3, <1>4, <1>5, <1>6, <1>7, <1>8, <1>9, <1>10, <1>11, <1>12
     DEF Next, ServerStep, ClientStep

(* m_activeSubflows is the list of the established subflows, each once, at *)
(* both ends.                                                              *)
THEOREM ActiveSubflowsOnce == Spec => []ActiveOnce
<1>1. Init => ActiveOnce
  <2>. SUFFICES ASSUME Init PROVE ActiveOnce
    OBVIOUS
  <2>1. \A h \in Hosts : active[h] = << >> /\ \A f \in Flows : state[h][f] # "ESTABLISHED"
    BY DEF Init, Hosts
  <2>2. IsInjective(<< >>) /\ Range(<< >>) = {}
    BY DEF IsInjective, Range
  <2>. QED
    BY <2>1, <2>2 DEF ActiveOnce
<1>2. ActiveOnce /\ TypeOK /\ [Next]_vars => ActiveOnce'
  BY ActiveStep
<1>. QED
  BY <1>1, <1>2, TypeCorrect, PTL DEF Spec
=============================================================================
