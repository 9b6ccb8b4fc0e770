---------------------------- MODULE SubflowSetup -----------------------------
(***************************************************************************)
(* Proof that the handshakes of SubflowManager implement ConnectionSetup:  *)
(* every step of the lists, the states, the packets and the timers is a    *)
(* step of the stages of one handshake, or leaves them alone.              *)
(***************************************************************************)
EXTENDS SubflowProofs

(* The invariant of the mapping, beside IInv: a server that has something  *)
(* of a subflow to read, or has answered, deals with a client that asked;  *)
(* and the meta socket is established exactly when its master is.          *)
Asked ==
  \A f \in Flows :
    (net["server"][f] # << >> \/ state["server"][f] # "LISTEN") => state["client"][f] # "CLOSED"

MasterDecides ==
  \A h \in Hosts : metaState[h] = "Established" <=> state[h][Master] = "ESTABLISHED"

SetupInv == TypeOK /\ IInv /\ Asked /\ MasterDecides

(* A step of the subflow f, and of host h, in the states and the meta sockets. *)
StateMoves(h, f, to) == state' = [state EXCEPT ![h][f] = to]

MetaMoves(h, f, to) ==
  metaState' = IF f = Master THEN [metaState EXCEPT ![h] = to] ELSE metaState

(* The ways in which a step changes the states, the meta sockets and what  *)
(* they know, whatever it does to the packets and the data.                *)
Quiet == UNCHANGED <<state, metaState, fully, stopped>>

Opens(f) ==
  /\ state["client"][f] = "CLOSED"
  /\ StateMoves("client", f, "SYN_SENT") /\ MetaMoves("client", f, "PreEstablished")
  /\ \/ UNCHANGED fully /\ (f = Master \/ fully["client"])
     \/ f \in Joins /\ fully["server"] /\ fully' = [fully EXCEPT !["client"] = TRUE]

Listens(f) ==
  /\ state["server"][f] = "LISTEN" /\ net["server"][f] # << >>
  /\ StateMoves("server", f, "SYN_RCVD") /\ MetaMoves("server", f, "PreEstablished")
  /\ UNCHANGED fully /\ (f = Master \/ fully["server"])

ClientUp(f) ==
  /\ state["client"][f] = "SYN_SENT" /\ state["server"][f] # "LISTEN"
  /\ StateMoves("client", f, "ESTABLISHED") /\ MetaMoves("client", f, "Established")
  /\ UNCHANGED fully

ServerHears == fully' = fully \/ fully' = [fully EXCEPT !["server"] = TRUE]

ServerUp(f) ==
  /\ state["server"][f] = "SYN_RCVD" /\ state["client"][f] = "ESTABLISHED"
  /\ StateMoves("server", f, "ESTABLISHED") /\ MetaMoves("server", f, "Established")
  /\ ServerHears

Learns ==
  /\ UNCHANGED <<state, metaState>>
  /\ \/ ServerHears /\ \E f \in Flows : state["server"][f] = "ESTABLISHED"
     \/ fully["server"] /\ fully' = [fully EXCEPT !["client"] = TRUE]

Ends(h, f) ==
  /\ Awaits(h, f) /\ stopped' # {}
  /\ UNCHANGED <<state, metaState, fully>>

Kind ==
  \/ Quiet
  \/ /\ Running /\ UNCHANGED stopped
     /\ Learns \/ \E f \in Flows : Opens(f) \/ Listens(f) \/ ClientUp(f) \/ ServerUp(f)
  \/ Running /\ \E h \in Hosts, f \in Flows : Ends(h, f)

-----------------------------------------------------------------------------
(* The invariant. *)

LEMMA Places ==
  /\ "client" \in Hosts /\ "server" \in Hosts /\ Master \in Flows /\ Joins \subseteq Flows
  /\ \A h \in Hosts : h = "client" \/ h = "server"
  BY DEF Hosts, Flows

(* What a step puts on the way to the server is of a subflow that has been *)
(* opened, unless something was on its way there before.                   *)
Opened ==
  \A g \in Flows :
    \/ net'["server"][g] = net["server"][g]
    \/ net["server"][g] # << >>
    \/ state'["client"][g] # "CLOSED"

LEMMA TakenOpened ==
  ASSUME TypeOK, NEW h \in Hosts, NEW f \in Flows, net[h][f] # << >>,
         net' = [net EXCEPT ![h][f] = Tail(@)]
  PROVE  Opened
  BY Places DEF Opened, TypeOK

(* The same with an answer to the client. *)
LEMMA AnsweredOpened ==
  ASSUME TypeOK, NEW f \in Flows, net["server"][f] # << >>,
         \A g \in Flows \ {f} : net'["server"][g] = net["server"][g]
  PROVE  Opened
  BY DEF Opened

LEMMA OpenOpened ==
  ASSUME TypeOK, NEW f \in Flows, NEW queues \in [Hosts -> [Flows -> Seq(Packet)]],
         queues["server"] = net["server"], Open(f, queues)
  PROVE  Opened
<1>1. /\ state'["client"][f] = "SYN_SENT"
      /\ \A g \in Flows \ {f} : net'["server"][g] = queues["server"][g]
  BY Places DEF Open, TypeOK
<1>. QED BY <1>1 DEF Opened

LEMMA SendSynOpened ==
  ASSUME TypeOK, NEW h \in Hosts, NEW f \in Flows, UNCHANGED state, Awaits(h, f),
         SendSyn(h, f, net)
  PROVE  Opened
<1>. DEFINE p == IF h = "client" THEN Syn ELSE SynAck
<1>0. net' = net \/ net' = [net EXCEPT ![Peer(h)][f] = Append(@, p)]
  BY DEF SendSyn
<1>. HIDE DEF p
<1>1. CASE h = "client"
  <2>1. state["client"][f] = "SYN_SENT" /\ Peer(h) = "server"
    BY <1>1 DEF Awaits, Handshake, Peer
  <2>2. net' = net \/ net' = [net EXCEPT !["server"][f] = Append(@, p)]
    BY <1>0, <2>1
  <2>3. \A g \in Flows \ {f} : net'["server"][g] = net["server"][g]
    <3>1. CASE net' = net
      BY <3>1
    <3>2. CASE net' = [net EXCEPT !["server"][f] = Append(@, p)]
      BY <3>2, Places DEF TypeOK
    <3>. QED BY <2>2, <3>1, <3>2
  <2>. QED BY <2>1, <2>3 DEF Opened
<1>2. CASE h = "server"
  <2>1. Peer(h) = "client"
    BY <1>2 DEF Peer
  <2>2. net'["server"] = net["server"]
    BY <1>0, <2>1, Places DEF TypeOK
  <2>. QED BY <2>2 DEF Opened
<1>. QED BY <1>1, <1>2, Places

LEMMA SegmentsOpened ==
  ASSUME TypeOK, NEW F \in SUBSET Flows, NEW avail, F \subseteq avail,
         NEW queues \in [Flows -> Seq(Packet)],
         \A g \in avail : state'["client"][g] = "ESTABLISHED",
         \A g \in Flows : queues[g] = net["server"][g] \/ state'["client"][g] = "ESTABLISHED",
         net'["server"] = WithSegments(F, queues)
  PROVE  Opened
<1>1. \A g \in Flows \ F : net'["server"][g] = queues[g]
  BY DEF WithSegments
<1>. QED BY <1>1 DEF Opened

LEMMA AskedKept ==
  ASSUME Asked, Opened,
         \A f \in Flows : state'["client"][f] = "CLOSED" => state["client"][f] = "CLOSED",
         \A f \in Flows : /\ state["server"][f] = "LISTEN" /\ state'["server"][f] # "LISTEN"
                          => net["server"][f] # << >>
  PROVE  Asked'
<1>. SUFFICES ASSUME NEW f \in Flows, state'["client"][f] = "CLOSED"
     PROVE  net'["server"][f] = << >> /\ state'["server"][f] = "LISTEN"
  BY DEF Asked
<1>1. net["server"][f] = << >> /\ state["server"][f] = "LISTEN"
  BY DEF Asked
<1>. QED BY <1>1 DEF Opened

LEMMA SetupInitially == Init => SetupInv
<1>. SUFFICES ASSUME Init PROVE SetupInv
  OBVIOUS
<1>1. \A f \in Flows : net["server"][f] = << >> /\ state["server"][f] = "LISTEN"
  BY Places DEF Init
<1>2. \A h \in Hosts : metaState[h] # "Established" /\ state[h][Master] # "ESTABLISHED"
  BY Places DEF Init
<1>. QED BY <1>1, <1>2, TypeInit, IInvInit DEF SetupInv, Asked, MasterDecides

-----------------------------------------------------------------------------
(* Every step is of one of these kinds. *)

LEMMA SendSynKind ==
  ASSUME Running, NEW h \in Hosts, NEW f \in Flows, Awaits(h, f), NEW queues,
         UNCHANGED <<state, metaState, fully>>, SendSyn(h, f, queues)
  PROVE  Kind
<1>1. stopped' = stopped \/ stopped' # {}
  BY DEF SendSyn
<1>2. CASE stopped' = stopped
  BY <1>2 DEF Kind, Quiet
<1>3. CASE stopped' # {}
  BY <1>3 DEF Kind, Ends
<1>. QED BY <1>1, <1>2, <1>3

LEMMA ReceiveHears ==
  ASSUME TypeOK, NEW f \in Flows, net["server"][f] # << >>, Receive(f, Head(net["server"][f]))
  PROVE  ServerHears /\ \A g \in Flows \ {f} : net'["server"][g] = net["server"][g]
<1>1. Head(net["server"][f]) \in Packet
  BY Places, TakeType
<1>2. /\ fully' = [fully EXCEPT !["server"] = @ \/ Head(net["server"][f]).dss]
      /\ Head(net["server"][f]).dss \in BOOLEAN /\ fully["server"] \in BOOLEAN
      /\ fully = [h \in Hosts |-> fully[h]]
  BY <1>1, Places DEF Receive, TypeOK, Packet
<1>3. ServerHears
  BY <1>2 DEF ServerHears
<1>4. \A g \in Flows \ {f} : net'["server"][g] = net["server"][g]
  BY Places DEF Receive, TypeOK
<1>. QED BY <1>3, <1>4

(* What an acknowledgement tells the client, the server knows. *)
LEMMA AcknowledgeLearns ==
  ASSUME TypeOK, IInv, NEW f \in Flows, Acknowledge(f)
  PROVE  \/ UNCHANGED fully
         \/ fully["server"] /\ fully' = [fully EXCEPT !["client"] = TRUE]
<1>1. /\ net["client"][f] # << >> /\ net["client"][f] \in Seq(Packet)
      /\ fully' = [fully EXCEPT !["client"] = @ \/ Head(net["client"][f]).dss]
  BY Places DEF Acknowledge, Arrives, TypeOK
<1>2. Head(net["client"][f]) \in On(net["client"][f]) /\ Head(net["client"][f]) \in Packet
  BY <1>1, TailOn, TailElements
<1>3. Head(net["client"][f]).dss => fully["server"]
  BY <1>2 DEF IInv, ToClient
<1>4. /\ Head(net["client"][f]).dss \in BOOLEAN /\ fully["client"] \in BOOLEAN
      /\ fully = [h \in Hosts |-> fully[h]]
  BY <1>2, Places DEF TypeOK, Packet
<1>. QED BY <1>1, <1>3, <1>4

(* One case for each action. *)
LEMMA StepKind ==
  ASSUME SetupInv, [Next]_vars
  PROVE  Kind /\ Opened
<1>. USE DEF SetupInv
<1>0. net \in [Hosts -> [Flows -> Seq(Packet)]] /\ \A h \in Hosts : net[h] \in [Flows -> Seq(Packet)]
  BY DEF TypeOK
<1>1. CASE UNCHANGED vars
  BY <1>1 DEF vars, meta, Kind, Quiet, Opened
<1>2. CASE Connect
  <2>1. Opens(Master)
    BY <1>2 DEF Connect, Open, Opens, StateMoves, MetaMoves
  <2>2. Opened
    BY <1>0, <1>2, Places, OpenOpened DEF Connect
  <2>. QED BY <1>2, <2>1, <2>2, Places DEF Connect, Kind
<1>3. ASSUME NEW f \in Joins, ConnectNewSubflow(f) PROVE Kind /\ Opened
  <2>1. Opens(f)
    BY <1>3, SubflowAssumption
       DEF ConnectNewSubflow, Joinable, MayJoin, Open, Opens, StateMoves, MetaMoves
  <2>2. Opened
    BY <1>0, <1>3, Places, OpenOpened DEF ConnectNewSubflow
  <2>. QED BY <1>3, <2>1, <2>2, Places DEF ConnectNewSubflow, Kind
<1>4. ASSUME NEW f \in Flows, ServerListen(f) PROVE Kind /\ Opened
  <2>1. /\ Running /\ UNCHANGED stopped /\ net["server"][f] # << >>
        /\ state["server"][f] = "LISTEN"
    BY <1>4 DEF ServerListen, Arrives
  <2>2. CASE f \in Joins /\ ~fully["server"]
    <3>1. Quiet /\ net' = [net EXCEPT !["server"][f] = Tail(@)]
      BY <1>4, <2>2 DEF ServerListen, Quiet, meta
    <3>. QED BY <2>1, <3>1, Places, TakenOpened DEF Kind
  <2>3. CASE ~(f \in Joins /\ ~fully["server"])
    <3>1. Listens(f)
      BY <1>4, <2>1, <2>3 DEF ServerListen, Listens, StateMoves, MetaMoves, Flows
    <3>2. net' = [net EXCEPT !["server"][f] = Tail(@), !["client"][f] = Append(@, SynAck)]
      BY <1>4, <2>3 DEF ServerListen
    <3>3. \A g \in Flows \ {f} : net'["server"][g] = net["server"][g]
      BY <1>0, <3>2, Places
    <3>. QED BY <2>1, <3>1, <3>3, AnsweredOpened DEF Kind
  <2>. QED BY <2>2, <2>3
<1>5. ASSUME NEW f \in Flows, ServerSynAgain(f) PROVE Kind /\ Opened
  <2>. DEFINE taken == [net EXCEPT !["server"][f] = Tail(@)]
  <2>1. /\ Running /\ net["server"][f] # << >> /\ UNCHANGED <<state, metaState, fully>>
        /\ Awaits("server", f) /\ SendSyn("server", f, taken)
    BY <1>5 DEF ServerSynAgain, Arrives, meta, Awaits, Handshake
  <2>2. \A g \in Flows \ {f} : taken["server"][g] = net["server"][g]
    BY <1>0, Places
  <2>3. taken \in [Hosts -> [Flows -> Seq(Packet)]]
    BY <2>1, Places, TakeType
  <2>. HIDE DEF taken
  <2>4. net' = taken \/ net' = [taken EXCEPT !["client"][f] = Append(@, SynAck)]
    BY <2>1 DEF SendSyn, Peer
  <2>5. net'["server"] = taken["server"]
    BY <2>3, <2>4, Places
  <2>6. Kind
    BY <2>1, Places, SendSynKind
  <2>. QED BY <2>1, <2>2, <2>5, <2>6, AnsweredOpened
<1>6. ASSUME NEW f \in Flows, ServerEstablish(f) PROVE Kind /\ Opened
  <2>1. /\ Running /\ UNCHANGED stopped /\ net["server"][f] # << >>
        /\ Head(net["server"][f]).flag = "ACK" /\ Receive(f, Head(net["server"][f]))
        /\ StateMoves("server", f, "ESTABLISHED") /\ MetaMoves("server", f, "Established")
        /\ state["server"][f] = "SYN_RCVD"
    BY <1>6 DEF ServerEstablish, Arrives, StateMoves, MetaMoves
  <2>2. Head(net["server"][f]) \in On(net["server"][f])
    BY <1>0, <2>1, Places, TailOn
  <2>3. state["client"][f] = "ESTABLISHED"
    BY <2>1, <2>2 DEF IInv, ToServer
  <2>4. ServerHears /\ Opened
    BY <2>1, ReceiveHears, AnsweredOpened
  <2>. QED BY <2>1, <2>3, <2>4 DEF Kind, ServerUp
<1>7. ASSUME NEW f \in Flows, ServerReceive(f) PROVE Kind /\ Opened
  <2>1. /\ Running /\ net["server"][f] # << >> /\ UNCHANGED <<state, metaState, stopped>>
        /\ Receive(f, Head(net["server"][f])) /\ state["server"][f] = "ESTABLISHED"
    BY <1>7 DEF ServerReceive
  <2>2. ServerHears /\ Opened
    BY <2>1, ReceiveHears, AnsweredOpened
  <2>. QED BY <2>1, <2>2 DEF Kind, Learns
<1>8. ASSUME NEW f \in Flows, NEW F \in SUBSET Flows, ClientEstablish(f, F)
      PROVE  Kind /\ Opened
  <2>. DEFINE queues == [net["server"] EXCEPT ![f] = Append(@, FinalAck)]
              avail  == Available(active'["client"], state'["client"])
  <2>1. /\ Running /\ UNCHANGED stopped /\ net["client"][f] # << >>
        /\ state["client"][f] = "SYN_SENT" /\ UNCHANGED fully
        /\ StateMoves("client", f, "ESTABLISHED") /\ MetaMoves("client", f, "Established")
        /\ F \subseteq avail
    BY <1>8 DEF ClientEstablish, Arrives, StateMoves, MetaMoves, Schedulable
  <2>2. Head(net["client"][f]) \in On(net["client"][f])
    BY <1>0, <2>1, Places, TailOn
  <2>3. ClientUp(f)
    BY <2>1, <2>2 DEF IInv, ToClient, ClientUp
  <2>4. net'["server"] = WithSegments(F, queues)
    BY <1>8, Places DEF ClientEstablish
  <2>5. queues \in [Flows -> Seq(Packet)]
    BY <1>0, Places, PacketTypes, AppendElements
  <2>6. \A g \in avail : state'["client"][g] = "ESTABLISHED"
    BY DEF Available
  <2>7. state'["client"][f] = "ESTABLISHED"
    BY <2>1, Places DEF StateMoves, TypeOK
  <2>8. \A g \in Flows : queues[g] = net["server"][g] \/ state'["client"][g] = "ESTABLISHED"
    BY <1>0, <2>7, Places
  <2>. HIDE DEF queues, avail
  <2>9. Opened
    BY <2>1, <2>4, <2>5, <2>6, <2>8, SegmentsOpened
  <2>. QED BY <2>1, <2>3, <2>9 DEF Kind
<1>9. ASSUME NEW f \in Flows, ClientSynAckAgain(f) PROVE Kind /\ Opened
  <2>1. /\ Quiet /\ net["client"][f] # << >> /\ net' = [net EXCEPT !["client"][f] = Tail(@)]
    BY <1>9 DEF ClientSynAckAgain, Arrives, Quiet, meta
  <2>. QED BY <2>1, Places, TakenOpened DEF Kind
<1>10. ASSUME NEW f \in Flows, ClientAck(f) PROVE Kind /\ Opened
  <2>1. /\ Running /\ UNCHANGED <<state, metaState, stopped>> /\ net["client"][f] # << >>
        /\ net' = [net EXCEPT !["client"][f] = Tail(@)] /\ Acknowledge(f)
    BY <1>10 DEF ClientAck, Acknowledge, Arrives
  <2>2. CASE UNCHANGED fully
    BY <2>1, <2>2, Places, TakenOpened DEF Kind, Quiet
  <2>3. CASE fully["server"] /\ fully' = [fully EXCEPT !["client"] = TRUE]
    BY <2>1, <2>3, Places, TakenOpened DEF Kind, Learns
  <2>. QED BY <2>1, <2>2, <2>3, AcknowledgeLearns
<1>11. ASSUME NEW f \in Flows, NEW j \in Joins, ClientAckJoin(f, j) PROVE Kind /\ Opened
  <2>. DEFINE taken == [net EXCEPT !["client"][f] = Tail(@)]
  <2>1. /\ Running /\ UNCHANGED <<metaState, stopped>> /\ net["client"][f] # << >>
        /\ Open(j, taken) /\ Acknowledge(f) /\ state["client"][j] = "CLOSED"
        /\ fully'["client"] # fully["client"]
    BY <1>11 DEF ClientAckJoin, Acknowledge, Arrives, Joinable
  <2>2. taken \in [Hosts -> [Flows -> Seq(Packet)]]
    BY <2>1, Places, TakeType
  <2>3. taken["server"] = net["server"]
    BY <1>0, Places
  <2>. HIDE DEF taken
  <2>4. Opened
    BY <2>1, <2>2, <2>3, Places, OpenOpened
  <2>5. Opens(j)
    BY <2>1, AcknowledgeLearns, SubflowAssumption DEF Open, Opens, StateMoves, MetaMoves
  <2>. QED BY <2>1, <2>4, <2>5, Places DEF Kind
<1>12. ASSUME NEW f \in Flows, DataTimeout(f) PROVE Kind /\ Opened
  <2>1. /\ Quiet /\ state'["client"][f] = "ESTABLISHED"
        /\ net' = [net EXCEPT !["server"][f] = Append(@, Segment(sent[f]))]
    BY <1>12 DEF DataTimeout, Quiet, meta
  <2>2. \A g \in Flows \ {f} : net'["server"][g] = net["server"][g]
    BY <1>0, <2>1, Places
  <2>. QED BY <2>1, <2>2 DEF Kind, Opened
<1>13. ASSUME NEW h \in Hosts, NEW f \in Flows, SynTimeout(h, f) PROVE Kind /\ Opened
  <2>1. /\ Running /\ Awaits(h, f) /\ SendSyn(h, f, net) /\ UNCHANGED <<state, metaState, fully>>
    BY <1>13 DEF SynTimeout, meta
  <2>. QED BY <2>1, SendSynKind, SendSynOpened
<1>14. ASSUME NEW h \in Hosts, NEW f \in Flows, Lose(h, f) PROVE Kind /\ Opened
  <2>1. Quiet /\ net[h][f] # << >> /\ net' = [net EXCEPT ![h][f] = Tail(@)]
    BY <1>14 DEF Lose, Quiet, meta
  <2>. QED BY <2>1, TakenOpened DEF Kind
<1>15. CASE Write
  BY <1>15 DEF Write, meta, Kind, Quiet, Opened
<1>16. ASSUME NEW F \in SUBSET Flows, SendPendingData(F) PROVE Kind /\ Opened
  <2>. DEFINE queues == net["server"]
              avail  == Available(active["client"], state["client"])
  <2>1. /\ Quiet /\ F \subseteq avail
        /\ net' = [net EXCEPT !["server"] = WithSegments(F, queues)]
    BY <1>16 DEF SendPendingData, Quiet, meta, Schedulable
  <2>2. \A g \in avail : state'["client"][g] = "ESTABLISHED"
    BY <2>1 DEF Available, Quiet
  <2>3. /\ queues \in [Flows -> Seq(Packet)] /\ \A g \in Flows : queues[g] = net["server"][g]
        /\ net'["server"] = WithSegments(F, queues)
    BY <1>0, <2>1, Places
  <2>. HIDE DEF queues, avail
  <2>4. Opened
    BY <2>1, <2>2, <2>3, SegmentsOpened
  <2>. QED BY <2>1, <2>4 DEF Kind
<1>. QED
  BY <1>1, <1>2, <1>3, <1>4, <1>5, <1>6, <1>7, <1>8, <1>9, <1>10, <1>11, <1>12, <1>13, <1>14,
     <1>15, <1>16 DEF Next, ServerStep, ClientStep

-----------------------------------------------------------------------------
(* The kinds keep the invariant. *)

(* The state and the meta socket of a host, when the subflow f moves at h. *)
LEMMA Moved ==
  ASSUME TypeOK, NEW h \in Hosts, NEW f \in Flows, NEW to, StateMoves(h, f, to)
  PROVE  \A k \in Hosts, g \in Flows :
           state'[k][g] = IF k = h /\ g = f THEN to ELSE state[k][g]
  BY DEF StateMoves, TypeOK

LEMMA MetaMoved ==
  ASSUME TypeOK, NEW h \in Hosts, NEW f \in Flows, NEW to, MetaMoves(h, f, to)
  PROVE  \A k \in Hosts : metaState'[k] = IF k = h /\ f = Master THEN to ELSE metaState[k]
  BY DEF MetaMoves, TypeOK

LEMMA MasterKept ==
  ASSUME TypeOK, MasterDecides, NEW h \in Hosts, NEW f \in Flows, NEW to, NEW up,
         state[h][f] # "ESTABLISHED", to = "ESTABLISHED" <=> up = "Established",
         StateMoves(h, f, to), MetaMoves(h, f, up)
  PROVE  MasterDecides'
  BY Moved, MetaMoved, Places DEF MasterDecides

LEMMA SetupSteps ==
  ASSUME SetupInv, [Next]_vars
  PROVE  SetupInv'
<1>. USE DEF SetupInv
<1>1. TypeOK' /\ IInv' /\ Kind /\ Opened
  BY TypeStep, IInvStep, StepKind
<1>2. ASSUME UNCHANGED <<state, metaState>> PROVE Asked' /\ MasterDecides'
  <2>1. Asked'
    BY <1>1, <1>2, AskedKept
  <2>. QED BY <1>2, <2>1 DEF MasterDecides
<1>3. ASSUME NEW h \in Hosts, NEW f \in Flows, NEW to, NEW up, StateMoves(h, f, to),
             MetaMoves(h, f, up), state[h][f] # "ESTABLISHED", to # "CLOSED",
             to = "ESTABLISHED" <=> up = "Established",
             h = "server" => net["server"][f] # << >> \/ state["server"][f] # "LISTEN"
      PROVE  Asked' /\ MasterDecides'
  <2>1. \A k \in Hosts, g \in Flows :
          state'[k][g] = IF k = h /\ g = f THEN to ELSE state[k][g]
    BY <1>3, Moved
  <2>2. Asked'
    BY <1>1, <1>3, <2>1, Places, AskedKept
  <2>3. MasterDecides'
    BY <1>3, MasterKept
  <2>. QED BY <2>2, <2>3
<1>4. ASSUME NEW f \in Flows, Opens(f) \/ ClientUp(f) PROVE Asked' /\ MasterDecides'
  BY <1>3, <1>4, Places DEF Opens, ClientUp
<1>5. ASSUME NEW f \in Flows, Listens(f) \/ ServerUp(f) PROVE Asked' /\ MasterDecides'
  BY <1>3, <1>5, Places DEF Listens, ServerUp
<1>6. Quiet \/ Learns \/ (\E h \in Hosts, f \in Flows : Ends(h, f))
        => UNCHANGED <<state, metaState>>
  BY DEF Quiet, Learns, Ends
<1>. QED BY <1>1, <1>2, <1>4, <1>5, <1>6 DEF Kind

-----------------------------------------------------------------------------
(* The stages. *)

LEMMA StageIs ==
  ASSUME NEW f \in Flows
  PROVE  /\ Stage(f) = "closed" <=> state["client"][f] = "CLOSED" /\ state["server"][f] = "LISTEN"
         /\ Stage(f) = "asked" <=> state["client"][f] = "SYN_SENT" /\ state["server"][f] = "LISTEN"
         /\ Stage(f) = "answered" <=>
              state["client"][f] = "SYN_SENT" /\ state["server"][f] = "SYN_RCVD"
         /\ Stage(f) = "accepted" <=>
              state["client"][f] = "ESTABLISHED" /\ state["server"][f] = "SYN_RCVD"
         /\ Stage(f) = "up" <=>
              state["client"][f] = "ESTABLISHED" /\ state["server"][f] = "ESTABLISHED"
  BY DEF Stage

LEMMA StageSame ==
  ASSUME NEW f \in Flows, \A h \in Hosts : state'[h][f] = state[h][f]
  PROVE  Stage(f)' = Stage(f)
  BY Places DEF Stage

(* A function that changes in one place. *)
LEMMA ChangedAt ==
  ASSUME NEW S, NEW x \in S, NEW F, NEW G, NEW v,
         F = [y \in S |-> F[y]], G = [y \in S |-> G[y]],
         \A y \in S : G[y] = IF y = x THEN v ELSE F[y]
  PROVE  G = [F EXCEPT ![x] = v]
<1>1. [F EXCEPT ![x] = v] = [y \in S |-> IF y = x THEN v ELSE F[y]]
  OBVIOUS
<1>. QED BY <1>1

LEMMA StageMoves ==
  ASSUME TypeOK, Running, UNCHANGED stopped, NEW h \in Hosts, NEW f \in Flows, NEW to,
         StateMoves(h, f, to), NEW a, NEW b, Stage(f) = a, Stage(f)' = b
  PROVE  Setup!Moves(f, a, b)
<1>. DEFINE F == [g \in Flows |-> Stage(g)]
            G == [g \in Flows |-> Stage(g)']
<1>1. \A g \in Flows \ {f} : Stage(g)' = Stage(g)
  BY Moved, StageSame
<1>2. /\ \A g \in Flows : G[g] = IF g = f THEN b ELSE F[g]
      /\ F[f] = a
  BY <1>1
<1>3. F = [g \in Flows |-> F[g]] /\ G = [g \in Flows |-> G[g]]
  OBVIOUS
<1>. HIDE DEF F, G
<1>4. G = [F EXCEPT ![f] = b]
  BY <1>2, <1>3, ChangedAt
<1>5. F' = G
  BY DEF F, G
<1>6. F[f] = a /\ F' = [F EXCEPT ![f] = b]
  BY <1>2, <1>4, <1>5
<1>. QED BY <1>6 DEF Setup!Moves, Running, F

LEMMA StagesSame ==
  ASSUME UNCHANGED state
  PROVE  UNCHANGED [g \in Flows |-> Stage(g)]
<1>1. \A g \in Flows : Stage(g)' = Stage(g)
  BY StageSame
<1>. QED BY <1>1

(* The connection is there when the master is. *)
LEMMA MetaConnects ==
  ASSUME TypeOK, NEW h \in Hosts, NEW f \in Flows, MetaMoves(h, f, "Established")
  PROVE  Setup!Connects(h, f)
<1>. DEFINE F == [k \in Hosts |-> metaState[k] = "Established"]
            G == [k \in Hosts |-> metaState'[k] = "Established"]
<1>1. CASE f = Master
  <2>1. \A k \in Hosts : G[k] = IF k = h THEN TRUE ELSE F[k]
    BY <1>1, MetaMoved
  <2>2. F = [k \in Hosts |-> F[k]] /\ G = [k \in Hosts |-> G[k]]
    OBVIOUS
  <2>. HIDE DEF F, G
  <2>3. G = [F EXCEPT ![h] = TRUE]
    BY <2>1, <2>2, ChangedAt
  <2>4. F' = [F EXCEPT ![h] = TRUE]
    BY <2>3 DEF F, G
  <2>. QED BY <1>1, <2>4 DEF Setup!Connects, F
<1>2. CASE f # Master
  BY <1>2 DEF MetaMoves, Setup!Connects
<1>. QED BY <1>1, <1>2

LEMMA MetaStays ==
  ASSUME TypeOK, NEW h \in Hosts, NEW f \in Flows, MetaMoves(h, f, "PreEstablished"),
         MasterDecides, state[h][f] # "ESTABLISHED"
  PROVE  UNCHANGED [k \in Hosts |-> metaState[k] = "Established"]
<1>1. \A k \in Hosts : (metaState'[k] = "Established") = (metaState[k] = "Established")
  BY MetaMoved DEF MasterDecides
<1>. QED BY <1>1

-----------------------------------------------------------------------------
(* Each kind of step is one of the set-up. *)

LEMMA SameFlows == Setup!Flows = Flows /\ Setup!Hosts = Hosts
  BY DEF Setup!Flows, Flows, Setup!Hosts, Hosts

LEMMA OpensAsks ==
  ASSUME SetupInv, Running, UNCHANGED stopped, NEW f \in Flows, Opens(f)
  PROVE  Setup!Next
<1>. USE DEF SetupInv
<1>1. /\ state["client"][f] = "CLOSED" /\ state["server"][f] = "LISTEN"
      /\ StateMoves("client", f, "SYN_SENT")
  BY DEF Opens, Asked, IInv, EndStates
<1>2. Stage(f) = "closed" /\ Stage(f)' = "asked"
  <2>1. state'["client"][f] = "SYN_SENT" /\ state'["server"][f] = "LISTEN"
    BY <1>1, Places, Moved
  <2>. QED BY <1>1, <2>1 DEF Stage
<1>3. Setup!Moves(f, "closed", "asked")
  BY <1>1, <1>2, Places, StageMoves
<1>4. UNCHANGED [k \in Hosts |-> metaState[k] = "Established"]
  BY <1>1, Places, MetaStays DEF Opens
<1>5. CASE UNCHANGED fully /\ (f = Master \/ fully["client"])
  <2>1. Setup!Ask(f)
    BY <1>3, <1>4, <1>5 DEF Setup!Ask
  <2>. QED BY <2>1, SameFlows DEF Setup!Next
<1>6. CASE f \in Joins /\ fully["server"] /\ fully' = [fully EXCEPT !["client"] = TRUE]
  <2>1. Setup!ClientLearns
    BY <1>3, <1>4, <1>6 DEF Setup!ClientLearns, Running
  <2>. QED BY <2>1 DEF Setup!Next
<1>. QED BY <1>5, <1>6 DEF Opens

LEMMA ListensAnswers ==
  ASSUME SetupInv, Running, UNCHANGED stopped, NEW f \in Flows, Listens(f)
  PROVE  Setup!Next
<1>. USE DEF SetupInv
<1>1. /\ state["server"][f] = "LISTEN" /\ StateMoves("server", f, "SYN_RCVD")
      /\ state["client"][f] = "SYN_SENT"
  BY DEF Listens, Asked, IInv, EndStates, PeerAgrees
<1>2. Stage(f) = "asked" /\ Stage(f)' = "answered"
  <2>1. state'["client"][f] = "SYN_SENT" /\ state'["server"][f] = "SYN_RCVD"
    BY <1>1, Places, Moved
  <2>. QED BY <1>1, <2>1 DEF Stage
<1>3. Setup!Moves(f, "asked", "answered")
  BY <1>1, <1>2, Places, StageMoves
<1>4. UNCHANGED [k \in Hosts |-> metaState[k] = "Established"]
  BY <1>1, Places, MetaStays DEF Listens
<1>5. Setup!Answer(f)
  BY <1>3, <1>4 DEF Setup!Answer, Listens
<1>. QED BY <1>5, SameFlows DEF Setup!Next

LEMMA ClientUpAccepts ==
  ASSUME SetupInv, Running, UNCHANGED stopped, NEW f \in Flows, ClientUp(f)
  PROVE  Setup!Next
<1>. USE DEF SetupInv
<1>1. /\ state["client"][f] = "SYN_SENT" /\ StateMoves("client", f, "ESTABLISHED")
      /\ state["server"][f] = "SYN_RCVD"
  BY DEF ClientUp, IInv, EndStates, PeerAgrees
<1>2. Stage(f) = "answered" /\ Stage(f)' = "accepted"
  <2>1. state'["client"][f] = "ESTABLISHED" /\ state'["server"][f] = "SYN_RCVD"
    BY <1>1, Places, Moved
  <2>. QED BY <1>1, <2>1 DEF Stage
<1>3. Setup!Moves(f, "answered", "accepted")
  BY <1>1, <1>2, Places, StageMoves
<1>4. Setup!Connects("client", f)
  BY Places, MetaConnects DEF ClientUp
<1>5. Setup!Accept(f)
  BY <1>3, <1>4 DEF Setup!Accept, ClientUp
<1>. QED BY <1>5, SameFlows DEF Setup!Next

LEMMA ServerUpCompletes ==
  ASSUME SetupInv, Running, UNCHANGED stopped, NEW f \in Flows, ServerUp(f)
  PROVE  Setup!Next
<1>. USE DEF SetupInv
<1>1. /\ state["client"][f] = "ESTABLISHED" /\ StateMoves("server", f, "ESTABLISHED")
      /\ state["server"][f] = "SYN_RCVD"
  BY DEF ServerUp
<1>2. Stage(f) = "accepted" /\ Stage(f)' = "up"
  <2>1. state'["client"][f] = "ESTABLISHED" /\ state'["server"][f] = "ESTABLISHED"
    BY <1>1, Places, Moved
  <2>. QED BY <1>1, <2>1 DEF Stage
<1>3. Setup!Moves(f, "accepted", "up")
  BY <1>1, <1>2, Places, StageMoves
<1>4. Setup!Connects("server", f)
  BY Places, MetaConnects DEF ServerUp
<1>5. Setup!Complete(f)
  BY <1>3, <1>4 DEF Setup!Complete, ServerUp, ServerHears
<1>. QED BY <1>5, SameFlows DEF Setup!Next

LEMMA LearnsSetup ==
  ASSUME SetupInv, Running, UNCHANGED stopped, Learns
  PROVE  Setup!Next \/ UNCHANGED Setup!vars
<1>. USE DEF SetupInv
<1>1. /\ UNCHANGED [g \in Flows |-> Stage(g)]
      /\ UNCHANGED [k \in Hosts |-> metaState[k] = "Established"]
  BY StagesSame DEF Learns
<1>2. ASSUME fully' = [fully EXCEPT !["server"] = TRUE], NEW f \in Flows,
             state["server"][f] = "ESTABLISHED"
      PROVE  Setup!ServerLearns
  <2>1. Stage(f) = "up"
    BY <1>2, StageIs DEF IInv, PeerAgrees
  <2>2. [g \in Flows |-> Stage(g)][f] = "up"
    BY <2>1
  <2>. QED BY <1>1, <1>2, <2>2, SameFlows DEF Setup!ServerLearns, Running
<1>3. CASE fully["server"] /\ fully' = [fully EXCEPT !["client"] = TRUE]
  BY <1>1, <1>3 DEF Setup!ClientLearns, Setup!Next, Running
<1>4. CASE UNCHANGED fully
  BY <1>1, <1>4 DEF Setup!vars
<1>. QED BY <1>2, <1>3, <1>4 DEF Learns, ServerHears, Setup!Next

(* Only a handshake that waits can end the simulation. *)
LEMMA EndsGivesUp ==
  ASSUME SetupInv, Running, NEW h \in Hosts, NEW f \in Flows, Ends(h, f)
  PROVE  Setup!Next
<1>. USE DEF SetupInv
<1>1. /\ UNCHANGED [g \in Flows |-> Stage(g)]
      /\ UNCHANGED [k \in Hosts |-> metaState[k] = "Established"]
  BY StagesSame DEF Ends
<1>2. Stage(f) \in {"asked", "answered", "accepted"}
  <2>1. CASE state["client"][f] = "SYN_SENT"
    BY <2>1, StageIs DEF IInv, EndStates, PeerAgrees
  <2>2. CASE state["server"][f] = "SYN_RCVD"
    BY <2>2, StageIs DEF IInv, EndStates, Asked
  <2>. QED BY <2>1, <2>2, Places DEF Ends, Awaits, Handshake
<1>3. [g \in Flows |-> Stage(g)][f] \in Setup!Waiting
  BY <1>2 DEF Setup!Waiting
<1>4. Setup!GiveUp
  BY <1>1, <1>3, SameFlows DEF Setup!GiveUp, Running, Ends
<1>. QED BY <1>4 DEF Setup!Next

(* The connection comes up as it should (SetupSpec): the two ends of a subflow go *)
(* through its handshake (ProcessListen, ProcessSynSent, ProcessSynRcvd) in step, *)
(* and a join waits for the DSS (BecomeFullyEstablished, NewSubflowJoinRequest).  *)
THEOREM ImplementsConnectionSetup == Spec => SetupSpec
<1>1. Init => Setup!Init
  <2>. SUFFICES ASSUME Init PROVE Setup!Init
    OBVIOUS
  <2>1. \A f \in Flows : state["client"][f] = "CLOSED" /\ state["server"][f] = "LISTEN"
    BY Places DEF Init
  <2>2. \A f \in Flows : Stage(f) = "closed"
    BY <2>1, StageIs
  <2>3. \A h \in Hosts : (metaState[h] = "Established") = FALSE
    BY DEF Init
  <2>. QED BY <2>2, <2>3, SameFlows DEF Setup!Init, Init
<1>2. SetupInv /\ [Next]_vars => [Setup!Next]_(Setup!vars)
  <2>. SUFFICES ASSUME SetupInv, [Next]_vars PROVE Setup!Next \/ UNCHANGED Setup!vars
    OBVIOUS
  <2>1. Quiet => UNCHANGED Setup!vars
    BY StagesSame DEF Quiet, Setup!vars
  <2>2. Kind
    BY StepKind
  <2>. QED
    BY <2>1, <2>2, OpensAsks, ListensAnswers, ClientUpAccepts, ServerUpCompletes, LearnsSetup,
       EndsGivesUp DEF Kind
<1>3. SetupInv /\ [Next]_vars => SetupInv'
  BY SetupSteps
<1>. QED BY <1>1, <1>2, <1>3, SetupInitially, PTL DEF Spec, SetupSpec, Setup!Spec
=============================================================================
