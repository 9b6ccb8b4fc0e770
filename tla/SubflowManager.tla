--------------------------- MODULE SubflowManager ---------------------------
(***************************************************************************)
(* How a connection and its subflows come up: the handshake of the master, *)
(* the first DSS, which makes the connection fully established, and the    *)
(* joins, from MpTcpMetaSocket's lists of subflows down to the timer of    *)
(* the SYN.  The client sends data, the server only acknowledges, as the   *)
(* sinks of the experiments do.  A path is a queue each way that may lose  *)
(* packets.  Of the data a subflow has at most one segment outstanding;    *)
(* what the segments hold is the matter of MetaTransfer.                   *)
(***************************************************************************)
EXTENDS Integers, Sequences, FiniteSets, Functions

CONSTANTS
  Joins,        \* the subflows other than the master
  MaxSyn,       \* m_synRetries: how often a SYN or SYN+ACK is sent
  MaxData,      \* bound: segments the application writes
  MaxFaults     \* bound: lost packets and timeouts that come too early

Master == "master"

ASSUME SubflowAssumption ==
  /\ IsFiniteSet(Joins) /\ Master \notin Joins
  /\ MaxSyn \in Nat \ {0} /\ MaxData \in Nat /\ MaxFaults \in Nat

VARIABLES
  metaState,    \* m_state of the meta socket of each host
  fully,        \* m_receivedDSS of each host
  subflows,     \* m_subflows of each host
  active,       \* m_activeSubflows of each host
  state,        \* m_state of the subflows of each host
  synCount,     \* their m_synCount
  unsent,       \* segments in the client's transmit buffer not given to a subflow
  written,      \* segments written so far
  sent,         \* on each subflow, segments sent once by the client
  acked,        \* of these, acknowledged
  rcvd,         \* of these, received by the server
  net,          \* on each path, the packets on their way to each host
  faults,       \* what went wrong on each path so far
  left,         \* what may still go wrong
  stopped       \* the subflows, with their host, that ended the simulation

meta == <<metaState, fully, subflows, active>>
data == <<unsent, written, sent, acked, rcvd>>
vars == <<meta, state, synCount, data, net, faults, left, stopped>>

Hosts  == {"client", "server"}
Flows  == {Master} \cup Joins
Peer(h) == IF h = "client" THEN "server" ELSE "client"

(* seg is the data of a packet, 0 if it has none; dss says whether it has  *)
(* the DSS option.  The option of the handshake follows from the path.     *)
Packet == [flag : {"SYN", "SYN+ACK", "ACK"}, seg : Nat, ack : Nat, dss : BOOLEAN]

SubflowStates == {"CLOSED", "LISTEN", "SYN_SENT", "SYN_RCVD", "ESTABLISHED"}

TypeOK ==
  /\ metaState \in [Hosts -> {"Closed", "Listening", "PreEstablished", "Established"}]
  /\ fully \in [Hosts -> BOOLEAN]
  /\ subflows \in [Hosts -> Seq(Flows)] /\ active \in [Hosts -> Seq(Flows)]
  /\ state \in [Hosts -> [Flows -> SubflowStates]]
  /\ synCount \in [Hosts -> [Flows -> 0..MaxSyn]]
  /\ written \in 0..MaxData /\ unsent \in 0..written
  /\ sent \in [Flows -> Nat] /\ acked \in [Flows -> Nat] /\ rcvd \in [Flows -> Nat]
  /\ net \in [Hosts -> [Flows -> Seq(Packet)]]
  /\ faults \in [Flows -> Nat] /\ left \in 0..MaxFaults
  /\ stopped \in SUBSET (Hosts \X Flows)

(* The server listens; its meta socket is the one forked for the client.   *)
Init ==
  /\ metaState = [h \in Hosts |-> IF h = "client" THEN "Closed" ELSE "Listening"]
  /\ fully = [h \in Hosts |-> FALSE]
  /\ subflows = [h \in Hosts |-> << >>] /\ active = [h \in Hosts |-> << >>]
  /\ state = [h \in Hosts |-> [f \in Flows |-> IF h = "client" THEN "CLOSED" ELSE "LISTEN"]]
  /\ synCount = [h \in Hosts |-> [f \in Flows |-> MaxSyn]]
  /\ unsent = 0 /\ written = 0
  /\ sent = [f \in Flows |-> 0] /\ acked = [f \in Flows |-> 0]
  /\ rcvd = [f \in Flows |-> 0]
  /\ net = [h \in Hosts |-> [f \in Flows |-> << >>]]
  /\ faults = [f \in Flows |-> 0] /\ left = MaxFaults
  /\ stopped = {}

-----------------------------------------------------------------------------
(* Packets. *)

Syn       == [flag |-> "SYN", seg |-> 0, ack |-> 0, dss |-> FALSE]
SynAck    == [flag |-> "SYN+ACK", seg |-> 0, ack |-> 0, dss |-> FALSE]
FinalAck  == [flag |-> "ACK", seg |-> 0, ack |-> 0, dss |-> FALSE]
Segment(k) == [flag |-> "ACK", seg |-> k, ack |-> 0, dss |-> TRUE]

(* AppendDSSAck: only a fully established connection acknowledges data. *)
Ack(k, full) == [flag |-> "ACK", seg |-> 0, ack |-> k, dss |-> full]

Running == stopped = {}

(* The next packet host h gets on subflow f has this flag. *)
Arrives(h, f, flag) == Running /\ net[h][f] # << >> /\ Head(net[h][f]).flag = flag

InFlight(f) == \E h \in Hosts : net[h][f] # << >>

Fault(f) == left > 0 /\ left' = left - 1 /\ faults' = [faults EXCEPT ![f] = @ + 1]

(* The network loses a packet. *)
Lose(h, f) ==
  /\ Running /\ net[h][f] # << >>
  /\ net' = [net EXCEPT ![h][f] = Tail(@)]
  /\ Fault(f)
  /\ UNCHANGED <<meta, state, synCount, data, stopped>>

-----------------------------------------------------------------------------
(* Opening a subflow. *)

(* The client adds the subflow to its list and sends the first SYN; queues *)
(* are the packets under way without it.                                   *)
Open(f, queues) ==
  /\ state' = [state EXCEPT !["client"][f] = "SYN_SENT"]
  /\ synCount' = [synCount EXCEPT !["client"][f] = MaxSyn - 1]
  /\ subflows' = [subflows EXCEPT !["client"] = Append(@, f)]
  /\ net' = [queues EXCEPT !["server"][f] = Append(@, Syn)]

(* Connect: the master, which moves the meta socket. *)
Connect ==
  /\ Running /\ state["client"][Master] = "CLOSED"
  /\ Open(Master, net)
  /\ metaState' = [metaState EXCEPT !["client"] = "PreEstablished"]
  /\ UNCHANGED <<fully, active, data, faults, left, stopped>>

Joinable(f) == f \in Joins /\ state["client"][f] = "CLOSED"

(* Mutant of MayJoin: as soon as the connection is there. *)
MayJoinWhenConnected == metaState["client"] = "Established"

(* The applications join once the connection is fully established. *)
MayJoin == fully["client"]

(* ConnectNewSubflow, other than from the callback in ClientAckJoin. *)
ConnectNewSubflow(f) ==
  /\ Running /\ Joinable(f) /\ MayJoin
  /\ Open(f, net)
  /\ UNCHANGED <<metaState, fully, active, data, faults, left, stopped>>

(* The state in which a host waits for the answer to the SYN it sent. *)
Handshake(h) == IF h = "client" THEN "SYN_SENT" ELSE "SYN_RCVD"

(* Mutant of Awaits: the timer is not cancelled. *)
AwaitsForEver(h, f) == state[h][f] \in {Handshake(h), "ESTABLISHED"}

(* Mutant of Awaits: a SYN+ACK is not sent again. *)
AwaitsAsClient(h, f) == h = "client" /\ state[h][f] = Handshake(h)

Awaits(h, f) == state[h][f] = Handshake(h)

(* Mutant of SendSyn: no last attempt. *)
SendSynForEver(h, f, taken) ==
  /\ synCount' = [synCount EXCEPT ![h][f] = @ - 1]
  /\ net' = [taken EXCEPT ![Peer(h)][f] = Append(@, IF h = "client" THEN Syn ELSE SynAck)]
  /\ UNCHANGED stopped

(* SendEmptyPacket with the SYN flag, net being taken already.  After the  *)
(* last attempt the subflow is closed, which is a fatal error of the meta  *)
(* socket.                                                                 *)
SendSyn(h, f, taken) ==
  IF synCount[h][f] = 0
    THEN /\ stopped' = {<<h, f>>} /\ net' = taken
         /\ UNCHANGED synCount
    ELSE /\ synCount' = [synCount EXCEPT ![h][f] = @ - 1]
         /\ net' = [taken EXCEPT ![Peer(h)][f] =
                      Append(@, IF h = "client" THEN Syn ELSE SynAck)]
         /\ UNCHANGED stopped

(* The timer of a SYN or SYN+ACK; it is early when the answer is under way. *)
SynTimeout(h, f) ==
  /\ Running /\ Awaits(h, f)
  /\ IF InFlight(f) THEN Fault(f) ELSE UNCHANGED <<faults, left>>
  /\ SendSyn(h, f, net)
  /\ UNCHANGED <<meta, state, data>>

-----------------------------------------------------------------------------
(* The server. *)

(* Mutant of JoinsMeta: active with the state of another socket. *)
JoinsMetaAsActive(f) ==
  /\ subflows' = [subflows EXCEPT !["server"] = Append(@, f)]
  /\ active' = [active EXCEPT !["server"] = Append(@, f)]

(* AddSubflow. *)
JoinsMeta(f) ==
  /\ subflows' = [subflows EXCEPT !["server"] = Append(@, f)]
  /\ active' = IF state["server"][f] = "ESTABLISHED"
                 THEN [active EXCEPT !["server"] = Append(@, f)] ELSE active

(* ProcessListen: the master forks a meta socket, NewSubflowJoinRequest    *)
(* takes a join if a DSS was received and ignores it otherwise.            *)
ServerListen(f) ==
  /\ Arrives("server", f, "SYN") /\ state["server"][f] = "LISTEN"
  /\ IF f \in Joins /\ ~fully["server"]
       THEN /\ net' = [net EXCEPT !["server"][f] = Tail(@)]
            /\ UNCHANGED <<meta, state, synCount>>
       ELSE /\ state' = [state EXCEPT !["server"][f] = "SYN_RCVD"]
            /\ synCount' = [synCount EXCEPT !["server"][f] = MaxSyn - 1]
            /\ net' = [net EXCEPT !["server"][f] = Tail(@), !["client"][f] = Append(@, SynAck)]
            /\ JoinsMeta(f)
            /\ metaState' = IF f = Master
                              THEN [metaState EXCEPT !["server"] = "PreEstablished"]
                              ELSE metaState
            /\ UNCHANGED fully
  /\ UNCHANGED <<data, faults, left, stopped>>

(* Mutant of ServerSynAgain: taken for the end of the handshake. *)
ServerSynEstablishes(f) ==
  /\ Arrives("server", f, "SYN") /\ state["server"][f] = "SYN_RCVD"
  /\ net' = [net EXCEPT !["server"][f] = Tail(@)]
  /\ state' = [state EXCEPT !["server"][f] = "ESTABLISHED"]
  /\ active' = [active EXCEPT !["server"] = Append(@, f)]
  /\ UNCHANGED <<metaState, fully, subflows, synCount, data, faults, left, stopped>>

(* "Probably the peer lost my SYN+ACK". *)
ServerSynAgain(f) ==
  /\ Arrives("server", f, "SYN") /\ state["server"][f] = "SYN_RCVD"
  /\ SendSyn("server", f, [net EXCEPT !["server"][f] = Tail(@)])
  /\ UNCHANGED <<meta, state, data, faults, left>>

(* What the server does with the data and the DSS of the packet p: every   *)
(* segment is acknowledged, received before or not.                        *)
Receive(f, p) ==
  /\ rcvd' = [rcvd EXCEPT ![f] = IF p.seg = @ + 1 THEN @ + 1 ELSE @]
  /\ fully' = [fully EXCEPT !["server"] = @ \/ p.dss]
  /\ net' = [net EXCEPT !["server"][f] = Tail(@),
                        !["client"][f] = IF p.seg = 0 THEN @
                                         ELSE Append(@, Ack(rcvd'[f], fully'["server"]))]
  /\ UNCHANGED <<unsent, written, sent, acked>>

(* ProcessSynRcvd: an ACK, with data or not, ends the handshake. *)
ServerEstablish(f) ==
  /\ Arrives("server", f, "ACK") /\ state["server"][f] = "SYN_RCVD"
  /\ state' = [state EXCEPT !["server"][f] = "ESTABLISHED"]
  /\ active' = [active EXCEPT !["server"] = Append(@, f)]
  /\ metaState' = IF f = Master THEN [metaState EXCEPT !["server"] = "Established"]
                                ELSE metaState
  /\ Receive(f, Head(net["server"][f]))
  /\ UNCHANGED <<subflows, synCount, faults, left, stopped>>

(* ProcessEstablished: a SYN is ignored. *)
ServerReceive(f) ==
  /\ Running /\ net["server"][f] # << >> /\ state["server"][f] = "ESTABLISHED"
  /\ Receive(f, Head(net["server"][f]))
  /\ UNCHANGED <<metaState, subflows, active, state, synCount, faults, left, stopped>>

-----------------------------------------------------------------------------
(* The client. *)

(* The subflows a scheduler can return: it looks at as many of m_subflows  *)
(* as are active, and takes one that is established and has a window.      *)
Available(act, st) ==
  {f \in Flows : /\ \E i \in 1..Len(act) : f = subflows["client"][i]
                 /\ st[f] = "ESTABLISHED" /\ sent[f] = acked[f]}

(* SendPendingData gives segments to the subflows F, until none is left or *)
(* no subflow can take one.                                                *)
Schedulable(F, avail) ==
  /\ F \subseteq avail
  /\ Cardinality(F) = IF unsent < Cardinality(avail) THEN unsent ELSE Cardinality(avail)

Send(F) ==
  /\ unsent' = unsent - Cardinality(F)
  /\ sent' = [f \in Flows |-> IF f \in F THEN sent[f] + 1 ELSE sent[f]]
  /\ UNCHANGED <<written, acked, rcvd>>

(* The packets on the way to the server, with the segments of F behind. *)
WithSegments(F, queues) ==
  [f \in Flows |-> IF f \in F THEN Append(queues[f], Segment(sent[f] + 1)) ELSE queues[f]]

(* EstablishConnection and EstablishSubflow: the ACK leaves before the     *)
(* data that the meta socket sends at once, on any of its subflows.        *)
ClientEstablish(f, F) ==
  /\ Arrives("client", f, "SYN+ACK") /\ state["client"][f] = "SYN_SENT"
  /\ state' = [state EXCEPT !["client"][f] = "ESTABLISHED"]
  /\ active' = [active EXCEPT !["client"] = Append(@, f)]
  /\ metaState' = IF f = Master THEN [metaState EXCEPT !["client"] = "Established"]
                                ELSE metaState
  /\ Schedulable(F, Available(active'["client"], state'["client"]))
  /\ Send(F)
  /\ net' = [h \in Hosts |->
               IF h = "client" THEN [net[h] EXCEPT ![f] = Tail(@)]
               ELSE WithSegments(F, [net[h] EXCEPT ![f] = Append(@, FinalAck)])]
  /\ UNCHANGED <<fully, subflows, synCount, faults, left, stopped>>

(* "No action for received SYN+ACK, it is probably a duplicated packet". *)
ClientSynAckAgain(f) ==
  /\ Arrives("client", f, "SYN+ACK") /\ state["client"][f] = "ESTABLISHED"
  /\ net' = [net EXCEPT !["client"][f] = Tail(@)]
  /\ UNCHANGED <<meta, state, synCount, data, faults, left, stopped>>

(* What an acknowledgement tells the client. *)
Acknowledge(f) ==
  LET p == Head(net["client"][f]) IN
  /\ Arrives("client", f, "ACK") /\ state["client"][f] = "ESTABLISHED"
  /\ acked' = [acked EXCEPT ![f] = IF p.ack > @ THEN p.ack ELSE @]
  /\ fully' = [fully EXCEPT !["client"] = @ \/ p.dss]
  /\ UNCHANGED <<metaState, active, unsent, written, sent, rcvd, faults, left, stopped>>

ClientAck(f) ==
  /\ Acknowledge(f)
  /\ net' = [net EXCEPT !["client"][f] = Tail(@)]
  /\ UNCHANGED <<subflows, state, synCount>>

(* The first DSS: BecomeFullyEstablished calls the application, which      *)
(* joins from its next address.                                            *)
ClientAckJoin(f, j) ==
  /\ Acknowledge(f) /\ ~fully["client"] /\ fully'["client"] /\ Joinable(j)
  /\ Open(j, [net EXCEPT !["client"][f] = Tail(@)])

(* Send of the application. *)
Write ==
  /\ Running /\ metaState["client"] = "Established" /\ written < MaxData
  /\ written' = written + 1 /\ unsent' = unsent + 1
  /\ UNCHANGED <<meta, state, synCount, sent, acked, rcvd, net, faults, left, stopped>>

(* SendPendingData as an event of its own. *)
SendPendingData(F) ==
  /\ Running /\ metaState["client"] = "Established" /\ F # {}
  /\ Schedulable(F, Available(active["client"], state["client"]))
  /\ Send(F)
  /\ net' = [net EXCEPT !["server"] = WithSegments(F, @)]
  /\ UNCHANGED <<meta, state, synCount, faults, left, stopped>>

(* The retransmission timer of a segment. *)
DataTimeout(f) ==
  /\ Running /\ state["client"][f] = "ESTABLISHED" /\ sent[f] > acked[f] /\ ~InFlight(f)
  /\ net' = [net EXCEPT !["server"][f] = Append(@, Segment(sent[f]))]
  /\ UNCHANGED <<meta, state, synCount, data, faults, left, stopped>>

-----------------------------------------------------------------------------
ServerStep(f) ==
  ServerListen(f) \/ ServerSynAgain(f) \/ ServerEstablish(f) \/ ServerReceive(f)

ClientStep(f) ==
  \/ \E F \in SUBSET Flows : ClientEstablish(f, F)
  \/ ClientSynAckAgain(f)
  \/ ClientAck(f)
  \/ \E j \in Joins : ClientAckJoin(f, j)

Next ==
  \/ Connect
  \/ \E f \in Joins : ConnectNewSubflow(f)
  \/ \E f \in Flows : ServerStep(f) \/ ClientStep(f) \/ DataTimeout(f)
  \/ \E h \in Hosts, f \in Flows : SynTimeout(h, f) \/ Lose(h, f)
  \/ Write
  \/ \E F \in SUBSET Flows : SendPendingData(F)

Spec == Init /\ [][Next]_vars

(* Fairness: a packet that is not lost arrives, and a timer that is not    *)
(* cancelled runs out, on each path for itself.                            *)
Fairness ==
  \A f \in Flows :
    /\ WF_vars(ServerStep(f)) /\ WF_vars(ClientStep(f))
    /\ \A h \in Hosts : WF_vars(~InFlight(f) /\ SynTimeout(h, f))

FairSpec == Spec /\ Fairness

-----------------------------------------------------------------------------
(* Properties. *)

(* m_activeSubflows holds each established subflow once: the change of its *)
(* state adds it, whichever handshake it ran, so AddSubflow must not.      *)
ActiveOnce ==
  \A h \in Hosts :
    /\ IsInjective(active[h])
    /\ Range(active[h]) = {f \in Flows : state[h][f] = "ESTABLISHED"}

(* No end is established alone: the server only after the client, and only *)
(* while the client's ACK or data may still arrive is the client ahead.    *)
PeerAgrees ==
  \A f \in Flows :
    /\ state["server"][f] = "ESTABLISHED" => state["client"][f] = "ESTABLISHED"
    /\ state["client"][f] = "ESTABLISHED" => state["server"][f] \in {"SYN_RCVD", "ESTABLISHED"}

(* A join is never refused: when its SYN is under way the server has       *)
(* received a DSS too, which it only knows from the data of the client.    *)
JoinNeverRefused ==
  \A f \in Joins : state["client"][f] # "CLOSED" => fully["server"]

(* The fatal error that ends the simulation is earned: the client has sent *)
(* MaxSyn SYNs, and each or its answer was lost or late.  Of the server it *)
(* can only be said that something went wrong: once the client is          *)
(* established it no longer answers a SYN+ACK, so one lost ACK is enough.  *)
GaveUpForReason ==
  \A f \in Flows :
    /\ <<"client", f>> \in stopped => faults[f] >= MaxSyn
    /\ <<"server", f>> \in stopped => faults[f] >= 1

(* What the comment of GetActiveSubflow promises: "an established subflow". *)
GetActiveSubflowEstablished ==
  \A h \in Hosts : \A i \in 1..Len(active[h]) :
    state[h][subflows[h][i]] = "ESTABLISHED"

(* How far the handshake of a subflow is. *)
Stage(f) ==
  CASE state["client"][f] = "CLOSED" /\ state["server"][f] = "LISTEN" -> "closed"
    [] state["client"][f] = "SYN_SENT" /\ state["server"][f] = "LISTEN" -> "asked"
    [] state["client"][f] = "SYN_SENT" /\ state["server"][f] = "SYN_RCVD" -> "answered"
    [] state["client"][f] = "ESTABLISHED" /\ state["server"][f] = "SYN_RCVD" -> "accepted"
    [] state["client"][f] = "ESTABLISHED" /\ state["server"][f] = "ESTABLISHED" -> "up"
    [] OTHER -> "none"

Setup == INSTANCE ConnectionSetup WITH
  stage     <- [f \in Flows |-> Stage(f)],
  connected <- [h \in Hosts |-> metaState[h] = "Established"],
  knows     <- fully,
  failed    <- stopped # {}

(* Whatever is lost, repeated or late, each subflow goes through the stages *)
(* of its handshake in order, at both ends, the meta socket is established  *)
(* exactly when its master is, the DSS is known to the server before the    *)
(* client, and to the client before it joins, and the simulation is ended   *)
(* only by a handshake that waits.                                          *)
SetupSpec == Setup!Spec

(* A subflow that is opened is established at both ends, or the simulation *)
(* ends with an error: no handshake hangs.                                 *)
HandshakeEnds ==
  \A f \in Flows :
    state["client"][f] = "SYN_SENT" ~>
      stopped # {} \/ \A h \in Hosts : state[h][f] = "ESTABLISHED"
=============================================================================
