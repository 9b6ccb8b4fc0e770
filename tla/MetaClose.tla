------------------------------- MODULE MetaClose -------------------------------
(***************************************************************************)
(* How the two ends of an MPTCP connection close it: the states of the     *)
(* MpTcpMetaSocket from ESTABLISHED on, the DATA_FIN and its timers, and   *)
(* the application's Send, Close and ShutdownSend.  There is one subflow,  *)
(* the master, which also carries control packets; its segments are one    *)
(* byte, so that SSN and DSN agree and every mapping is one packet.  The   *)
(* subflow's own FIN and what follows it are external: a closed subflow    *)
(* still carries what it has to retransmit, empty packets and options.     *)
(* The reader is eager; the congestion and receive windows are open or     *)
(* closed by choice.                                                       *)
(***************************************************************************)
EXTENDS Integers, FiniteSets

CONSTANTS
  Hosts,        \* the two ends
  Limit,        \* bound, per host: bytes its application writes in all
  LinkCap,      \* per host: packets its link queues; more are dropped
  DataRetries   \* retransmissions of a subflow without a new acknowledgement

ASSUME CloseAssumption ==
  /\ \E x, y \in Hosts : x # y /\ Hosts = {x, y}
  /\ Limit \in [Hosts -> Nat]
  /\ LinkCap \in [Hosts -> Nat \ {0}]
  /\ DataRetries \in Nat

VARIABLES
  meta,         \* per host: the meta socket, and of its subflow what matters here
  net,          \* per host: the packets it sent that are in flight
  retrCount     \* per host: m_dataRetrCount of its subflow, retransmissions left

vars == <<meta, net, retrCount>>

None == -1
Peer(h) == CHOOSE k \in Hosts : k # h

States == {"Established", "FinWait1", "FinWait2", "CloseWait", "Closing",
           "LastAck", "TimeWait", "Closed"}

(* Where the simulation stops: a fatal error, an assertion or a reset.  The *)
(* model also stops when the only subflow is dropped: what is left to that  *)
(* host is what it does when the links lose every packet.                   *)
Stops == {"running", "unread data in Close", "DoPeerClose", "subflow reset",
          "subflow dropped"}

(* A DATA_FIN takes a number of its own, once more than there are bytes;   *)
(* one sent again after it was acknowledged, another.                      *)
MetaSocket(h) ==
  [state : States,
   written : 0..Limit[h],             \* tail of the meta send buffer
   txHead : 0..(Limit[h] + 1),        \* and its head
   nextTx : 0..(Limit[h] + 1),        \* m_nextTxSequence
   highTx : 0..Limit[h],              \* m_highTxMark
   closeOnEmpty : BOOLEAN, shutdownSend : BOOLEAN, closeNotified : BOOLEAN,
   sendEvent : BOOLEAN,               \* m_sendPendingDataEvent is scheduled
   retx : BOOLEAN, lastAck : BOOLEAN, timeWait : BOOLEAN,   \* timers that run
   sfHead : 0..Limit[h],              \* head of the subflow's send buffer
   got : 0..Limit[Peer(h)],           \* bytes received in order
   ooo : SUBSET (0..Limit[Peer(h)]),  \* and beyond a hole
   finSeq : 0..Limit[Peer(h)] \cup {None},   \* m_finSeq of the receive buffer
   dackDue : BOOLEAN,                 \* m_dssFlags has DataAckPresent
   subClosed : BOOLEAN,               \* Close was called on the subflow
   stop : Stops]

(* data: its DSN; fin: the DSN of the DATA_FIN; ack: that of the subflow. *)
Packet(h) ==
  [data : 0..(Limit[h] - 1) \cup {None}, fin : 0..(Limit[h] + 1) \cup {None},
   dack : 0..(Limit[Peer(h)] + 1) \cup {None}, ack : 0..Limit[Peer(h)]]

TypeOK ==
  /\ \A h \in Hosts : meta[h] \in MetaSocket(h) /\ net[h] \subseteq Packet(h)
  /\ retrCount \in [Hosts -> 0..(DataRetries + 1)]

Init ==
  /\ meta = [h \in Hosts |->
       [state |-> "Established", written |-> 0, txHead |-> 0, nextTx |-> 0,
        highTx |-> 0, closeOnEmpty |-> FALSE, shutdownSend |-> FALSE,
        closeNotified |-> FALSE, sendEvent |-> FALSE, retx |-> FALSE,
        lastAck |-> FALSE, timeWait |-> FALSE, sfHead |-> 0, got |-> 0, ooo |-> {},
        finSeq |-> None, dackDue |-> FALSE, subClosed |-> FALSE, stop |-> "running"]]
  /\ net = [h \in Hosts |-> {}]
  /\ retrCount = [h \in Hosts |-> DataRetries]

Max2(a, b) == IF a < b THEN b ELSE a

-----------------------------------------------------------------------------
(* The operations below map a socket and the packets on its link, with the *)
(* capacity of the link, to the next ones, so that they compose as calls.  *)

Sock(c) == c[1]
Out(c)  == c[2]
Cap(c)  == c[3]
On(c, m) == <<m, Out(c), Cap(c)>>

(* The receive buffer: the DATA_FIN takes a sequence number of its own. *)
NextRx(m)   == IF m.finSeq = m.got THEN m.got + 1 ELSE m.got
Finished(m) == m.finSeq # None /\ m.finSeq < NextRx(m)

(* The send buffer; once the DATA_FIN is acknowledged, head and tail are   *)
(* beyond it.                                                              *)
TxTail(m)  == Max2(m.written, m.txHead)
TxEmpty(m) == m.txHead >= m.written

Put(c, data, fin, dackNow) ==
  LET m == Sock(c)
      p == [data |-> data, fin |-> fin, ack |-> m.got,
            dack |-> IF dackNow \/ m.dackDue THEN NextRx(m) ELSE None]
  IN  << [m EXCEPT !.dackDue = FALSE],
         IF Cardinality(Out(c)) < Cap(c) THEN Out(c) \cup {p} ELSE Out(c), Cap(c) >>

SendEmpty(c, dackNow) == Put(c, None, None, dackNow)
SendDataAck(c)        == SendEmpty(c, TRUE)

(* Mutants of SendDataFin: the DATA_FIN has no timer, or advances the next *)
(* sequence number every time.                                             *)
SendDataFinOnce(c, withAck) == Put(c, None, Sock(c).nextTx, withAck)

SendDataFinNext(c, withAck) ==
  LET d == Put(c, None, Sock(c).nextTx, withAck)
  IN  On(d, [Sock(d) EXCEPT !.retx = @ \/ ~withAck, !.nextTx = @ + 1])

SendDataFin(c, withAck) ==
  LET d == Put(c, None, Sock(c).nextTx, withAck)
  IN  On(d, [Sock(d) EXCEPT !.retx = @ \/ ~withAck])

(* Mutant of CheckAndAppendDataFin: what remains to be sent is not looked at. *)
AppendDataFin(m, d) == m.closeOnEmpty

CheckAndAppendDataFin(m, d) == m.closeOnEmpty /\ TxTail(m) - (d + 1) = 0

(* SendPacket of the subflow, with the byte d. *)
SendData(c, d) ==
  LET m   == Sock(c)
      fin == CheckAndAppendDataFin(m, d)
      to  == IF ~fin THEN m.state
             ELSE CASE m.state = "Established" -> "FinWait1"
                    [] m.state = "CloseWait"   -> "LastAck"
                    [] OTHER                   -> m.state
  IN  Put(On(c, [m EXCEPT !.state = to]), d, IF fin THEN d + 1 ELSE None, TRUE)

CancelAllEvents(m) ==
  [m EXCEPT !.retx = FALSE, !.lastAck = FALSE, !.timeWait = FALSE, !.sendEvent = FALSE]

CloseAndNotify(m) ==
  [CancelAllEvents(m) EXCEPT !.closeNotified = TRUE, !.state = "Closed"]

TimeWait(m) == [CancelAllEvents(m) EXCEPT !.state = "TimeWait", !.timeWait = TRUE]

(* Close of the subflow, which resets the connection if data waits in its *)
(* receive buffer.                                                        *)
CloseAllSubflows(m) ==
  IF m.ooo # {} THEN [m EXCEPT !.stop = "subflow reset"]
                ELSE [m EXCEPT !.subClosed = TRUE]

DoClose(c) ==
  LET m == Sock(c) IN
  CASE m.state = "Established" ->
         SendDataFin(On(c, [m EXCEPT !.state = "FinWait1"]), FALSE)
    [] m.state = "CloseWait" ->
         SendDataFin(On(c, [m EXCEPT !.state = "LastAck"]), TRUE)
    [] m.state = "LastAck" -> On(c, CloseAndNotify(m))
    [] OTHER -> c

Close(c) ==
  LET m == Sock(c) IN
  CASE m.ooo # {} -> On(c, [m EXCEPT !.stop = "unread data in Close"])
    [] m.ooo = {} /\ m.nextTx < TxTail(m) -> On(c, [m EXCEPT !.closeOnEmpty = TRUE])
    [] OTHER -> DoClose(c)

(* The DATA_FIN is in sequence.  closes: the application calls Close in its *)
(* callback, which is called once.                                          *)
DoPeerClose(c, closes) ==
  LET m  == Sock(c)
      c1 == On(c, [m EXCEPT !.state = "CloseWait"])
      c2 == IF closes /\ ~m.closeNotified THEN Close(c1) ELSE c1
      c3 == On(c2, [Sock(c2) EXCEPT !.closeNotified = TRUE])
      c4 == CASE m.shutdownSend -> Close(c3)
              [] ~m.shutdownSend /\ Sock(c3).state = "CloseWait" -> SendDataAck(c3)
              [] OTHER -> c3
  IN  IF m.state # "Established" THEN On(c, [m EXCEPT !.stop = "DoPeerClose"])
      ELSE On(c4, [Sock(c4) EXCEPT !.lastAck = @ \/ Sock(c4).state = "LastAck"])

(* Mutant of PeerClose: it does not wait for the data before the DATA_FIN. *)
PeerCloseAtOnce(c, fin, dack, closes) ==
  LET m == [Sock(c) EXCEPT !.finSeq = fin] IN
  IF fin < NextRx(Sock(c)) \/ Sock(c).finSeq # None THEN c
  ELSE IF m.state = "Established" THEN DoPeerClose(On(c, m), closes) ELSE On(c, m)

PeerClose(c, fin, dack, closes) ==
  LET m       == [Sock(c) EXCEPT !.finSeq = fin]
      ignored == fin < NextRx(Sock(c)) \/ (Sock(c).finSeq # None /\ Sock(c).finSeq < fin)
      d       == SendDataAck(On(c, [m EXCEPT !.state = "Closing"]))
  IN
  CASE ignored -> c
    [] ~ignored /\ ~Finished(m) -> On(c, m)
    [] ~ignored /\ Finished(m) /\ m.state = "FinWait1" ->
         IF TxEmpty(m) /\ dack = m.highTx + 1
           THEN On(d, TimeWait(CloseAllSubflows(Sock(d)))) ELSE d
    [] ~ignored /\ Finished(m) /\ m.state = "FinWait2" ->
         On(SendDataAck(On(c, m)), TimeWait(Sock(SendDataAck(On(c, m)))))
    [] OTHER -> DoPeerClose(On(c, m), closes)

(* Mutant of ReceivedAck: the DATA_ACK of the last byte counts as the *)
(* DATA_FIN's.                                                        *)
ReceivedAckEarly(m, dack) ==
  LET n == [m EXCEPT !.txHead = Max2(@, dack), !.nextTx = Max2(@, dack)] IN
  IF m.state = "FinWait1" /\ TxEmpty(n) /\ dack >= n.highTx
    THEN CloseAllSubflows([n EXCEPT !.state = "FinWait2"]) ELSE n

(* ReceivedAck and NewAck of the meta socket.  In CLOSING and LAST_ACK the *)
(* value is not looked at.                                                 *)
ReceivedAck(m, dack) ==
  LET new == dack > m.txHead
      n   == IF new THEN [m EXCEPT !.txHead = dack, !.nextTx = Max2(@, dack)] ELSE m
  IN
  CASE m.state = "FinWait1" /\ TxEmpty(n) /\ dack = n.highTx + 1 ->
         CloseAllSubflows([n EXCEPT !.state = "FinWait2"])
    [] m.state = "Closing" -> TimeWait(CloseAllSubflows(n))
    [] m.state = "LastAck" -> CloseAndNotify(CloseAllSubflows(n))
    [] OTHER -> n

(* Data of the subflow, whose acknowledgement is not older than the last. *)
ReceivedData(c, d, closes) ==
  LET m    == Sock(c)
      have == m.ooo \cup {d}
      got  == CHOOSE n \in m.got .. (m.got + Cardinality(have)) :
                n \notin have /\ \A x \in m.got .. (n - 1) : x \in have
      m1   == [m EXCEPT !.got = got, !.ooo = {x \in have : x >= got}]
      c1   == On(c, m1)
  IN
  CASE d < m.got \/ d \in m.ooo -> SendDataAck(c)
    [] d >= m.got /\ d \notin m.ooo /\ NextRx(m) < NextRx(m1) /\ Finished(m1) ->
         SendDataAck(DoPeerClose(c1, closes))
    [] OTHER -> SendDataAck(c1)

(* The state machine of the subflow: nothing for an old acknowledgement. *)
Process(c, p, closes) ==
  LET m  == Sock(c)
      m1 == [m EXCEPT !.sfHead = p.ack, !.sendEvent = @ \/ m.sfHead < p.ack]
      c1 == IF p.data = None THEN On(c, m1)
            ELSE ReceivedData(On(c, m1), p.data, closes)
  IN  IF p.ack < m.sfHead THEN c
      ELSE On(c1, [Sock(c1) EXCEPT !.dackDue = TRUE])

-----------------------------------------------------------------------------
Running == \A h \in Hosts : meta[h].stop = "running"

At(h) == <<meta[h], net[h], LinkCap[h]>>

(* The operation on h left c. *)
Becomes(h, c) ==
  /\ meta' = [meta EXCEPT ![h] = Sock(c)]
  /\ net' = [net EXCEPT ![h] = Out(c)]

(* Mutant of AppSend: the state is not looked at. *)
AppSendInAnyState(h) ==
  LET m == meta[h] IN
  /\ Running
  /\ m.written < Limit[h]
  /\ Becomes(h, On(At(h), [m EXCEPT !.written = @ + 1,
                                    !.sendEvent = @ \/ ~m.shutdownSend]))
  /\ UNCHANGED retrCount

(* Send: the byte is stored before m_shutdownSend is looked at. *)
AppSend(h) ==
  LET m == meta[h] IN
  /\ Running
  /\ m.state = "Established"
  /\ m.written < Limit[h]
  /\ Becomes(h, On(At(h), [m EXCEPT !.written = @ + 1,
                                    !.sendEvent = @ \/ ~m.shutdownSend]))
  /\ UNCHANGED retrCount

AppClose(h) == Running /\ Becomes(h, Close(At(h))) /\ UNCHANGED retrCount

AppShutdownSend(h) ==
  LET m    == [meta[h] EXCEPT !.shutdownSend = TRUE, !.closeOnEmpty = TRUE]
      c    == On(At(h), m)
      fin  == SendDataFin(c, FALSE)
      next == IF m.state = "Established" THEN "FinWait1" ELSE "LastAck"
  IN
  /\ Running
  /\ Becomes(h, IF TxEmpty(m) /\ m.state \in {"Established", "CloseWait"}
                  THEN On(fin, [Sock(fin) EXCEPT !.state = next]) ELSE c)
  /\ UNCHANGED retrCount

(* The scheduled event maps and sends n bytes: as many as the windows let. *)
SendPendingData(h, n) ==
  LET m == meta[h]
      sent[i \in 0..n] ==
        IF i = 0 THEN On(At(h), [m EXCEPT !.sendEvent = FALSE])
        ELSE LET c == SendData(sent[i - 1], m.nextTx + i - 1)
             IN  On(c, [Sock(c) EXCEPT !.nextTx = @ + 1, !.highTx = @ + 1])
  IN
  /\ Running
  /\ m.sendEvent
  /\ m.nextTx + n <= TxTail(m)
  /\ Becomes(h, sent[n])
  /\ UNCHANGED retrCount

(* The subflow sends byte d again: the first that is not acknowledged, in  *)
(* DoRetransmit, or a later one, as it goes on from there.                 *)
Retransmit(h, d) ==
  /\ Running
  /\ meta[h].sfHead <= d /\ d < meta[h].highTx
  /\ \/ d > meta[h].sfHead /\ UNCHANGED retrCount
     \/ /\ d = meta[h].sfHead /\ retrCount[h] > 0
        /\ retrCount' = [retrCount EXCEPT ![h] = @ - 1]
  /\ Becomes(h, SendData(At(h), d))

(* DoRetransmit with no retry left: the subflow loses its end point. *)
GiveUp(h) ==
  /\ Running
  /\ meta[h].sfHead < meta[h].highTx
  /\ retrCount[h] = 0
  /\ Becomes(h, On(At(h), [meta[h] EXCEPT !.stop = "subflow dropped"]))
  /\ UNCHANGED retrCount

ReTxTimeout(h) == Retransmit(h, meta[h].sfHead) \/ GiveUp(h)

(* The event of m_retxEvent: SendDataFin finds it expired, and schedules it *)
(* again, whether or not the DATA_FIN was acknowledged.                     *)
DataFinTimeout(h) ==
  /\ Running
  /\ meta[h].retx
  /\ Becomes(h, SendDataFin(On(At(h), [meta[h] EXCEPT !.retx = FALSE]), FALSE))
  /\ UNCHANGED retrCount

LastAckTimeout(h) ==
  LET m == meta[h] IN
  /\ Running
  /\ m.lastAck
  /\ Becomes(h, On(At(h),
       IF m.state = "LastAck" THEN CloseAndNotify(m)
       ELSE [m EXCEPT !.lastAck = FALSE, !.closeNotified = TRUE]))
  /\ UNCHANGED retrCount

TimeWaitTimeout(h) ==
  /\ Running
  /\ meta[h].timeWait
  /\ Becomes(h, On(At(h), CloseAndNotify(meta[h])))
  /\ UNCHANGED retrCount

(* m_dataRetrCount once m became n: a new acknowledgement resets it.  One    *)
(* more stands for the transmission of the new head that is not counted:     *)
(* that of a partial acknowledgement, which precedes the reset, or of the    *)
(* subflow that goes on after a timeout.                                     *)
RetriesAfter(h, m, n) ==
  IF m.sfHead < n.sfHead THEN {DataRetries, DataRetries + 1} ELSE {retrCount[h]}

(* DoForwardUp: a packet wholly before the window is answered and dropped; *)
(* else its DATA_ACK is processed, then the packet, then its DATA_FIN.     *)
Receive(h, p, closes) ==
  LET m       == meta[h]
      c       == At(h)
      acked   == IF p.dack = None THEN c ELSE On(c, ReceivedAck(m, p.dack))
      handled == Process(acked, p, closes)
      all     == IF p.fin = None THEN handled
                 ELSE PeerClose(handled, p.fin, Max2(p.dack, 0), closes)
      done    == IF p.data # None /\ p.data + 1 < m.got THEN SendEmpty(c, FALSE) ELSE all
  IN
  /\ Running
  /\ p \in net[Peer(h)]
  /\ meta' = [meta EXCEPT ![h] = Sock(done)]
  /\ net' = [net EXCEPT ![h] = Out(done), ![Peer(h)] = @ \ {p}]
  /\ \E n \in RetriesAfter(h, m, Sock(done)) : retrCount' = [retrCount EXCEPT ![h] = n]

Lose(h, p) ==
  /\ Running
  /\ p \in net[h]
  /\ net' = [net EXCEPT ![h] = @ \ {p}]
  /\ UNCHANGED <<meta, retrCount>>

Next ==
  \E h \in Hosts :
    \/ AppSend(h)
    \/ AppClose(h)
    \/ AppShutdownSend(h)
    \/ \E n \in 0..Limit[h] : SendPendingData(h, n)
    \/ \E d \in 0..Limit[h] : Retransmit(h, d)
    \/ GiveUp(h)
    \/ DataFinTimeout(h)
    \/ LastAckTimeout(h)
    \/ TimeWaitTimeout(h)
    \/ \E p \in net[Peer(h)], closes \in BOOLEAN : Receive(h, p, closes)
    \/ \E p \in net[h] : Lose(h, p)

Spec == Init /\ [][Next]_vars

(* Fairness.  Timers expire, that of the DATA_FIN on a link with room for   *)
(* it, and of the DATA_FINs that go alone again and again, for as long as   *)
(* it takes, one gets through: strong fairness, written out with the        *)
(* condition that enables it, which TLC evaluates faster.  All other        *)
(* packets may be lost: the subflow gives up.                               *)
FinAlone(p) == p.data = None /\ p.fin # None

HasRoom(h) == Cardinality(net[h]) < LinkCap[h]

Arrives(h, p) ==
  /\ p \notin net'[Peer(h)]
  /\ \E closes \in BOOLEAN : Receive(h, p, closes)

Fairness ==
  \A h \in Hosts :
    /\ []<>(Running => HasRoom(h))
    /\ SF_vars(HasRoom(h) /\ DataFinTimeout(h))
    /\ WF_vars(ReTxTimeout(h))
    /\ []<>(Running /\ \E p \in net[Peer(h)] : FinAlone(p))
         => []<><<\E p \in net[Peer(h)] : FinAlone(p) /\ Arrives(h, p)>>_vars

FairSpec == Spec /\ Fairness

-----------------------------------------------------------------------------
(* Properties. *)

(* The application of h was given, or can read, all that its peer wrote. *)
ReceivedAll(h) == meta[h].got = meta[Peer(h)].written

(* A DATA_FIN stands right after the last byte its host ever writes, in    *)
(* flight and in the buffer of the receiver, whatever Send adds after      *)
(* Close was deferred.  One exception: the timer still runs when the       *)
(* DATA_FIN was acknowledged, and then sends one a number further, which   *)
(* the peer, having had the first, ignores.                                *)
FinIsEnd ==
  \A h \in Hosts :
    /\ meta[Peer(h)].finSeq \in {None, meta[h].written}
    /\ \A p \in net[h] :
         \/ p.fin \in {None, meta[h].written}
         \/ p.fin = meta[h].written + 1 /\ Finished(meta[Peer(h)])

(* The application is told that the peer closed only when all its data and *)
(* its DATA_FIN are there.                                                 *)
EofAfterAllData ==
  \A h \in Hosts :
    meta[h].closeNotified => Finished(meta[h]) /\ ReceivedAll(h)

(* FIN_WAIT_2 means what it says: the peer has all data and the DATA_FIN,  *)
(* so that closing the subflows loses nothing.                             *)
FinWait2Acked ==
  \A h \in Hosts :
    meta[h].state = "FinWait2" => Finished(meta[Peer(h)]) /\ ReceivedAll(Peer(h))

(* The two streams of the connection, each with its end: a host may write   *)
(* until its DATA_FIN goes, and the peer's stream is over for it when       *)
(* NotifyNormalClose was called.                                            *)
Stream == INSTANCE DuplexStream WITH
  written  <- [h \in Hosts |-> meta[h].written],
  ended    <- [h \in Hosts |-> meta[h].state \notin {"Established", "CloseWait"}],
  received <- [h \in Hosts |-> meta[h].got],
  eof      <- [h \in Hosts |-> meta[h].closeNotified]

(* Whatever is closed, retransmitted or lost, and in whatever order, the    *)
(* connection stays a pair of streams: nothing is written behind a DATA_FIN *)
(* that went, nothing received is taken back, and an application is told of *)
(* the end once, when it is there.                                          *)
StreamSpec == Stream!Spec

(* The DATA_FIN of a host that closed with Close is not forgotten: while the *)
(* host waits in FIN_WAIT_1, its timer runs, or the peer has the DATA_FIN,   *)
(* or the subflow still has to retransmit the byte that carries it.          *)
FinNotForgotten ==
  \A h \in Hosts :
    meta[h].state = "FinWait1" /\ ~meta[h].shutdownSend =>
      \/ meta[h].retx
      \/ meta[Peer(h)].finSeq # None
      \/ meta[h].closeOnEmpty /\ meta[h].sfHead < meta[h].written

(* A host that closed with Close, at once or when its last byte went, gets *)
(* its DATA_FIN to the peer, unless it leaves FIN_WAIT_1 before, its       *)
(* subflow gives up after m_dataRetries retransmissions, or the simulation *)
(* stops.  A DATA_FIN that rides on the last byte has no other sender than *)
(* that subflow; one that goes alone is repeated by m_retxEvent, without   *)
(* limit.                                                                  *)
FinArrives ==
  \A h \in Hosts :
    meta[h].state = "FinWait1" /\ ~meta[h].shutdownSend ~>
      \/ Finished(meta[Peer(h)])
      \/ meta[h].state # "FinWait1"
      \/ ~Running      \* "subflow dropped", or another of Stops

(* "This ACK corresponds to the FIN sent" (ReceivedAck): a host in TIME_WAIT, *)
(* whose timers are cancelled, knows that its DATA_FIN arrived.               *)
TimeWaitIsAcked ==
  \A h \in Hosts : meta[h].state = "TimeWait" => Finished(meta[Peer(h)])

(* The assertion of DoPeerClose: a DATA_FIN comes into sequence only in     *)
(* ESTABLISHED.                                                             *)
PeerClosesOnce == \A h \in Hosts : meta[h].stop # "DoPeerClose"
=============================================================================
