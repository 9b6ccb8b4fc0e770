---------------------------- MODULE MetaTransfer ----------------------------
(***************************************************************************)
(* The data path of an established MPTCP connection, in one direction: the *)
(* sending MpTcpMetaSocket cuts its send buffer into mappings and hands    *)
(* each to a subflow its scheduler picked; a subflow is a TCP sender with  *)
(* its own sequence space (SSN); the receiver puts every segment in the    *)
(* subflow's receive buffer and, through its mapping, in the meta one,     *)
(* from which the application reads the stream in data sequence (DSN).     *)
(* Sequence numbers count from 0, and the byte at position d of the stream *)
(* is written d, so a payload is a sequence of positions.                  *)
(* Congestion control is abstracted to what the sender does with it: the   *)
(* window of a subflow is any value of CongestionWindows when it is read,  *)
(* and an acknowledgement may or may not make it grow.                     *)
(***************************************************************************)
EXTENDS Integers, Sequences, FiniteSets

CONSTANTS
  Subflows,     \* the established (active) subflows
  StreamLen,    \* bound: bytes the application writes in all
  MaxWrite,     \* bound: bytes in one call of Send
  SegSize,      \* segment size of the subflows
  SndBuf,       \* capacity of the meta send buffer
  AdvWnd,       \* window every segment of the receiver advertises
  RcvBuf,       \* capacity of each receive buffer, of the meta or a subflow
  DataCap,      \* segments the link of a subflow queues; more are dropped
  AckCap,       \* the same for acknowledgements
  DataRetries,  \* retransmissions of a subflow without a new acknowledgement
  EagerReader   \* the application reads everything in its receive callback

ASSUME SizesAssumption ==
  /\ StreamLen \in Nat \ {0}
  /\ MaxWrite \in Nat \ {0}
  /\ SegSize \in Nat \ {0}
  /\ SndBuf \in Nat \ {0}
  /\ AdvWnd \in Nat /\ AdvWnd >= SegSize
  /\ RcvBuf \in Nat /\ RcvBuf >= AdvWnd
  /\ DataCap \in Nat \ {0} /\ AckCap \in Nat \ {0}
  /\ DataRetries \in Nat
  /\ EagerReader \in BOOLEAN

VARIABLES
  written,      \* tail of the meta send buffer: bytes the application wrote
  txHead,       \* head of the meta send buffer: first byte not DATA_ACKed
  nextTx,       \* m_nextTxSequence: next byte to map on a subflow
  sendEvent,    \* m_sendPendingDataEvent: "idle", "scheduled" or "running"
  sfLoop,       \* the subflow (and its window) now in SendPendingData, or << >>
  stream,       \* per subflow: the bytes added to its send buffer so far
  ssnHead,      \* per subflow: head of its send buffer, first SSN not acked
  ssnNext,      \* per subflow: m_nextTxSequence, next SSN to transmit
  ssnHigh,      \* per subflow: m_highTxMark
  cong,         \* per subflow: m_congState, with CA_DISORDER taken as open
  recover,      \* per subflow: m_recover
  txMap,        \* per subflow: m_TxMappings
  retrCount,    \* per subflow: m_dataRetrCount, the retransmissions left
  endPoint,     \* per subflow: it has its end point, FALSE once it gave up
  dataNet,      \* data segments in flight
  ackNet,       \* acknowledgements in flight
  sfNext,       \* per subflow, receiver: next SSN expected
  sfOoo,        \* per subflow, receiver: SSNs buffered beyond a hole
  rxNext,       \* meta receive buffer: next DSN expected (the DATA_ACK)
  rxBuf,        \* meta receive buffer: DSN -> byte, for bytes not yet read
  delivered     \* the bytes the application has read

appVars    == <<written, delivered>>
metaTxVars == <<txHead, nextTx, sendEvent, sfLoop>>
retryVars  == <<retrCount, endPoint>>
sfTxVars   == <<stream, ssnHead, ssnNext, ssnHigh, cong, recover, txMap, retryVars>>
netVars    == <<dataNet, ackNet>>
rxVars     == <<sfNext, sfOoo, rxNext, rxBuf>>
vars       == <<appVars, metaTxVars, sfTxVars, netVars, rxVars>>

Byte    == 0 .. (StreamLen - 1)
Mapping == [dsn : Nat, ssn : Nat, len : Nat]
Segment == [sf : Subflows, ssn : Nat, map : Mapping, data : Seq(Byte)]
Ack     == [sf : Subflows, ack : Nat, dack : Nat]

Min2(a, b) == IF a < b THEN a ELSE b
Max2(a, b) == IF a > b THEN a ELSE b
Bytes(first, len) == first .. (first + len - 1)

(* The drop-tail queue of the link p takes. *)
Enqueue(net, p, cap) ==
  IF Cardinality({q \in net : q.sf = p.sf}) < cap THEN net \cup {p} ELSE net

(* Values of m_cWnd that matter: never below one segment, and growth past *)
(* the peer's window has no effect since Window takes the smaller one.    *)
CongestionWindows == SegSize .. AdvWnd

TypeOK ==
  /\ written \in 0..StreamLen
  /\ txHead \in 0..StreamLen /\ nextTx \in 0..StreamLen
  /\ sendEvent \in {"idle", "scheduled", "running"}
  /\ sfLoop \in {<< >>} \cup (Subflows \X CongestionWindows)
  /\ stream \in [Subflows -> Seq(Byte)]
  /\ ssnHead \in [Subflows -> Nat]
  /\ ssnNext \in [Subflows -> Nat]
  /\ ssnHigh \in [Subflows -> Nat]
  /\ cong \in [Subflows -> {"open", "recovery", "loss"}]
  /\ recover \in [Subflows -> Nat]
  /\ txMap \in [Subflows -> SUBSET Mapping]
  /\ retrCount \in [Subflows -> 0..DataRetries]
  /\ endPoint \in [Subflows -> BOOLEAN]
  /\ dataNet \subseteq Segment
  /\ ackNet \subseteq Ack
  /\ sfNext \in [Subflows -> Nat]
  /\ sfOoo \in [Subflows -> SUBSET Nat]
  /\ rxNext \in 0..StreamLen
  /\ DOMAIN rxBuf \subseteq Byte
  /\ rxBuf \in [DOMAIN rxBuf -> Byte]
  /\ delivered \in Seq(Byte)

Init ==
  /\ written = 0 /\ txHead = 0 /\ nextTx = 0 /\ sendEvent = "idle" /\ sfLoop = << >>
  /\ stream = [s \in Subflows |-> << >>]
  /\ ssnHead = [s \in Subflows |-> 0]
  /\ ssnNext = [s \in Subflows |-> 0]
  /\ ssnHigh = [s \in Subflows |-> 0]
  /\ cong = [s \in Subflows |-> "open"]
  /\ recover = [s \in Subflows |-> 0]
  /\ txMap = [s \in Subflows |-> {}]
  /\ retrCount = [s \in Subflows |-> DataRetries]
  /\ endPoint = [s \in Subflows |-> TRUE]
  /\ dataNet = {} /\ ackNet = {}
  /\ sfNext = [s \in Subflows |-> 0]
  /\ sfOoo = [s \in Subflows |-> {}]
  /\ rxNext = 0 /\ rxBuf = [d \in {} |-> 0] /\ delivered = << >>

-----------------------------------------------------------------------------
(* Windows, as the sender computes them. *)

(* Mutant of AvailableWindow: what is outstanding is not counted. *)
WholeWindow(w, u) == w

(* What a window of w bytes leaves once u bytes are outstanding. *)
AvailableWindow(w, u) == IF w < u THEN 0 ELSE w - u

(* Mutant of MetaWindow: only what the subflows hold back is counted. *)
UnsentMetaWindow == AvailableWindow(AdvWnd, written - nextTx)

MetaWindow == AvailableWindow(AdvWnd, nextTx - txHead)

SubflowWindow(s, cwnd) ==
  AvailableWindow(Min2(AdvWnd, cwnd), ssnNext[s] - ssnHead[s])

(* Silly-window check: less than a segment may go only if it is the rest. *)
CanSendPendingData(w, dataToSend) ==
  /\ ~(w < SegSize /\ dataToSend > w)
  /\ w > 0

-----------------------------------------------------------------------------
(* Mappings and segments of a subflow. *)

TailSSN(m) == m.ssn + m.len - 1

Covering(maps, ssn) == {m \in maps : m.ssn <= ssn /\ ssn <= TailSSN(m)}

GetMappingForSSN(maps, ssn) == CHOOSE m \in Covering(maps, ssn) : TRUE

GetDSNFromSSN(m, ssn) == m.dsn + (ssn - m.ssn)

(* Mutant of InSSNRange: the walk includes a mapping that starts at the end. *)
TouchingSSNRange(maps, ssn, length) ==
  {m \in maps : \E k \in Covering(maps, ssn) :
     k.ssn <= m.ssn /\ m.ssn - k.ssn <= length /\ TailSSN(m) <= ssn + length}

(* The mappings DiscardMappingsInSSNRange erases: it walks from the one   *)
(* that has ssn, and compares the end of the range with the last SSN of   *)
(* each.  (A range that starts inside a mapping shifts the walk: never,   *)
(* while UnackedIsMapped and MappingCoversPacket hold.)                   *)
InSSNRange(maps, ssn, length) ==
  {m \in maps : \E k \in Covering(maps, ssn) :
     k.ssn <= m.ssn /\ m.ssn - k.ssn < length /\ TailSSN(m) <= ssn + length}

(* Mutants of DataPacket: it copies from the head of the send buffer, or *)
(* is not cut to its mapping.                                            *)
HeadPacket(s, ssn, maxSize) ==
  LET m   == GetMappingForSSN(txMap[s], ssn)
      len == Min2(Min2(maxSize, m.len), Len(stream[s]) - ssn)
  IN  [sf |-> s, ssn |-> ssn, map |-> m,
       data |-> SubSeq(stream[s], ssnHead[s] + 1, ssnHead[s] + len)]

UncutPacket(s, ssn, maxSize) ==
  LET len == Min2(maxSize, Len(stream[s]) - ssn)
  IN  [sf |-> s, ssn |-> ssn, map |-> GetMappingForSSN(txMap[s], ssn),
       data |-> SubSeq(stream[s], ssn + 1, ssn + len)]

(* SendDataPacket and SendPacket: at most maxSize bytes from ssn on, cut  *)
(* to the length of the mapping found there, with that mapping attached.  *)
DataPacket(s, ssn, maxSize) ==
  LET m   == GetMappingForSSN(txMap[s], ssn)
      len == Min2(Min2(maxSize, m.len), Len(stream[s]) - ssn)
  IN  [sf |-> s, ssn |-> ssn, map |-> m,
       data |-> SubSeq(stream[s], ssn + 1, ssn + len)]

-----------------------------------------------------------------------------
(* The sending application and the meta socket. *)

(* The simulator runs one event at a time: nothing else happens while a *)
(* SendPendingData loop, of the meta socket or of a subflow, runs.      *)
NoLoop == sendEvent # "running" /\ sfLoop = << >>

(* sendEvent once SendPendingData has been scheduled. *)
Scheduled == IF sendEvent = "idle" THEN "scheduled" ELSE sendEvent

(* Send: store n bytes in the send buffer and schedule SendPendingData. *)
AppSend(n) ==
  /\ NoLoop
  /\ written + n <= StreamLen
  /\ n <= SndBuf - (written - txHead)
  /\ written' = written + n
  /\ sendEvent' = Scheduled
  /\ UNCHANGED <<delivered, txHead, nextTx, sfLoop, sfTxVars, netVars, rxVars>>

(* The scheduler may return s when its congestion window reads as cwnd. *)
Eligible(s, cwnd) ==
  CanSendPendingData(SubflowWindow(s, cwnd), written - nextTx)

(* Mutant of SendSize: it counts what is buffered, not what is still unsent. *)
BufferSendSize(s, cwnd) ==
  Min2(Min2(SubflowWindow(s, cwnd), written - txHead), SegSize)

(* GetSendSizeForSubflow: at most one segment. *)
SendSize(s, cwnd) ==
  Min2(Min2(SubflowWindow(s, cwnd), written - nextTx), SegSize)

FirstUnmappedSSN(s) == Len(stream[s])

(* One iteration of the loop of the meta SendPendingData: map the next    *)
(* bytes at the tail of the send buffer of s, which then runs its own     *)
(* loop (Transmit).  A subflow that gave up is still among the active     *)
(* ones, and is chosen like any other.                                    *)
DispatchOn(s, cwnd) ==
  LET len == SendSize(s, cwnd) IN
  /\ sendEvent \in {"scheduled", "running"} /\ sfLoop = << >>
  /\ written - nextTx > 0
  /\ MetaWindow > 0
  /\ Eligible(s, cwnd)
  /\ txMap' = [txMap EXCEPT ![s] =
                 @ \cup {[dsn |-> nextTx, ssn |-> FirstUnmappedSSN(s), len |-> len]}]
  /\ stream' = [stream EXCEPT ![s] = @ \o [i \in 1..len |-> nextTx + i - 1]]
  /\ nextTx' = nextTx + len
  /\ sendEvent' = "running"
  /\ sfLoop' = <<s, cwnd>>
  /\ UNCHANGED <<appVars, txHead, ssnHead, ssnNext, ssnHigh, cong, recover, retryVars,
                 netVars, rxVars>>

(* The loop ends: nothing left, no meta window, or no eligible subflow. *)
DispatchEnd ==
  /\ sendEvent \in {"scheduled", "running"} /\ sfLoop = << >>
  /\ \/ written - nextTx = 0
     \/ MetaWindow = 0
     \/ \A s \in Subflows : \E cwnd \in CongestionWindows : ~Eligible(s, cwnd)
  /\ sendEvent' = "idle"
  /\ UNCHANGED <<appVars, txHead, nextTx, sfLoop, sfTxVars, netVars, rxVars>>

-----------------------------------------------------------------------------
(* The subflow's TCP sender. *)

(* Put p on the wire, if s has an end point still; its transmission now *)
(* reaches upTo.                                                        *)
SendFrom(s, p, upTo) ==
  /\ dataNet' = IF endPoint[s] THEN Enqueue(dataNet, p, DataCap) ELSE dataNet
  /\ ssnNext' = [ssnNext EXCEPT ![s] = upTo]
  /\ ssnHigh' = [ssnHigh EXCEPT ![s] = Max2(@, p.ssn + Len(p.data))]

MoreToTransmit(s, cwnd) ==
  /\ endPoint[s]
  /\ ssnNext[s] < Len(stream[s])
  /\ CanSendPendingData(SubflowWindow(s, cwnd), Len(stream[s]) - ssnNext[s])

(* One segment of the subflow's SendPendingData: called by Send, or its *)
(* own scheduled event.                                                 *)
Transmit(s, cwnd) ==
  LET p == DataPacket(s, ssnNext[s], Min2(SubflowWindow(s, cwnd), SegSize)) IN
  /\ sfLoop = <<s, cwnd>> \/ NoLoop
  /\ MoreToTransmit(s, cwnd)
  /\ SendFrom(s, p, ssnNext[s] + Len(p.data))
  /\ sfLoop' = <<s, cwnd>>
  /\ UNCHANGED <<appVars, txHead, nextTx, sendEvent, stream, ssnHead, cong,
                 recover, txMap, retryVars, ackNet, rxVars>>

TransmitEnd ==
  /\ sfLoop # << >>
  /\ ~MoreToTransmit(sfLoop[1], sfLoop[2])
  /\ sfLoop' = << >>
  /\ UNCHANGED <<appVars, txHead, nextTx, sendEvent, sfTxVars, netVars, rxVars>>

(* Mutant of RetriesLeft: the retransmissions are not counted. *)
RetriesUncounted(s) == retrCount[s]

(* m_dataRetrCount after one more retransmission. *)
RetriesLeft(s) == Max2(retrCount[s] - 1, 0)

(* DoRetransmit: one segment from ssn on, or, when no retry is left, none:  *)
(* the subflow gives up and loses its end point.  No callback tells anyone. *)
DoRetransmit(s, ssn, next) ==
  LET p == DataPacket(s, ssn, SegSize) IN
  \/ /\ retrCount[s] > 0
     /\ SendFrom(s, p, Max2(next, ssn + Len(p.data)))
     /\ UNCHANGED endPoint
  \/ /\ retrCount[s] = 0
     /\ endPoint' = [endPoint EXCEPT ![s] = FALSE]
     /\ ssnNext' = [ssnNext EXCEPT ![s] = next]
     /\ UNCHANGED <<ssnHigh, dataNet>>

(* Retransmission timeout: go back to the first unacknowledged segment.     *)
(* (Giving up cancels the timer, but the partial acknowledgement that did   *)
(* it starts it again.)                                                     *)
ReTxTimeout(s) ==
  /\ NoLoop
  /\ ssnHead[s] < ssnHigh[s]
  /\ DoRetransmit(s, ssnHead[s], ssnHead[s])
  /\ retrCount' = [retrCount EXCEPT ![s] = RetriesLeft(s)]
  /\ cong' = [cong EXCEPT ![s] = "loss"]
  /\ recover' = [recover EXCEPT ![s] = ssnHigh[s]]
  /\ UNCHANGED <<appVars, metaTxVars, stream, ssnHead, txMap, ackNet, rxVars>>

-----------------------------------------------------------------------------
(* Acknowledgements.  The DATA_ACK is processed first, with the options. *)

(* Mutant of ReceivedAck: an old DATA_ACK pulls m_nextTxSequence back. *)
ReceivedAckBack(a) ==
  /\ NoLoop
  /\ a \in ackNet /\ endPoint[a.sf]
  /\ ackNet' = ackNet \ {a}
  /\ txHead' = Max2(txHead, a.dack)
  /\ nextTx' = a.dack

(* What arrives for a subflow without end point reaches no socket. *)
ReceivedAck(a) ==
  /\ NoLoop
  /\ a \in ackNet /\ endPoint[a.sf]
  /\ ackNet' = ackNet \ {a}
  /\ txHead' = Max2(txHead, a.dack)
  /\ nextTx' = Max2(nextTx, a.dack)

IsDupAck(a) == a.ack = ssnHead[a.sf] /\ a.ack < ssnNext[a.sf]

(* Neither new nor a duplicate, or a duplicate that is only counted. *)
StaleAck(a) ==
  /\ ReceivedAck(a)
  /\ a.ack <= ssnHead[a.sf]
  /\ ~(IsDupAck(a) /\ cong[a.sf] = "recovery")
  /\ UNCHANGED <<appVars, sendEvent, sfLoop, sfTxVars, dataNet, rxVars>>

(* Limited transmit: a duplicate lets one more segment go, window or not. *)
LimitedTransmit(a) ==
  LET p == DataPacket(a.sf, ssnNext[a.sf], SegSize) IN
  /\ ReceivedAck(a)
  /\ IsDupAck(a)
  /\ cong[a.sf] = "open"
  /\ ssnNext[a.sf] < Len(stream[a.sf])
  /\ SendFrom(a.sf, p, ssnNext[a.sf] + Len(p.data))
  /\ UNCHANGED <<appVars, sendEvent, sfLoop, stream, ssnHead, cong, recover,
                 txMap, retryVars, rxVars>>

(* The third duplicate: retransmit the head, enter recovery; the window  *)
(* becomes ssthresh + 3 segments, which may be more than before or less. *)
FastRetransmit(a) ==
  /\ ReceivedAck(a)
  /\ IsDupAck(a)
  /\ cong[a.sf] = "open"
  /\ ssnHead[a.sf] >= recover[a.sf]
  /\ DoRetransmit(a.sf, ssnHead[a.sf], ssnNext[a.sf])
  /\ retrCount' = [retrCount EXCEPT ![a.sf] = RetriesLeft(a.sf)]
  /\ cong' = [cong EXCEPT ![a.sf] = "recovery"]
  /\ recover' = [recover EXCEPT ![a.sf] = ssnHigh[a.sf]]
  /\ sendEvent' \in {sendEvent, Scheduled}
  /\ UNCHANGED <<appVars, sfLoop, stream, ssnHead, txMap, rxVars>>

(* Every later duplicate in recovery makes the window grow, and the subflow *)
(* goes on to send what it now may.                                         *)
InflateWindow(a) ==
  /\ ReceivedAck(a)
  /\ IsDupAck(a)
  /\ cong[a.sf] = "recovery"
  /\ sendEvent' = Scheduled
  /\ \E cwnd \in CongestionWindows : sfLoop' = <<a.sf, cwnd>>
  /\ UNCHANGED <<appVars, sfTxVars, dataNet, rxVars>>

(* A partial acknowledgement in recovery discards directly from the send *)
(* buffer, so the mappings stay, and retransmits the next segment, if a  *)
(* retry was left before it is known that this is a new acknowledgement; *)
(* the window shrinks and grows again, which schedules SendPendingData.  *)
PartialAck(a) ==
  /\ ReceivedAck(a)
  /\ ssnHead[a.sf] < a.ack
  /\ cong[a.sf] = "recovery" /\ a.ack < recover[a.sf]
  /\ DoRetransmit(a.sf, a.ack, Max2(ssnNext[a.sf], a.ack))
  /\ retrCount' = [retrCount EXCEPT ![a.sf] = DataRetries]
  /\ ssnHead' = [ssnHead EXCEPT ![a.sf] = a.ack]
  /\ sendEvent' = Scheduled
  /\ UNCHANGED <<appVars, sfLoop, stream, cong, recover, txMap, rxVars>>

(* Any other new acknowledgement.  The window grows, which schedules      *)
(* SendPendingData, unless the increment MpTcpLia computes truncates to   *)
(* 0, as it does for large windows; after a timeout it is small.          *)
NewAck(a) ==
  LET head == ssnHead[a.sf] IN
  /\ ReceivedAck(a)
  /\ head < a.ack
  /\ ~(cong[a.sf] = "recovery" /\ a.ack < recover[a.sf])
  /\ ssnHead' = [ssnHead EXCEPT ![a.sf] = a.ack]
  /\ ssnNext' = [ssnNext EXCEPT ![a.sf] = Max2(@, a.ack)]
  /\ txMap' = [txMap EXCEPT ![a.sf] = @ \ InSSNRange(@, head, a.ack - head)]
  /\ cong' = [cong EXCEPT ![a.sf] = "open"]
  /\ retrCount' = [retrCount EXCEPT ![a.sf] = DataRetries]
  /\ \/ sendEvent' = Scheduled
     \/ cong[a.sf] # "loss" /\ sendEvent' = sendEvent
  /\ UNCHANGED <<appVars, sfLoop, stream, ssnHigh, recover, endPoint, dataNet, rxVars>>

-----------------------------------------------------------------------------
(* The receiver. *)

SSNs(p) == Bytes(p.ssn, Len(p.data))
DSN(p)  == GetDSNFromSSN(p.map, p.ssn)

(* TcpRxBuffer::Add: of the bytes a buffer does not have yet it keeps     *)
(* those within RcvBuf of the first one it holds, if it holds any.        *)
Kept(bytes, next, have) ==
  {x \in bytes : x >= next /\ x \notin have /\ \A b \in have : x < b + RcvBuf}

(* What of p the receive buffer of its subflow takes, and the meta one, to *)
(* which the subflow hands the segment as it came.                        *)
NewSSNs(p) == Kept(SSNs(p), sfNext[p.sf], sfOoo[p.sf])
Stored(p)  == Kept(Bytes(DSN(p), Len(p.data)), rxNext, DOMAIN rxBuf)

(* Wholly before or wholly after what the subflow can take. *)
OutOfRange(p) ==
  LET s == p.sf IN
  \/ p.ssn + Len(p.data) < sfNext[s]
  \/ \E b \in (IF sfOoo[s] = {} THEN {sfNext[s]} ELSE sfOoo[s]) : b + RcvBuf <= p.ssn

BufferWith(p) ==
  [d \in DOMAIN rxBuf \cup Stored(p) |->
     IF d \in Stored(p) THEN p.data[d - DSN(p) + 1] ELSE rxBuf[d]]

(* next is the new NextRxSequence of a buffer that had from and has S. *)
Advances(from, S, next) ==
  /\ from <= next /\ next \notin S
  /\ \A x \in from .. (next - 1) : x \in S

(* Recv of the first n bytes of buf; the rest stays in the buffer. *)
Extract(buf, n) ==
  LET pos == Len(delivered) IN
  /\ delivered' = delivered \o [i \in 1..n |-> buf[pos + i - 1]]
  /\ rxBuf' = [d \in {x \in DOMAIN buf : x >= pos + n} |-> buf[d]]

(* Mutants of ReceiveDuplicate: it acknowledges the end of the duplicate, *)
(* even beyond a hole, or does not answer at all.                         *)
AcknowledgeDuplicate(p) ==
  /\ NoLoop
  /\ p \in dataNet
  /\ OutOfRange(p) \/ NewSSNs(p) = {}
  /\ dataNet' = dataNet \ {p}
  /\ ackNet' = Enqueue(ackNet, [sf |-> p.sf, ack |-> p.ssn + Len(p.data),
                               dack |-> rxNext], AckCap)
  /\ UNCHANGED <<appVars, metaTxVars, sfTxVars, rxVars>>

IgnoreDuplicate(p) ==
  /\ NoLoop
  /\ p \in dataNet
  /\ OutOfRange(p) \/ NewSSNs(p) = {}
  /\ dataNet' = dataNet \ {p}
  /\ UNCHANGED <<appVars, metaTxVars, sfTxVars, ackNet, rxVars>>

(* A segment with nothing the subflow takes is acknowledged again.  Out of *)
(* range, it is dropped before its options are read, and the answer need  *)
(* not carry a DATA_ACK, which is the same as one for byte 0.             *)
ReceiveDuplicate(p) ==
  /\ NoLoop
  /\ p \in dataNet
  /\ OutOfRange(p) \/ NewSSNs(p) = {}
  /\ dataNet' = dataNet \ {p}
  /\ \E dack \in {rxNext} \cup {d \in {0} : OutOfRange(p)} :
       ackNet' = Enqueue(ackNet, [sf |-> p.sf, ack |-> sfNext[p.sf], dack |-> dack],
                         AckCap)
  /\ UNCHANGED <<appVars, metaTxVars, sfTxVars, rxVars>>

(* ReceivedData: both buffers take the segment, the application is told   *)
(* if the stream advanced, and the acknowledgement follows.               *)
ReceiveData(p, ssn, dsn) ==
  LET s    == p.sf
      have == sfOoo[s] \cup NewSSNs(p)
      buf  == BufferWith(p)
  IN
  /\ NoLoop
  /\ p \in dataNet
  /\ ~OutOfRange(p) /\ NewSSNs(p) # {}
  /\ Advances(sfNext[s], have, ssn)
  /\ Advances(rxNext, DOMAIN buf, dsn)
  /\ sfNext' = [sfNext EXCEPT ![s] = ssn]
  /\ sfOoo' = [sfOoo EXCEPT ![s] = {x \in have : x >= ssn}]
  /\ rxNext' = dsn
  /\ IF EagerReader
       THEN Extract(buf, dsn - Len(delivered))
       ELSE rxBuf' = buf /\ UNCHANGED delivered
  /\ dataNet' = dataNet \ {p}
  /\ ackNet' = Enqueue(ackNet, [sf |-> s, ack |-> ssn, dack |-> dsn], AckCap)
  /\ UNCHANGED <<written, metaTxVars, sfTxVars>>

(* Recv called outside the callback. *)
AppRead(n) ==
  /\ NoLoop
  /\ n <= rxNext - Len(delivered)
  /\ Extract(rxBuf, n)
  /\ UNCHANGED <<written, metaTxVars, sfTxVars, netVars, sfNext, sfOoo, rxNext>>

-----------------------------------------------------------------------------
(* The links lose packets; they delay and reorder by leaving them there. *)

LoseData(p) ==
  /\ NoLoop
  /\ p \in dataNet
  /\ dataNet' = dataNet \ {p}
  /\ UNCHANGED <<appVars, metaTxVars, sfTxVars, ackNet, rxVars>>

LoseAck(a) ==
  /\ NoLoop
  /\ a \in ackNet
  /\ ackNet' = ackNet \ {a}
  /\ UNCHANGED <<appVars, metaTxVars, sfTxVars, dataNet, rxVars>>

-----------------------------------------------------------------------------
Next ==
  \/ \E n \in 1..MaxWrite : AppSend(n)
  \/ \E s \in Subflows, cwnd \in CongestionWindows : DispatchOn(s, cwnd)
  \/ DispatchEnd
  \/ \E s \in Subflows, cwnd \in CongestionWindows : Transmit(s, cwnd)
  \/ TransmitEnd
  \/ \E s \in Subflows : ReTxTimeout(s)
  \/ \E a \in ackNet :
       \/ StaleAck(a)
       \/ LimitedTransmit(a)
       \/ FastRetransmit(a)
       \/ InflateWindow(a)
       \/ PartialAck(a)
       \/ NewAck(a)
  \/ \E p \in dataNet : ReceiveDuplicate(p)
  \/ \E p \in dataNet, ssn, dsn \in 0..StreamLen : ReceiveData(p, ssn, dsn)
  \/ \E n \in 1..StreamLen : AppRead(n)
  \/ \E p \in dataNet : LoseData(p)
  \/ \E a \in ackNet : LoseAck(a)

Spec == Init /\ [][Next]_vars

(* Fairness.  Events of the simulator run when their time comes: loops end, *)
(* a scheduled SendPendingData runs, a subflow with room transmits (every   *)
(* new acknowledgement schedules it), a running timer expires.  The reader  *)
(* reads.  Nobody has to write, and the links may lose all they carry: a    *)
(* subflow then gives up.                                                   *)
Fairness ==
  /\ WF_vars(DispatchEnd \/ \E s \in Subflows, cwnd \in CongestionWindows :
                              DispatchOn(s, cwnd))
  /\ WF_vars(TransmitEnd)
  /\ WF_vars(\E n \in 1..StreamLen : AppRead(n))
  /\ \A s \in Subflows :
       /\ WF_vars(\E cwnd \in CongestionWindows : Transmit(s, cwnd))
       /\ WF_vars(ReTxTimeout(s))

FairSpec == Spec /\ Fairness

-----------------------------------------------------------------------------
(* Properties. *)

(* Where subflow s carries the byte at position d of the stream. *)
Carries(s, i, d) == i \in 1..Len(stream[s]) /\ stream[s][i] = d

(* The byte at SSN x of s has not reached the receiver. *)
Outstanding(s, x) == x >= sfNext[s] /\ x \notin sfOoo[s]

(* No byte is lost for good: one that was mapped and has not reached the   *)
(* meta receive buffer is still to be received by the subflow it was       *)
(* mapped on, which retransmits it until it gives up.  Subflows            *)
(* acknowledge what the meta buffer refuses and there is no meta           *)
(* retransmission, so this rests on the windows, AdvertisedWindowSize and  *)
(* TcpRxBuffer::Add.                                                       *)
NoByteLost ==
  \A d \in rxNext .. (nextTx - 1) :
    \/ d \in DOMAIN rxBuf
    \/ \E s \in Subflows : \E i \in 1..Len(stream[s]) :
         Carries(s, i, d) /\ Outstanding(s, i - 1)

(* What the sender frees is at the receiver: a byte below the head of the  *)
(* meta send buffer was read or waits in the meta receive buffer, and a    *)
(* byte below the head of a subflow's send buffer reached the subflow's    *)
(* receiver (NewAck and UpdateTxBuffer discard for good).                  *)
FreedWasReceived ==
  /\ \A d \in 0..(txHead - 1) : d < Len(delivered) \/ d \in DOMAIN rxBuf
  /\ \A s \in Subflows : \A x \in 0..(ssnHead[s] - 1) : ~Outstanding(s, x)

(* Whatever a subflow may have to send again still has its mapping, and    *)
(* the mapping leads to the DSN of that very byte: SendPacket never stops  *)
(* at "Could not find mapping associated to ssn".                          *)
UnackedIsMapped ==
  \A s \in Subflows : \A x \in ssnHead[s] .. (Len(stream[s]) - 1) :
    /\ Covering(txMap[s], x) # {}
    /\ \A m \in Covering(txMap[s], x) : GetDSNFromSSN(m, x) = stream[s][x + 1]

(* The assertion of SendPacket: the mapping covers the whole packet, so    *)
(* the receiver can place each of its bytes.                               *)
MappingCoversPacket ==
  \A p \in dataNet :
    p.map.ssn <= p.ssn /\ p.ssn + Len(p.data) - 1 <= TailSSN(p.map)

(* Every byte below m_nextTxSequence was given to exactly one subflow, at  *)
(* one place, and none above it to any.                                    *)
MappedOnce ==
  /\ \A d \in 0..(nextTx - 1) : \E s \in Subflows :
       \E i \in 1..Len(stream[s]) : Carries(s, i, d)
  /\ \A s, t \in Subflows :
       \A i \in 1..Len(stream[s]), j \in 1..Len(stream[t]) :
         /\ stream[s][i] < nextTx
         /\ stream[s][i] = stream[t][j] => s = t /\ i = j

(* GetSendSizeForSubflow does not look at the meta window, which is only   *)
(* compared with 0: the data in flight may exceed the advertised window,   *)
(* but by less than one segment.                                           *)
WindowOvershoot == nextTx - txHead < AdvWnd + SegSize

(* A subflow's receive buffer takes a segment whole or has it: neither     *)
(* trimming in TcpRxBuffer::Add nor OutOfRange keeps a new byte out, so    *)
(* every acknowledgement falls between two mappings.  A subflow only       *)
(* counts what it sent since it last went back, so this rests on the meta  *)
(* window.                                                                 *)
SegmentTakenWhole ==
  \A p \in dataNet :
    LET missing == {x \in SSNs(p) : Outstanding(p.sf, x)} IN
    missing # {} => ~OutOfRange(p) /\ missing = NewSSNs(p)

(* A subflow that gave up holds one of the bytes before position k that    *)
(* the reader still waits for.                                             *)
HeldByDropped(k) ==
  \E s \in Subflows : \E i \in 1..Len(stream[s]) :
    ~endPoint[s] /\ stream[s][i] \in Len(delivered) .. (k - 1)

(* Every byte that was mapped is eventually read, or one before it is on a *)
(* subflow that exhausted m_dataRetries and lost its end point             *)
(* (DoRetransmit).  Whatever is lost or reordered, no subflow falls silent *)
(* with bytes outstanding, retransmits for ever, or waits for another one  *)
(* that gave up behind it in the stream.  This is for an eager reader, or  *)
(* a buffer that holds the stream; NoByteLost fails for others.            *)
MappedIsDelivered ==
  \A k \in 1..StreamLen :
    nextTx >= k ~> Len(delivered) >= k \/ HeldByDropped(k)

(* Every byte that was written is eventually read, unless a subflow gave up. *)
WrittenIsDelivered ==
  \A k \in 1..StreamLen :
    written >= k ~> Len(delivered) >= k \/ \E s \in Subflows : ~endPoint[s]

(* The connection is a reliable byte stream. *)
Stream == INSTANCE ByteStream WITH StreamLen <- StreamLen, written <- written, delivered <- delivered
StreamSpec == Stream!Spec
=============================================================================
