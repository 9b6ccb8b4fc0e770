------------------------- MODULE MetaTransferProofs -------------------------
(***************************************************************************)
(* Proofs about MetaTransfer, for every number of subflows, stream length, *)
(* segment size, window and buffer capacity.                               *)
(***************************************************************************)
EXTENDS MetaTransfer, SequenceTheorems, TLAPS

(* SSN x of subflow s is not inside a mapping: segments, acknowledgements  *)
(* and the two ends of the transmission always are at such a place.        *)
AtBoundary(s, x) == \A m \in txMap[s] : x <= m.ssn \/ TailSSN(m) < x

(* m describes len bytes of the stream of s, and says so correctly. *)
RightMapping(s, m) ==
  /\ 1 <= m.len /\ m.len <= SegSize
  /\ m.ssn + m.len <= Len(stream[s])
  /\ \A x \in m.ssn .. TailSSN(m) : stream[s][x + 1] = m.dsn + (x - m.ssn)

Apart(m, k) == TailSSN(m) < k.ssn \/ TailSSN(k) < m.ssn

(* p is one whole mapping with its bytes. *)
RightSegment(p) ==
  /\ p.ssn = p.map.ssn /\ Len(p.data) = p.map.len /\ 1 <= p.map.len
  /\ p.ssn + Len(p.data) <= Len(stream[p.sf])
  /\ \A i \in 1..Len(p.data) :
       p.data[i] = p.map.dsn + i - 1 /\ p.data[i] = stream[p.sf][p.ssn + i]
  /\ \A m \in txMap[p.sf] :
       Apart(m, p.map) \/ (m.ssn = p.map.ssn /\ m.len = p.map.len)

MetaOrder ==
  /\ txHead <= rxNext /\ rxNext <= nextTx /\ nextTx <= written
  /\ \A a \in ackNet : a.dack <= rxNext

SubflowOrder ==
  \A s \in Subflows :
    /\ ssnHead[s] <= ssnNext[s] /\ ssnNext[s] <= Len(stream[s])
    /\ ssnHigh[s] <= Len(stream[s]) /\ recover[s] <= Len(stream[s])
    /\ ssnHead[s] <= sfNext[s] /\ sfNext[s] <= Len(stream[s])
    /\ \A i \in 1..Len(stream[s]) : stream[s][i] < nextTx

MapsRight ==
  \A s \in Subflows :
    /\ \A m \in txMap[s] : RightMapping(s, m)
    /\ \A m, k \in txMap[s] : m = k \/ Apart(m, k)
    /\ \A x \in ssnHead[s] .. (Len(stream[s]) - 1) : Covering(txMap[s], x) # {}

Boundaries ==
  \A s \in Subflows :
    AtBoundary(s, ssnHead[s]) /\ AtBoundary(s, ssnNext[s]) /\ AtBoundary(s, sfNext[s])

AcksRight ==
  \A a \in ackNet : a.ack <= sfNext[a.sf] /\ AtBoundary(a.sf, a.ack)

SegmentsRight == \A p \in dataNet : RightSegment(p)

(* The receiver of a subflow has all of a mapping or nothing of it. *)
SubflowReceiver ==
  \A s \in Subflows :
    /\ \A x \in sfOoo[s] : sfNext[s] < x /\ x < Len(stream[s])
    /\ \A m \in txMap[s] :
         \/ \A x \in m.ssn .. TailSSN(m) : Outstanding(s, x)
         \/ \A x \in m.ssn .. TailSSN(m) : ~Outstanding(s, x)

MetaReceiver ==
  /\ Len(delivered) <= rxNext
  /\ EagerReader => Len(delivered) = rxNext
  /\ \A i \in 1..Len(delivered) : delivered[i] = i - 1
  /\ rxNext \notin DOMAIN rxBuf
  /\ \A d \in Len(delivered) .. (rxNext - 1) : d \in DOMAIN rxBuf
  /\ \A d \in DOMAIN rxBuf :
       Len(delivered) <= d /\ d < nextTx /\ rxBuf[d] = d

(* The first part of the inductive invariant: each end for itself, and what *)
(* is in flight between them.                                               *)
IInv ==
  /\ TypeOK
  /\ MetaOrder
  /\ SubflowOrder
  /\ MapsRight
  /\ Boundaries
  /\ AcksRight
  /\ SegmentsRight
  /\ SubflowReceiver
  /\ MetaReceiver
  /\ WindowOvershoot

(* A subflow carries bytes of the stream in their order... *)
Increasing ==
  \A s \in Subflows : \A i, j \in 1..Len(stream[s]) :
    i <= j => stream[s][i] + (j - i) <= stream[s][j]

(* ...which were mapped when the first of them was within the window; *)
StartsInWindow ==
  /\ \A s \in Subflows : \A m \in txMap[s] : m.dsn < txHead + AdvWnd
  /\ \A p \in dataNet : p.map.dsn < txHead + AdvWnd

(* none is at the meta socket before it is at the subflow. *)
OutstandingIsNew ==
  \A s \in Subflows : \A i \in 1..Len(stream[s]) :
    Outstanding(s, i - 1) =>
      stream[s][i] >= rxNext /\ stream[s][i] \notin DOMAIN rxBuf

(* The second part: the meta socket's data on the subflows. *)
Placement == Increasing /\ StartsInWindow /\ MappedOnce /\ OutstandingIsNew

(* The configurations in which no segment is trimmed at the subflow level,  *)
(* and those in which the windows also protect the meta receive buffer,     *)
(* although neither side counts what it holds.                              *)
RoomForOvershoot ==
  \/ AdvWnd + SegSize <= RcvBuf + 2
  \/ StreamLen <= RcvBuf

FitsBuffer ==
  \/ EagerReader /\ AdvWnd + SegSize <= RcvBuf + 2
  \/ StreamLen <= RcvBuf

-----------------------------------------------------------------------------
(* Lemmas about the operators of the model. *)

LEMMA EnqueueAdds ==
  ASSUME NEW net, NEW p, NEW cap
  PROVE  Enqueue(net, p, cap) \subseteq net \cup {p}
BY DEF Enqueue

(* A segment cut at a boundary inside the send buffer, with room for the   *)
(* mapping found there, is that whole mapping with the right bytes.        *)
LEMMA PacketRight ==
  ASSUME SizesAssumption, IInv,
         NEW s \in Subflows, NEW ssn \in Nat, NEW maxSize \in Nat,
         ssnHead[s] <= ssn, ssn < Len(stream[s]),
         AtBoundary(s, ssn),
         \A m \in txMap[s] : m.ssn = ssn => m.len <= maxSize
  PROVE  LET p == DataPacket(s, ssn, maxSize) IN
         /\ p \in Segment /\ RightSegment(p)
         /\ p.sf = s /\ p.ssn = ssn
         /\ Len(p.data) \in 1 .. SegSize
         /\ ssn + Len(p.data) <= Len(stream[s])
         /\ AtBoundary(s, ssn + Len(p.data))
<1> DEFINE m == GetMappingForSSN(txMap[s], ssn)
           len == Min2(Min2(maxSize, m.len), Len(stream[s]) - ssn)
           p == DataPacket(s, ssn, maxSize)
<1>1. stream[s] \in Seq(Byte) /\ txMap[s] \subseteq Mapping /\ SegSize \in Nat
  BY DEF IInv, TypeOK, SizesAssumption
<1>2. Covering(txMap[s], ssn) # {}
  BY <1>1 DEF IInv, MapsRight
<1>3. m \in txMap[s] /\ m.ssn <= ssn /\ ssn <= TailSSN(m)
  BY <1>2 DEF GetMappingForSSN, Covering
<1>4. m \in Mapping /\ RightMapping(s, m)
  BY <1>1, <1>3 DEF IInv, MapsRight
<1>5. m.ssn = ssn
  BY <1>1, <1>3, <1>4 DEF AtBoundary, TailSSN, Mapping
<1>6. len = m.len
  <2>1. /\ m.len \in Nat /\ m.len <= maxSize /\ m.ssn + m.len <= Len(stream[s])
        /\ Len(stream[s]) \in Nat
    BY <1>1, <1>3, <1>4, <1>5 DEF RightMapping, Mapping
  <2> HIDE DEF m
  <2> QED BY <1>5, <2>1 DEF Min2
<1>7. p = [sf |-> s, ssn |-> ssn, map |-> m,
           data |-> SubSeq(stream[s], ssn + 1, ssn + m.len)]
  BY <1>6 DEF DataPacket
<1>8. /\ p.data \in Seq(Byte) /\ Len(p.data) = m.len
      /\ \A i \in 1..m.len : p.data[i] = stream[s][ssn + i]
  <2>1. \A i \in ssn + 1 .. ssn + m.len : stream[s][i] \in Byte
    BY <1>1, <1>4, <1>5 DEF RightMapping, Mapping
  <2>2. ssn + 1 \in Int /\ ssn + m.len \in Int /\ 1 <= m.len
    BY <1>4 DEF RightMapping, Mapping
  <2>3. /\ SubSeq(stream[s], ssn + 1, ssn + m.len) \in Seq(Byte)
        /\ Len(SubSeq(stream[s], ssn + 1, ssn + m.len)) = m.len
        /\ \A i \in 1 .. m.len :
             SubSeq(stream[s], ssn + 1, ssn + m.len)[i] = stream[s][ssn + i]
    <3>1. (ssn + m.len) - (ssn + 1) + 1 = m.len /\ ssn + 1 <= ssn + m.len
      BY <1>4, <2>2 DEF Mapping
    <3>2. /\ SubSeq(stream[s], ssn + 1, ssn + m.len) \in Seq(Byte)
          /\ Len(SubSeq(stream[s], ssn + 1, ssn + m.len))
               = (ssn + m.len) - (ssn + 1) + 1
          /\ \A i \in 1 .. (ssn + m.len) - (ssn + 1) + 1 :
               SubSeq(stream[s], ssn + 1, ssn + m.len)[i] = stream[s][(ssn + 1) + i - 1]
      BY <2>1, <2>2, <3>1, SubSeqProperties, SMTT(30)
    <3>3. \A i \in 1 .. m.len : (ssn + 1) + i - 1 = ssn + i
      BY <1>4 DEF Mapping
    <3> QED BY <3>1, <3>2, <3>3
  <2> QED BY <1>7, <2>3, SMTT(30)
<1>9. \A i \in 1..m.len : stream[s][ssn + i] = m.dsn + i - 1
  <2> SUFFICES ASSUME NEW i \in 1..m.len PROVE stream[s][ssn + i] = m.dsn + i - 1
    OBVIOUS
  <2>1. (ssn + i - 1) \in m.ssn .. TailSSN(m)
    BY <1>4, <1>5 DEF TailSSN, Mapping
  <2>2. stream[s][(ssn + i - 1) + 1] = m.dsn + ((ssn + i - 1) - m.ssn)
    BY <1>4, <2>1 DEF RightMapping
  <2> QED BY <1>4, <1>5, <2>2 DEF Mapping
<1>10. \A k \in txMap[s] : Apart(k, m) \/ (k.ssn = m.ssn /\ k.len = m.len)
  BY <1>3 DEF IInv, MapsRight
<1>11. p \in Segment /\ RightSegment(p) /\ p.sf = s /\ p.ssn = ssn
  <2>1. p.sf = s /\ p.ssn = ssn /\ p.map = m
    BY <1>7
  <2>2. p \in Segment
    BY <1>4, <1>7, <1>8 DEF Segment
  <2>3. Len(p.data) = m.len /\ m.ssn = ssn /\ 1 <= m.len
    BY <1>4, <1>5, <1>8 DEF RightMapping
  <2>4. ssn + Len(p.data) <= Len(stream[s])
    BY <1>4, <2>3 DEF RightMapping
  <2>5. \A i \in 1..Len(p.data) :
          p.data[i] = m.dsn + i - 1 /\ p.data[i] = stream[s][ssn + i]
    BY <1>8, <1>9, <2>3
  <2> HIDE DEF m, p
  <2>6. RightSegment(p)
    BY <1>10, <2>1, <2>3, <2>4, <2>5 DEF RightSegment
  <2> QED BY <2>1, <2>2, <2>6
<1>12. Len(p.data) \in 1 .. SegSize /\ ssn + Len(p.data) <= Len(stream[s])
  BY <1>1, <1>4, <1>5, <1>8 DEF RightMapping, Mapping
<1>13. AtBoundary(s, ssn + Len(p.data))
  <2> SUFFICES ASSUME NEW k \in txMap[s]
               PROVE  ssn + m.len <= k.ssn \/ TailSSN(k) < ssn + m.len
    BY <1>8 DEF AtBoundary
  <2>1. k \in Mapping /\ (Apart(k, m) \/ (k.ssn = m.ssn /\ k.len = m.len))
    BY <1>1, <1>10
  <2> QED BY <1>4, <1>5, <2>1 DEF Apart, TailSSN, Mapping, RightMapping
<1> QED BY <1>11, <1>12, <1>13

(* The bytes at positions from .. from + n - 1 of the stream, as a payload. *)
LEMMA ByteRun ==
  ASSUME NEW from \in Nat, NEW n \in Nat, StreamLen \in Nat, from + n <= StreamLen
  PROVE  /\ [i \in 1..n |-> from + i - 1] \in Seq(Byte)
         /\ Len([i \in 1..n |-> from + i - 1]) = n
         /\ \A j \in 1..n : [i \in 1..n |-> from + i - 1][j] = from + j - 1
<1>1. \A i \in 1..n : from + i - 1 \in Byte
  BY DEF Byte
<1>2. [i \in 1..n |-> from + i - 1] \in [1..n -> Byte]
  BY <1>1
<1>3. [i \in 1..n |-> from + i - 1] \in Seq(Byte)
  BY <1>2
<1> QED BY <1>3

(* Two payloads one after the other. *)
LEMMA Joined ==
  \A u, v \in Seq(Byte) :
    /\ u \o v \in Seq(Byte)
    /\ Len(u \o v) = Len(u) + Len(v)
    /\ \A i \in 1 .. Len(u) + Len(v) :
         (u \o v)[i] = IF i <= Len(u) THEN u[i] ELSE v[i - Len(u)]
BY ConcatProperties

-----------------------------------------------------------------------------
(* The steps of the sender that add no bytes and drop no mappings. *)

(* What such a step changes, and within which limits. *)
SenderFrame ==
  /\ UNCHANGED <<written, nextTx, stream, txMap, delivered, rxVars>>
  /\ txHead' \in txHead .. rxNext
  /\ ackNet' \subseteq ackNet
  /\ dataNet' \subseteq Segment /\ \A p \in dataNet' : RightSegment(p)
  /\ sendEvent' \in {"idle", "scheduled", "running"}
  /\ sfLoop' \in {<< >>} \cup (Subflows \X CongestionWindows)
  /\ cong' \in [Subflows -> {"open", "recovery", "loss"}]
  /\ retrCount' \in [Subflows -> 0..DataRetries]
  /\ endPoint' \in [Subflows -> BOOLEAN]
  /\ ssnHead' \in [Subflows -> Nat] /\ ssnNext' \in [Subflows -> Nat]
  /\ ssnHigh' \in [Subflows -> Nat] /\ recover' \in [Subflows -> Nat]
  /\ \A s \in Subflows :
       /\ ssnHead[s] <= ssnHead'[s] /\ ssnHead'[s] <= ssnNext'[s]
       /\ ssnHead'[s] <= sfNext[s] /\ ssnNext'[s] <= Len(stream[s])
       /\ ssnHigh'[s] <= Len(stream[s]) /\ recover'[s] <= Len(stream[s])
       /\ AtBoundary(s, ssnHead'[s]) /\ AtBoundary(s, ssnNext'[s])

LEMMA FrameKeeps ==
  ASSUME IInv, SenderFrame
  PROVE  IInv'
<1> USE DEF rxVars
<1>1. TypeOK'
  BY SizesAssumption, SMTT(30) DEF IInv, TypeOK, SenderFrame, MetaOrder
<1>2. MetaOrder'
  BY SizesAssumption DEF IInv, TypeOK, SenderFrame, MetaOrder
<1>3. SubflowOrder'
  BY DEF IInv, SubflowOrder, SenderFrame
<1>4. MapsRight'
  <2> SUFFICES ASSUME NEW s \in Subflows
               PROVE  \A x \in ssnHead'[s] .. (Len(stream[s]) - 1) :
                        Covering(txMap[s], x) # {}
    BY DEF IInv, MapsRight, SenderFrame, RightMapping, Apart, Covering, TailSSN
  <2>1. \A x \in ssnHead'[s] .. (Len(stream[s]) - 1) :
          x \in ssnHead[s] .. (Len(stream[s]) - 1)
    BY LenProperties, SMTT(30) DEF IInv, TypeOK, SenderFrame
  <2> QED BY <2>1 DEF IInv, MapsRight
<1>5. Boundaries'
  BY DEF IInv, Boundaries, AtBoundary, SenderFrame
<1>6. AcksRight'
  BY DEF IInv, AcksRight, AtBoundary, SenderFrame
<1>7. SegmentsRight'
  BY DEF SegmentsRight, RightSegment, Apart, SenderFrame
<1>8. SubflowReceiver'
  BY DEF IInv, SubflowReceiver, Outstanding, SenderFrame
<1>9. MetaReceiver'
  BY DEF IInv, MetaReceiver, SenderFrame
<1>10. WindowOvershoot'
  BY SizesAssumption, SMTT(30) DEF IInv, WindowOvershoot, SenderFrame, TypeOK
<1> QED BY <1>1, <1>2, <1>3, <1>4, <1>5, <1>6, <1>7, <1>8, <1>9, <1>10 DEF IInv

(* Nothing of a DATA_ACK is news to m_nextTxSequence, and the head of the *)
(* send buffer stays behind the receiver.                                 *)
LEMMA DataAckKeeps ==
  ASSUME IInv, NEW a \in ackNet, ReceivedAck(a)
  PROVE  nextTx' = nextTx /\ txHead' \in txHead .. rxNext /\ ackNet' \subseteq ackNet
<1>1. a \in Ack /\ a.dack <= rxNext /\ rxNext <= nextTx /\ txHead <= rxNext
  BY DEF IInv, TypeOK, MetaOrder
<1>2. a.dack \in Nat /\ txHead \in Nat /\ nextTx \in Nat /\ rxNext \in Nat
  BY <1>1, SizesAssumption DEF IInv, TypeOK, Ack
<1> QED BY <1>1, <1>2 DEF ReceivedAck, Max2

(* Sending the mapping at a boundary between the head of the send buffer   *)
(* and its tail.                                                           *)
LEMMA SendKeeps ==
  ASSUME IInv, NEW s \in Subflows, NEW ssn \in Nat, NEW maxSize \in Nat,
         ssnHead[s] <= ssn, ssn < Len(stream[s]),
         AtBoundary(s, ssn),
         \A m \in txMap[s] : m.ssn = ssn => m.len <= maxSize,
         NEW p, p = DataPacket(s, ssn, maxSize),
         NEW upTo,
         upTo = ssn + Len(p.data) \/ upTo = Max2(ssnNext[s], ssn + Len(p.data)),
         SendFrom(s, p, upTo)
  PROVE  /\ dataNet' \subseteq Segment /\ \A q \in dataNet' : RightSegment(q)
         /\ ssnNext' \in [Subflows -> Nat] /\ ssnHigh' \in [Subflows -> Nat]
         /\ \A t \in Subflows :
              /\ ssnNext'[t] <= Len(stream[t]) /\ ssnHigh'[t] <= Len(stream[t])
              /\ AtBoundary(t, ssnNext'[t])
              /\ IF t = s THEN ssn < ssnNext'[t] ELSE ssnNext'[t] = ssnNext[t]
<1>1. /\ p \in Segment /\ RightSegment(p) /\ p.sf = s /\ p.ssn = ssn
      /\ Len(p.data) \in 1 .. SegSize
      /\ ssn + Len(p.data) <= Len(stream[s])
      /\ AtBoundary(s, ssn + Len(p.data))
  BY PacketRight, SizesAssumption
<1>2. dataNet' \subseteq dataNet \cup {p}
  BY EnqueueAdds DEF SendFrom
<1>3. dataNet' \subseteq Segment /\ \A q \in dataNet' : RightSegment(q)
  BY <1>1, <1>2 DEF IInv, TypeOK, SegmentsRight
<1>4. /\ ssnNext \in [Subflows -> Nat] /\ ssnHigh \in [Subflows -> Nat]
      /\ Len(stream[s]) \in Nat /\ Len(p.data) \in Nat
      /\ \A t \in Subflows : /\ ssnNext[t] <= Len(stream[t])
                             /\ ssnHigh[t] <= Len(stream[t])
                             /\ AtBoundary(t, ssnNext[t])
  <2>1. stream[s] \in Seq(Byte) /\ SegSize \in Nat
    BY SizesAssumption DEF IInv, TypeOK
  <2>2. Len(stream[s]) \in Nat /\ Len(p.data) \in Nat
    BY <1>1, <2>1
  <2> QED BY <2>2 DEF IInv, TypeOK, SubflowOrder, Boundaries
<1>5. /\ upTo \in Nat /\ upTo <= Len(stream[s]) /\ AtBoundary(s, upTo) /\ ssn < upTo
  BY <1>1, <1>4 DEF Max2
<1>6. /\ ssnNext' = [ssnNext EXCEPT ![s] = upTo]
      /\ ssnHigh' = [ssnHigh EXCEPT ![s] = Max2(@, ssn + Len(p.data))]
  BY <1>1 DEF SendFrom
<1>7. ssnNext' \in [Subflows -> Nat] /\ ssnHigh' \in [Subflows -> Nat]
  BY <1>4, <1>5, <1>6 DEF Max2
<1>8. ASSUME NEW t \in Subflows
      PROVE  /\ ssnNext'[t] <= Len(stream[t]) /\ ssnHigh'[t] <= Len(stream[t])
             /\ AtBoundary(t, ssnNext'[t])
             /\ IF t = s THEN ssn < ssnNext'[t] ELSE ssnNext'[t] = ssnNext[t]
  BY <1>1, <1>4, <1>5, <1>6 DEF Max2
<1> QED BY <1>3, <1>7, <1>8


-----------------------------------------------------------------------------
(* Each action keeps the invariant: first those of the sender. *)

(* What the invariant says of the sender's variables as they stand. *)
LEMMA SenderStands ==
  ASSUME IInv
  PROVE  /\ txHead \in txHead .. rxNext
         /\ dataNet \subseteq Segment /\ \A p \in dataNet : RightSegment(p)
         /\ sendEvent \in {"idle", "scheduled", "running"}
         /\ sfLoop \in {<< >>} \cup (Subflows \X CongestionWindows)
         /\ cong \in [Subflows -> {"open", "recovery", "loss"}]
         /\ retrCount \in [Subflows -> 0..DataRetries]
         /\ endPoint \in [Subflows -> BOOLEAN]
         /\ ssnHead \in [Subflows -> Nat] /\ ssnNext \in [Subflows -> Nat]
         /\ ssnHigh \in [Subflows -> Nat] /\ recover \in [Subflows -> Nat]
         /\ \A s \in Subflows :
              /\ Len(stream[s]) \in Nat /\ ssnHead[s] \in Nat /\ ssnNext[s] \in Nat
              /\ sfNext[s] \in Nat
              /\ ssnHead[s] <= ssnNext[s]
              /\ ssnHead[s] <= sfNext[s] /\ sfNext[s] <= Len(stream[s])
              /\ ssnNext[s] <= Len(stream[s])
              /\ ssnHigh[s] <= Len(stream[s]) /\ recover[s] <= Len(stream[s])
              /\ AtBoundary(s, ssnHead[s]) /\ AtBoundary(s, ssnNext[s])
<1>1. txHead \in txHead .. rxNext
  BY SizesAssumption DEF IInv, TypeOK, MetaOrder
<1>2. \A s \in Subflows : stream[s] \in Seq(Byte)
  BY DEF IInv, TypeOK
<1>3. \A s \in Subflows : Len(stream[s]) \in Nat
  BY <1>2
<1> QED BY <1>1, <1>3 DEF IInv, TypeOK, SubflowOrder, Boundaries, SegmentsRight

(* A mapping is at most one segment long. *)
LEMMA MappingFits ==
  ASSUME IInv, NEW s \in Subflows, NEW m \in txMap[s]
  PROVE  /\ m \in Mapping /\ 1 <= m.len /\ m.len <= SegSize
         /\ m.ssn + m.len <= Len(stream[s])
BY DEF IInv, TypeOK, MapsRight, RightMapping

(* DoRetransmit from a boundary, after the subflow went back to it or not: *)
(* one mapping is sent again, or nothing is.                               *)
LEMMA RetransmitKeeps ==
  ASSUME IInv, NEW s \in Subflows, NEW ssn \in Nat, NEW next \in Nat,
         ssnHead[s] <= ssn, ssn < Len(stream[s]), AtBoundary(s, ssn),
         ssn <= next, next = ssn \/ next = ssnNext[s],
         DoRetransmit(s, ssn, next)
  PROVE  /\ dataNet' \subseteq Segment /\ \A q \in dataNet' : RightSegment(q)
         /\ ssnNext' \in [Subflows -> Nat] /\ ssnHigh' \in [Subflows -> Nat]
         /\ endPoint' \in [Subflows -> BOOLEAN]
         /\ \A t \in Subflows :
              /\ ssnNext'[t] <= Len(stream[t]) /\ ssnHigh'[t] <= Len(stream[t])
              /\ AtBoundary(t, ssnNext'[t])
              /\ IF t = s THEN ssn <= ssnNext'[t] ELSE ssnNext'[t] = ssnNext[t]
<1> DEFINE p == DataPacket(s, ssn, SegSize)
<1> HIDE DEF p
<1>1. CASE /\ SendFrom(s, p, Max2(next, ssn + Len(p.data)))
           /\ UNCHANGED endPoint
  <2>1. /\ SegSize \in Nat
        /\ \A m \in txMap[s] : m.ssn = ssn => m.len <= SegSize
    BY MappingFits, SizesAssumption
  <2>2. Len(p.data) \in Nat
    BY <2>1, PacketRight, SizesAssumption DEF p
  <2>3. \/ Max2(next, ssn + Len(p.data)) = ssn + Len(p.data)
        \/ Max2(next, ssn + Len(p.data)) = Max2(ssnNext[s], ssn + Len(p.data))
    BY <2>2 DEF Max2
  <2>4. /\ dataNet' \subseteq Segment /\ \A q \in dataNet' : RightSegment(q)
        /\ ssnNext' \in [Subflows -> Nat] /\ ssnHigh' \in [Subflows -> Nat]
        /\ \A t \in Subflows :
             /\ ssnNext'[t] <= Len(stream[t]) /\ ssnHigh'[t] <= Len(stream[t])
             /\ AtBoundary(t, ssnNext'[t])
             /\ IF t = s THEN ssn < ssnNext'[t] ELSE ssnNext'[t] = ssnNext[t]
    BY <1>1, <2>1, <2>3, SendKeeps DEF p
  <2>5. \A t \in Subflows : ssnNext'[t] \in Nat
    BY <2>4
  <2>6. \A t \in Subflows :
          IF t = s THEN ssn <= ssnNext'[t] ELSE ssnNext'[t] = ssnNext[t]
    BY <2>4, <2>5
  <2>7. endPoint' \in [Subflows -> BOOLEAN]
    BY <1>1, SenderStands
  <2> QED BY <2>4, <2>6, <2>7
<1>2. CASE /\ endPoint' = [endPoint EXCEPT ![s] = FALSE]
           /\ ssnNext' = [ssnNext EXCEPT ![s] = next]
           /\ UNCHANGED <<ssnHigh, dataNet>>
  <2>1. next <= Len(stream[s]) /\ AtBoundary(s, next)
    BY SenderStands
  <2>2. /\ ssnNext' \in [Subflows -> Nat]
        /\ \A t \in Subflows : ssnNext'[t] = IF t = s THEN next ELSE ssnNext[t]
    BY <1>2, SenderStands
  <2>3. endPoint' \in [Subflows -> BOOLEAN]
    BY <1>2, SenderStands
  <2> QED BY <1>2, <2>1, <2>2, <2>3, SenderStands
<1> QED BY <1>1, <1>2 DEF DoRetransmit, p

(* The count of retransmissions stays within m_dataRetries. *)
LEMMA RetriesCounted ==
  ASSUME IInv, NEW s \in Subflows, NEW n,
         n = RetriesLeft(s) \/ n = DataRetries,
         retrCount' = [retrCount EXCEPT ![s] = n]
  PROVE  retrCount' \in [Subflows -> 0..DataRetries]
<1>1. retrCount[s] \in 0..DataRetries /\ DataRetries \in Nat
  BY SenderStands, SizesAssumption
<1>2. n \in 0..DataRetries
  BY <1>1 DEF RetriesLeft, Max2
<1> QED BY <1>2, SenderStands

LEMMA DispatchEndKeeps ==
  ASSUME IInv, DispatchEnd PROVE IInv'
<1>1. SenderFrame
  BY SenderStands
     DEF DispatchEnd, SenderFrame, appVars, sfTxVars, retryVars, netVars, rxVars
<1> QED BY <1>1, FrameKeeps

LEMMA TransmitEndKeeps ==
  ASSUME IInv, TransmitEnd PROVE IInv'
<1>1. SenderFrame
  BY SenderStands
     DEF TransmitEnd, SenderFrame, appVars, sfTxVars, retryVars, netVars, rxVars
<1> QED BY <1>1, FrameKeeps

LEMMA TransmitKeeps ==
  ASSUME IInv, NEW s \in Subflows, NEW cwnd \in CongestionWindows, Transmit(s, cwnd)
  PROVE  IInv'
<1> DEFINE w == SubflowWindow(s, cwnd)
           maxSize == Min2(w, SegSize)
           p == DataPacket(s, ssnNext[s], maxSize)
<1>1. /\ ssnNext[s] < Len(stream[s])
      /\ CanSendPendingData(w, Len(stream[s]) - ssnNext[s])
      /\ SendFrom(s, p, ssnNext[s] + Len(p.data))
      /\ sfLoop' = <<s, cwnd>>
      /\ UNCHANGED <<written, delivered, txHead, nextTx, sendEvent, stream, ssnHead,
                     cong, recover, txMap, retrCount, endPoint, ackNet, rxVars>>
  BY DEF Transmit, MoreToTransmit, appVars, retryVars
<1>2. w \in Nat
  <2>1. cwnd \in Nat /\ AdvWnd \in Nat /\ ssnNext[s] \in Nat /\ ssnHead[s] \in Nat
    BY SenderStands, SizesAssumption DEF CongestionWindows
  <2> QED BY <2>1 DEF SubflowWindow, AvailableWindow, Min2
<1>3. \A m \in txMap[s] : m.ssn = ssnNext[s] => m.len <= maxSize
  <2> SUFFICES ASSUME NEW m \in txMap[s], m.ssn = ssnNext[s]
               PROVE  m.len <= maxSize
    OBVIOUS
  <2>1. /\ m.len \in Nat /\ m.ssn \in Nat /\ m.len <= SegSize
        /\ m.ssn + m.len <= Len(stream[s])
    BY MappingFits DEF Mapping
  <2>2. SegSize \in Nat /\ Len(stream[s]) \in Nat
    BY SenderStands, SizesAssumption
  <2> QED BY <1>1, <1>2, <2>1, <2>2 DEF CanSendPendingData, Min2
<1> HIDE DEF w
<1>4. /\ ssnNext[s] \in Nat /\ ssnHead[s] <= ssnNext[s] /\ AtBoundary(s, ssnNext[s])
      /\ maxSize \in Nat
  BY <1>2, SenderStands, SizesAssumption DEF Min2
<1> HIDE DEF maxSize, p
<1>5. /\ dataNet' \subseteq Segment /\ \A q \in dataNet' : RightSegment(q)
      /\ ssnNext' \in [Subflows -> Nat] /\ ssnHigh' \in [Subflows -> Nat]
      /\ \A t \in Subflows :
           /\ ssnNext'[t] <= Len(stream[t]) /\ ssnHigh'[t] <= Len(stream[t])
           /\ AtBoundary(t, ssnNext'[t])
           /\ IF t = s THEN ssnNext[s] < ssnNext'[t] ELSE ssnNext'[t] = ssnNext[t]
  BY <1>1, <1>3, <1>4, SendKeeps DEF p
<1>6. sfLoop' \in {<< >>} \cup (Subflows \X CongestionWindows)
  BY <1>1
<1>7. ASSUME NEW t \in Subflows
      PROVE  ssnHead[t] <= ssnHead'[t] /\ ssnHead'[t] <= ssnNext'[t]
  <2>1. ssnNext'[t] \in Nat
    BY <1>5
  <2>2. ssnHead' = ssnHead
    BY <1>1
  <2>3. ssnHead[t] \in Nat /\ ssnNext[t] \in Nat /\ ssnHead[t] <= ssnNext[t]
    BY SenderStands
  <2>4. IF t = s THEN ssnNext[s] < ssnNext'[t] ELSE ssnNext'[t] = ssnNext[t]
    BY <1>5
  <2> QED BY <2>1, <2>2, <2>3, <2>4
<1>8. SenderFrame
  BY <1>1, <1>5, <1>6, <1>7, SenderStands DEF SenderFrame
<1> QED BY <1>8, FrameKeeps

LEMMA ReTxTimeoutKeeps ==
  ASSUME IInv, NEW s \in Subflows, ReTxTimeout(s) PROVE IInv'
<1>1. /\ ssnHead[s] < ssnHigh[s]
      /\ DoRetransmit(s, ssnHead[s], ssnHead[s])
      /\ retrCount' = [retrCount EXCEPT ![s] = RetriesLeft(s)]
      /\ cong' = [cong EXCEPT ![s] = "loss"]
      /\ recover' = [recover EXCEPT ![s] = ssnHigh[s]]
      /\ UNCHANGED <<written, delivered, txHead, nextTx, sendEvent, sfLoop, stream,
                     ssnHead, txMap, ackNet, rxVars>>
  BY DEF ReTxTimeout, appVars, metaTxVars
<1>2. /\ ssnHead[s] \in Nat /\ ssnHead[s] < Len(stream[s])
      /\ AtBoundary(s, ssnHead[s]) /\ ssnHead[s] <= ssnHead[s]
  BY <1>1, SenderStands
<1>3. /\ dataNet' \subseteq Segment /\ \A q \in dataNet' : RightSegment(q)
      /\ ssnNext' \in [Subflows -> Nat] /\ ssnHigh' \in [Subflows -> Nat]
      /\ endPoint' \in [Subflows -> BOOLEAN]
      /\ \A t \in Subflows :
           /\ ssnNext'[t] <= Len(stream[t]) /\ ssnHigh'[t] <= Len(stream[t])
           /\ AtBoundary(t, ssnNext'[t])
           /\ IF t = s THEN ssnHead[s] <= ssnNext'[t] ELSE ssnNext'[t] = ssnNext[t]
  BY <1>1, <1>2, RetransmitKeeps
<1>4. retrCount' \in [Subflows -> 0..DataRetries]
  BY <1>1, RetriesCounted
<1>5. SenderFrame
  BY <1>1, <1>3, <1>4, SenderStands, SMTT(30) DEF SenderFrame
<1> QED BY <1>5, FrameKeeps

LEMMA StaleAckKeeps ==
  ASSUME IInv, NEW a \in ackNet, StaleAck(a) PROVE IInv'
<1>1. ReceivedAck(a) BY DEF StaleAck
<1>2. SenderFrame
  BY <1>1, DataAckKeeps, SenderStands
     DEF StaleAck, SenderFrame, appVars, sfTxVars, retryVars
<1> QED BY <1>2, FrameKeeps

LEMMA LoseDataKeeps ==
  ASSUME IInv, NEW p \in dataNet, LoseData(p) PROVE IInv'
<1>1. SenderFrame
  BY SenderStands DEF LoseData, SenderFrame, appVars, metaTxVars, sfTxVars, retryVars
<1> QED BY <1>1, FrameKeeps

LEMMA LoseAckKeeps ==
  ASSUME IInv, NEW a \in ackNet, LoseAck(a) PROVE IInv'
<1>1. SenderFrame
  BY SenderStands DEF LoseAck, SenderFrame, appVars, metaTxVars, sfTxVars, retryVars
<1> QED BY <1>1, FrameKeeps


(* What an acknowledgement in flight says. *)
LEMMA AckStands ==
  ASSUME IInv, NEW a \in ackNet
  PROVE  /\ a.sf \in Subflows /\ a.ack \in Nat /\ a.dack \in Nat
         /\ a.ack <= sfNext[a.sf] /\ AtBoundary(a.sf, a.ack)
BY DEF IInv, TypeOK, Ack, AcksRight

LEMMA InflateWindowKeeps ==
  ASSUME IInv, NEW a \in ackNet, InflateWindow(a) PROVE IInv'
<1>1. ReceivedAck(a) BY DEF InflateWindow
<1>2. sfLoop' \in {<< >>} \cup (Subflows \X CongestionWindows)
  <2>1. a.sf \in Subflows
    BY AckStands
  <2>2. PICK cwnd \in CongestionWindows : sfLoop' = <<a.sf, cwnd>>
    BY DEF InflateWindow
  <2> QED BY <2>1, <2>2
<1>3. /\ UNCHANGED <<written, delivered, dataNet, stream, ssnHead, ssnNext, ssnHigh, cong,
                     recover, txMap, retrCount, endPoint, rxVars>>
      /\ sendEvent' = Scheduled
  BY DEF InflateWindow, appVars, sfTxVars, retryVars
<1>4. SenderFrame
  BY <1>1, <1>2, <1>3, DataAckKeeps, SenderStands DEF SenderFrame, Scheduled
<1> QED BY <1>4, FrameKeeps

LEMMA LimitedTransmitKeeps ==
  ASSUME IInv, NEW a \in ackNet, LimitedTransmit(a) PROVE IInv'
<1> DEFINE s == a.sf
           p == DataPacket(s, ssnNext[s], SegSize)
<1> HIDE DEF s, p
<1>1. /\ s \in Subflows /\ ReceivedAck(a)
      /\ ssnNext[s] < Len(stream[s])
      /\ SendFrom(s, p, ssnNext[s] + Len(p.data))
      /\ UNCHANGED <<written, delivered, sendEvent, sfLoop, stream, ssnHead, cong,
                     recover, txMap, retrCount, endPoint, rxVars>>
  BY AckStands DEF LimitedTransmit, appVars, retryVars, s, p
<1>2. /\ ssnNext[s] \in Nat /\ ssnHead[s] <= ssnNext[s]
      /\ AtBoundary(s, ssnNext[s]) /\ SegSize \in Nat
  BY <1>1, SenderStands, SizesAssumption
<1>3. \A m \in txMap[s] : m.ssn = ssnNext[s] => m.len <= SegSize
  BY <1>1, MappingFits
<1>4. /\ dataNet' \subseteq Segment /\ \A q \in dataNet' : RightSegment(q)
      /\ ssnNext' \in [Subflows -> Nat] /\ ssnHigh' \in [Subflows -> Nat]
      /\ \A t \in Subflows :
           /\ ssnNext'[t] <= Len(stream[t]) /\ ssnHigh'[t] <= Len(stream[t])
           /\ AtBoundary(t, ssnNext'[t])
           /\ IF t = s THEN ssnNext[s] < ssnNext'[t] ELSE ssnNext'[t] = ssnNext[t]
  BY <1>1, <1>2, <1>3, SendKeeps DEF p
<1>5. ASSUME NEW t \in Subflows
      PROVE  ssnHead[t] <= ssnHead'[t] /\ ssnHead'[t] <= ssnNext'[t]
  <2>1. ssnNext'[t] \in Nat /\ ssnHead' = ssnHead
    BY <1>1, <1>4
  <2>2. IF t = s THEN ssnNext[s] < ssnNext'[t] ELSE ssnNext'[t] = ssnNext[t]
    BY <1>4
  <2> QED BY <2>1, <2>2, SenderStands
<1>6. SenderFrame
  BY <1>1, <1>4, <1>5, DataAckKeeps, SenderStands DEF SenderFrame
<1> QED BY <1>6, FrameKeeps

LEMMA FastRetransmitKeeps ==
  ASSUME IInv, NEW a \in ackNet, FastRetransmit(a) PROVE IInv'
<1> DEFINE s == a.sf
<1> HIDE DEF s
<1>1. /\ s \in Subflows /\ ReceivedAck(a)
      /\ a.ack = ssnHead[s] /\ a.ack < ssnNext[s]
      /\ DoRetransmit(s, ssnHead[s], ssnNext[s])
      /\ retrCount' = [retrCount EXCEPT ![s] = RetriesLeft(s)]
      /\ cong' = [cong EXCEPT ![s] = "recovery"]
      /\ recover' = [recover EXCEPT ![s] = ssnHigh[s]]
      /\ sendEvent' \in {sendEvent, Scheduled}
      /\ UNCHANGED <<written, delivered, sfLoop, stream, ssnHead, txMap, rxVars>>
  BY AckStands DEF FastRetransmit, IsDupAck, appVars, s
<1>2. /\ ssnHead[s] \in Nat /\ ssnHead[s] <= ssnHead[s] /\ ssnHead[s] < Len(stream[s])
      /\ AtBoundary(s, ssnHead[s]) /\ ssnNext[s] \in Nat /\ ssnHead[s] <= ssnNext[s]
  BY <1>1, SenderStands
<1>3. /\ dataNet' \subseteq Segment /\ \A q \in dataNet' : RightSegment(q)
      /\ ssnNext' \in [Subflows -> Nat] /\ ssnHigh' \in [Subflows -> Nat]
      /\ endPoint' \in [Subflows -> BOOLEAN]
      /\ \A t \in Subflows :
           /\ ssnNext'[t] <= Len(stream[t]) /\ ssnHigh'[t] <= Len(stream[t])
           /\ AtBoundary(t, ssnNext'[t])
           /\ IF t = s THEN ssnHead[s] <= ssnNext'[t] ELSE ssnNext'[t] = ssnNext[t]
  BY <1>1, <1>2, RetransmitKeeps
<1>4. retrCount' \in [Subflows -> 0..DataRetries]
  BY <1>1, RetriesCounted
<1>5. ASSUME NEW t \in Subflows
      PROVE  ssnHead[t] <= ssnHead'[t] /\ ssnHead'[t] <= ssnNext'[t]
  <2>1. ssnNext'[t] \in Nat /\ ssnHead' = ssnHead
    BY <1>1, <1>3
  <2>2. IF t = s THEN ssnHead[s] <= ssnNext'[t] ELSE ssnNext'[t] = ssnNext[t]
    BY <1>3
  <2> QED BY <2>1, <2>2, SenderStands
<1>6. /\ cong' \in [Subflows -> {"open", "recovery", "loss"}]
      /\ recover' \in [Subflows -> Nat]
      /\ \A t \in Subflows : recover'[t] <= Len(stream[t])
      /\ sendEvent' \in {"idle", "scheduled", "running"}
  BY <1>1, SenderStands DEF Scheduled
<1>7. SenderFrame
  BY <1>1, <1>3, <1>4, <1>5, <1>6, DataAckKeeps, SenderStands DEF SenderFrame
<1> QED BY <1>7, FrameKeeps

LEMMA PartialAckKeeps ==
  ASSUME IInv, NEW a \in ackNet, PartialAck(a) PROVE IInv'
<1> DEFINE s == a.sf
           next == Max2(ssnNext[s], a.ack)
<1> HIDE DEF s, next
<1>1. /\ s \in Subflows /\ ReceivedAck(a)
      /\ ssnHead[s] < a.ack /\ a.ack < recover[s]
      /\ DoRetransmit(s, a.ack, next)
      /\ retrCount' = [retrCount EXCEPT ![s] = DataRetries]
      /\ ssnHead' = [ssnHead EXCEPT ![s] = a.ack]
      /\ sendEvent' = Scheduled
      /\ UNCHANGED <<written, delivered, sfLoop, stream, cong, recover, txMap, rxVars>>
  BY AckStands DEF PartialAck, appVars, s, next
<1>2. /\ a.ack \in Nat /\ ssnHead[s] <= a.ack /\ a.ack < Len(stream[s])
      /\ AtBoundary(s, a.ack) /\ a.ack <= sfNext[s]
  <2>1. /\ a.ack \in Nat /\ AtBoundary(s, a.ack) /\ a.ack <= sfNext[s]
    BY AckStands DEF s
  <2>2. recover[s] \in Nat /\ ssnHead[s] \in Nat /\ Len(stream[s]) \in Nat
        /\ recover[s] <= Len(stream[s])
    BY <1>1, SenderStands
  <2> QED BY <1>1, <2>1, <2>2
<1>3. next \in Nat /\ a.ack <= next /\ (next = a.ack \/ next = ssnNext[s])
  BY <1>1, <1>2, SenderStands DEF next, Max2
<1>4. /\ dataNet' \subseteq Segment /\ \A q \in dataNet' : RightSegment(q)
      /\ ssnNext' \in [Subflows -> Nat] /\ ssnHigh' \in [Subflows -> Nat]
      /\ endPoint' \in [Subflows -> BOOLEAN]
      /\ \A t \in Subflows :
           /\ ssnNext'[t] <= Len(stream[t]) /\ ssnHigh'[t] <= Len(stream[t])
           /\ AtBoundary(t, ssnNext'[t])
           /\ IF t = s THEN a.ack <= ssnNext'[t] ELSE ssnNext'[t] = ssnNext[t]
  BY <1>1, <1>2, <1>3, RetransmitKeeps
<1>5. ASSUME NEW t \in Subflows
      PROVE  /\ ssnHead[t] <= ssnHead'[t] /\ ssnHead'[t] <= ssnNext'[t]
             /\ ssnHead'[t] <= sfNext[t] /\ AtBoundary(t, ssnHead'[t])
  <2>1. ssnNext'[t] \in Nat
    BY <1>4
  <2>2. ssnHead'[t] = IF t = s THEN a.ack ELSE ssnHead[t]
    BY <1>1, SenderStands
  <2>3. IF t = s THEN a.ack <= ssnNext'[t] ELSE ssnNext'[t] = ssnNext[t]
    BY <1>4
  <2> QED BY <1>2, <2>1, <2>2, <2>3, SenderStands
<1>6. ssnHead' \in [Subflows -> Nat] /\ sendEvent' \in {"idle", "scheduled", "running"}
  BY <1>1, <1>2, SenderStands DEF Scheduled
<1>7. retrCount' \in [Subflows -> 0..DataRetries]
  BY <1>1, RetriesCounted
<1>8. SenderFrame
  BY <1>1, <1>4, <1>5, <1>6, <1>7, DataAckKeeps, SenderStands DEF SenderFrame
<1> QED BY <1>8, FrameKeeps


LEMMA AppSendKeeps ==
  ASSUME IInv, NEW n \in 1..MaxWrite, AppSend(n) PROVE IInv'
<1> USE DEF sfTxVars, retryVars, netVars, rxVars
<1>1. TypeOK'
  <2>1. written' \in 0..StreamLen
    BY SizesAssumption, SMTT(30) DEF IInv, TypeOK, AppSend
  <2>2. sendEvent' \in {"idle", "scheduled", "running"}
    BY DEF IInv, TypeOK, AppSend, Scheduled
  <2> QED BY <2>1, <2>2 DEF IInv, TypeOK, AppSend
<1>2. MetaOrder'
  BY SizesAssumption, SMTT(30) DEF IInv, TypeOK, MetaOrder, AppSend
<1>3. SubflowOrder' /\ MapsRight' /\ Boundaries' /\ AcksRight'
  BY DEF IInv, AppSend, SubflowOrder, MapsRight, RightMapping, Apart, Covering,
         Boundaries, AtBoundary, AcksRight, TailSSN
<1>4. SegmentsRight' /\ SubflowReceiver' /\ MetaReceiver' /\ WindowOvershoot'
  BY DEF IInv, AppSend, SegmentsRight, RightSegment, Apart, SubflowReceiver,
         Outstanding, MetaReceiver, WindowOvershoot
<1> QED BY <1>1, <1>2, <1>3, <1>4 DEF IInv

(* DispatchOn: the bytes that follow m_nextTxSequence are appended to the   *)
(* stream of s.                                                             *)
LEMMA DispatchOnDoes ==
  ASSUME IInv, NEW s \in Subflows, NEW cwnd \in CongestionWindows, DispatchOn(s, cwnd)
  PROVE  LET len  == SendSize(s, cwnd)
             tail == Len(stream[s]) IN
         /\ len \in Nat /\ 1 <= len /\ len <= SegSize /\ nextTx + len <= written
         /\ nextTx' = nextTx + len
         /\ stream'[s] \in Seq(Byte) /\ Len(stream'[s]) = tail + len
         /\ \A i \in 1..tail : stream'[s][i] = stream[s][i]
         /\ \A x \in tail .. tail + len - 1 : stream'[s][x + 1] = nextTx + (x - tail)
         /\ \A t \in Subflows : t # s => stream'[t] = stream[t]
<1> DEFINE len == SendSize(s, cwnd)
           tail == Len(stream[s])
           run == [i \in 1..len |-> nextTx + i - 1]
<1>1. /\ written - nextTx > 0 /\ Eligible(s, cwnd)
      /\ stream' = [stream EXCEPT ![s] = @ \o run]
      /\ nextTx' = nextTx + len
  BY DEF DispatchOn
<1>2. /\ nextTx \in Nat /\ txHead \in Nat /\ written \in 0..StreamLen
      /\ AdvWnd \in Nat /\ SegSize \in Nat \ {0} /\ StreamLen \in Nat
      /\ txHead <= nextTx
  BY SizesAssumption DEF IInv, TypeOK, MetaOrder
<1>3. len \in Nat /\ 1 <= len /\ len <= SegSize /\ nextTx + len <= written
  <2>1. SubflowWindow(s, cwnd) \in Nat
    <3>1. cwnd \in Nat /\ AdvWnd \in Nat /\ ssnNext[s] \in Nat /\ ssnHead[s] \in Nat
      BY SenderStands, SizesAssumption DEF CongestionWindows
    <3> QED BY <3>1 DEF SubflowWindow, AvailableWindow, Min2
  <2>2. SubflowWindow(s, cwnd) > 0
    BY <1>1 DEF Eligible, CanSendPendingData
  <2> QED BY <1>1, <1>2, <2>1, <2>2 DEF SendSize, Min2
<1>4. tail \in Nat /\ stream[s] \in Seq(Byte)
  BY SenderStands DEF IInv, TypeOK
<1> HIDE DEF len, tail
<1>5. /\ run \in Seq(Byte) /\ Len(run) = len
      /\ \A j \in 1..len : run[j] = nextTx + j - 1
  <2>1. nextTx + len <= StreamLen
    BY <1>2, <1>3
  <2> QED BY <1>2, <1>3, <2>1, ByteRun
<1> HIDE DEF run
<1>6. /\ stream'[s] \in Seq(Byte) /\ Len(stream'[s]) = tail + len
      /\ \A i \in 1..tail : stream'[s][i] = stream[s][i]
      /\ \A x \in tail .. tail + len - 1 : stream'[s][x + 1] = nextTx + (x - tail)
  <2>1. stream'[s] = stream[s] \o run
    BY <1>1 DEF IInv, TypeOK
  <2>2. /\ stream'[s] \in Seq(Byte) /\ Len(stream'[s]) = tail + len
        /\ \A i \in 1 .. tail + len :
             stream'[s][i] = IF i <= tail THEN stream[s][i] ELSE run[i - tail]
    <3>1. /\ stream[s] \o run \in Seq(Byte)
          /\ Len(stream[s] \o run) = Len(stream[s]) + Len(run)
          /\ \A i \in 1 .. Len(stream[s]) + Len(run) :
               (stream[s] \o run)[i] =
                 IF i <= Len(stream[s]) THEN stream[s][i] ELSE run[i - Len(stream[s])]
      BY <1>4, <1>5, Joined
    <3> QED BY <1>5, <2>1, <3>1 DEF tail
  <2>3. \A i \in 1..tail : stream'[s][i] = stream[s][i]
    BY <1>3, <1>4, <2>2
  <2>4. ASSUME NEW x \in tail .. tail + len - 1
        PROVE  stream'[s][x + 1] = nextTx + (x - tail)
    <3>1. x + 1 \in 1 .. tail + len /\ ~(x + 1 <= tail) /\ (x + 1) - tail \in 1..len
      BY <1>3, <1>4
    <3>2. stream'[s][x + 1] = run[(x + 1) - tail]
      BY <2>2, <3>1
    <3>3. run[(x + 1) - tail] = nextTx + ((x + 1) - tail) - 1
      BY <1>5, <3>1
    <3> QED BY <1>2, <1>3, <1>4, <3>2, <3>3
  <2> QED BY <2>2, <2>3, <2>4
<1>7. \A t \in Subflows : t # s => stream'[t] = stream[t]
  BY <1>1 DEF IInv, TypeOK
<1> QED BY <1>1, <1>3, <1>6, <1>7 DEF len, tail

(* DispatchOn: the new mapping m describes the bytes appended to stream[s]. *)
LEMMA DispatchOnKeeps ==
  ASSUME IInv, NEW s \in Subflows, NEW cwnd \in CongestionWindows, DispatchOn(s, cwnd)
  PROVE  IInv'
<1> DEFINE len == SendSize(s, cwnd)
           tail == Len(stream[s])
           new == [dsn |-> nextTx, ssn |-> tail, len |-> len]
<1>1. /\ written - nextTx > 0 /\ MetaWindow > 0 /\ Eligible(s, cwnd)
      /\ txMap' = [txMap EXCEPT ![s] = @ \cup {new}]
      /\ nextTx' = nextTx + len
      /\ sendEvent' = "running" /\ sfLoop' = <<s, cwnd>>
      /\ UNCHANGED <<written, delivered, txHead, ssnHead, ssnNext, ssnHigh, cong,
                     recover, retrCount, endPoint, dataNet, ackNet, sfNext, sfOoo,
                     rxNext, rxBuf>>
  BY DEF DispatchOn, FirstUnmappedSSN, appVars, retryVars, netVars, rxVars
<1>2. /\ nextTx \in Nat /\ txHead \in Nat /\ written \in 0..StreamLen
      /\ AdvWnd \in Nat /\ SegSize \in Nat \ {0} /\ StreamLen \in Nat
      /\ txHead <= nextTx
  BY SizesAssumption DEF IInv, TypeOK, MetaOrder
<1>3. /\ len \in Nat /\ 1 <= len /\ len <= SegSize /\ nextTx + len <= written
      /\ stream'[s] \in Seq(Byte) /\ Len(stream'[s]) = tail + len
      /\ \A i \in 1..tail : stream'[s][i] = stream[s][i]
      /\ \A x \in tail .. tail + len - 1 : stream'[s][x + 1] = nextTx + (x - tail)
      /\ \A t \in Subflows : t # s => stream'[t] = stream[t]
  BY DispatchOnDoes
<1>4. /\ tail \in Nat /\ stream[s] \in Seq(Byte)
      /\ ssnHead[s] <= tail /\ ssnNext[s] <= tail /\ sfNext[s] <= tail
  <2>1. stream[s] \in Seq(Byte)
    BY DEF IInv, TypeOK
  <2> QED BY <2>1, SenderStands
<1> HIDE DEF len, tail
<1>5. stream' = [stream EXCEPT ![s] = stream'[s]]
  BY DEF DispatchOn, IInv, TypeOK
<1>6. /\ stream'[s] \in Seq(Byte) /\ Len(stream'[s]) = tail + len
      /\ \A i \in 1..tail : stream'[s][i] = stream[s][i]
      /\ \A x \in tail .. tail + len - 1 : stream'[s][x + 1] = nextTx + (x - tail)
  BY <1>3
<1>7. \A t \in Subflows : t # s => stream'[t] = stream[t] /\ txMap'[t] = txMap[t]
  BY <1>1, <1>3 DEF IInv, TypeOK
<1>8. PICK m \in Mapping : m = new /\ txMap'[s] = txMap[s] \cup {m}
  <2>1. new \in Mapping
    BY <1>2, <1>3, <1>4 DEF Mapping
  <2>2. txMap'[s] = txMap[s] \cup {new}
    BY <1>1 DEF IInv, TypeOK
  <2> QED BY <2>1, <2>2
<1>9. m.dsn = nextTx /\ m.ssn = tail /\ m.len = len /\ TailSSN(m) = tail + len - 1
  BY <1>8 DEF TailSSN
<1> HIDE DEF new
<1>10. \A k \in txMap[s] : k \in Mapping /\ k.ssn + k.len <= tail
  BY MappingFits DEF tail
<1>11. TypeOK'
  <2>1. stream' \in [Subflows -> Seq(Byte)]
    BY <1>5, <1>6 DEF IInv, TypeOK
  <2>2. txMap' \in [Subflows -> SUBSET Mapping]
    BY <1>1, <1>8 DEF IInv, TypeOK
  <2>3. nextTx' \in 0..StreamLen
    BY <1>1, <1>2, <1>3
  <2>4. sfLoop' \in {<< >>} \cup (Subflows \X CongestionWindows)
    BY <1>1
  <2> QED BY <1>1, <2>1, <2>2, <2>3, <2>4 DEF IInv, TypeOK
<1>12. MetaOrder'
  BY <1>1, <1>2, <1>3, SizesAssumption, SMTT(30) DEF IInv, TypeOK, MetaOrder
<1>13. SubflowOrder'
  <2> SUFFICES ASSUME NEW t \in Subflows
               PROVE  /\ ssnHead[t] <= ssnNext[t] /\ ssnNext[t] <= Len(stream'[t])
                      /\ ssnHigh[t] <= Len(stream'[t]) /\ recover[t] <= Len(stream'[t])
                      /\ ssnHead[t] <= sfNext[t] /\ sfNext[t] <= Len(stream'[t])
                      /\ \A i \in 1..Len(stream'[t]) : stream'[t][i] < nextTx + len
    BY <1>1 DEF SubflowOrder
  <2>1. \A i \in 1..Len(stream[t]) : stream[t][i] \in Nat /\ stream[t][i] < nextTx
    <3>1. stream[t] \in Seq(Byte)
      BY DEF IInv, TypeOK
    <3>2. \A i \in 1..Len(stream[t]) : stream[t][i] \in Byte
      BY <3>1, ElementOfSeq
    <3>3. \A i \in 1..Len(stream[t]) : stream[t][i] < nextTx
      BY DEF IInv, SubflowOrder
    <3> QED BY <3>2, <3>3 DEF Byte
  <2>2. CASE t # s
    <3>1. stream'[t] = stream[t]
      BY <1>7, <2>2
    <3>2. len \in Nat
      BY <1>3
    <3>3. \A i \in 1..Len(stream'[t]) : stream'[t][i] < nextTx + len
      BY <1>2, <2>1, <3>1, <3>2
    <3> QED BY <3>1, <3>3, SenderStands
  <2>3. CASE t = s
    <3>1. \A i \in 1..Len(stream'[s]) : stream'[s][i] < nextTx + len
      <4> SUFFICES ASSUME NEW i \in 1 .. tail + len
                   PROVE  stream'[s][i] < nextTx + len
        BY <1>6
      <4>1. CASE i <= tail
        <5>1. i \in 1..tail
          BY <1>3, <1>4, <4>1
        <5>2. stream[s][i] \in Nat /\ stream[s][i] < nextTx
          BY <2>1, <2>3, <5>1 DEF tail
        <5>3. stream'[s][i] = stream[s][i]
          BY <1>6, <5>1
        <5> QED BY <1>2, <1>3, <5>2, <5>3
      <4>2. CASE ~(i <= tail)
        <5>1. i - 1 \in tail .. tail + len - 1
          BY <1>3, <1>4, <4>2
        <5>2. stream'[s][(i - 1) + 1] = nextTx + ((i - 1) - tail)
          BY <1>6, <5>1
        <5> QED BY <1>2, <1>3, <1>4, <5>1, <5>2
      <4> QED BY <4>1, <4>2
    <3>2. /\ ssnHead[s] <= ssnNext[s] /\ ssnHead[s] <= sfNext[s]
          /\ ssnNext[s] <= tail /\ ssnHigh[s] <= tail /\ recover[s] <= tail
          /\ sfNext[s] <= tail
          /\ ssnNext[s] \in Nat /\ ssnHigh[s] \in Nat /\ recover[s] \in Nat
          /\ sfNext[s] \in Nat
      BY SenderStands DEF tail
    <3> QED BY <1>3, <1>4, <1>6, <2>3, <3>1, <3>2
  <2> QED BY <2>2, <2>3
<1>14. MapsRight'
  <2> SUFFICES ASSUME NEW t \in Subflows
               PROVE  /\ \A k \in txMap'[t] : RightMapping(t, k)'
                      /\ \A k, l \in txMap'[t] : k = l \/ Apart(k, l)
                      /\ \A x \in ssnHead[t] .. (Len(stream'[t]) - 1) :
                           Covering(txMap'[t], x) # {}
    BY <1>1 DEF MapsRight
  <2>1. /\ \A k \in txMap[t] : RightMapping(t, k)
        /\ \A k, l \in txMap[t] : k = l \/ Apart(k, l)
        /\ \A x \in ssnHead[t] .. (Len(stream[t]) - 1) : Covering(txMap[t], x) # {}
    BY DEF IInv, MapsRight
  <2>2. CASE t # s
    BY <1>7, <2>1, <2>2 DEF RightMapping
  <2>3. CASE t = s
    <3>1. RightMapping(s, m)'
      BY <1>3, <1>6, <1>9 DEF RightMapping
    <3>2. ASSUME NEW k \in txMap[s] PROVE RightMapping(s, k)'
      <4>1. k.ssn \in Nat /\ k.len \in Nat /\ k.ssn + k.len <= tail
        BY <1>10 DEF Mapping
      <4>2. RightMapping(s, k)
        BY <2>1, <2>3
      <4>3. \A x \in k.ssn .. TailSSN(k) : x + 1 \in 1..tail
        BY <1>4, <4>1 DEF TailSSN
      <4> QED BY <1>3, <1>4, <1>6, <4>1, <4>2, <4>3 DEF RightMapping
    <3>3. ASSUME NEW k \in txMap[s] PROVE Apart(k, m) /\ Apart(m, k)
      BY <1>4, <1>9, <1>10 DEF Apart, TailSSN, Mapping
    <3>4. ASSUME NEW x \in ssnHead[s] .. (tail + len - 1)
          PROVE  Covering(txMap'[s], x) # {}
      <4>1. CASE x < tail
        <5>1. x \in ssnHead[s] .. (Len(stream[s]) - 1)
          BY <1>4, <4>1, SenderStands DEF tail
        <5>2. Covering(txMap[s], x) # {}
          BY <2>1, <2>3, <5>1
        <5> QED BY <1>8, <5>2 DEF Covering
      <4>2. CASE ~(x < tail)
        <5>1. m \in Covering(txMap'[s], x)
          BY <1>3, <1>4, <1>8, <1>9, <4>2, SenderStands DEF Covering
        <5> QED BY <5>1
      <4> QED BY <4>1, <4>2
    <3>5. \A k \in txMap'[s] : RightMapping(s, k)'
      BY <1>8, <3>1, <3>2 DEF RightMapping
    <3>6. \A k, l \in txMap'[s] : k = l \/ Apart(k, l)
      BY <1>8, <2>1, <2>3, <3>3
    <3>7. \A x \in ssnHead[s] .. (Len(stream'[s]) - 1) : Covering(txMap'[s], x) # {}
      <4>1. Len(stream'[s]) - 1 = tail + len - 1
        BY <1>3, <1>4, <1>6
      <4> QED BY <3>4, <4>1
    <3>8. \A k \in txMap'[t] : RightMapping(t, k)'
      BY <2>3, <3>5 DEF RightMapping
    <3>9. /\ \A k, l \in txMap'[t] : k = l \/ Apart(k, l)
          /\ \A x \in ssnHead[t] .. (Len(stream'[t]) - 1) : Covering(txMap'[t], x) # {}
      BY <2>3, <3>6, <3>7
    <3> QED BY <3>8, <3>9 DEF RightMapping
  <2> QED BY <2>2, <2>3
<1>15. \A t \in Subflows, x \in Nat :
         AtBoundary(t, x) /\ x <= Len(stream[t]) =>
           \A k \in txMap'[t] : x <= k.ssn \/ TailSSN(k) < x
  <2> SUFFICES ASSUME NEW t \in Subflows, NEW x \in Nat,
                      AtBoundary(t, x), x <= Len(stream[t])
               PROVE  \A k \in txMap'[t] : x <= k.ssn \/ TailSSN(k) < x
    OBVIOUS
  <2>1. CASE t # s
    BY <1>7, <2>1 DEF AtBoundary
  <2>2. CASE t = s
    BY <1>4, <1>8, <1>9, <2>2 DEF AtBoundary, tail
  <2> QED BY <2>1, <2>2
<1>16. Boundaries'
  <2> SUFFICES ASSUME NEW t \in Subflows
               PROVE  \A x \in {ssnHead[t], ssnNext[t], sfNext[t]} :
                        \A k \in txMap'[t] : x <= k.ssn \/ TailSSN(k) < x
    BY <1>1 DEF Boundaries, AtBoundary
  <2>1. \A x \in {ssnHead[t], ssnNext[t], sfNext[t]} :
          x \in Nat /\ x <= Len(stream[t]) /\ AtBoundary(t, x)
    BY SenderStands, SMTT(30) DEF IInv, Boundaries
  <2> QED BY <1>15, <2>1
<1>17. AcksRight'
  <2> SUFFICES ASSUME NEW a \in ackNet
               PROVE  /\ a.ack <= sfNext[a.sf]
                      /\ \A k \in txMap'[a.sf] : a.ack <= k.ssn \/ TailSSN(k) < a.ack
    BY <1>1 DEF AcksRight, AtBoundary
  <2>1. /\ a.sf \in Subflows /\ a.ack \in Nat
        /\ a.ack <= sfNext[a.sf] /\ AtBoundary(a.sf, a.ack)
    BY AckStands
  <2>2. a.ack <= Len(stream[a.sf])
    BY <2>1, SenderStands, SMTT(30)
  <2> QED BY <1>15, <2>1, <2>2
<1>18. SegmentsRight'
  <2> SUFFICES ASSUME NEW p \in dataNet PROVE RightSegment(p)'
    BY <1>1 DEF SegmentsRight
  <2>1. p \in Segment /\ RightSegment(p)
    BY DEF IInv, TypeOK, SegmentsRight
  <2>2. CASE p.sf # s
    BY <1>7, <2>1, <2>2 DEF RightSegment, Segment
  <2>3. CASE p.sf = s
    <3>1. /\ p.ssn \in Nat /\ p.map \in Mapping /\ p.ssn = p.map.ssn
          /\ Len(p.data) = p.map.len /\ 1 <= p.map.len
          /\ p.ssn + Len(p.data) <= tail
      BY <2>1, <2>3 DEF RightSegment, Segment, tail
    <3>2. \A i \in 1..Len(p.data) : p.ssn + i \in 1..tail
      BY <1>4, <3>1, SMTT(30) DEF Mapping
    <3>3. \A i \in 1..Len(p.data) :
            p.data[i] = p.map.dsn + i - 1 /\ p.data[i] = stream'[s][p.ssn + i]
      BY <1>6, <2>1, <2>3, <3>2 DEF RightSegment
    <3>4. Apart(m, p.map)
      BY <1>4, <1>9, <3>1 DEF Apart, TailSSN, Mapping
    <3>5. p.ssn + Len(p.data) <= tail + len
      BY <1>3, <1>4, <3>1 DEF Mapping
    <3> QED BY <1>6, <1>8, <2>1, <2>3, <3>1, <3>3, <3>4, <3>5 DEF RightSegment, Apart
  <2> QED BY <2>2, <2>3
<1>19. SubflowReceiver'
  <2> SUFFICES ASSUME NEW t \in Subflows
               PROVE  /\ \A x \in sfOoo[t] : sfNext[t] < x /\ x < Len(stream'[t])
                      /\ \A k \in txMap'[t] :
                           \/ \A x \in k.ssn .. TailSSN(k) : Outstanding(t, x)
                           \/ \A x \in k.ssn .. TailSSN(k) : ~Outstanding(t, x)
    BY <1>1 DEF SubflowReceiver, Outstanding
  <2>1. /\ \A x \in sfOoo[t] : x \in Nat /\ sfNext[t] < x /\ x < Len(stream[t])
        /\ \A k \in txMap[t] :
             \/ \A x \in k.ssn .. TailSSN(k) : Outstanding(t, x)
             \/ \A x \in k.ssn .. TailSSN(k) : ~Outstanding(t, x)
    BY DEF IInv, TypeOK, SubflowReceiver
  <2>2. CASE t # s
    BY <1>7, <2>1, <2>2
  <2>3. CASE t = s
    <3>1. \A x \in sfOoo[s] : sfNext[s] < x /\ x < Len(stream'[s])
      BY <1>3, <1>4, <1>6, <2>1, <2>3 DEF tail
    <3>2. \A x \in m.ssn .. TailSSN(m) : Outstanding(s, x)
      BY <1>3, <1>4, <1>9, <2>1, <2>3, SenderStands, SMTT(30) DEF Outstanding, tail
    <3> QED BY <1>8, <2>1, <2>3, <3>1, <3>2
  <2> QED BY <2>2, <2>3
<1>20. MetaReceiver'
  BY <1>1, <1>2, <1>3 DEF IInv, TypeOK, MetaReceiver, Byte
<1>21. WindowOvershoot'
  BY <1>1, <1>2, <1>3, SMTT(30) DEF WindowOvershoot, MetaWindow, AvailableWindow
<1> QED BY <1>11, <1>12, <1>13, <1>14, <1>16, <1>17, <1>18, <1>19, <1>20, <1>21 DEF IInv


(* NewAck: only mappings wholly below the acknowledged boundary are erased, *)
(* whatever the comparison of the end of the range lets through.            *)
LEMMA NewAckKeeps ==
  ASSUME IInv, NEW a \in ackNet, NewAck(a) PROVE IInv'
<1> DEFINE s == a.sf
           gone == InSSNRange(txMap[s], ssnHead[s], a.ack - ssnHead[s])
<1> HIDE DEF s
<1>1. /\ s \in Subflows /\ ReceivedAck(a)
      /\ ssnHead[s] < a.ack
      /\ ssnHead' = [ssnHead EXCEPT ![s] = a.ack]
      /\ ssnNext' = [ssnNext EXCEPT ![s] = Max2(@, a.ack)]
      /\ txMap' = [txMap EXCEPT ![s] = @ \ gone]
      /\ cong' = [cong EXCEPT ![s] = "open"]
      /\ retrCount' = [retrCount EXCEPT ![s] = DataRetries]
      /\ sendEvent' \in {sendEvent, Scheduled}
      /\ UNCHANGED <<written, delivered, sfLoop, stream, ssnHigh, recover, endPoint,
                     dataNet, sfNext, sfOoo, rxNext, rxBuf>>
  BY AckStands DEF NewAck, appVars, rxVars, s
<1>2. /\ a.ack \in Nat /\ AtBoundary(s, a.ack) /\ a.ack <= sfNext[s]
      /\ a.ack <= Len(stream[s])
  <2>1. a.ack \in Nat /\ AtBoundary(s, a.ack) /\ a.ack <= sfNext[s]
    BY AckStands DEF s
  <2>2. sfNext[s] \in Nat /\ Len(stream[s]) \in Nat /\ sfNext[s] <= Len(stream[s])
    BY <1>1, SenderStands
  <2> QED BY <2>1, <2>2
<1>3. nextTx' = nextTx /\ txHead' \in txHead .. rxNext /\ ackNet' \subseteq ackNet
  BY <1>1, DataAckKeeps
<1>4. /\ \A t \in Subflows : txMap'[t] \subseteq txMap[t]
      /\ \A t \in Subflows : t # s => txMap'[t] = txMap[t]
      /\ \A m \in txMap[s] : a.ack <= TailSSN(m) => m \in txMap'[s]
  <2>1. txMap \in [Subflows -> SUBSET Mapping]
    BY DEF IInv, TypeOK
  <2>2. ASSUME NEW m \in txMap[s], a.ack <= TailSSN(m) PROVE m \notin gone
    <3>1. m \in Mapping /\ a.ack <= m.ssn
      BY <1>1, <1>2, <2>1, <2>2 DEF AtBoundary, TailSSN, Mapping
    <3>2. ssnHead[s] \in Nat /\ AtBoundary(s, ssnHead[s])
      BY <1>1, SenderStands
    <3>3. ASSUME NEW k \in Covering(txMap[s], ssnHead[s])
          PROVE  ~(m.ssn - k.ssn < a.ack - ssnHead[s])
      <4>1. k \in Mapping /\ k \in txMap[s] /\ k.ssn <= ssnHead[s]
            /\ ssnHead[s] <= TailSSN(k)
        BY <1>1, <2>1 DEF Covering
      <4>2. k.ssn = ssnHead[s]
        BY <3>2, <4>1 DEF AtBoundary, TailSSN, Mapping
      <4> QED BY <1>2, <3>1, <3>2, <4>2 DEF Mapping
    <3> QED BY <3>3 DEF InSSNRange
  <2> HIDE DEF gone
  <2> QED BY <1>1, <2>1, <2>2
<1>5. /\ ssnHead' \in [Subflows -> Nat] /\ ssnNext' \in [Subflows -> Nat]
      /\ cong' \in [Subflows -> {"open", "recovery", "loss"}]
      /\ sendEvent' \in {"idle", "scheduled", "running"}
      /\ txMap' \in [Subflows -> SUBSET Mapping]
  <2>1. ssnHead' \in [Subflows -> Nat] /\ ssnNext' \in [Subflows -> Nat]
    BY <1>1, <1>2, SenderStands DEF Max2
  <2>2. /\ cong' \in [Subflows -> {"open", "recovery", "loss"}]
        /\ sendEvent' \in {"idle", "scheduled", "running"}
    BY <1>1, SenderStands DEF Scheduled
  <2>3. txMap' \in [Subflows -> SUBSET Mapping]
    BY <1>1 DEF IInv, TypeOK
  <2> QED BY <2>1, <2>2, <2>3
<1>6. ASSUME NEW t \in Subflows
      PROVE  /\ ssnHead[t] <= ssnHead'[t] /\ ssnHead'[t] <= ssnNext'[t]
             /\ ssnHead'[t] <= sfNext[t] /\ ssnNext'[t] <= Len(stream[t])
             /\ AtBoundary(t, ssnHead'[t]) /\ AtBoundary(t, ssnNext'[t])
  <2>1. /\ ssnHead'[t] = IF t = s THEN a.ack ELSE ssnHead[t]
        /\ ssnNext'[t] = IF t = s THEN Max2(ssnNext[t], a.ack) ELSE ssnNext[t]
    BY <1>1, SenderStands
  <2> QED BY <1>1, <1>2, <2>1, SenderStands, SMTT(30) DEF Max2
<1>7. TypeOK'
  <2>1. txHead' \in 0..StreamLen
    BY <1>3, SizesAssumption DEF IInv, TypeOK
  <2>2. retrCount' \in [Subflows -> 0..DataRetries]
    BY <1>1, RetriesCounted
  <2> QED BY <1>1, <1>3, <1>5, <2>1, <2>2 DEF IInv, TypeOK
<1>8. MetaOrder'
  BY <1>1, <1>3, SizesAssumption DEF IInv, TypeOK, MetaOrder
<1>9. SubflowOrder'
  BY <1>1, <1>3, <1>6 DEF IInv, SubflowOrder
<1>10. MapsRight'
  <2> SUFFICES ASSUME NEW t \in Subflows
               PROVE  /\ \A m \in txMap'[t] : RightMapping(t, m)
                      /\ \A m, k \in txMap'[t] : m = k \/ Apart(m, k)
                      /\ \A x \in ssnHead'[t] .. (Len(stream[t]) - 1) :
                           Covering(txMap'[t], x) # {}
    BY <1>1 DEF MapsRight, RightMapping
  <2>1. /\ \A m \in txMap[t] : RightMapping(t, m)
        /\ \A m, k \in txMap[t] : m = k \/ Apart(m, k)
        /\ \A x \in ssnHead[t] .. (Len(stream[t]) - 1) : Covering(txMap[t], x) # {}
    BY DEF IInv, MapsRight
  <2>2. ASSUME NEW x \in ssnHead'[t] .. (Len(stream[t]) - 1)
        PROVE  Covering(txMap'[t], x) # {}
    <3>1. x \in ssnHead[t] .. (Len(stream[t]) - 1) /\ ssnHead'[t] <= x /\ x \in Int
      BY <1>5, <1>6, SenderStands
    <3>2. PICK m \in txMap[t] : m.ssn <= x /\ x <= TailSSN(m)
      BY <2>1, <3>1 DEF Covering
    <3>3. m \in txMap'[t]
      <4>1. CASE t # s
        BY <1>4, <3>2, <4>1
      <4>2. CASE t = s
        <5>1. a.ack <= x
          BY <1>1, <3>1, <4>2, SenderStands
        <5>2. TailSSN(m) \in Int
          BY <3>2, MappingFits DEF TailSSN, Mapping
        <5> QED BY <1>2, <1>4, <3>1, <3>2, <4>2, <5>1, <5>2
      <4> QED BY <4>1, <4>2
    <3> QED BY <3>2, <3>3 DEF Covering
  <2> QED BY <1>4, <2>1, <2>2
<1>11. Boundaries'
  BY <1>1, <1>4, <1>6 DEF IInv, Boundaries, AtBoundary
<1>12. AcksRight'
  BY <1>1, <1>3, <1>4, AckStands DEF AcksRight, AtBoundary
<1>13. SegmentsRight'
  <2> SUFFICES ASSUME NEW p \in dataNet PROVE RightSegment(p)'
    BY <1>1 DEF SegmentsRight
  <2>1. p.sf \in Subflows /\ RightSegment(p)
    BY DEF IInv, TypeOK, SegmentsRight, Segment
  <2> QED BY <1>1, <1>4, <2>1 DEF RightSegment
<1>14. SubflowReceiver'
  BY <1>1, <1>4 DEF IInv, SubflowReceiver, Outstanding
<1>15. MetaReceiver'
  BY <1>1, <1>3 DEF IInv, MetaReceiver
<1>16. WindowOvershoot'
  BY <1>3, SizesAssumption, SMTT(30) DEF IInv, TypeOK, WindowOvershoot
<1> QED BY <1>7, <1>8, <1>9, <1>10, <1>11, <1>12, <1>13, <1>14, <1>15, <1>16 DEF IInv

-----------------------------------------------------------------------------
(* The actions of the receiver. *)

LEMMA ReceiveDuplicateKeeps ==
  ASSUME IInv, NEW p \in dataNet, ReceiveDuplicate(p) PROVE IInv'
<1>0. PICK dack \in {rxNext} \cup {d \in {0} : OutOfRange(p)} :
        ackNet' = Enqueue(ackNet, [sf |-> p.sf, ack |-> sfNext[p.sf], dack |-> dack],
                          AckCap)
  BY DEF ReceiveDuplicate
<1> DEFINE a == [sf |-> p.sf, ack |-> sfNext[p.sf], dack |-> dack]
<1>1. /\ dataNet' = dataNet \ {p}
      /\ UNCHANGED <<written, delivered, txHead, nextTx, sendEvent, sfLoop, stream,
                     ssnHead, ssnNext, ssnHigh, cong, recover, txMap, retrCount,
                     endPoint, sfNext, sfOoo, rxNext, rxBuf>>
  BY DEF ReceiveDuplicate, appVars, metaTxVars, sfTxVars, retryVars, rxVars
<1>2. ackNet' \subseteq ackNet \cup {a}
  BY <1>0, EnqueueAdds
<1>3. /\ a \in Ack /\ a.dack <= rxNext /\ a.ack <= sfNext[a.sf]
      /\ AtBoundary(a.sf, a.ack)
  <2>1. p.sf \in Subflows /\ dack \in Nat /\ dack <= rxNext
    <3>1. rxNext \in Nat /\ 0 <= rxNext
      BY SizesAssumption DEF IInv, TypeOK
    <3>2. dack = rxNext \/ dack = 0
      OBVIOUS
    <3> QED BY <3>1, <3>2 DEF IInv, TypeOK, Segment
  <2> QED BY <2>1, SenderStands DEF IInv, Boundaries, Ack
<1> HIDE DEF a
<1>4. TypeOK'
  BY <1>1, <1>2, <1>3 DEF IInv, TypeOK
<1>5. MetaOrder'
  BY <1>1, <1>2, <1>3 DEF IInv, MetaOrder
<1>6. SubflowOrder' /\ MapsRight' /\ Boundaries'
  BY <1>1 DEF IInv, SubflowOrder, MapsRight, RightMapping, Boundaries, AtBoundary
<1>7. AcksRight'
  BY <1>1, <1>2, <1>3 DEF IInv, AcksRight, AtBoundary
<1>8. SegmentsRight'
  BY <1>1 DEF IInv, SegmentsRight, RightSegment
<1>9. SubflowReceiver'
  BY <1>1 DEF IInv, SubflowReceiver, Outstanding
<1>10. MetaReceiver' /\ WindowOvershoot'
  BY <1>1 DEF IInv, MetaReceiver, WindowOvershoot
<1> QED BY <1>4, <1>5, <1>6, <1>7, <1>8, <1>9, <1>10 DEF IInv

(* Reading n bytes of a buffer that has them, each in its place. *)
LEMMA ExtractRight ==
  ASSUME NEW buf, NEW n \in Nat, StreamLen \in Nat,
         delivered \in Seq(Byte), \A i \in 1..Len(delivered) : delivered[i] = i - 1,
         Len(delivered) + n <= StreamLen,
         DOMAIN buf \subseteq Byte, \A d \in DOMAIN buf : buf[d] = d,
         \A d \in Len(delivered) .. (Len(delivered) + n - 1) : d \in DOMAIN buf,
         Extract(buf, n)
  PROVE  /\ delivered' = delivered \o [i \in 1..n |-> Len(delivered) + i - 1]
         /\ delivered' \in Seq(Byte) /\ Len(delivered') = Len(delivered) + n
         /\ \A i \in 1..Len(delivered') : delivered'[i] = i - 1
         /\ DOMAIN rxBuf' = {d \in DOMAIN buf : d >= Len(delivered) + n}
         /\ \A d \in DOMAIN rxBuf' : rxBuf'[d] = d
         /\ rxBuf' \in [DOMAIN rxBuf' -> Byte]
<1> DEFINE pos == Len(delivered)
           run == [i \in 1..n |-> pos + i - 1]
<1>1. pos \in Nat
  OBVIOUS
<1> HIDE DEF pos
<1>2. \A i \in 1..n : buf[pos + i - 1] = pos + i - 1
  <2> SUFFICES ASSUME NEW i \in 1..n PROVE buf[pos + i - 1] = pos + i - 1
    OBVIOUS
  <2>1. pos + i - 1 \in pos .. (pos + n - 1)
    BY <1>1
  <2> QED BY <2>1 DEF pos
<1>3. [i \in 1..n |-> buf[pos + i - 1]] = run
  BY <1>2
<1>4. delivered' = delivered \o run
  BY <1>3 DEF Extract, pos
<1>5. /\ run \in Seq(Byte) /\ Len(run) = n /\ \A j \in 1..n : run[j] = pos + j - 1
  <2>1. pos + n <= StreamLen
    BY DEF pos
  <2> QED BY <1>1, <2>1, ByteRun
<1> HIDE DEF run
<1>6. /\ delivered' \in Seq(Byte) /\ Len(delivered') = pos + n
      /\ \A i \in 1 .. pos + n :
           delivered'[i] = IF i <= pos THEN delivered[i] ELSE run[i - pos]
  <2>1. /\ delivered \o run \in Seq(Byte)
        /\ Len(delivered \o run) = Len(delivered) + Len(run)
        /\ \A i \in 1 .. Len(delivered) + Len(run) :
             (delivered \o run)[i] =
               IF i <= Len(delivered) THEN delivered[i] ELSE run[i - Len(delivered)]
    BY <1>5, Joined
  <2> QED BY <1>4, <1>5, <2>1 DEF pos
<1>7. ASSUME NEW i \in 1 .. pos + n PROVE delivered'[i] = i - 1
  <2>1. CASE i <= pos
    <3>1. i \in 1 .. Len(delivered)
      BY <1>1, <2>1 DEF pos
    <3> QED BY <1>6, <2>1, <3>1
  <2>2. CASE ~(i <= pos)
    <3>1. i - pos \in 1..n
      BY <1>1, <2>2
    <3>2. run[i - pos] = pos + (i - pos) - 1
      BY <1>5, <3>1
    <3> QED BY <1>1, <1>6, <2>2, <3>2
  <2> QED BY <2>1, <2>2
<1>8. rxBuf' = [d \in {x \in DOMAIN buf : x >= pos + n} |-> buf[d]]
  BY DEF Extract, pos
<1>9. /\ DOMAIN rxBuf' = {d \in DOMAIN buf : d >= pos + n}
      /\ \A d \in DOMAIN rxBuf' : rxBuf'[d] = d
      /\ rxBuf' \in [DOMAIN rxBuf' -> Byte]
  BY <1>8
<1> QED BY <1>4, <1>6, <1>7, <1>9 DEF pos, run

LEMMA AppReadKeeps ==
  ASSUME IInv, NEW n \in 1..StreamLen, AppRead(n) PROVE IInv'
<1>1. /\ n <= rxNext - Len(delivered) /\ Extract(rxBuf, n)
      /\ UNCHANGED <<written, txHead, nextTx, sendEvent, sfLoop, stream, ssnHead,
                     ssnNext, ssnHigh, cong, recover, txMap, retrCount, endPoint,
                     dataNet, ackNet, sfNext, sfOoo, rxNext>>
  BY DEF AppRead, metaTxVars, sfTxVars, retryVars, netVars
<1>2. /\ delivered \in Seq(Byte) /\ Len(delivered) \in Nat /\ rxNext \in 0..StreamLen
      /\ StreamLen \in Nat /\ n \in Nat /\ DOMAIN rxBuf \subseteq Byte
  <2>1. delivered \in Seq(Byte)
    BY DEF IInv, TypeOK
  <2> QED BY <2>1, SizesAssumption DEF IInv, TypeOK
<1>3. /\ \A i \in 1..Len(delivered) : delivered[i] = i - 1
      /\ \A d \in DOMAIN rxBuf : Len(delivered) <= d /\ d < nextTx /\ rxBuf[d] = d
      /\ \A d \in Len(delivered) .. (rxNext - 1) : d \in DOMAIN rxBuf
      /\ rxNext \notin DOMAIN rxBuf
  BY DEF IInv, MetaReceiver
<1>4. /\ delivered' \in Seq(Byte) /\ Len(delivered') = Len(delivered) + n
      /\ \A i \in 1..Len(delivered') : delivered'[i] = i - 1
      /\ DOMAIN rxBuf' = {d \in DOMAIN rxBuf : d >= Len(delivered) + n}
      /\ \A d \in DOMAIN rxBuf' : rxBuf'[d] = d
      /\ rxBuf' \in [DOMAIN rxBuf' -> Byte]
  <2>1. Len(delivered) + n <= StreamLen
    BY <1>1, <1>2
  <2>2. \A d \in Len(delivered) .. (Len(delivered) + n - 1) : d \in DOMAIN rxBuf
    BY <1>1, <1>2, <1>3
  <2> QED BY <1>1, <1>2, <1>3, <2>1, <2>2, ExtractRight
<1>5. TypeOK'
  BY <1>1, <1>2, <1>4 DEF IInv, TypeOK
<1>6. MetaOrder' /\ SubflowOrder' /\ MapsRight' /\ Boundaries' /\ AcksRight'
  BY <1>1 DEF IInv, MetaOrder, SubflowOrder, MapsRight, RightMapping, Boundaries,
              AtBoundary, AcksRight
<1>7. SegmentsRight' /\ SubflowReceiver' /\ WindowOvershoot'
  BY <1>1 DEF IInv, SegmentsRight, RightSegment, SubflowReceiver, Outstanding,
              WindowOvershoot
<1>8. MetaReceiver'
  <2>1. Len(delivered') <= rxNext /\ ~EagerReader
    <3>1. EagerReader => Len(delivered) = rxNext
      BY DEF IInv, MetaReceiver
    <3> QED BY <1>1, <1>2, <1>4, <3>1
  <2>2. rxNext \notin DOMAIN rxBuf'
    BY <1>3, <1>4
  <2>3. ASSUME NEW d \in Len(delivered') .. (rxNext - 1) PROVE d \in DOMAIN rxBuf'
    <3>1. d \in Len(delivered) .. (rxNext - 1) /\ d >= Len(delivered) + n
      BY <1>2, <1>4
    <3> QED BY <1>3, <1>4, <3>1
  <2>4. \A d \in DOMAIN rxBuf' : Len(delivered') <= d /\ d < nextTx
    BY <1>2, <1>3, <1>4
  <2> QED BY <1>1, <1>4, <2>1, <2>2, <2>3, <2>4 DEF MetaReceiver
<1> QED BY <1>5, <1>6, <1>7, <1>8 DEF IInv


(* The meta receive buffer with the bytes of a segment added. *)
LEMMA BufferRight ==
  ASSUME IInv, NEW p \in dataNet
  PROVE  /\ DOMAIN BufferWith(p) = DOMAIN rxBuf \cup Stored(p)
         /\ DOMAIN BufferWith(p) \subseteq Byte
         /\ \A d \in DOMAIN BufferWith(p) :
              Len(delivered) <= d /\ d < nextTx /\ BufferWith(p)[d] = d
<1>1. /\ p.sf \in Subflows /\ p.ssn \in Nat /\ p.map \in Mapping /\ RightSegment(p)
      /\ p.data \in Seq(Byte)
  BY DEF IInv, TypeOK, Segment, SegmentsRight
<1>2. /\ DSN(p) = p.map.dsn /\ p.map.dsn \in Nat /\ Len(p.data) \in Nat
      /\ Len(stream[p.sf]) \in Nat
      /\ p.ssn + Len(p.data) <= Len(stream[p.sf])
  <2>1. p.ssn = p.map.ssn /\ p.map.ssn \in Nat /\ p.map.dsn \in Nat
    BY <1>1 DEF RightSegment, Mapping
  <2>2. DSN(p) = p.map.dsn
    BY <2>1 DEF DSN, GetDSNFromSSN
  <2>3. Len(p.data) \in Nat /\ Len(stream[p.sf]) \in Nat
    BY <1>1, SenderStands
  <2> QED BY <1>1, <2>1, <2>2, <2>3 DEF RightSegment
<1>3. ASSUME NEW d \in Stored(p)
      PROVE  /\ d \in Byte /\ rxNext <= d /\ d < nextTx
             /\ p.data[d - DSN(p) + 1] = d
  <2> DEFINE j == d - DSN(p) + 1
  <2>1. d \in Bytes(DSN(p), Len(p.data)) /\ d >= rxNext
    BY DEF Stored, Kept
  <2>2. d \in Int /\ j \in 1..Len(p.data) /\ p.map.dsn + j - 1 = d
    BY <1>2, <2>1 DEF Bytes
  <2> HIDE DEF j
  <2>3. p.data[j] = p.map.dsn + j - 1 /\ p.data[j] = stream[p.sf][p.ssn + j]
    BY <1>1, <2>2 DEF RightSegment
  <2>4. p.ssn + j \in 1..Len(stream[p.sf])
    <3>1. j \in Nat /\ 1 <= j /\ j <= Len(p.data)
      BY <1>2, <2>2
    <3>2. p.ssn \in Nat
      BY <1>1
    <3> QED BY <1>2, <3>1, <3>2
  <2>5. stream[p.sf][p.ssn + j] < nextTx
    BY <1>1, <2>4 DEF IInv, SubflowOrder
  <2>6. p.data[j] \in Byte
    BY <1>1, <2>2, ElementOfSeq
  <2>7. d \in Byte /\ rxNext <= d /\ d < nextTx /\ p.data[j] = d
    BY <2>1, <2>2, <2>3, <2>5, <2>6
  <2> QED BY <2>7 DEF j
<1>4. DOMAIN BufferWith(p) = DOMAIN rxBuf \cup Stored(p)
  BY DEF BufferWith
<1>5. /\ DOMAIN rxBuf \subseteq Byte
      /\ \A d \in DOMAIN rxBuf : Len(delivered) <= d /\ d < nextTx /\ rxBuf[d] = d
      /\ Len(delivered) <= rxNext /\ Len(delivered) \in Nat /\ rxNext \in Nat
  <2>1. delivered \in Seq(Byte)
    BY DEF IInv, TypeOK
  <2> QED BY <2>1, SizesAssumption DEF IInv, TypeOK, MetaReceiver
<1>6. ASSUME NEW d \in DOMAIN BufferWith(p)
      PROVE  /\ d \in Byte /\ Len(delivered) <= d /\ d < nextTx
             /\ BufferWith(p)[d] = d
  <2>1. CASE d \in Stored(p)
    <3>1. BufferWith(p)[d] = p.data[d - DSN(p) + 1]
      BY <1>4, <2>1 DEF BufferWith
    <3>2. /\ d \in Byte /\ rxNext <= d /\ d < nextTx
          /\ p.data[d - DSN(p) + 1] = d
      BY <1>3, <2>1
    <3> QED BY <1>5, <3>1, <3>2, SizesAssumption DEF Byte
  <2>2. CASE d \notin Stored(p)
    <3>1. d \in DOMAIN rxBuf /\ BufferWith(p)[d] = rxBuf[d]
      BY <1>4, <2>2 DEF BufferWith
    <3> QED BY <1>5, <3>1
  <2> QED BY <2>1, <2>2
<1> QED BY <1>4, <1>6

(* What ReceiveData makes of the two receive buffers. *)
LEMMA ReceiveDataDoes ==
  ASSUME IInv, NEW p \in dataNet, NEW ssn \in 0..StreamLen, NEW dsn \in 0..StreamLen,
         ReceiveData(p, ssn, dsn)
  PROVE  /\ rxNext <= dsn /\ dsn <= nextTx
         /\ \A d \in rxNext .. (dsn - 1) : d \in DOMAIN BufferWith(p)
         /\ dsn \notin DOMAIN BufferWith(p)
         /\ delivered' \in Seq(Byte) /\ Len(delivered') <= dsn
         /\ Len(delivered) <= Len(delivered')
         /\ EagerReader => Len(delivered') = dsn
         /\ \A i \in 1..Len(delivered') : delivered'[i] = i - 1
         /\ DOMAIN rxBuf' = {d \in DOMAIN BufferWith(p) : d >= Len(delivered')}
         /\ \A d \in DOMAIN rxBuf' : rxBuf'[d] = d
         /\ rxBuf' \in [DOMAIN rxBuf' -> Byte]
         /\ delivered' = delivered \/
              /\ Len(delivered') = dsn
              /\ delivered' = delivered \o
                   [i \in 1 .. (dsn - Len(delivered)) |-> Len(delivered) + i - 1]
<1> DEFINE buf == BufferWith(p)
<1>1. /\ DOMAIN buf = DOMAIN rxBuf \cup Stored(p) /\ DOMAIN buf \subseteq Byte
      /\ \A d \in DOMAIN buf : Len(delivered) <= d /\ d < nextTx /\ buf[d] = d
  BY BufferRight
<1>2. /\ Advances(rxNext, DOMAIN buf, dsn)
      /\ IF EagerReader THEN Extract(buf, dsn - Len(delivered))
                        ELSE rxBuf' = buf /\ UNCHANGED delivered
  BY DEF ReceiveData
<1> HIDE DEF buf
<1>3. /\ delivered \in Seq(Byte) /\ Len(delivered) \in Nat /\ rxNext \in Nat
      /\ nextTx \in Nat /\ StreamLen \in Nat
      /\ Len(delivered) <= rxNext /\ rxNext <= nextTx
      /\ \A i \in 1..Len(delivered) : delivered[i] = i - 1
      /\ \A d \in Len(delivered) .. (rxNext - 1) : d \in DOMAIN rxBuf
  <2>1. delivered \in Seq(Byte)
    BY DEF IInv, TypeOK
  <2> QED BY <2>1, SizesAssumption DEF IInv, TypeOK, MetaOrder, MetaReceiver
<1>4. rxNext <= dsn /\ dsn \notin DOMAIN buf
      /\ \A d \in rxNext .. (dsn - 1) : d \in DOMAIN buf
  BY <1>2 DEF Advances
<1>5. dsn <= nextTx
  <2>1. CASE dsn = rxNext
    BY <1>3, <2>1
  <2>2. CASE dsn # rxNext
    <3>1. dsn - 1 \in rxNext .. (dsn - 1)
      BY <1>3, <1>4, <2>2
    <3>2. dsn - 1 < nextTx
      BY <1>1, <1>4, <3>1
    <3> QED BY <1>3, <3>2
  <2> QED BY <2>1, <2>2
<1>6. CASE EagerReader
  <2> DEFINE n == dsn - Len(delivered)
  <2>1. n \in Nat /\ Len(delivered) + n = dsn /\ dsn <= StreamLen
    BY <1>3, <1>4
  <2>2. Extract(buf, n)
    BY <1>2, <1>6
  <2>3. \A d \in Len(delivered) .. (Len(delivered) + n - 1) : d \in DOMAIN buf
    <3> SUFFICES ASSUME NEW d \in Len(delivered) .. (dsn - 1) PROVE d \in DOMAIN buf
      BY <2>1
    <3>1. d \in Len(delivered) .. (rxNext - 1) \/ d \in rxNext .. (dsn - 1)
      BY <1>3
    <3> QED BY <1>1, <1>3, <1>4, <3>1
  <2> HIDE DEF n
  <2>4. /\ delivered' = delivered \o [i \in 1..n |-> Len(delivered) + i - 1]
        /\ delivered' \in Seq(Byte) /\ Len(delivered') = Len(delivered) + n
        /\ \A i \in 1..Len(delivered') : delivered'[i] = i - 1
        /\ DOMAIN rxBuf' = {d \in DOMAIN buf : d >= Len(delivered) + n}
        /\ \A d \in DOMAIN rxBuf' : rxBuf'[d] = d
        /\ rxBuf' \in [DOMAIN rxBuf' -> Byte]
    <3>1. Len(delivered) + n <= StreamLen
      BY <2>1
    <3>2. \A d \in DOMAIN buf : buf[d] = d
      BY <1>1
    <3> QED BY <1>1, <1>3, <2>1, <2>2, <2>3, <3>1, <3>2, ExtractRight
  <2>5. /\ Len(delivered') = dsn /\ Len(delivered) <= dsn
        /\ DOMAIN rxBuf' = {d \in DOMAIN buf : d >= Len(delivered')}
    BY <1>3, <1>4, <2>1, <2>4
  <2>6. delivered' = delivered \o
          [i \in 1 .. (dsn - Len(delivered)) |-> Len(delivered) + i - 1]
    BY <2>4 DEF n
  <2>7. Len(delivered') <= dsn /\ Len(delivered) <= Len(delivered')
    BY <1>3, <2>1, <2>5
  <2>8. /\ \A d \in DOMAIN rxBuf' : rxBuf'[d] = d
        /\ rxBuf' \in [DOMAIN rxBuf' -> Byte]
        /\ delivered' \in Seq(Byte) /\ \A i \in 1..Len(delivered') : delivered'[i] = i - 1
    BY <2>4
  <2> QED BY <1>4, <1>5, <2>5, <2>6, <2>7, <2>8 DEF buf
<1>7. CASE ~EagerReader
  <2>1. rxBuf' = buf /\ delivered' = delivered
    BY <1>2, <1>7
  <2>2. DOMAIN rxBuf' = {d \in DOMAIN buf : d >= Len(delivered)}
    BY <1>1, <1>3, <2>1 DEF Byte
  <2>3. rxBuf' \in [DOMAIN rxBuf' -> Byte]
    <3>1. buf = [d \in DOMAIN rxBuf \cup Stored(p) |->
                   IF d \in Stored(p) THEN p.data[d - DSN(p) + 1] ELSE rxBuf[d]]
      BY DEF buf, BufferWith
    <3>2. buf = [d \in DOMAIN buf |-> buf[d]]
      BY <3>1
    <3> QED BY <1>1, <2>1, <3>2
  <2> QED BY <1>1, <1>3, <1>4, <1>5, <1>7, <2>1, <2>2, <2>3 DEF buf
<1> QED BY <1>6, <1>7


(* What a subflow carries are bytes below m_nextTxSequence. *)
LEMMA StreamBytes ==
  ASSUME IInv, NEW s \in Subflows, NEW i \in 1..Len(stream[s])
  PROVE  stream[s][i] \in Nat /\ stream[s][i] < nextTx
<1>1. stream[s] \in Seq(Byte)
  BY DEF IInv, TypeOK
<1>2. stream[s][i] \in Byte
  BY <1>1, ElementOfSeq
<1> QED BY <1>2 DEF IInv, SubflowOrder, Byte

(* A subflow's receive buffer takes a segment whole: the bytes between its *)
(* NextRxSequence and the end of its stream are all within the meta window *)
(* and the overshoot, and one it expects is not buffered.                  *)
LEMMA NothingTrimmed ==
  ASSUME RoomForOvershoot, IInv, Placement, NEW p \in dataNet,
         NEW x \in SSNs(p), Outstanding(p.sf, x)
  PROVE  x \in NewSSNs(p) /\ ~OutOfRange(p)
<1> DEFINE s == p.sf
           next == sfNext[s]
           tail == Len(stream[s])
<1>1. /\ s \in Subflows /\ p.ssn \in Nat /\ p.map \in Mapping /\ p.data \in Seq(Byte)
      /\ RightSegment(p)
  BY DEF IInv, TypeOK, SegmentsRight, Segment
<1>2. /\ next \in Nat /\ tail \in Nat /\ Len(p.data) \in Nat
      /\ p.ssn + Len(p.data) <= tail /\ p.ssn = p.map.ssn /\ p.map.dsn \in Nat
      /\ 1 <= Len(p.data)
  <2>1. Len(p.data) \in Nat
    BY <1>1
  <2> QED BY <1>1, <2>1, SenderStands DEF RightSegment, Mapping
<1>3. x \in Nat /\ p.ssn <= x /\ x < p.ssn + Len(p.data) /\ x < tail
  BY <1>1, <1>2 DEF SSNs, Bytes
<1>4. next <= x /\ x \notin sfOoo[s] /\ next < tail
  BY <1>2, <1>3 DEF Outstanding
<1>5. \A b \in sfOoo[s] : b \in Nat /\ next < b
  BY <1>1 DEF IInv, TypeOK, SubflowReceiver
<1>6. /\ txHead \in Nat /\ nextTx \in Nat /\ rxNext \in Nat /\ txHead <= rxNext
      /\ AdvWnd \in Nat /\ SegSize \in Nat /\ RcvBuf \in Nat /\ StreamLen \in Nat
      /\ AdvWnd <= RcvBuf /\ nextTx <= StreamLen
      /\ nextTx - txHead < AdvWnd + SegSize
  BY SizesAssumption DEF IInv, TypeOK, MetaOrder, WindowOvershoot
<1> HIDE DEF s, next, tail
<1>7. PICK e \in Nat : e = stream[s][next + 1] /\ txHead <= e
  <2>1. next + 1 \in 1..Len(stream[s]) /\ (next + 1) - 1 = next
    BY <1>2, <1>4 DEF tail
  <2>2. Outstanding(s, next)
    BY <1>2, <1>5 DEF Outstanding, next
  <2>3. stream[s][next + 1] >= rxNext
    BY <1>1, <2>1, <2>2 DEF Placement, OutstandingIsNew
  <2>4. stream[s][next + 1] \in Nat
    BY <1>1, <2>1, StreamBytes
  <2> QED BY <1>6, <2>3, <2>4
(* Nothing lies further ahead of the expected byte than the window lets it. *)
<1>8. e + (tail - (next + 1)) < nextTx
  <2>1. next + 1 \in 1..Len(stream[s]) /\ tail \in 1..Len(stream[s]) /\ next + 1 <= tail
    BY <1>2, <1>4 DEF tail
  <2>2. PICK f \in Nat : f = stream[s][tail] /\ f < nextTx
    BY <1>1, <2>1, StreamBytes
  <2>3. stream[s][next + 1] + (tail - (next + 1)) <= stream[s][tail]
    BY <1>1, <2>1 DEF Placement, Increasing
  <2>4. e + (tail - (next + 1)) <= f
    BY <1>7, <2>2, <2>3
  <2>5. nextTx \in Nat /\ next \in Nat /\ tail \in Nat /\ f < nextTx
    BY <1>2, <1>6, <2>2
  <2> QED BY <2>4, <2>5
<1>9. p.ssn >= next => p.ssn - next < AdvWnd
  <2> SUFFICES ASSUME p.ssn >= next PROVE p.ssn - next < AdvWnd
    OBVIOUS
  <2>1. next + 1 \in 1..Len(stream[s]) /\ p.ssn + 1 \in 1..Len(stream[s])
        /\ next + 1 <= p.ssn + 1
    BY <1>1, <1>2, <1>3, <1>4 DEF tail
  <2>2. stream[s][next + 1] + ((p.ssn + 1) - (next + 1)) <= stream[s][p.ssn + 1]
    BY <1>1, <2>1 DEF Placement, Increasing
  <2>3. stream[s][p.ssn + 1] = p.map.dsn
    <3>1. 1 \in 1..Len(p.data)
      BY <1>2
    <3>2. p.data[1] = p.map.dsn + 1 - 1 /\ p.data[1] = stream[p.sf][p.ssn + 1]
      BY <1>1, <3>1 DEF RightSegment
    <3> QED BY <1>2, <3>2 DEF s
  <2>4. p.map.dsn < txHead + AdvWnd
    BY DEF Placement, StartsInWindow
  <2>5. e + ((p.ssn + 1) - (next + 1)) <= p.map.dsn
    BY <1>7, <2>2, <2>3
  <2>6. PICK d \in Nat : d = p.map.dsn
    BY <1>2
  <2>7. PICK n \in Nat : n = p.ssn
    BY <1>1
  <2>8. /\ e + ((n + 1) - (next + 1)) <= d /\ d < txHead + AdvWnd
        /\ txHead <= e /\ txHead \in Nat /\ next \in Nat /\ AdvWnd \in Nat
    BY <1>2, <1>6, <1>7, <2>4, <2>5, <2>6, <2>7
  <2>9. n - next < AdvWnd
    BY <2>8
  <2> QED BY <2>7, <2>9
<1>10. ASSUME NEW b \in sfOoo[s] PROVE x < b + RcvBuf
  <2>1. b \in Nat /\ next < b
    BY <1>5
  <2>2. CASE AdvWnd + SegSize <= RcvBuf + 2
    BY <1>2, <1>3, <1>6, <1>7, <1>8, <2>1, <2>2
  <2>3. CASE StreamLen <= RcvBuf
    <3>1. tail <= nextTx
      <4>1. /\ 1 \in 1..Len(stream[s]) /\ tail \in 1..Len(stream[s]) /\ 1 <= tail
        BY <1>2, <1>4 DEF tail
      <4>2. /\ stream[s][1] \in Nat /\ stream[s][tail] \in Nat
            /\ stream[s][tail] < nextTx
        BY <1>1, <4>1, StreamBytes
      <4>3. stream[s][1] + (tail - 1) <= stream[s][tail]
        BY <1>1, <4>1 DEF Placement, Increasing
      <4> QED BY <1>2, <1>6, <4>2, <4>3, SMTT(30)
    <3> QED BY <1>2, <1>3, <1>6, <2>1, <2>3, <3>1
  <2> QED BY <2>2, <2>3 DEF RoomForOvershoot
<1>11. x \in NewSSNs(p)
  BY <1>4, <1>10 DEF NewSSNs, Kept, s, next
<1>12. ~OutOfRange(p)
  <2>1. ~(p.ssn + Len(p.data) < next)
    BY <1>1, <1>2, <1>3, <1>4
  <2>2. ~(next + RcvBuf <= p.ssn)
    BY <1>1, <1>2, <1>6, <1>9
  <2>3. \A b \in sfOoo[s] : ~(b + RcvBuf <= p.ssn)
    BY <1>1, <1>3, <1>5, <1>6, <1>10
  <2> QED BY <2>1, <2>2, <2>3 DEF OutOfRange, s, next
<1> QED BY <1>11, <1>12

(* ReceiveData: the subflow's receiver takes a whole mapping, so the new   *)
(* NextRxSequence is again between mappings.                               *)
LEMMA ReceiveDataKeeps ==
  ASSUME RoomForOvershoot, IInv, Placement, NEW p \in dataNet, NEW ssn \in 0..StreamLen, NEW dsn \in 0..StreamLen,
         ReceiveData(p, ssn, dsn)
  PROVE  IInv'
<1> DEFINE s == p.sf
           have == sfOoo[s] \cup NewSSNs(p)
           a == [sf |-> s, ack |-> ssn, dack |-> dsn]
<1>1. /\ Advances(sfNext[s], have, ssn)
      /\ sfNext' = [sfNext EXCEPT ![s] = ssn]
      /\ sfOoo' = [sfOoo EXCEPT ![s] = {x \in have : x >= ssn}]
      /\ rxNext' = dsn
      /\ dataNet' = dataNet \ {p}
      /\ ackNet' = Enqueue(ackNet, a, AckCap)
      /\ UNCHANGED <<written, txHead, nextTx, sendEvent, sfLoop, stream, ssnHead,
                     ssnNext, ssnHigh, cong, recover, txMap, retrCount, endPoint>>
  BY DEF ReceiveData, metaTxVars, sfTxVars, retryVars
<1>2. ackNet' \subseteq ackNet \cup {a}
  BY <1>1, EnqueueAdds
<1>3. /\ s \in Subflows /\ p.ssn \in Nat /\ p.map \in Mapping /\ p.data \in Seq(Byte)
      /\ RightSegment(p)
  BY DEF IInv, TypeOK, SegmentsRight, Segment
<1>4. /\ rxNext \in Nat /\ nextTx \in Nat /\ rxNext <= dsn /\ dsn <= nextTx
      /\ ssn \in Nat /\ dsn \in Nat /\ sfNext[s] \in Nat /\ Len(stream[s]) \in Nat
      /\ Len(p.data) \in Nat
      /\ p.ssn + Len(p.data) <= Len(stream[s])
  <2>1. rxNext \in Nat /\ nextTx \in Nat /\ ssn \in Nat /\ dsn \in Nat
    BY SizesAssumption DEF IInv, TypeOK
  <2>2. Len(p.data) \in Nat
    BY <1>3
  <2> QED BY <1>3, <2>1, <2>2, ReceiveDataDoes, SenderStands DEF RightSegment
<1>5. \A x \in have : x \in Nat /\ sfNext[s] <= x /\ x < Len(stream[s])
  <2>1. ASSUME NEW x \in NewSSNs(p)
        PROVE  x \in Nat /\ sfNext[s] <= x /\ x < Len(stream[s])
    BY <1>3, <1>4, <2>1, SMTT(30) DEF NewSSNs, Kept, SSNs, Bytes
  <2>2. ASSUME NEW x \in sfOoo[s]
        PROVE  x \in Nat /\ sfNext[s] <= x /\ x < Len(stream[s])
    <3>1. x \in Nat
      BY <1>3 DEF IInv, TypeOK
    <3>2. sfNext[s] < x /\ x < Len(stream[s])
      BY <1>3 DEF IInv, SubflowReceiver
    <3> QED BY <1>4, <3>1, <3>2
  <2> QED BY <2>1, <2>2
<1>6. \A x \in Nat : Outstanding(s, x) /\ x \notin have <=> ssn <= x /\ x \notin have
  BY <1>1, <1>3, <1>4 DEF Advances, Outstanding
<1> HIDE DEF s, have
<1>7. \A x \in Nat : Outstanding(s, x) /\ x \notin SSNs(p) <=>
                       ssn <= x /\ x \notin have
  <2> SUFFICES ASSUME NEW x \in Nat
               PROVE  Outstanding(s, x) /\ x \notin SSNs(p) <=>
                        Outstanding(s, x) /\ x \notin have
    BY <1>6
  <2>1. x \in SSNs(p) /\ Outstanding(s, x) => x \in NewSSNs(p)
    BY NothingTrimmed DEF s
  <2>2. x \in NewSSNs(p) => x \in SSNs(p)
    BY DEF NewSSNs, Kept
  <2> QED BY <2>1, <2>2 DEF Outstanding, have
<1> HIDE DEF a
<1>8. sfNext[s] <= ssn /\ ssn <= Len(stream[s]) /\ ssn \notin have
  <2>1. sfNext[s] <= ssn /\ ssn \notin have
    BY <1>1 DEF Advances
  <2>2. CASE ssn = sfNext[s]
    BY <1>3, <2>1, <2>2, SenderStands
  <2>3. CASE ssn # sfNext[s]
    <3>1. ssn - 1 \in sfNext[s] .. (ssn - 1)
      BY <1>4, <2>1, <2>3
    <3>2. ssn - 1 \in have
      BY <1>1, <3>1 DEF Advances
    <3>3. ssn - 1 < Len(stream[s])
      BY <1>5, <3>2
    <3> QED BY <1>4, <2>1, <3>3
  <2> QED BY <2>2, <2>3
<1>9. /\ \A t \in Subflows : t # s => sfNext'[t] = sfNext[t] /\ sfOoo'[t] = sfOoo[t]
      /\ sfNext'[s] = ssn /\ sfOoo'[s] = {x \in have : x >= ssn}
  BY <1>1, <1>3 DEF IInv, TypeOK
(* After the step SSN x of s is outstanding if it was and is not in p. *)
<1>10. \A x \in Nat : (x >= sfNext'[s] /\ x \notin sfOoo'[s]) <=>
                        (Outstanding(s, x) /\ x \notin SSNs(p))
  <2> SUFFICES ASSUME NEW x \in Nat
               PROVE  (x >= ssn /\ x \notin {y \in have : y >= ssn}) <=>
                        (ssn <= x /\ x \notin have)
    BY <1>7, <1>9
  <2> QED BY <1>4
(* Hence a mapping is still outstanding as a whole, or not at all. *)
<1>11. ASSUME NEW m \in txMap[s]
       PROVE  \/ \A x \in m.ssn .. TailSSN(m) : x >= sfNext'[s] /\ x \notin sfOoo'[s]
              \/ \A x \in m.ssn .. TailSSN(m) : ~(x >= sfNext'[s] /\ x \notin sfOoo'[s])
  <2>1. m \in Mapping
    BY <1>3, MappingFits
  <2>2. \A x \in m.ssn .. TailSSN(m) : x \in Nat
    BY <2>1 DEF Mapping, TailSSN
  <2>3. \/ \A x \in m.ssn .. TailSSN(m) : Outstanding(s, x)
        \/ \A x \in m.ssn .. TailSSN(m) : ~Outstanding(s, x)
    BY <1>3 DEF IInv, SubflowReceiver
  <2>4. \/ \A x \in m.ssn .. TailSSN(m) : x \in SSNs(p)
        \/ \A x \in m.ssn .. TailSSN(m) : x \notin SSNs(p)
    <3>1. /\ p.ssn = p.map.ssn /\ Len(p.data) = p.map.len
          /\ Apart(m, p.map) \/ (m.ssn = p.map.ssn /\ m.len = p.map.len)
      BY <1>3 DEF RightSegment, s
    <3>2. \A x \in Nat : x \in SSNs(p) <=> p.ssn <= x /\ x <= TailSSN(p.map)
      BY <1>3, <1>4, <3>1 DEF SSNs, Bytes, TailSSN, Mapping
    <3>3. CASE Apart(m, p.map)
      BY <1>3, <2>1, <2>2, <3>1, <3>2, <3>3, SMTT(30) DEF Apart, TailSSN, Mapping
    <3>4. CASE m.ssn = p.map.ssn /\ m.len = p.map.len
      BY <2>1, <2>2, <3>1, <3>2, <3>4 DEF TailSSN, Mapping
    <3> QED BY <3>1, <3>3, <3>4
  <2> QED BY <1>10, <2>2, <2>3, <2>4
<1>12. AtBoundary(s, ssn)
  <2> SUFFICES ASSUME NEW m \in txMap[s], m.ssn < ssn, ssn <= TailSSN(m)
               PROVE  FALSE
    <3>1. \A m \in txMap[s] : m.ssn \in Nat /\ TailSSN(m) \in Int
      BY <1>3, MappingFits DEF Mapping, TailSSN
    <3> QED BY <1>4, <3>1 DEF AtBoundary
  <2>1. m.ssn \in Nat /\ TailSSN(m) \in Int
    BY <1>3, MappingFits DEF Mapping, TailSSN
  <2>2. ssn >= sfNext'[s] /\ ssn \notin sfOoo'[s]
    BY <1>4, <1>8, <1>9
  <2>3. ssn \in m.ssn .. TailSSN(m) /\ ssn - 1 \in m.ssn .. TailSSN(m)
    BY <1>4, <2>1
  <2>4. ssn - 1 >= sfNext'[s]
    BY <1>11, <2>2, <2>3
  <2> QED BY <1>4, <1>9, <2>4
<1>13. ASSUME NEW t \in Subflows
       PROVE  /\ sfNext[t] <= sfNext'[t] /\ ssnHead[t] <= sfNext'[t]
              /\ sfNext'[t] <= Len(stream[t]) /\ AtBoundary(t, sfNext'[t])
  <2>1. CASE t = s
    BY <1>4, <1>8, <1>9, <1>12, <2>1, SenderStands
  <2>2. CASE t # s
    BY <1>9, <2>2, SenderStands, SMTT(30) DEF IInv, Boundaries
  <2> QED BY <2>1, <2>2
<1>14. /\ a \in Ack /\ a.dack = dsn /\ a.ack <= sfNext'[a.sf] /\ AtBoundary(a.sf, a.ack)
  BY <1>3, <1>4, <1>9, <1>12 DEF a, Ack
<1>15. TypeOK'
  <2>1. sfNext' \in [Subflows -> Nat]
    BY <1>1, <1>4 DEF IInv, TypeOK
  <2>2. sfOoo' \in [Subflows -> SUBSET Nat]
    <3>1. {x \in have : x >= ssn} \in SUBSET Nat
      BY <1>5
    <3> QED BY <1>1, <3>1 DEF IInv, TypeOK
  <2>3. /\ delivered' \in Seq(Byte) /\ DOMAIN rxBuf' \subseteq Byte
        /\ rxBuf' \in [DOMAIN rxBuf' -> Byte]
    <3>1. /\ delivered' \in Seq(Byte) /\ rxBuf' \in [DOMAIN rxBuf' -> Byte]
          /\ DOMAIN rxBuf' = {d \in DOMAIN BufferWith(p) : d >= Len(delivered')}
      BY ReceiveDataDoes
    <3>2. DOMAIN BufferWith(p) \subseteq Byte
      BY BufferRight
    <3> QED BY <3>1, <3>2
  <2>4. dataNet' \subseteq Segment /\ ackNet' \subseteq Ack
    BY <1>1, <1>2, <1>14 DEF IInv, TypeOK
  <2> QED BY <1>1, <2>1, <2>2, <2>3, <2>4 DEF IInv, TypeOK
<1>16. MetaOrder'
  <2>1. txHead <= dsn
    BY <1>4, SizesAssumption, SMTT(30) DEF IInv, TypeOK, MetaOrder
  <2>2. \A b \in ackNet' : b.dack <= dsn
    <3>1. \A b \in ackNet : b.dack \in Nat /\ b.dack <= rxNext
      BY AckStands DEF IInv, MetaOrder
    <3> QED BY <1>2, <1>4, <1>14, <3>1
  <2> QED BY <1>1, <1>4, <2>1, <2>2 DEF IInv, MetaOrder
<1>17. SubflowOrder'
  BY <1>1, <1>13 DEF IInv, SubflowOrder
<1>18. MapsRight'
  BY <1>1 DEF IInv, MapsRight, RightMapping
<1>19. Boundaries'
  BY <1>1, <1>13 DEF IInv, Boundaries, AtBoundary
<1>20. AcksRight'
  <2> SUFFICES ASSUME NEW b \in ackNet'
               PROVE  b.ack <= sfNext'[b.sf] /\ AtBoundary(b.sf, b.ack)
    BY <1>1 DEF AcksRight, AtBoundary
  <2>1. CASE b \in ackNet
    <3>1. /\ b.sf \in Subflows /\ b.ack \in Nat /\ b.ack <= sfNext[b.sf]
          /\ AtBoundary(b.sf, b.ack)
      BY <2>1, AckStands
    <3>2. sfNext[b.sf] \in Nat /\ sfNext'[b.sf] \in Nat
      BY <3>1, <1>15, SenderStands DEF TypeOK
    <3> QED BY <1>13, <3>1, <3>2
  <2>2. CASE b = a
    BY <1>14, <2>2
  <2> QED BY <1>2, <2>1, <2>2
<1>21. SegmentsRight'
  BY <1>1 DEF IInv, SegmentsRight, RightSegment
<1>22. SubflowReceiver'
  <2> SUFFICES ASSUME NEW t \in Subflows
               PROVE  /\ \A x \in sfOoo'[t] : sfNext'[t] < x /\ x < Len(stream[t])
                      /\ \A m \in txMap[t] :
                           \/ \A x \in m.ssn .. TailSSN(m) :
                                x >= sfNext'[t] /\ x \notin sfOoo'[t]
                           \/ \A x \in m.ssn .. TailSSN(m) :
                                ~(x >= sfNext'[t] /\ x \notin sfOoo'[t])
    BY <1>1 DEF SubflowReceiver, Outstanding
  <2>1. CASE t # s
    BY <1>9, <2>1 DEF IInv, SubflowReceiver, Outstanding
  <2>2. CASE t = s
    <3>1. \A x \in sfOoo'[s] : sfNext'[s] < x /\ x < Len(stream[s])
      BY <1>4, <1>5, <1>8, <1>9
    <3> QED BY <1>11, <2>2, <3>1
  <2> QED BY <2>1, <2>2
<1>23. MetaReceiver'
  <2>1. /\ Len(delivered') <= dsn
        /\ EagerReader => Len(delivered') = dsn
        /\ \A i \in 1..Len(delivered') : delivered'[i] = i - 1
        /\ DOMAIN rxBuf' = {d \in DOMAIN BufferWith(p) : d >= Len(delivered')}
        /\ \A d \in DOMAIN rxBuf' : rxBuf'[d] = d
        /\ dsn \notin DOMAIN BufferWith(p)
        /\ \A d \in rxNext .. (dsn - 1) : d \in DOMAIN BufferWith(p)
        /\ Len(delivered) <= Len(delivered')
    BY ReceiveDataDoes
  <2>2. /\ DOMAIN BufferWith(p) = DOMAIN rxBuf \cup Stored(p)
        /\ DOMAIN BufferWith(p) \subseteq Byte
        /\ \A d \in DOMAIN BufferWith(p) : d < nextTx
    BY BufferRight
  <2>3. /\ Len(delivered) \in Nat /\ Len(delivered') \in Nat
    <3>1. delivered \in Seq(Byte) /\ delivered' \in Seq(Byte)
      BY <1>15 DEF IInv, TypeOK
    <3> QED BY <3>1
  <2>4. ASSUME NEW d \in Len(delivered') .. (dsn - 1)
        PROVE  d \in DOMAIN rxBuf'
    <3>1. d \in Int /\ d >= Len(delivered') /\ d >= Len(delivered) /\ d <= dsn - 1
      BY <1>4, <2>1, <2>3
    <3>2. d \in Len(delivered) .. (rxNext - 1) \/ d \in rxNext .. (dsn - 1)
      BY <1>4, <2>3, <3>1
    <3>3. d \in DOMAIN BufferWith(p)
      BY <2>1, <2>2, <3>2 DEF IInv, MetaReceiver
    <3> QED BY <2>1, <3>1, <3>3
  <2>5. \A d \in DOMAIN rxBuf' : Len(delivered') <= d /\ d < nextTx /\ rxBuf'[d] = d
    BY <2>1, <2>2, <2>3 DEF Byte
  <2> QED BY <1>1, <2>1, <2>4, <2>5 DEF MetaReceiver
<1>24. WindowOvershoot'
  BY <1>1 DEF IInv, WindowOvershoot
<1> QED BY <1>15, <1>16, <1>17, <1>18, <1>19, <1>20, <1>21, <1>22, <1>23, <1>24 DEF IInv


-----------------------------------------------------------------------------
(* The invariant holds of every reachable state. *)

LEMMA InitRight == Init => IInv
<1> SUFFICES ASSUME Init PROVE IInv
  OBVIOUS
<1>1. << >> \in Seq(Byte) /\ Len(<< >>) = 0
  BY EmptySeq
<1>2. /\ \A s \in Subflows : /\ stream[s] = << >> /\ ssnHead[s] = 0 /\ ssnNext[s] = 0
                             /\ ssnHigh[s] = 0 /\ recover[s] = 0 /\ txMap[s] = {}
                             /\ sfNext[s] = 0 /\ sfOoo[s] = {}
      /\ written = 0 /\ txHead = 0 /\ nextTx = 0 /\ rxNext = 0 /\ delivered = << >>
      /\ DOMAIN rxBuf = {} /\ dataNet = {} /\ ackNet = {}
  BY DEF Init
<1>3. TypeOK
  <2>1. 0 \in 0..StreamLen
    BY SizesAssumption
  <2>2. rxBuf \in [DOMAIN rxBuf -> Byte] /\ DOMAIN rxBuf \subseteq Byte
    BY DEF Init
  <2>3. retrCount \in [Subflows -> 0..DataRetries] /\ endPoint \in [Subflows -> BOOLEAN]
    BY SizesAssumption DEF Init
  <2> QED BY <1>1, <1>2, <2>1, <2>2, <2>3 DEF Init, TypeOK
<1>4. MetaOrder /\ SubflowOrder
  BY <1>1, <1>2 DEF MetaOrder, SubflowOrder
<1>5. MapsRight /\ Boundaries /\ AcksRight /\ SegmentsRight /\ SubflowReceiver
  BY <1>1, <1>2 DEF MapsRight, Boundaries, AtBoundary, AcksRight, SegmentsRight,
                    SubflowReceiver
<1>6. MetaReceiver
  BY <1>1, <1>2 DEF MetaReceiver
<1>7. WindowOvershoot
  BY <1>2, SizesAssumption DEF WindowOvershoot
<1> QED BY <1>3, <1>4, <1>5, <1>6, <1>7 DEF IInv

LEMMA StutterKeeps ==
  ASSUME IInv, UNCHANGED vars PROVE IInv'
<1>1. SenderFrame
  BY SenderStands
     DEF SenderFrame, vars, appVars, metaTxVars, sfTxVars, retryVars, netVars, rxVars
<1> QED BY <1>1, FrameKeeps

LEMMA StepKeeps == RoomForOvershoot /\ IInv /\ Placement /\ [Next]_vars => IInv'
<1> SUFFICES ASSUME RoomForOvershoot, IInv, Placement, [Next]_vars PROVE IInv'
  OBVIOUS
<1>1. ASSUME NEW n \in 1..MaxWrite, AppSend(n) PROVE IInv'
  BY <1>1, AppSendKeeps
<1>2. ASSUME NEW s \in Subflows, NEW cwnd \in CongestionWindows, DispatchOn(s, cwnd)
      PROVE  IInv'
  BY <1>2, DispatchOnKeeps
<1>3. CASE DispatchEnd
  BY <1>3, DispatchEndKeeps
<1>4. ASSUME NEW s \in Subflows, NEW cwnd \in CongestionWindows, Transmit(s, cwnd)
      PROVE  IInv'
  BY <1>4, TransmitKeeps
<1>5. CASE TransmitEnd
  BY <1>5, TransmitEndKeeps
<1>6. ASSUME NEW s \in Subflows, ReTxTimeout(s) PROVE IInv'
  BY <1>6, ReTxTimeoutKeeps
<1>7. ASSUME NEW a \in ackNet,
             \/ StaleAck(a)
             \/ LimitedTransmit(a)
             \/ FastRetransmit(a)
             \/ InflateWindow(a)
             \/ PartialAck(a)
             \/ NewAck(a)
      PROVE  IInv'
  BY <1>7, StaleAckKeeps, LimitedTransmitKeeps, FastRetransmitKeeps,
     InflateWindowKeeps, PartialAckKeeps, NewAckKeeps
<1>8. ASSUME NEW p \in dataNet, ReceiveDuplicate(p) PROVE IInv'
  BY <1>8, ReceiveDuplicateKeeps
<1>9. ASSUME NEW p \in dataNet, NEW ssn \in 0..StreamLen, NEW dsn \in 0..StreamLen,
             ReceiveData(p, ssn, dsn)
      PROVE  IInv'
  BY <1>9, ReceiveDataKeeps
<1>10. ASSUME NEW n \in 1..StreamLen, AppRead(n) PROVE IInv'
  BY <1>10, AppReadKeeps
<1>11. ASSUME NEW p \in dataNet, LoseData(p) PROVE IInv'
  BY <1>11, LoseDataKeeps
<1>12. ASSUME NEW a \in ackNet, LoseAck(a) PROVE IInv'
  BY <1>12, LoseAckKeeps
<1>13. CASE UNCHANGED vars
  BY <1>13, StutterKeeps
<1> QED
  BY <1>1, <1>2, <1>3, <1>4, <1>5, <1>6, <1>7, <1>8, <1>9, <1>10, <1>11, <1>12,
     <1>13 DEF Next
=============================================================================
