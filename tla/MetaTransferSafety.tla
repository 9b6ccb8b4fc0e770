------------------------- MODULE MetaTransferSafety -------------------------
(***************************************************************************)
(* What the inductive invariant of MetaTransferProofs is for: every byte   *)
(* is mapped once, none is lost, and the connection implements the byte    *)
(* stream of ByteStream.                                                   *)
(***************************************************************************)
EXTENDS MetaTransferProofs

(* Only three actions touch what the receiver has, or what is mapped. *)
LEMMA OnlyThree ==
  ASSUME IInv, [Next]_vars
  PROVE  \/ \E s \in Subflows, cwnd \in CongestionWindows : DispatchOn(s, cwnd)
         \/ \E p \in dataNet, ssn, dsn \in 0..StreamLen : ReceiveData(p, ssn, dsn)
         \/ \E n \in 1..StreamLen : AppRead(n)
         \/ /\ UNCHANGED <<nextTx, stream, sfNext, sfOoo, rxNext, rxBuf, delivered>>
            /\ written' = written \/ \E n \in 1..MaxWrite : AppSend(n)
<1> DEFINE Quiet ==
      /\ UNCHANGED <<nextTx, stream, sfNext, sfOoo, rxNext, rxBuf, delivered>>
      /\ written' = written
<1> USE DEF appVars, metaTxVars, sfTxVars, retryVars, netVars, rxVars
<1>1. ASSUME NEW n \in 1..MaxWrite, AppSend(n)
      PROVE  UNCHANGED <<nextTx, stream, sfNext, sfOoo, rxNext, rxBuf, delivered>>
  BY <1>1 DEF AppSend
<1>2. DispatchEnd => Quiet
  BY DEF DispatchEnd
<1>3. ASSUME NEW s \in Subflows, NEW cwnd \in CongestionWindows, Transmit(s, cwnd)
      PROVE  Quiet
  BY <1>3 DEF Transmit
<1>4. TransmitEnd => Quiet
  BY DEF TransmitEnd
<1>5. ASSUME NEW s \in Subflows, ReTxTimeout(s) PROVE Quiet
  BY <1>5 DEF ReTxTimeout
<1>6. ASSUME NEW a \in ackNet,
             \/ StaleAck(a)
             \/ LimitedTransmit(a)
             \/ FastRetransmit(a)
             \/ InflateWindow(a)
             \/ PartialAck(a)
             \/ NewAck(a)
      PROVE  Quiet
  <2>1. ReceivedAck(a)
    BY <1>6 DEF StaleAck, LimitedTransmit, FastRetransmit, InflateWindow, PartialAck,
                NewAck
  <2>2. nextTx' = nextTx
    BY <2>1, DataAckKeeps
  <2>3. UNCHANGED <<stream, sfNext, sfOoo, rxNext, rxBuf, delivered, written>>
    BY <1>6 DEF StaleAck, LimitedTransmit, FastRetransmit, InflateWindow, PartialAck,
                NewAck
  <2> QED BY <2>2, <2>3
<1>7. ASSUME NEW p \in dataNet, ReceiveDuplicate(p) \/ LoseData(p) PROVE Quiet
  BY <1>7 DEF ReceiveDuplicate, LoseData
<1>8. ASSUME NEW a \in ackNet, LoseAck(a) PROVE Quiet
  BY <1>8 DEF LoseAck
<1>9. CASE UNCHANGED vars
  BY <1>9 DEF vars
<1> QED BY <1>1, <1>2, <1>3, <1>4, <1>5, <1>6, <1>7, <1>8, <1>9 DEF Next

-----------------------------------------------------------------------------
(* Every byte below m_nextTxSequence is mapped at exactly one place. *)

LEMMA MappedOnceStep == IInv /\ MappedOnce /\ [Next]_vars => MappedOnce'
<1> SUFFICES ASSUME IInv, MappedOnce, [Next]_vars PROVE MappedOnce'
  OBVIOUS
<1>1. ASSUME UNCHANGED <<nextTx, stream>> PROVE MappedOnce'
  BY <1>1 DEF MappedOnce, Carries
<1>2. ASSUME NEW s \in Subflows, NEW cwnd \in CongestionWindows, DispatchOn(s, cwnd)
      PROVE  MappedOnce'
  <2> DEFINE len == SendSize(s, cwnd)
             tail == Len(stream[s])
  <2> HIDE DEF len, tail
  <2>1. /\ len \in Nat /\ 1 <= len /\ nextTx \in Nat /\ tail \in Nat
        /\ nextTx' = nextTx + len
        /\ Len(stream'[s]) = tail + len
        /\ \A i \in 1..tail : stream'[s][i] = stream[s][i]
        /\ \A x \in tail .. tail + len - 1 : stream'[s][x + 1] = nextTx + (x - tail)
        /\ \A t \in Subflows : t # s => stream'[t] = stream[t]
    <3>1. nextTx \in Nat /\ tail \in Nat
      BY SenderStands, SizesAssumption DEF IInv, TypeOK, tail
    <3> QED BY <1>2, <3>1, DispatchOnDoes DEF len, tail
  <2>2. \A j \in tail + 1 .. tail + len : stream'[s][j] = nextTx + (j - 1 - tail)
    <3> SUFFICES ASSUME NEW j \in tail + 1 .. tail + len
                 PROVE  stream'[s][j] = nextTx + (j - 1 - tail)
      OBVIOUS
    <3>1. j - 1 \in tail .. tail + len - 1 /\ (j - 1) + 1 = j
      BY <2>1
    <3> QED BY <2>1, <3>1
  (* Where a place of the new streams comes from. *)
  <2>3. ASSUME NEW t \in Subflows, NEW i \in 1..Len(stream'[t])
        PROVE  \/ i \in 1..Len(stream[t]) /\ stream'[t][i] = stream[t][i]
               \/ /\ t = s /\ i \in tail + 1 .. tail + len
                  /\ stream'[t][i] = nextTx + (i - 1 - tail)
    <3>1. CASE t # s
      BY <2>1, <3>1
    <3>2. CASE t = s
      <4>1. i \in 1..tail \/ i \in tail + 1 .. tail + len
        BY <2>1, <3>2
      <4> QED BY <2>1, <2>2, <3>2, <4>1 DEF tail
    <3> QED BY <3>1, <3>2
  <2>4. \A t \in Subflows : \A i \in 1..Len(stream[t]) :
          i \in 1..Len(stream'[t]) /\ stream'[t][i] = stream[t][i]
    <3> SUFFICES ASSUME NEW t \in Subflows, NEW i \in 1..Len(stream[t])
                 PROVE  i \in 1..Len(stream'[t]) /\ stream'[t][i] = stream[t][i]
      OBVIOUS
    <3>1. CASE t # s
      BY <2>1, <3>1
    <3>2. CASE t = s
      <4>1. i \in 1..tail /\ i \in 1 .. tail + len
        BY <2>1, <3>2 DEF tail
      <4> QED BY <2>1, <3>2, <4>1
    <3> QED BY <3>1, <3>2
  <2>5. ASSUME NEW d \in 0 .. (nextTx + len - 1)
        PROVE  \E t \in Subflows : \E i \in 1..Len(stream'[t]) : stream'[t][i] = d
    <3>1. CASE d < nextTx
      <4>1. PICK t \in Subflows : \E i \in 1..Len(stream[t]) : stream[t][i] = d
        BY <2>1, <3>1 DEF MappedOnce, Carries
      <4> QED BY <2>4, <4>1
    <3>2. CASE ~(d < nextTx)
      <4> DEFINE j == tail + 1 + (d - nextTx)
      <4>1. j \in tail + 1 .. tail + len /\ nextTx + (j - 1 - tail) = d
            /\ j \in 1 .. tail + len
        BY <2>1, <3>2, SMTT(30)
      <4> HIDE DEF j
      <4>2. stream'[s][j] = d /\ j \in 1..Len(stream'[s])
        BY <2>1, <2>2, <4>1
      <4> QED BY <4>2
    <3> QED BY <3>1, <3>2
  <2>6. \A t \in Subflows : \A i \in 1..Len(stream[t]) :
          stream[t][i] \in Nat /\ stream[t][i] < nextTx
    <3> SUFFICES ASSUME NEW t \in Subflows, NEW i \in 1..Len(stream[t])
                 PROVE  stream[t][i] \in Nat /\ stream[t][i] < nextTx
      OBVIOUS
    <3>1. stream[t] \in Seq(Byte)
      BY DEF IInv, TypeOK
    <3>2. stream[t][i] \in Byte
      BY <3>1, ElementOfSeq
    <3> QED BY <3>2 DEF MappedOnce, Byte
  <2>7. ASSUME NEW t \in Subflows, NEW i \in 1..Len(stream'[t])
        PROVE  stream'[t][i] < nextTx + len
    <3>1. CASE i \in 1..Len(stream[t]) /\ stream'[t][i] = stream[t][i]
      <4>1. stream[t][i] \in Nat /\ stream[t][i] < nextTx
        BY <2>6, <3>1
      <4> QED BY <2>1, <3>1, <4>1
    <3>2. CASE /\ t = s /\ i \in tail + 1 .. tail + len
               /\ stream'[t][i] = nextTx + (i - 1 - tail)
      <4>1. i \in Int /\ i <= tail + len
        BY <2>1, <3>2
      <4>2. nextTx + (i - 1 - tail) < nextTx + len
        BY <2>1, <4>1
      <4> QED BY <3>2, <4>2
    <3> QED BY <2>3, <3>1, <3>2
  <2>8. ASSUME NEW t \in Subflows, NEW u \in Subflows,
               NEW i \in 1..Len(stream'[t]), NEW j \in 1..Len(stream'[u]),
               stream'[t][i] = stream'[u][j]
        PROVE  t = u /\ i = j
    <3>1. CASE i \in 1..Len(stream[t]) /\ stream'[t][i] = stream[t][i]
      <4>1. CASE j \in 1..Len(stream[u]) /\ stream'[u][j] = stream[u][j]
        <5>1. stream[t][i] = stream[u][j]
          BY <2>8, <3>1, <4>1
        <5>2. \A k \in 1..Len(stream[t]), l \in 1..Len(stream[u]) :
                stream[t][k] = stream[u][l] => t = u /\ k = l
          BY DEF MappedOnce
        <5> QED BY <3>1, <4>1, <5>1, <5>2
      <4>2. CASE /\ u = s /\ j \in tail + 1 .. tail + len
                 /\ stream'[u][j] = nextTx + (j - 1 - tail)
        <5>1. stream'[t][i] \in Nat /\ stream'[t][i] < nextTx
          BY <2>6, <3>1
        <5>2. stream'[u][j] >= nextTx
          BY <2>1, <4>2
        <5> QED BY <2>1, <2>8, <5>1, <5>2
      <4> QED BY <2>3, <4>1, <4>2
    <3>2. CASE /\ t = s /\ i \in tail + 1 .. tail + len
               /\ stream'[t][i] = nextTx + (i - 1 - tail)
      <4>1. CASE j \in 1..Len(stream[u]) /\ stream'[u][j] = stream[u][j]
        <5>1. stream'[u][j] \in Nat /\ stream'[u][j] < nextTx
          BY <2>6, <4>1
        <5>2. stream'[t][i] >= nextTx
          BY <2>1, <3>2
        <5> QED BY <2>1, <2>8, <5>1, <5>2
      <4>2. CASE /\ u = s /\ j \in tail + 1 .. tail + len
                 /\ stream'[u][j] = nextTx + (j - 1 - tail)
        <5>1. nextTx + (i - 1 - tail) = nextTx + (j - 1 - tail)
          BY <2>8, <3>2, <4>2
        <5>2. i \in Int /\ j \in Int /\ nextTx \in Int /\ tail \in Int
          BY <2>1, <3>2, <4>2
        <5> QED BY <3>2, <4>2, <5>1, <5>2
      <4> QED BY <2>3, <4>1, <4>2
    <3> QED BY <2>3, <3>1, <3>2
  <2>9. nextTx \in Nat /\ len \in Nat /\ nextTx' = nextTx + len
    BY <2>1
  <2>10. ASSUME NEW d \in 0 .. (nextTx' - 1)
         PROVE  \E t \in Subflows : \E i \in 1..Len(stream'[t]) :
                  i \in 1..Len(stream'[t]) /\ stream'[t][i] = d
    <3>1. d \in 0 .. (nextTx + len - 1)
      BY <2>9
    <3>2. PICK t \in Subflows : \E i \in 1..Len(stream'[t]) : stream'[t][i] = d
      BY <2>5, <3>1
    <3> QED BY <3>2
  <2>11. ASSUME NEW t \in Subflows, NEW u \in Subflows,
                NEW i \in 1..Len(stream'[t]), NEW j \in 1..Len(stream'[u])
         PROVE  /\ stream'[t][i] < nextTx'
                /\ stream'[t][i] = stream'[u][j] => t = u /\ i = j
    BY <2>7, <2>8, <2>9
  <2> QED BY <2>10, <2>11 DEF MappedOnce, Carries
<1>3. ASSUME NEW p \in dataNet, NEW ssn \in 0..StreamLen, NEW dsn \in 0..StreamLen,
             ReceiveData(p, ssn, dsn)
      PROVE  UNCHANGED <<nextTx, stream>>
  BY <1>3 DEF ReceiveData, metaTxVars, sfTxVars, retryVars
<1>4. ASSUME NEW n \in 1..StreamLen, AppRead(n) PROVE UNCHANGED <<nextTx, stream>>
  BY <1>4 DEF AppRead, metaTxVars, sfTxVars, retryVars
<1> QED BY <1>1, <1>2, <1>3, <1>4, OnlyThree

(* What a subflow carries stays in order. *)
LEMMA IncreasingStep == IInv /\ Increasing /\ [Next]_vars => Increasing'
<1> SUFFICES ASSUME IInv, Increasing, [Next]_vars PROVE Increasing'
  OBVIOUS
<1>1. ASSUME stream' = stream PROVE Increasing'
  BY <1>1 DEF Increasing
<1>2. ASSUME NEW s \in Subflows, NEW cwnd \in CongestionWindows, DispatchOn(s, cwnd)
      PROVE  Increasing'
  <2> DEFINE len == SendSize(s, cwnd)
             tail == Len(stream[s])
  <2> HIDE DEF len, tail
  <2>1. /\ len \in Nat /\ 1 <= len /\ nextTx \in Nat /\ tail \in Nat
        /\ Len(stream'[s]) = tail + len
        /\ \A i \in 1..tail : stream'[s][i] = stream[s][i]
        /\ \A x \in tail .. tail + len - 1 : stream'[s][x + 1] = nextTx + (x - tail)
        /\ \A t \in Subflows : t # s => stream'[t] = stream[t]
    <3>1. nextTx \in Nat /\ tail \in Nat
      BY SenderStands, SizesAssumption DEF IInv, TypeOK, tail
    <3> QED BY <1>2, <3>1, DispatchOnDoes DEF len, tail
  <2>2. ASSUME NEW i \in 1 .. tail + len, NEW j \in 1 .. tail + len, i <= j
        PROVE  stream'[s][i] + (j - i) <= stream'[s][j]
    <3>1. \A k \in tail + 1 .. tail + len : stream'[s][k] = nextTx + (k - 1 - tail)
      <4> SUFFICES ASSUME NEW k \in tail + 1 .. tail + len
                   PROVE  stream'[s][k] = nextTx + (k - 1 - tail)
        OBVIOUS
      <4>1. k - 1 \in tail .. tail + len - 1 /\ (k - 1) + 1 = k
        BY <2>1
      <4> QED BY <2>1, <4>1
    <3>2. CASE j <= tail
      <4>1. i \in 1..tail /\ j \in 1..tail
        BY <2>1, <2>2, <3>2
      <4>2. stream[s][i] + (j - i) <= stream[s][j]
        BY <2>2, <4>1 DEF Increasing, tail
      <4> QED BY <2>1, <4>1, <4>2
    <3>3. CASE ~(j <= tail) /\ i <= tail
      <4>1. i \in 1..tail /\ tail \in 1..tail /\ j \in tail + 1 .. tail + len
        BY <2>1, <3>3
      <4>2. stream[s][i] + (tail - i) <= stream[s][tail]
        BY <3>3, <4>1 DEF Increasing, tail
      <4>3. /\ stream[s][i] \in Nat /\ stream[s][tail] \in Nat
            /\ stream[s][tail] < nextTx
        BY <4>1, StreamBytes DEF tail
      <4>4. stream'[s][i] = stream[s][i] /\ stream'[s][j] = nextTx + (j - 1 - tail)
        BY <2>1, <3>1, <4>1
      <4> QED BY <2>1, <4>2, <4>3, <4>4, SMTT(30)
    <3>4. CASE ~(i <= tail)
      <4>1. i \in tail + 1 .. tail + len /\ j \in tail + 1 .. tail + len
        BY <2>1, <2>2, <3>4
      <4>2. /\ stream'[s][i] = nextTx + (i - 1 - tail)
            /\ stream'[s][j] = nextTx + (j - 1 - tail)
        BY <3>1, <4>1
      <4> QED BY <2>1, <2>2, <4>2
    <3> QED BY <3>2, <3>3, <3>4
  <2>3. ASSUME NEW t \in Subflows PROVE
          \A i, j \in 1..Len(stream'[t]) :
            i <= j => stream'[t][i] + (j - i) <= stream'[t][j]
    <3>1. CASE t # s
      BY <2>1, <3>1 DEF Increasing
    <3>2. CASE t = s
      BY <2>1, <2>2, <3>2
    <3> QED BY <3>1, <3>2
  <2> QED BY <2>3 DEF Increasing
<1>3. ASSUME NEW p \in dataNet, NEW ssn \in 0..StreamLen, NEW dsn \in 0..StreamLen,
             ReceiveData(p, ssn, dsn)
      PROVE  stream' = stream
  BY <1>3 DEF ReceiveData, sfTxVars, retryVars
<1>4. ASSUME NEW n \in 1..StreamLen, AppRead(n) PROVE stream' = stream
  BY <1>4 DEF AppRead, sfTxVars, retryVars
<1> QED BY <1>1, <1>2, <1>3, <1>4, OnlyThree

(* A segment is sent with a mapping of its subflow. *)
LEMMA PacketMapped ==
  ASSUME IInv, NEW s \in Subflows, NEW ssn \in Nat, NEW maxSize,
         ssnHead[s] <= ssn, ssn < Len(stream[s])
  PROVE  LET p == DataPacket(s, ssn, maxSize) IN p.sf = s /\ p.map \in txMap[s]
<1>1. ssn \in ssnHead[s] .. (Len(stream[s]) - 1)
  BY SenderStands
<1>2. Covering(txMap[s], ssn) # {}
  BY <1>1 DEF IInv, MapsRight
<1>3. GetMappingForSSN(txMap[s], ssn) \in txMap[s]
  BY <1>2 DEF GetMappingForSSN, Covering
<1> QED BY <1>3 DEF DataPacket

(* Which segments and mappings a step adds. *)
LEMMA AddsMapped ==
  ASSUME IInv, [Next]_vars
  PROVE  /\ txHead' \in Nat /\ txHead <= txHead'
         /\ \A p \in dataNet' : p \in dataNet \/ p.map \in txMap[p.sf]
         /\ \A s \in Subflows : \A m \in txMap'[s] :
              m \in txMap[s] \/ (m.dsn = nextTx /\ MetaWindow > 0 /\ txHead' = txHead)
         /\ \A p \in dataNet' : p.sf \in Subflows
<1> DEFINE Same == txMap' = txMap /\ txHead' = txHead
           Sends == \A p \in dataNet' :
                      p \in dataNet \/ (p.sf \in Subflows /\ p.map \in txMap[p.sf])
           Goal == /\ txHead' \in Nat /\ txHead <= txHead' /\ Sends
                   /\ \A s \in Subflows : \A m \in txMap'[s] :
                        \/ m \in txMap[s]
                        \/ m.dsn = nextTx /\ MetaWindow > 0 /\ txHead' = txHead
<1>0. txHead \in Nat /\ \A p \in dataNet : p.sf \in Subflows
  BY SizesAssumption DEF IInv, TypeOK, Segment
(* Sending from a place between the head and the tail of the send buffer. *)
<1>1. ASSUME NEW s \in Subflows, NEW ssn \in Nat, NEW maxSize, NEW upTo, NEW p,
             p = DataPacket(s, ssn, maxSize), SendFrom(s, p, upTo),
             ssnHead[s] <= ssn, ssn < Len(stream[s])
      PROVE  Sends
  <2>1. dataNet' \subseteq dataNet \cup {p}
    BY <1>1, EnqueueAdds DEF SendFrom
  <2>2. p.sf = s /\ p.map \in txMap[s]
    BY <1>1, PacketMapped
  <2> QED BY <2>1, <2>2
<1> HIDE DEF Sends
<1>2. ASSUME dataNet' \subseteq dataNet PROVE Sends
  BY <1>2 DEF Sends
<1>2a. ASSUME NEW s \in Subflows, NEW ssn \in Nat, NEW next,
              DoRetransmit(s, ssn, next), ssnHead[s] <= ssn, ssn < Len(stream[s])
       PROVE  Sends
  <2> DEFINE p == DataPacket(s, ssn, SegSize)
  <2>1. CASE SendFrom(s, p, Max2(next, ssn + Len(p.data)))
    <3> HIDE DEF p
    <3>1. p = DataPacket(s, ssn, SegSize)
      BY DEF p
    <3> QED BY <1>1, <1>2a, <2>1, <3>1
  <2>2. CASE UNCHANGED dataNet
    BY <1>2, <2>2
  <2> QED BY <1>2a, <2>1, <2>2 DEF DoRetransmit
<1>3. ASSUME Same, Sends PROVE Goal
  BY <1>0, <1>3
<1>4. ASSUME NEW a \in ackNet, ReceivedAck(a) PROVE txHead' \in Nat /\ txHead <= txHead'
  <2>1. rxNext \in Nat
    BY SizesAssumption DEF IInv, TypeOK
  <2>2. txHead' \in txHead .. rxNext
    BY <1>4, DataAckKeeps
  <2> QED BY <1>0, <2>1, <2>2
<1>5. ASSUME NEW n \in 1..MaxWrite, AppSend(n) PROVE Goal
  BY <1>2, <1>3, <1>5 DEF AppSend, sfTxVars, retryVars, netVars
<1>6. ASSUME NEW s \in Subflows, NEW cwnd \in CongestionWindows, DispatchOn(s, cwnd)
      PROVE  Goal
  <2> DEFINE new == [dsn |-> nextTx, ssn |-> FirstUnmappedSSN(s), len |-> SendSize(s, cwnd)]
  <2>1. /\ txMap' = [txMap EXCEPT ![s] = @ \cup {new}] /\ MetaWindow > 0
        /\ txHead' = txHead /\ dataNet' = dataNet
    BY <1>6 DEF DispatchOn, netVars
  <2>2. new.dsn = nextTx
    OBVIOUS
  <2> HIDE DEF new
  <2>3. \A t \in Subflows : \A m \in txMap'[t] : m \in txMap[t] \/ m = new
    BY <2>1 DEF IInv, TypeOK
  <2> QED BY <1>0, <1>2, <2>1, <2>2, <2>3
<1>7. ASSUME DispatchEnd \/ TransmitEnd \/ UNCHANGED vars PROVE Goal
  <2>1. txHead' = txHead /\ txMap' = txMap /\ dataNet' = dataNet
    BY <1>7 DEF DispatchEnd, TransmitEnd, vars, metaTxVars, sfTxVars, retryVars, netVars
  <2>2. Sends
    BY <1>2, <2>1
  <2>3. Same
    BY <2>1
  <2> QED BY <1>3, <2>2, <2>3
<1>8. ASSUME NEW s \in Subflows, NEW cwnd \in CongestionWindows, Transmit(s, cwnd)
      PROVE  Goal
  <2>1. ssnNext[s] \in Nat /\ ssnHead[s] <= ssnNext[s] /\ ssnNext[s] < Len(stream[s])
    BY <1>8, SenderStands DEF Transmit, MoreToTransmit
  <2>2. Sends
    BY <1>1, <1>8, <2>1 DEF Transmit
  <2> QED BY <1>3, <1>8, <2>2 DEF Transmit
<1>9. ASSUME NEW s \in Subflows, ReTxTimeout(s) PROVE Goal
  <2>1. ssnHead[s] \in Nat /\ ssnHead[s] <= ssnHead[s] /\ ssnHead[s] < Len(stream[s])
    <3>1. ssnHigh[s] \in Nat /\ ssnHigh[s] <= Len(stream[s]) /\ ssnHead[s] < ssnHigh[s]
      BY <1>9, SenderStands DEF ReTxTimeout
    <3> QED BY <3>1, SenderStands
  <2>2. Sends
    BY <1>2a, <1>9, <2>1 DEF ReTxTimeout
  <2> QED BY <1>3, <1>9, <2>2 DEF ReTxTimeout, metaTxVars
<1>10. ASSUME NEW a \in ackNet, StaleAck(a) \/ InflateWindow(a) PROVE Goal
  <2>1. ReceivedAck(a) /\ dataNet' = dataNet /\ txMap' = txMap
    BY <1>10 DEF StaleAck, InflateWindow, sfTxVars, retryVars
  <2> QED BY <1>2, <1>4, <2>1
<1>11. ASSUME NEW a \in ackNet, LimitedTransmit(a) PROVE Goal
  <2>1. /\ a.sf \in Subflows /\ ssnNext[a.sf] \in Nat /\ ssnHead[a.sf] <= ssnNext[a.sf]
        /\ ssnNext[a.sf] < Len(stream[a.sf])
    BY <1>11, AckStands, SenderStands DEF LimitedTransmit
  <2>2. Sends
    BY <1>1, <1>11, <2>1 DEF LimitedTransmit
  <2> QED BY <1>4, <1>11, <2>2 DEF LimitedTransmit
<1>12. ASSUME NEW a \in ackNet, FastRetransmit(a) PROVE Goal
  <2>1. /\ a.sf \in Subflows /\ ssnHead[a.sf] \in Nat /\ ssnHead[a.sf] <= ssnHead[a.sf]
        /\ ssnHead[a.sf] < Len(stream[a.sf])
    <3>1. a.sf \in Subflows /\ ssnHead[a.sf] < ssnNext[a.sf]
      BY <1>12, AckStands DEF FastRetransmit, IsDupAck
    <3> QED BY <3>1, SenderStands
  <2>2. Sends
    BY <1>2a, <1>12, <2>1 DEF FastRetransmit
  <2> QED BY <1>4, <1>12, <2>2 DEF FastRetransmit
<1>13. ASSUME NEW a \in ackNet, PartialAck(a) PROVE Goal
  <2>1. /\ a.sf \in Subflows /\ a.ack \in Nat /\ ssnHead[a.sf] <= a.ack
        /\ a.ack < Len(stream[a.sf])
    <3>1. /\ a.sf \in Subflows /\ a.ack \in Nat /\ ssnHead[a.sf] < a.ack
          /\ a.ack < recover[a.sf]
      BY <1>13, AckStands DEF PartialAck
    <3>2. /\ recover[a.sf] \in Nat /\ recover[a.sf] <= Len(stream[a.sf])
          /\ ssnHead[a.sf] \in Nat /\ Len(stream[a.sf]) \in Nat
      BY <3>1, SenderStands
    <3> QED BY <3>1, <3>2
  <2>2. Sends
    BY <1>2a, <1>13, <2>1 DEF PartialAck
  <2> QED BY <1>4, <1>13, <2>2 DEF PartialAck
<1>14. ASSUME NEW a \in ackNet, NewAck(a) PROVE Goal
  <2>1. /\ ReceivedAck(a) /\ dataNet' = dataNet
        /\ txMap' = [txMap EXCEPT ![a.sf] =
                       @ \ InSSNRange(@, ssnHead[a.sf], a.ack - ssnHead[a.sf])]
    BY <1>14 DEF NewAck
  <2>2. \A s \in Subflows : txMap'[s] \subseteq txMap[s]
    BY <2>1 DEF IInv, TypeOK
  <2> QED BY <1>2, <1>4, <2>1, <2>2
<1>15. ASSUME NEW p \in dataNet, ReceiveDuplicate(p) \/ LoseData(p) PROVE Goal
  BY <1>2, <1>3, <1>15 DEF ReceiveDuplicate, LoseData, metaTxVars, sfTxVars, retryVars
<1>16. ASSUME NEW p \in dataNet, NEW ssn \in 0..StreamLen, NEW dsn \in 0..StreamLen,
              ReceiveData(p, ssn, dsn)
       PROVE  Goal
  BY <1>2, <1>3, <1>16 DEF ReceiveData, metaTxVars, sfTxVars, retryVars
<1>17. ASSUME NEW n \in 1..StreamLen, AppRead(n) PROVE Goal
  BY <1>2, <1>3, <1>17 DEF AppRead, metaTxVars, sfTxVars, retryVars, netVars
<1>18. ASSUME NEW a \in ackNet, LoseAck(a) PROVE Goal
  BY <1>2, <1>3, <1>18 DEF LoseAck, metaTxVars, sfTxVars, retryVars
<1> HIDE DEF Goal
<1>19. ASSUME NEW a \in ackNet,
              \/ StaleAck(a)
              \/ LimitedTransmit(a)
              \/ FastRetransmit(a)
              \/ InflateWindow(a)
              \/ PartialAck(a)
              \/ NewAck(a)
       PROVE  Goal
  BY <1>10, <1>11, <1>12, <1>13, <1>14, <1>19
<1>20. Goal
  <2>1. CASE UNCHANGED vars
    BY <1>7, <2>1
  <2>2. CASE Next
    BY <1>5, <1>6, <1>7, <1>8, <1>9, <1>15, <1>16, <1>17, <1>18, <1>19, <2>2 DEF Next
  <2> QED BY <2>1, <2>2
<1> QED BY <1>0, <1>20 DEF Goal, Sends

(* Mappings are made within the window, and the window only moves forward. *)
LEMMA StartsInWindowStep == IInv /\ StartsInWindow /\ [Next]_vars => StartsInWindow'
<1> SUFFICES ASSUME IInv, StartsInWindow, [Next]_vars PROVE StartsInWindow'
  OBVIOUS
<1>1. /\ txHead \in Nat /\ nextTx \in Nat /\ AdvWnd \in Nat /\ txHead <= nextTx
      /\ txHead' \in Nat /\ txHead <= txHead'
  <2>1. txHead' \in Nat /\ txHead <= txHead'
    BY AddsMapped
  <2>2. rxNext \in Nat /\ txHead \in Nat /\ nextTx \in Nat
    BY SizesAssumption DEF IInv, TypeOK
  <2> QED BY <2>1, <2>2, SizesAssumption DEF IInv, MetaOrder
<1>2. ASSUME NEW s \in Subflows, NEW m \in txMap[s]
      PROVE  m.dsn < txHead' + AdvWnd
  <2>1. m.dsn \in Nat /\ m.dsn < txHead + AdvWnd
    BY MappingFits DEF StartsInWindow, Mapping
  <2> QED BY <1>1, <2>1
<1>3. ASSUME NEW s \in Subflows, NEW m \in txMap'[s]
      PROVE  m.dsn < txHead' + AdvWnd
  <2>1. m \in txMap[s] \/ (m.dsn = nextTx /\ MetaWindow > 0 /\ txHead' = txHead)
    BY AddsMapped
  <2>2. CASE m.dsn = nextTx /\ MetaWindow > 0 /\ txHead' = txHead
    BY <1>1, <2>2 DEF MetaWindow, AvailableWindow
  <2> QED BY <1>2, <2>1, <2>2
<1>4. ASSUME NEW p \in dataNet' PROVE p.map.dsn < txHead' + AdvWnd
  <2>1. p.sf \in Subflows /\ (p \in dataNet \/ p.map \in txMap[p.sf])
    BY AddsMapped
  <2>2. CASE p \in dataNet
    <3>1. p.map.dsn \in Nat
      BY <2>2 DEF IInv, TypeOK, Segment, Mapping
    <3>2. p.map.dsn < txHead + AdvWnd
      BY <2>2 DEF StartsInWindow
    <3> QED BY <1>1, <3>1, <3>2
  <2> QED BY <1>2, <2>1, <2>2
<1> QED BY <1>3, <1>4, SizesAssumption DEF StartsInWindow

(* A byte reaches the meta socket with the segment that carries it. *)
LEMMA OutstandingIsNewStep ==
  RoomForOvershoot /\ IInv /\ Placement /\ [Next]_vars => OutstandingIsNew'
<1> SUFFICES ASSUME RoomForOvershoot, IInv, Placement, [Next]_vars
             PROVE  OutstandingIsNew'
  OBVIOUS
<1>0. OutstandingIsNew
  BY DEF Placement
<1>1. ASSUME UNCHANGED <<stream, sfNext, sfOoo, rxNext, rxBuf>>
      PROVE  OutstandingIsNew'
  BY <1>0, <1>1 DEF OutstandingIsNew, Outstanding
<1>2. ASSUME NEW s \in Subflows, NEW cwnd \in CongestionWindows, DispatchOn(s, cwnd)
      PROVE  OutstandingIsNew'
  <2> DEFINE len == SendSize(s, cwnd)
             tail == Len(stream[s])
  <2> HIDE DEF len, tail
  <2>1. /\ len \in Nat /\ 1 <= len /\ nextTx \in Nat /\ rxNext \in Nat /\ tail \in Nat
        /\ rxNext <= nextTx
        /\ Len(stream'[s]) = tail + len
        /\ \A i \in 1..tail : stream'[s][i] = stream[s][i]
        /\ \A x \in tail .. tail + len - 1 : stream'[s][x + 1] = nextTx + (x - tail)
        /\ \A t \in Subflows : t # s => stream'[t] = stream[t]
        /\ UNCHANGED <<sfNext, sfOoo, rxNext, rxBuf>>
    <3>1. nextTx \in Nat /\ rxNext \in Nat /\ tail \in Nat /\ rxNext <= nextTx
      BY SenderStands, SizesAssumption DEF IInv, TypeOK, MetaOrder, tail
    <3>2. UNCHANGED <<sfNext, sfOoo, rxNext, rxBuf>>
      BY <1>2 DEF DispatchOn, rxVars
    <3> QED BY <1>2, <3>1, <3>2, DispatchOnDoes DEF len, tail
  <2>2. ASSUME NEW t \in Subflows, NEW i \in 1..Len(stream'[t]), Outstanding(t, i - 1)
        PROVE  stream'[t][i] >= rxNext /\ stream'[t][i] \notin DOMAIN rxBuf
    <3>1. CASE i \in 1..Len(stream[t]) /\ stream'[t][i] = stream[t][i]
      BY <1>0, <2>2, <3>1 DEF OutstandingIsNew
    <3>2. CASE t = s /\ i \in tail + 1 .. tail + len
      <4>1. i - 1 \in tail .. tail + len - 1 /\ (i - 1) + 1 = i
        BY <2>1, <3>2
      <4>2. stream'[s][i] = nextTx + ((i - 1) - tail)
        BY <2>1, <4>1
      <4>3. stream'[s][i] \in Nat /\ stream'[s][i] >= nextTx
        BY <2>1, <4>1, <4>2
      <4>4. \A d \in DOMAIN rxBuf : d \in Nat /\ d < nextTx
        BY DEF IInv, TypeOK, MetaReceiver, Byte
      <4> QED BY <2>1, <3>2, <4>3, <4>4
    <3>3. \/ i \in 1..Len(stream[t]) /\ stream'[t][i] = stream[t][i]
          \/ t = s /\ i \in tail + 1 .. tail + len
      <4>1. CASE t # s
        BY <2>1, <4>1
      <4>2. CASE t = s
        <5>1. i \in 1..tail \/ i \in tail + 1 .. tail + len
          BY <2>1, <4>2
        <5> QED BY <2>1, <4>2, <5>1 DEF tail
      <4> QED BY <4>1, <4>2
    <3> QED BY <3>1, <3>2, <3>3
  <2> QED BY <2>1, <2>2 DEF OutstandingIsNew, Outstanding
<1>3. ASSUME NEW p \in dataNet, NEW ssn \in 0..StreamLen, NEW dsn \in 0..StreamLen,
             ReceiveData(p, ssn, dsn)
      PROVE  OutstandingIsNew'
  <2>1. /\ rxNext <= dsn
        /\ \A d \in rxNext .. (dsn - 1) : d \in DOMAIN BufferWith(p)
        /\ DOMAIN rxBuf' \subseteq DOMAIN BufferWith(p)
        /\ DOMAIN BufferWith(p) = DOMAIN rxBuf \cup Stored(p)
    BY <1>3, ReceiveDataDoes, BufferRight, ZenonT(30)
  <2>2. /\ rxNext' = dsn /\ stream' = stream
        /\ sfNext' = [sfNext EXCEPT ![p.sf] = ssn]
        /\ sfOoo' = [sfOoo EXCEPT ![p.sf] =
                       {x \in sfOoo[p.sf] \cup NewSSNs(p) : x >= ssn}]
        /\ sfNext[p.sf] <= ssn
    BY <1>3 DEF ReceiveData, Advances, sfTxVars, retryVars
  <2>3. /\ p.sf \in Subflows /\ p.ssn \in Nat /\ p.map \in Mapping
        /\ p.data \in Seq(Byte) /\ RightSegment(p)
    BY DEF IInv, TypeOK, SegmentsRight, Segment
  <2>4. /\ Len(p.data) \in Nat /\ DSN(p) = p.map.dsn /\ p.map.dsn \in Nat
        /\ Len(stream[p.sf]) \in Nat /\ p.ssn + Len(p.data) <= Len(stream[p.sf])
    <3>1. Len(p.data) \in Nat /\ p.ssn = p.map.ssn /\ p.map.dsn \in Nat
      BY <2>3 DEF RightSegment, Mapping
    <3> QED BY <2>3, <3>1, SenderStands, SMTT(30) DEF RightSegment, DSN, GetDSNFromSSN
  <2>5. ASSUME NEW t \in Subflows, NEW i \in 1..Len(stream[t]),
               i - 1 >= sfNext'[t], i - 1 \notin sfOoo'[t]
        PROVE  stream[t][i] >= dsn /\ stream[t][i] \notin DOMAIN rxBuf'
    <3> DEFINE d == stream[t][i]
    <3>1. i - 1 \in Nat /\ i \in Nat /\ sfNext[t] \in Nat /\ d \in Nat /\ ssn \in Nat
          /\ dsn \in Nat /\ rxNext \in Nat
      <4>1. Len(stream[t]) \in Nat /\ sfNext[t] \in Nat
        BY SenderStands
      <4>2. ssn \in Nat /\ dsn \in Nat /\ rxNext \in Nat
        BY SizesAssumption DEF IInv, TypeOK
      <4> QED BY <4>1, <4>2, StreamBytes
    <3>2. Outstanding(t, i - 1) /\ (t = p.sf => i - 1 \notin SSNs(p))
      <4>1. CASE t # p.sf
        <5>1. sfNext'[t] = sfNext[t] /\ sfOoo'[t] = sfOoo[t]
          BY <2>2, <4>1 DEF IInv, TypeOK
        <5> QED BY <2>5, <4>1, <5>1 DEF Outstanding
      <4>2. CASE t = p.sf
        <5>1. /\ sfNext'[t] = ssn
              /\ sfOoo'[t] = {x \in sfOoo[t] \cup NewSSNs(p) : x >= ssn}
          BY <2>2, <2>3, <4>2 DEF IInv, TypeOK
        <5>2. i - 1 >= ssn /\ i - 1 \notin sfOoo[t] /\ i - 1 \notin NewSSNs(p)
          BY <2>5, <5>1
        <5>3. Outstanding(t, i - 1)
          BY <2>2, <3>1, <4>2, <5>2 DEF Outstanding
        <5> QED BY <4>2, <5>2, <5>3, NothingTrimmed
      <4> QED BY <4>1, <4>2
    <3>3. d >= rxNext /\ d \notin DOMAIN rxBuf
      BY <1>0, <3>2 DEF OutstandingIsNew
    <3> HIDE DEF d
    <3>4. d \notin Stored(p)
      <4> SUFFICES ASSUME d \in Stored(p) PROVE FALSE
        OBVIOUS
      <4>0. PICK first \in Nat, len \in Nat, k \in Nat :
              first = p.map.dsn /\ len = Len(p.data) /\ k = d
        BY <2>4, <3>1
      <4>1. PICK j \in 1..Len(p.data) : p.map.dsn + j - 1 = d
        <5>1. d \in p.map.dsn .. (p.map.dsn + Len(p.data) - 1)
          BY <2>4 DEF Stored, Kept, Bytes
        <5>2. k \in first .. (first + len - 1)
          BY <4>0, <5>1
        <5>3. k - first + 1 \in 1..len /\ first + (k - first + 1) - 1 = k
          BY <5>2
        <5>4. \E j \in 1..len : first + j - 1 = k
          BY <5>3
        <5> QED BY <4>0, <5>4
      <4>2. stream[p.sf][p.ssn + j] = d /\ p.ssn + j \in 1..Len(stream[p.sf])
        <5>1. /\ p.data[j] = p.map.dsn + j - 1
              /\ p.data[j] = stream[p.sf][p.ssn + j]
          BY <2>3, <4>1 DEF RightSegment
        <5>2. PICK n \in Nat, tail \in Nat : n = p.ssn /\ tail = Len(stream[p.sf])
          BY <2>3, <2>4
        <5>3. n + len <= tail /\ j \in 1..len
          BY <2>4, <4>0, <4>1, <5>2
        <5>4. n + j \in 1..tail
          BY <5>3
        <5> QED BY <4>1, <5>1, <5>2, <5>4
      <4>3. t = p.sf /\ i = p.ssn + j
        BY <2>3, <4>2 DEF Placement, MappedOnce, d
      <4>4. i - 1 \in SSNs(p)
        <5>1. PICK n \in Nat : n = p.ssn
          BY <2>3
        <5>2. i = n + j /\ j \in 1..len
          BY <4>0, <4>1, <4>3, <5>1
        <5>3. i - 1 \in n .. (n + len - 1)
          BY <5>2
        <5> QED BY <4>0, <5>1, <5>3 DEF SSNs, Bytes
      <4> QED BY <3>2, <4>3, <4>4
    <3>5. d \notin DOMAIN BufferWith(p)
      BY <2>1, <3>3, <3>4
    <3>6. d >= dsn
      BY <2>1, <3>1, <3>3, <3>5
    <3> QED BY <2>1, <3>5, <3>6 DEF d
  <2> QED BY <2>2, <2>5 DEF OutstandingIsNew, Outstanding
<1>4. ASSUME NEW n \in 1..StreamLen, AppRead(n) PROVE OutstandingIsNew'
  <2>1. /\ DOMAIN rxBuf' \subseteq DOMAIN rxBuf
        /\ UNCHANGED <<stream, sfNext, sfOoo, rxNext>>
    BY <1>4 DEF AppRead, Extract, sfTxVars, retryVars
  <2> QED BY <1>0, <2>1 DEF OutstandingIsNew, Outstanding
<1> QED BY <1>1, <1>2, <1>3, <1>4, OnlyThree

-----------------------------------------------------------------------------
(* The two parts of the inductive invariant hold together. *)

LEMMA InitPlaced == Init => Placement
<1> SUFFICES ASSUME Init PROVE Placement
  OBVIOUS
<1>1. \A s \in Subflows : stream[s] = << >> /\ Len(stream[s]) = 0 /\ txMap[s] = {}
  BY DEF Init
<1>2. nextTx = 0 /\ dataNet = {}
  BY DEF Init
<1> QED BY <1>1, <1>2
        DEF Placement, Increasing, StartsInWindow, MappedOnce, OutstandingIsNew

(* The inductive invariant, for configurations in which what is in flight  *)
(* fits the receive buffers in spite of the overshoot.                     *)
THEOREM Invariance == ASSUME RoomForOvershoot PROVE Spec => [](IInv /\ Placement)
<1>1. Init => IInv /\ Placement
  BY InitRight, InitPlaced
<1>2. IInv /\ Placement /\ [Next]_vars => (IInv /\ Placement)'
  <2> SUFFICES ASSUME IInv, Placement, [Next]_vars PROVE (IInv /\ Placement)'
    OBVIOUS
  <2>1. IInv'
    BY StepKeeps
  <2>2. Increasing' /\ StartsInWindow' /\ MappedOnce' /\ OutstandingIsNew'
    BY IncreasingStep, StartsInWindowStep, MappedOnceStep, OutstandingIsNewStep
       DEF Placement
  <2> QED BY <2>1, <2>2 DEF Placement
<1> QED BY <1>1, <1>2, PTL DEF Spec


(* Every variable keeps its type: no sequence number leaves the stream and *)
(* no segment, mapping or acknowledgement is malformed (the state of       *)
(* MpTcpMetaSocket and MpTcpSubflow).                                      *)
THEOREM TypeCorrect == ASSUME RoomForOvershoot PROVE Spec => []TypeOK
<1>1. IInv => TypeOK
  BY DEF IInv
<1> QED BY <1>1, Invariance, PTL

(* The data in flight exceeds the advertised window by less than a segment *)
(* (MpTcpMetaSocket::SendPendingData).                                     *)
THEOREM OvershootBounded == ASSUME RoomForOvershoot PROVE Spec => []WindowOvershoot
<1>1. IInv => WindowOvershoot
  BY DEF IInv
<1> QED BY <1>1, Invariance, PTL

(* Whatever a subflow may have to send again still has its mapping, which  *)
(* is the right one (MpTcpSubflow::UpdateTxBuffer, DiscardMappingsInSSN-   *)
(* Range).                                                                 *)
THEOREM AlwaysMapped == ASSUME RoomForOvershoot PROVE Spec => []UnackedIsMapped
<1>1. IInv => UnackedIsMapped
  <2> SUFFICES ASSUME IInv, NEW s \in Subflows,
                      NEW x \in ssnHead[s] .. (Len(stream[s]) - 1)
               PROVE  /\ Covering(txMap[s], x) # {}
                      /\ \A m \in Covering(txMap[s], x) :
                           GetDSNFromSSN(m, x) = stream[s][x + 1]
    BY DEF UnackedIsMapped
  <2>1. Covering(txMap[s], x) # {}
    BY DEF IInv, MapsRight
  <2>2. ASSUME NEW m \in Covering(txMap[s], x)
        PROVE  GetDSNFromSSN(m, x) = stream[s][x + 1]
    <3>1. m \in txMap[s] /\ m.ssn <= x /\ x <= TailSSN(m)
      BY DEF Covering
    <3>2. RightMapping(s, m) /\ m \in Mapping
      BY <3>1, MappingFits DEF IInv, MapsRight
    <3>3. x \in m.ssn .. TailSSN(m)
      BY <3>1, <3>2, SenderStands DEF Mapping, TailSSN
    <3> QED BY <3>2, <3>3 DEF RightMapping, GetDSNFromSSN
  <2> QED BY <2>1, <2>2
<1> QED BY <1>1, Invariance, PTL

(* The assertion of MpTcpSubflow::SendPacket: the mapping covers the whole *)
(* packet.                                                                 *)
THEOREM PacketsCovered == ASSUME RoomForOvershoot PROVE Spec => []MappingCoversPacket
<1>1. IInv => MappingCoversPacket
  <2> SUFFICES ASSUME IInv, NEW p \in dataNet
               PROVE  p.map.ssn <= p.ssn /\ p.ssn + Len(p.data) - 1 <= TailSSN(p.map)
    BY DEF MappingCoversPacket
  <2>1. p \in Segment /\ RightSegment(p)
    BY DEF IInv, TypeOK, SegmentsRight
  <2> QED BY <2>1 DEF Segment, RightSegment, Mapping, TailSSN
<1> QED BY <1>1, Invariance, PTL

(* What the sender frees is at the receiver (TcpTxBuffer::DiscardUpTo in   *)
(* NewAck of the meta socket and UpdateTxBuffer of the subflow).           *)
THEOREM FreedSafely == ASSUME RoomForOvershoot PROVE Spec => []FreedWasReceived
<1>1. IInv => FreedWasReceived
  <2> SUFFICES ASSUME IInv PROVE FreedWasReceived
    OBVIOUS
  <2>1. ASSUME NEW d \in 0..(txHead - 1)
        PROVE  d < Len(delivered) \/ d \in DOMAIN rxBuf
    <3>1. delivered \in Seq(Byte) /\ txHead \in Nat /\ rxNext \in Nat
      BY SizesAssumption DEF IInv, TypeOK
    <3>2. Len(delivered) \in Nat /\ txHead <= rxNext
      BY <3>1 DEF IInv, MetaOrder
    <3>3. d < Len(delivered) \/ d \in Len(delivered) .. (rxNext - 1)
      BY <3>1, <3>2
    <3> QED BY <3>3 DEF IInv, MetaReceiver
  <2>2. \A s \in Subflows : \A x \in 0..(ssnHead[s] - 1) : ~Outstanding(s, x)
    BY SenderStands DEF Outstanding
  <2> QED BY <2>1, <2>2 DEF FreedWasReceived
<1> QED BY <1>1, Invariance, PTL

(* Every byte below m_nextTxSequence was given to exactly one subflow, at  *)
(* one place (MpTcpMetaSocket::SendPendingData).                           *)
THEOREM ExactlyOneMapping == ASSUME RoomForOvershoot PROVE Spec => []MappedOnce
<1>1. Placement => MappedOnce
  BY DEF Placement
<1> QED BY <1>1, Invariance, PTL

(* Trimming in TcpRxBuffer::Add and OutOfRange never keep a new byte out of *)
(* the receive buffer of a subflow.                                         *)
THEOREM NeverTrimmed == ASSUME RoomForOvershoot PROVE Spec => []SegmentTakenWhole
<1>1. IInv /\ Placement => SegmentTakenWhole
  <2> SUFFICES ASSUME IInv, Placement, NEW p \in dataNet,
                      {x \in SSNs(p) : Outstanding(p.sf, x)} # {}
               PROVE  /\ ~OutOfRange(p)
                      /\ {x \in SSNs(p) : Outstanding(p.sf, x)} = NewSSNs(p)
    BY DEF SegmentTakenWhole
  <2>1. \A x \in SSNs(p) : Outstanding(p.sf, x) => x \in NewSSNs(p) /\ ~OutOfRange(p)
    BY NothingTrimmed
  <2>2. \A x \in NewSSNs(p) : x \in SSNs(p) /\ Outstanding(p.sf, x)
    BY DEF NewSSNs, Kept, Outstanding
  <2> QED BY <2>1, <2>2
<1> QED BY <1>1, Invariance, PTL

-----------------------------------------------------------------------------
(* No byte is lost, in the configurations FitsBuffer describes. *)

(* The meta receive buffer never refuses a byte of a segment in flight. *)
LEMMA NothingRefused ==
  ASSUME IInv, FitsBuffer, NEW p \in dataNet,
         NEW d \in Bytes(DSN(p), Len(p.data)), rxNext <= d, d < nextTx,
         d \notin DOMAIN rxBuf, nextTx <= StreamLen
  PROVE  d \in Stored(p)
<1>1. /\ nextTx \in Nat /\ txHead \in Nat /\ rxNext \in Nat /\ txHead <= rxNext
      /\ RcvBuf \in Nat /\ AdvWnd \in Nat /\ SegSize \in Nat
      /\ nextTx - txHead < AdvWnd + SegSize
  BY SizesAssumption DEF IInv, TypeOK, MetaOrder, WindowOvershoot
<1>2. d \in Int
  <2>1. p.map \in Mapping /\ p.ssn \in Nat /\ Len(p.data) \in Nat
    <3>1. p \in Segment
      BY DEF IInv, TypeOK
    <3>2. p.data \in Seq(Byte)
      BY <3>1 DEF Segment
    <3> QED BY <3>1, <3>2 DEF Segment
  <2> QED BY <2>1 DEF Bytes, DSN, GetDSNFromSSN, Mapping
<1>3. ASSUME NEW b \in DOMAIN rxBuf PROVE d < b + RcvBuf
  <2>1. b \in Nat /\ Len(delivered) <= b /\ b # rxNext
    BY DEF IInv, TypeOK, MetaReceiver, Byte
  <2>2. CASE EagerReader /\ AdvWnd + SegSize <= RcvBuf + 2
    <3>1. Len(delivered) = rxNext
      BY <2>2 DEF IInv, MetaReceiver
    <3> QED BY <1>1, <1>2, <2>1, <2>2, <3>1
  <2>3. CASE StreamLen <= RcvBuf
    BY <1>1, <1>2, <2>1, <2>3, SizesAssumption
  <2> QED BY <2>2, <2>3 DEF FitsBuffer
<1> QED BY <1>1, <1>2, <1>3 DEF Stored, Kept

LEMMA NoByteLostStep ==
  FitsBuffer /\ IInv /\ NoByteLost /\ [Next]_vars => NoByteLost'
<1> SUFFICES ASSUME FitsBuffer, IInv, NoByteLost, [Next]_vars PROVE NoByteLost'
  OBVIOUS
<1>0. /\ nextTx \in Nat /\ rxNext \in Nat /\ nextTx <= StreamLen /\ rxNext <= nextTx
      /\ Len(delivered) \in Nat
  <2>1. delivered \in Seq(Byte)
    BY DEF IInv, TypeOK
  <2> QED BY <2>1, SizesAssumption DEF IInv, TypeOK, MetaOrder
<1>1. ASSUME UNCHANGED <<nextTx, stream, sfNext, sfOoo, rxNext, rxBuf>>
      PROVE  NoByteLost'
  BY <1>1 DEF NoByteLost, Carries, Outstanding
<1>2. ASSUME NEW s \in Subflows, NEW cwnd \in CongestionWindows, DispatchOn(s, cwnd)
      PROVE  NoByteLost'
  <2> DEFINE len == SendSize(s, cwnd)
             tail == Len(stream[s])
  <2> HIDE DEF len, tail
  <2>1. /\ len \in Nat /\ 1 <= len /\ tail \in Nat
        /\ nextTx' = nextTx + len
        /\ Len(stream'[s]) = tail + len
        /\ \A i \in 1..tail : stream'[s][i] = stream[s][i]
        /\ \A x \in tail .. tail + len - 1 : stream'[s][x + 1] = nextTx + (x - tail)
        /\ \A t \in Subflows : t # s => stream'[t] = stream[t]
        /\ UNCHANGED <<sfNext, sfOoo, rxNext, rxBuf>>
    <3>1. tail \in Nat
      BY SenderStands DEF tail
    <3>2. UNCHANGED <<sfNext, sfOoo, rxNext, rxBuf>>
      BY <1>2 DEF DispatchOn, rxVars
    <3> QED BY <1>2, <3>1, <3>2, DispatchOnDoes DEF len, tail
  <2>2. ASSUME NEW d \in rxNext .. (nextTx + len - 1), d \notin DOMAIN rxBuf
        PROVE  \E t \in Subflows : \E i \in 1..Len(stream'[t]) :
                 stream'[t][i] = d /\ Outstanding(t, i - 1)
    <3>1. CASE d < nextTx
      <4>1. d \in rxNext .. (nextTx - 1)
        BY <1>0, <2>1, <3>1
      <4>2. PICK t \in Subflows : \E i \in 1..Len(stream[t]) :
                   stream[t][i] = d /\ Outstanding(t, i - 1)
        BY <2>2, <4>1 DEF NoByteLost, Carries
      <4>3. PICK i \in 1..Len(stream[t]) : stream[t][i] = d /\ Outstanding(t, i - 1)
        BY <4>2
      <4>4. i \in 1..Len(stream'[t]) /\ stream'[t][i] = stream[t][i]
        <5>1. CASE t # s
          BY <2>1, <5>1
        <5>2. CASE t = s
          <6>1. i \in 1..tail /\ i \in 1 .. tail + len
            BY <2>1, <5>2 DEF tail
          <6> QED BY <2>1, <5>2, <6>1
        <5> QED BY <5>1, <5>2
      <4> QED BY <4>3, <4>4
    <3>2. CASE ~(d < nextTx)
      <4> DEFINE x == tail + (d - nextTx)
      <4>1. /\ x \in tail .. tail + len - 1 /\ nextTx + (x - tail) = d
            /\ x + 1 \in 1 .. tail + len /\ (x + 1) - 1 = x /\ x \in Nat /\ tail <= x
        BY <1>0, <2>1, <3>2
      <4> HIDE DEF x
      <4>2. stream'[s][x + 1] = d /\ x + 1 \in 1..Len(stream'[s])
        BY <2>1, <4>1
      <4>3. Outstanding(s, x)
        <5>1. sfNext[s] \in Nat /\ sfNext[s] <= tail
          BY SenderStands DEF tail
        <5>2. \A y \in sfOoo[s] : y < tail
          BY DEF IInv, SubflowReceiver, tail
        <5> QED BY <2>1, <4>1, <5>1, <5>2 DEF Outstanding
      <4> QED BY <4>1, <4>2, <4>3
    <3> QED BY <3>1, <3>2
  <2>3. rxNext' .. (nextTx' - 1) = rxNext .. (nextTx + len - 1)
    BY <1>0, <2>1
  <2>4. rxBuf' = rxBuf /\ sfNext' = sfNext /\ sfOoo' = sfOoo
    BY <2>1
  <2> QED BY <2>2, <2>3, <2>4 DEF NoByteLost, Carries, Outstanding
<1>3. ASSUME NEW p \in dataNet, NEW ssn \in 0..StreamLen, NEW dsn \in 0..StreamLen,
             ReceiveData(p, ssn, dsn)
      PROVE  NoByteLost'
  <2>1. /\ rxNext <= dsn /\ dsn <= nextTx /\ Len(delivered') <= dsn
        /\ DOMAIN rxBuf' = {d \in DOMAIN BufferWith(p) : d >= Len(delivered')}
        /\ delivered' \in Seq(Byte)
    BY <1>3, ReceiveDataDoes
  <2>2. DOMAIN BufferWith(p) = DOMAIN rxBuf \cup Stored(p)
    BY BufferRight
  <2>3. /\ rxNext' = dsn /\ nextTx' = nextTx /\ stream' = stream
        /\ sfNext' = [sfNext EXCEPT ![p.sf] = ssn]
        /\ sfOoo' = [sfOoo EXCEPT ![p.sf] =
                       {x \in sfOoo[p.sf] \cup NewSSNs(p) : x >= ssn}]
        /\ Advances(sfNext[p.sf], sfOoo[p.sf] \cup NewSSNs(p), ssn)
    BY <1>3 DEF ReceiveData, metaTxVars, sfTxVars, retryVars
  <2>4. /\ p.sf \in Subflows /\ p.ssn \in Nat /\ p.map \in Mapping
        /\ p.data \in Seq(Byte) /\ RightSegment(p)
    BY DEF IInv, TypeOK, SegmentsRight, Segment
  <2>5. ASSUME NEW d \in dsn .. (nextTx - 1), d \notin DOMAIN rxBuf'
        PROVE  \E t \in Subflows : \E i \in 1..Len(stream[t]) :
                 /\ stream[t][i] = d
                 /\ i - 1 >= sfNext'[t] /\ i - 1 \notin sfOoo'[t]
    <3>1. d \in Int /\ dsn <= d /\ d < nextTx /\ rxNext <= d /\ Len(delivered') <= d
      <4>1. Len(delivered') \in Nat
        BY <2>1
      <4> QED BY <1>0, <2>1, <4>1
    <3>2. d \notin DOMAIN rxBuf /\ d \notin Stored(p)
      BY <2>1, <2>2, <2>5, <3>1
    <3>3. d \in rxNext .. (nextTx - 1)
      BY <1>0, <3>1
    <3>4. PICK t \in Subflows : \E i \in 1..Len(stream[t]) :
                 stream[t][i] = d /\ Outstanding(t, i - 1)
      BY <3>2, <3>3 DEF NoByteLost, Carries
    <3>5. PICK i \in 1..Len(stream[t]) : stream[t][i] = d /\ Outstanding(t, i - 1)
      BY <3>4
    <3>6. i - 1 \in Nat
      BY <3>5, SenderStands
    <3>7. CASE t # p.sf
      <4>1. sfNext'[t] = sfNext[t] /\ sfOoo'[t] = sfOoo[t]
        BY <2>3, <3>7 DEF IInv, TypeOK
      <4> QED BY <3>5, <4>1 DEF Outstanding
    <3>8. CASE t = p.sf
      <4>1. i - 1 \notin SSNs(p)
        <5> SUFFICES ASSUME i - 1 \in SSNs(p) PROVE FALSE
          OBVIOUS
        <5> DEFINE j == i - p.ssn
        <5>1. Len(p.data) \in Nat
          BY <2>4
        <5>2. j \in 1..Len(p.data) /\ p.ssn + j = i
          BY <2>4, <3>5, <3>6, <5>1 DEF SSNs, Bytes
        <5> HIDE DEF j
        <5>3. /\ p.data[j] = p.map.dsn + j - 1
              /\ p.data[j] = stream[p.sf][p.ssn + j]
              /\ p.ssn = p.map.ssn
          BY <2>4, <5>2 DEF RightSegment
        <5>4. d = p.map.dsn + j - 1
          BY <3>5, <3>8, <5>2, <5>3
        <5>5. DSN(p) = p.map.dsn /\ p.map.dsn \in Nat
          BY <2>4, <5>3 DEF DSN, GetDSNFromSSN, Mapping
        <5>6. d \in Bytes(DSN(p), Len(p.data))
          BY <5>1, <5>2, <5>4, <5>5 DEF Bytes
        <5>7. d \in Stored(p)
          BY <1>0, <3>1, <3>2, <5>6, NothingRefused
        <5> QED BY <3>2, <5>7
      <4>2. i - 1 \notin sfOoo[p.sf] \cup NewSSNs(p) /\ i - 1 >= sfNext[p.sf]
        BY <3>5, <3>8, <4>1 DEF Outstanding, NewSSNs, Kept
      <4>3. i - 1 >= ssn
        <5>1. sfNext[p.sf] \in Nat /\ ssn \in Nat
          BY <2>4, SenderStands, SMTT(30)
        <5>2. ASSUME i - 1 < ssn PROVE FALSE
          <6>1. i - 1 \in sfNext[p.sf] .. (ssn - 1)
            BY <3>6, <4>2, <5>1, <5>2
          <6> QED BY <2>3, <4>2, <6>1 DEF Advances
        <5> QED BY <3>6, <5>1, <5>2
      <4>4. sfNext'[t] = ssn /\ i - 1 \notin sfOoo'[t]
        BY <2>3, <2>4, <3>8, <4>2 DEF IInv, TypeOK
      <4> QED BY <3>5, <4>3, <4>4
    <3> QED BY <3>7, <3>8
  <2> QED BY <2>3, <2>5 DEF NoByteLost, Carries, Outstanding
<1>4. ASSUME NEW n \in 1..StreamLen, AppRead(n) PROVE NoByteLost'
  <2>1. /\ n <= rxNext - Len(delivered)
        /\ DOMAIN rxBuf' = {d \in DOMAIN rxBuf : d >= Len(delivered) + n}
        /\ UNCHANGED <<nextTx, stream, sfNext, sfOoo, rxNext>>
    BY <1>4 DEF AppRead, Extract, metaTxVars, sfTxVars, retryVars
  <2>2. \A d \in rxNext .. (nextTx - 1) : d \in DOMAIN rxBuf => d \in DOMAIN rxBuf'
    BY <1>0, <2>1
  <2> QED BY <2>1, <2>2 DEF NoByteLost, Carries, Outstanding
<1> QED BY <1>1, <1>2, <1>3, <1>4, OnlyThree

(* No byte is lost for good although the advertised window takes no account *)
(* of what the buffer holds and there is no meta retransmission: the reader *)
(* must be eager and the window leave room for the overshoot of a segment,  *)
(* or the buffer hold all there is (AdvertisedWindowSize, TcpRxBuffer::Add).*)
THEOREM NothingLost == ASSUME FitsBuffer PROVE Spec => []NoByteLost
<1>1. Init => NoByteLost
  BY DEF Init, NoByteLost
<1>2. IInv /\ NoByteLost /\ [Next]_vars => NoByteLost'
  BY NoByteLostStep
<1>3. RoomForOvershoot
  BY DEF FitsBuffer, RoomForOvershoot
<1>4. Spec => [](IInv /\ Placement)
  BY <1>3, Invariance
<1> QED BY <1>1, <1>2, <1>4, PTL DEF Spec

-----------------------------------------------------------------------------
(* Refinement. *)

LEMMA StreamStep ==
  IInv /\ [Next]_vars => [Stream!Next]_<<written, delivered>>
<1> SUFFICES ASSUME IInv, [Next]_vars
             PROVE  [Stream!Next]_<<written, delivered>>
  OBVIOUS
<1>1. /\ delivered \in Seq(Byte) /\ Len(delivered) \in Nat
      /\ rxNext \in Nat /\ nextTx \in Nat /\ written \in 0..StreamLen
      /\ StreamLen \in Nat
      /\ Len(delivered) <= rxNext /\ rxNext <= nextTx /\ nextTx <= written
      /\ \A i \in 1..Len(delivered) : delivered[i] = i - 1
  <2>1. delivered \in Seq(Byte)
    BY DEF IInv, TypeOK
  <2> QED BY <2>1, SizesAssumption DEF IInv, TypeOK, MetaOrder, MetaReceiver
(* Reading n bytes more is a Read(n) of the byte stream. *)
<1>2. ASSUME NEW n \in 1..StreamLen, Len(delivered) + n <= nextTx,
             delivered' = delivered \o [i \in 1..n |-> Len(delivered) + i - 1],
             written' = written
      PROVE  Stream!Next
  <2>1. Len(delivered) + n <= written
    BY <1>1, <1>2
  <2>2. Stream!Read(n)
    BY <1>2, <2>1 DEF Stream!Read
  <2> QED BY <2>2 DEF Stream!Next
<1>3. ASSUME NEW n \in 1..MaxWrite, AppSend(n)
      PROVE  [Stream!Next]_<<written, delivered>>
  <2>1. /\ written' = written + n /\ written + n <= StreamLen
        /\ delivered' = delivered
    BY <1>3 DEF AppSend
  <2>2. n \in 1..StreamLen
    BY <1>1, <2>1, SizesAssumption
  <2>3. Stream!Write(n)
    BY <2>1 DEF Stream!Write
  <2> QED BY <2>2, <2>3 DEF Stream!Next
<1>4. ASSUME NEW s \in Subflows, NEW cwnd \in CongestionWindows, DispatchOn(s, cwnd)
      PROVE  UNCHANGED <<written, delivered>>
  BY <1>4 DEF DispatchOn, appVars
<1>5. ASSUME NEW p \in dataNet, NEW ssn \in 0..StreamLen, NEW dsn \in 0..StreamLen,
             ReceiveData(p, ssn, dsn)
      PROVE  [Stream!Next]_<<written, delivered>>
  <2> DEFINE n == dsn - Len(delivered)
  <2>1. written' = written
    BY <1>5 DEF ReceiveData
  <2>2. /\ rxNext <= dsn /\ dsn <= nextTx
        /\ delivered' = delivered \/
             delivered' = delivered \o [i \in 1..n |-> Len(delivered) + i - 1]
    BY <1>5, ReceiveDataDoes
  <2>3. n \in Nat /\ Len(delivered) + n <= nextTx /\ n <= StreamLen
    BY <1>1, <2>2
  <2> HIDE DEF n
  <2>4. CASE delivered' = delivered
    BY <2>1, <2>4
  <2>5. CASE n = 0 /\ delivered' = delivered \o [i \in 1..n |-> Len(delivered) + i - 1]
    <3>1. /\ [i \in 1..n |-> Len(delivered) + i - 1] \in Seq(Byte)
          /\ Len([i \in 1..n |-> Len(delivered) + i - 1]) = 0
      <4>1. Len(delivered) + n <= StreamLen
        BY <1>1, <2>3
      <4> QED BY <1>1, <2>3, <2>5, <4>1, ByteRun
    <3>2. [i \in 1..n |-> Len(delivered) + i - 1] = << >>
      BY <3>1, EmptySeq
    <3>3. delivered \o << >> = delivered
      BY <1>1, ConcatEmptySeq
    <3>4. delivered' = delivered
      BY <2>5, <3>2, <3>3
    <3> QED BY <2>1, <3>4
  <2>6. CASE n # 0 /\ delivered' = delivered \o [i \in 1..n |-> Len(delivered) + i - 1]
    <3>1. n \in 1..StreamLen
      BY <1>1, <2>3, <2>6
    <3> QED BY <1>2, <2>1, <2>3, <2>6, <3>1
  <2> QED BY <2>2, <2>4, <2>5, <2>6
<1>6. ASSUME NEW n \in 1..StreamLen, AppRead(n)
      PROVE  [Stream!Next]_<<written, delivered>>
  <2>1. n <= rxNext - Len(delivered) /\ Extract(rxBuf, n) /\ written' = written
    BY <1>6 DEF AppRead
  <2>2. Len(delivered) + n <= nextTx /\ Len(delivered) + n <= StreamLen
    BY <1>1, <2>1
  <2>3. delivered' = delivered \o [i \in 1..n |-> Len(delivered) + i - 1]
    <3>1. /\ DOMAIN rxBuf \subseteq Byte /\ \A d \in DOMAIN rxBuf : rxBuf[d] = d
          /\ \A d \in Len(delivered) .. (rxNext - 1) : d \in DOMAIN rxBuf
      BY DEF IInv, TypeOK, MetaReceiver
    <3>2. \A d \in Len(delivered) .. (Len(delivered) + n - 1) : d \in DOMAIN rxBuf
      BY <1>1, <2>1, <3>1
    <3>3. n \in Nat
      OBVIOUS
    <3> QED BY <1>1, <2>1, <2>2, <3>1, <3>2, <3>3, ExtractRight
  <2> QED BY <1>2, <2>1, <2>2, <2>3
<1> QED BY <1>3, <1>4, <1>5, <1>6, OnlyThree

(* Whatever the links do, the receiving application reads the bytes that   *)
(* were written, each once and in order: every step of the connection is a *)
(* step of ByteStream or leaves it alone.                                  *)
THEOREM ImplementsByteStream == ASSUME RoomForOvershoot PROVE Spec => StreamSpec
<1>1. Init => Stream!Init
  BY DEF Init, Stream!Init
<1> QED BY <1>1, StreamStep, Invariance, PTL DEF Spec, StreamSpec, Stream!Spec
=============================================================================
