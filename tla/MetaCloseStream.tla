--------------------------- MODULE MetaCloseStream ---------------------------
(***************************************************************************)
(* More about MetaClose, for every size of the streams and the links: the  *)
(* connection implements the pair of streams of DuplexStream, and a        *)
(* DATA_FIN is not forgotten.  Both rest on what an operation of a host    *)
(* may do to its socket, as a relation between the sockets before and      *)
(* after (Works), which is transitive, so that there is one lemma per      *)
(* operation here too.                                                     *)
(***************************************************************************)
EXTENDS MetaCloseProofs

(* A socket, whatever its numbers are. *)
Shape ==
  [state : States, written : Int, txHead : Int, nextTx : Int, highTx : Int,
   closeOnEmpty : BOOLEAN, shutdownSend : BOOLEAN, closeNotified : BOOLEAN,
   sendEvent : BOOLEAN, retx : BOOLEAN, lastAck : BOOLEAN, timeWait : BOOLEAN,
   sfHead : Int, got : Int, ooo : SUBSET Int, finSeq : Int, dackDue : BOOLEAN,
   subClosed : BOOLEAN, stop : Stops]

(* From m to n no byte is written or sent the first time, nothing is taken *)
(* back, Close is deferred only for data that was not sent, and who comes  *)
(* to FIN_WAIT_1 has the timer of its DATA_FIN running.                    *)
Works(m, n) ==
  /\ n.written = m.written /\ n.highTx = m.highTx /\ n.shutdownSend = m.shutdownSend
  /\ m.closeNotified => n.closeNotified
  /\ m.closeOnEmpty => n.closeOnEmpty
  /\ Open(n) => Open(m)
  /\ n.state = "Established" =>
       /\ m.state = "Established"
       /\ n.closeOnEmpty => m.closeOnEmpty \/ m.highTx < m.written
  /\ n.state = "FinWait1" /\ ~n.retx => m.state = "FinWait1" /\ ~m.retx

(* What the socket has received is the same. *)
SameBytes(m, n) == n.got = m.got /\ n.ooo = m.ooo /\ n.finSeq = m.finSeq

(* Nor is anything taken back where data is sent or ShutdownSend called. *)
Onward(m, n) ==
  /\ n.written = m.written /\ m.got <= n.got
  /\ m.closeNotified => n.closeNotified
  /\ Open(n) => Open(m)

(* The operations that send no data. *)
Calm(c, d) ==
  /\ Sock(d) \in Shape /\ Works(Sock(c), Sock(d))
  /\ \A p \in Out(d) : p \in Out(c) \/ p.data = None

(* And receive none. *)
Still(c, d) == Calm(c, d) /\ SameBytes(Sock(c), Sock(d))

-----------------------------------------------------------------------------
LEMMA ShapeOfSocket ==
  ASSUME NEW h \in Hosts
  PROVE  MetaSocket(h) \subseteq Shape
<1>1. Peer(h) \in Hosts /\ Limit[h] \in Nat
  BY Peers, CloseAssumption DEF CloseAssumption
<1>2. Limit[Peer(h)] \in Nat
  BY <1>1, CloseAssumption DEF CloseAssumption
<1>3. 0..Limit[h] \subseteq Int /\ 0..(Limit[h] + 1) \subseteq Int /\ None \in Int
      /\ 0..Limit[Peer(h)] \subseteq Int
  BY <1>1, <1>2 DEF None
<1>4. 0..Limit[Peer(h)] \cup {None} \subseteq Int
      /\ SUBSET (0..Limit[Peer(h)]) \subseteq SUBSET Int
  BY <1>3
<1>. QED BY <1>3, <1>4 DEF MetaSocket, Shape

LEMMA CalmAfter ==
  ASSUME NEW c, NEW d, NEW e, Calm(c, d), Calm(d, e)
  PROVE  Calm(c, e)
BY DEF Calm, Works

LEMMA StillAfter ==
  ASSUME NEW c, NEW d, NEW e, Still(c, d), Still(d, e)
  PROVE  Still(c, e)
BY CalmAfter DEF Still, SameBytes

LEMMA StillNothing ==
  ASSUME NEW c, Sock(c) \in Shape
  PROVE  Still(c, c)
BY DEF Still, Calm, Works, SameBytes

(* A change of the socket alone. *)
LEMMA StillOn ==
  ASSUME NEW c, NEW n \in Shape, Works(Sock(c), n), SameBytes(Sock(c), n)
  PROVE  Still(c, On(c, n)) /\ Sock(On(c, n)) = n
BY OnSock DEF Still, Calm

-----------------------------------------------------------------------------
(* Packets without data. *)
LEMMA PutStill ==
  ASSUME NEW c, Sock(c) \in Shape, NEW fin, NEW now
  PROVE  /\ Still(c, Put(c, None, fin, now))
         /\ Sock(Put(c, None, fin, now)) = [Sock(c) EXCEPT !.dackDue = FALSE]
<1>. DEFINE m == Sock(c)
            n == [m EXCEPT !.dackDue = FALSE]
            p == [data |-> None, fin |-> fin, ack |-> m.got,
                  dack |-> IF now \/ m.dackDue THEN NextRx(m) ELSE None]
            d == Put(c, None, fin, now)
<1>1. Sock(d) = n /\ (Out(d) = Out(c) \/ Out(d) = Out(c) \cup {p})
  BY DEF Put, Sock, Out
<1>2. n \in Shape /\ Works(m, n) /\ SameBytes(m, n)
  <2>1. n \in Shape
    BY DEF Shape
  <2>2. Works(m, n) /\ SameBytes(m, n)
    BY DEF Shape, Works, SameBytes, Open
  <2>. QED BY <2>1, <2>2
<1>3. p.data = None
  OBVIOUS
<1>. HIDE DEF p, n, d
<1>. QED BY <1>1, <1>2, <1>3 DEF Still, Calm, n, d

LEMMA SendEmptyStill ==
  ASSUME NEW c, Sock(c) \in Shape, NEW now
  PROVE  /\ Still(c, SendEmpty(c, now))
         /\ Sock(SendEmpty(c, now)) = [Sock(c) EXCEPT !.dackDue = FALSE]
BY PutStill DEF SendEmpty

(* The DATA_FIN, whose timer runs unless an acknowledgement goes with it. *)
LEMMA SendDataFinStill ==
  ASSUME NEW c, Sock(c) \in Shape, NEW withAck \in BOOLEAN
  PROVE  /\ Still(c, SendDataFin(c, withAck))
         /\ Sock(SendDataFin(c, withAck)).state = Sock(c).state
         /\ ~withAck => Sock(SendDataFin(c, withAck)).retx
<1>. DEFINE m == Sock(c)
            d == Put(c, None, m.nextTx, withAck)
            k == Sock(d)
            b == k.retx \/ ~withAck
            n == [k EXCEPT !.retx = b]
<1>1. Still(c, d) /\ k = [m EXCEPT !.dackDue = FALSE]
  BY PutStill
<1>2. k \in Shape /\ b \in BOOLEAN /\ k.state = m.state
  BY <1>1 DEF Still, Calm, Shape
<1>3. SendDataFin(c, withAck) = On(d, n)
  BY DEF SendDataFin
<1>4. n \in Shape /\ n.state = k.state /\ n.retx = b
  BY <1>2 DEF Shape
<1>5. Works(k, n) /\ SameBytes(k, n)
  <2>. HIDE DEF k
  <2>. QED BY <1>2 DEF Shape, Works, SameBytes, Open
<1>. HIDE DEF n, d
<1>6. Still(d, On(d, n)) /\ Sock(On(d, n)) = n
  BY <1>4, <1>5, StillOn
<1>. QED BY <1>1, <1>2, <1>3, <1>4, <1>6, StillAfter

-----------------------------------------------------------------------------
(* Close. *)

LEMMA CloseAndNotifyStill ==
  ASSUME NEW m \in Shape
  PROVE  /\ CloseAndNotify(m) \in Shape /\ Works(m, CloseAndNotify(m))
         /\ SameBytes(m, CloseAndNotify(m))
<1>. DEFINE n == CloseAndNotify(m)
<1>1. n \in Shape
  BY DEF Shape, CloseAndNotify, CancelAllEvents, States
<1>2. Works(m, n) /\ SameBytes(m, n)
  BY DEF Shape, CloseAndNotify, CancelAllEvents, Works, SameBytes, Open
<1>. QED BY <1>1, <1>2

LEMMA TimeWaitStill ==
  ASSUME NEW m \in Shape
  PROVE  TimeWait(m) \in Shape /\ Works(m, TimeWait(m)) /\ SameBytes(m, TimeWait(m))
<1>. DEFINE n == TimeWait(m)
<1>1. n \in Shape
  BY DEF Shape, TimeWait, CancelAllEvents, States
<1>2. Works(m, n) /\ SameBytes(m, n)
  BY DEF Shape, TimeWait, CancelAllEvents, Works, SameBytes, Open
<1>. QED BY <1>1, <1>2

LEMMA CloseAllSubflowsStill ==
  ASSUME NEW m \in Shape
  PROVE  /\ CloseAllSubflows(m) \in Shape /\ Works(m, CloseAllSubflows(m))
         /\ SameBytes(m, CloseAllSubflows(m))
<1>. DEFINE n == CloseAllSubflows(m)
<1>1. n \in Shape
  BY DEF Shape, CloseAllSubflows, Stops
<1>2. Works(m, n) /\ SameBytes(m, n)
  BY DEF Shape, CloseAllSubflows, Works, SameBytes, Open
<1>. QED BY <1>1, <1>2

LEMMA DoCloseStill ==
  ASSUME NEW c, Sock(c) \in Shape
  PROVE  Still(c, DoClose(c))
<1>. DEFINE m == Sock(c)
<1>1. CASE m.state = "Established"
  <2>. DEFINE n == [m EXCEPT !.state = "FinWait1"]
              d == SendDataFin(On(c, n), FALSE)
  <2>1. n \in Shape
    BY DEF Shape, States
  <2>2. Still(On(c, n), d) /\ Sock(d).state = Sock(On(c, n)).state /\ Sock(d).retx
    <3>. HIDE DEF n
    <3>. QED BY <2>1, OnSock, SendDataFinStill
  <2>3. Sock(On(c, n)) = n /\ Out(On(c, n)) = Out(c)
    BY OnSock
  <2>4. /\ n.written = m.written /\ n.highTx = m.highTx /\ n.shutdownSend = m.shutdownSend
        /\ n.closeNotified = m.closeNotified /\ n.closeOnEmpty = m.closeOnEmpty
        /\ n.state = "FinWait1" /\ SameBytes(m, n)
    BY DEF Shape, SameBytes
  <2>5. Works(m, Sock(d))
    <3>. HIDE DEF n, m, d
    <3>. QED BY <1>1, <2>2, <2>3, <2>4 DEF Still, Calm, Works, Open
  <2>6. Still(c, d)
    <3>. HIDE DEF n, d
    <3>. QED BY <2>2, <2>3, <2>4, <2>5 DEF Still, Calm, SameBytes
  <2>7. DoClose(c) = d
    BY <1>1 DEF DoClose
  <2>. QED BY <2>6, <2>7
<1>2. CASE m.state = "CloseWait"
  <2>. DEFINE n == [m EXCEPT !.state = "LastAck"]
  <2>1. n \in Shape
    BY DEF Shape, States
  <2>2. Works(m, n) /\ SameBytes(m, n)
    BY <1>2 DEF Shape, Works, SameBytes, Open
  <2>. HIDE DEF n
  <2>3. Still(c, On(c, n)) /\ Still(On(c, n), SendDataFin(On(c, n), TRUE))
    BY <2>1, <2>2, StillOn, SendDataFinStill
  <2>4. DoClose(c) = SendDataFin(On(c, n), TRUE)
    BY <1>2 DEF DoClose, n
  <2>. QED BY <2>3, <2>4, StillAfter
<1>3. CASE m.state = "LastAck"
  <2>1. DoClose(c) = On(c, CloseAndNotify(m))
    BY <1>3 DEF DoClose
  <2>. QED BY <2>1, CloseAndNotifyStill, StillOn
<1>4. CASE m.state \notin {"Established", "CloseWait", "LastAck"}
  BY <1>4, StillNothing DEF DoClose
<1>. QED BY <1>1, <1>2, <1>3, <1>4

(* What was acknowledged of the stream of a host that has not closed is     *)
(* part of it.                                                              *)
Paced(m) ==
  m.state = "Established" => m.highTx <= m.nextTx /\ m.txHead <= m.written

LEMMA CloseStill ==
  ASSUME NEW c, Sock(c) \in Shape, Paced(Sock(c))
  PROVE  Still(c, Close(c))
<1>. DEFINE m == Sock(c)
<1>1. CASE m.ooo # {}
  <2>. DEFINE n == [m EXCEPT !.stop = "unread data in Close"]
  <2>1. n \in Shape
    BY DEF Shape, Stops
  <2>2. Works(m, n) /\ SameBytes(m, n)
    BY DEF Shape, Works, SameBytes, Open
  <2>3. Close(c) = On(c, n)
    BY <1>1 DEF Close
  <2>. HIDE DEF n
  <2>. QED BY <2>1, <2>2, <2>3, StillOn
<1>2. CASE m.ooo = {} /\ m.nextTx < TxTail(m)
  <2>. DEFINE n == [m EXCEPT !.closeOnEmpty = TRUE]
  <2>1. n \in Shape
    BY DEF Shape
  <2>2. m.state = "Established" => m.highTx < m.written
    BY <1>2 DEF Shape, Paced, TxTail, Max2
  <2>3. Works(m, n) /\ SameBytes(m, n)
    BY <2>2 DEF Shape, Works, SameBytes, Open
  <2>4. Close(c) = On(c, n)
    BY <1>2 DEF Close
  <2>. HIDE DEF n
  <2>. QED BY <2>1, <2>3, <2>4, StillOn
<1>3. CASE m.ooo = {} /\ ~(m.nextTx < TxTail(m))
  <2>1. Close(c) = DoClose(c)
    BY <1>3 DEF Close
  <2>. QED BY <2>1, DoCloseStill
<1>. QED BY <1>1, <1>2, <1>3

LEMMA DoPeerCloseStill ==
  ASSUME NEW c, Sock(c) \in Shape, NEW closes
  PROVE  Still(c, DoPeerClose(c, closes))
<1>. DEFINE m  == Sock(c)
            m1 == [m EXCEPT !.state = "CloseWait"]
            c1 == On(c, m1)
            c2 == IF closes /\ ~m.closeNotified THEN Close(c1) ELSE c1
            m3 == [Sock(c2) EXCEPT !.closeNotified = TRUE]
            c3 == On(c2, m3)
            c4 == CASE m.shutdownSend -> Close(c3)
                    [] ~m.shutdownSend /\ Sock(c3).state = "CloseWait" -> SendDataAck(c3)
                    [] OTHER -> c3
            m5 == [Sock(c4) EXCEPT !.lastAck = @ \/ Sock(c4).state = "LastAck"]
<1>1. CASE m.state # "Established"
  <2>. DEFINE n == [m EXCEPT !.stop = "DoPeerClose"]
  <2>1. n \in Shape
    BY DEF Shape, Stops
  <2>2. Works(m, n) /\ SameBytes(m, n)
    BY DEF Shape, Works, SameBytes, Open
  <2>3. DoPeerClose(c, closes) = On(c, n)
    BY <1>1 DEF DoPeerClose
  <2>. HIDE DEF n
  <2>. QED BY <2>1, <2>2, <2>3, StillOn
<1>2. CASE m.state = "Established"
  <2>1. Still(c, c1) /\ Sock(c1) \in Shape /\ Sock(c1).state = "CloseWait"
    <3>1. m1 \in Shape /\ m1.state = "CloseWait"
      BY DEF Shape, States
    <3>2. Works(m, m1) /\ SameBytes(m, m1)
      BY <1>2 DEF Shape, Works, SameBytes, Open
    <3>. HIDE DEF m1
    <3>. QED BY <3>1, <3>2, StillOn
  <2>2. Still(c1, c2)
    <3>. HIDE DEF c1
    <3>1. Still(c1, Close(c1)) /\ Still(c1, c1)
      BY <2>1, CloseStill, StillNothing DEF Paced
    <3>. QED BY <3>1
  <2>3. Sock(c2) \in Shape /\ Sock(c2).state # "Established"
    <3>. HIDE DEF c1, c2
    <3>. QED BY <2>1, <2>2 DEF Still, Calm, Works
  <2>4. Still(c2, c3) /\ Sock(c3) \in Shape /\ Sock(c3).state # "Established"
    <3>. HIDE DEF c2
    <3>1. m3 \in Shape /\ m3.state # "Established"
      BY <2>3 DEF Shape
    <3>2. Works(Sock(c2), m3) /\ SameBytes(Sock(c2), m3)
      BY <2>3 DEF Shape, Works, SameBytes, Open
    <3>. HIDE DEF m3
    <3>. QED BY <3>1, <3>2, StillOn
  <2>5. Still(c3, c4)
    <3>. HIDE DEF c3
    <3>1. /\ Still(c3, Close(c3)) /\ Still(c3, c3) /\ Still(c3, SendDataAck(c3))
      BY <2>4, CloseStill, StillNothing, SendEmptyStill DEF Paced, SendDataAck
    <3>. QED BY <3>1
  <2>6. Still(c4, On(c4, m5))
    <3>1. Sock(c4) \in Shape
      <4>. HIDE DEF c3, c4
      <4>. QED BY <2>5 DEF Still, Calm
    <3>. HIDE DEF c4
    <3>2. m5 \in Shape
      BY <3>1 DEF Shape
    <3>3. Works(Sock(c4), m5) /\ SameBytes(Sock(c4), m5)
      BY <3>1 DEF Shape, Works, SameBytes, Open
    <3>. HIDE DEF m5
    <3>. QED BY <3>2, <3>3, StillOn
  <2>7. DoPeerClose(c, closes) = On(c4, m5)
    BY <1>2 DEF DoPeerClose
  <2>. HIDE DEF c1, c2, c3, c4, m5
  <2>8. Still(c, c2) /\ Still(c2, c4)
    BY <2>1, <2>2, <2>4, <2>5, StillAfter
  <2>. QED BY <2>6, <2>7, <2>8, StillAfter
<1>. QED BY <1>1, <1>2

-----------------------------------------------------------------------------
(* What arrives. *)

LEMMA ReceivedAckStill ==
  ASSUME NEW m \in Shape, NEW dack \in Int
  PROVE  /\ ReceivedAck(m, dack) \in Shape /\ Works(m, ReceivedAck(m, dack))
         /\ SameBytes(m, ReceivedAck(m, dack))
<1>. DEFINE n == IF dack > m.txHead THEN [m EXCEPT !.txHead = dack, !.nextTx = Max2(@, dack)]
                 ELSE m
            k == [n EXCEPT !.state = "FinWait2"]
<1>1. n \in Shape /\ n.state = m.state /\ Works(m, n) /\ SameBytes(m, n)
  <2>1. Max2(m.nextTx, dack) \in Int
    BY DEF Shape, Max2
  <2>2. n \in Shape
    BY <2>1 DEF Shape
  <2>3. n.state = m.state /\ Works(m, n) /\ SameBytes(m, n)
    BY DEF Shape, Works, SameBytes, Open
  <2>. QED BY <2>2, <2>3
<1>2. ASSUME NEW x, NEW y, NEW z,
             Works(x, y), SameBytes(x, y), Works(y, z), SameBytes(y, z)
      PROVE  Works(x, z) /\ SameBytes(x, z)
  <2>. HIDE DEF n, k
  <2>. QED BY <1>2 DEF Works, SameBytes
<1>3. CASE m.state = "FinWait1" /\ TxEmpty(n) /\ dack = n.highTx + 1
  <2>1. k \in Shape
    BY <1>1 DEF Shape, States
  <2>2. Works(n, k) /\ SameBytes(n, k)
    <3>. HIDE DEF n
    <3>. QED BY <1>1, <1>3 DEF Shape, Works, SameBytes, Open
  <2>3. ReceivedAck(m, dack) = CloseAllSubflows(k)
    BY <1>3 DEF ReceivedAck
  <2>. HIDE DEF n, k
  <2>4. Works(m, k) /\ SameBytes(m, k)
    BY <1>1, <1>2, <2>1, <2>2
  <2>. QED BY <1>2, <2>1, <2>3, <2>4, CloseAllSubflowsStill
<1>. DEFINE x == CloseAllSubflows(n)
<1>4. x \in Shape /\ Works(m, x) /\ SameBytes(m, x)
  <2>. HIDE DEF n
  <2>. QED BY <1>1, <1>2, CloseAllSubflowsStill
<1>5. CASE m.state = "Closing"
  <2>1. ReceivedAck(m, dack) = TimeWait(x)
    BY <1>5 DEF ReceivedAck
  <2>. HIDE DEF x
  <2>. QED BY <1>2, <1>4, <2>1, TimeWaitStill
<1>6. CASE m.state = "LastAck"
  <2>1. ReceivedAck(m, dack) = CloseAndNotify(x)
    BY <1>6 DEF ReceivedAck
  <2>. HIDE DEF x
  <2>. QED BY <1>2, <1>4, <2>1, CloseAndNotifyStill
<1>7. CASE /\ ~(m.state = "FinWait1" /\ TxEmpty(n) /\ dack = n.highTx + 1)
           /\ m.state # "Closing" /\ m.state # "LastAck"
  <2>1. ReceivedAck(m, dack) = n
    BY <1>7 DEF ReceivedAck
  <2>. QED BY <1>1, <2>1
<1>. QED BY <1>3, <1>5, <1>6, <1>7

(* The bytes a socket has received, in order or not. *)
Has(m, x) == x < m.got \/ x \in m.ooo

(* From m to n no byte but d came, and none was taken back. *)
Gains(m, n, d) ==
  /\ n.finSeq = m.finSeq /\ m.got <= n.got
  /\ \A x \in Nat : Has(n, x) => Has(m, x) \/ x = d

LEMMA NewDataGains ==
  ASSUME NEW h \in Hosts, NEW m \in MetaSocket(h), NEW d \in Nat,
         NEW have, have = m.ooo \cup {d}, NEW got, got = FirstMissing(m.got, have),
         NEW n, n = [m EXCEPT !.got = got, !.ooo = Beyond(have, got)]
  PROVE  n \in Shape /\ Works(m, n) /\ Gains(m, n, d)
<1>0. m.got \in Nat /\ m.ooo \subseteq Nat
  BY Fields
<1>1. have \in SUBSET Nat /\ IsFiniteSet(have)
  <2>1. Peer(h) \in Hosts
    BY Peers
  <2>. DEFINE b == Limit[Peer(h)]
  <2>2. b \in Int /\ 0 \in Int
    BY <2>1, CloseAssumption DEF CloseAssumption
  <2>3. m.ooo \in SUBSET (0..b)
    BY DEF MetaSocket
  <2>. HIDE DEF b
  <2>4. IsFiniteSet(0..b)
    BY <2>2, FS_Interval
  <2>5. IsFiniteSet(m.ooo)
    BY <2>3, <2>4, FS_Subset
  <2>6. IsFiniteSet(m.ooo \cup {d})
    BY <2>5, FS_AddElement
  <2>. QED BY <1>0, <2>6
<1>2. /\ got \in m.got .. (m.got + Cardinality(have))
      /\ \A x \in m.got .. (got - 1) : x \in have
  <2>1. \E k \in m.got .. (m.got + Cardinality(have)) :
           k \notin have /\ \A x \in m.got .. (k - 1) : x \in have
    BY <1>0, <1>1, NextMissing
  <2>. QED BY <2>1 DEF FirstMissing
<1>3. got \in Nat /\ m.got <= got
  BY <1>0, <1>1, <1>2, FS_CardinalityType
<1>4. m \in Shape
  BY ShapeOfSocket
<1>5. Beyond(have, got) \in SUBSET Int
  BY <1>1 DEF Beyond
<1>6. n \in Shape
  <2>. DEFINE k == [m EXCEPT !.got = got]
  <2>1. k \in Shape
    BY <1>3, <1>4 DEF Shape
  <2>2. n = [k EXCEPT !.ooo = Beyond(have, got)]
    OBVIOUS
  <2>. HIDE DEF k
  <2>. QED BY <1>5, <2>1, <2>2 DEF Shape
<1>7. n.got = got /\ n.ooo = Beyond(have, got) /\ n.finSeq = m.finSeq
  BY <1>4 DEF Shape
<1>8. Works(m, n)
  BY <1>4 DEF Shape, Works, Open
<1>9. ASSUME NEW x \in Nat, Has(n, x) PROVE Has(m, x) \/ x = d
  <2>1. CASE x < got
    BY <1>0, <1>2, <1>3, <2>1 DEF Has
  <2>2. CASE x \in Beyond(have, got)
    BY <2>2 DEF Beyond, Has
  <2>. QED BY <1>7, <1>9, <2>1, <2>2 DEF Has
<1>. QED BY <1>3, <1>6, <1>7, <1>8, <1>9 DEF Gains

(* A byte, and the news of the end that it may bring. *)
LEMMA ReceivedDataGains ==
  ASSUME NEW h \in Hosts, NEW c, Sock(c) \in MetaSocket(h), NEW d \in Nat, NEW closes
  PROVE  /\ Calm(c, ReceivedData(c, d, closes))
         /\ Gains(Sock(c), Sock(ReceivedData(c, d, closes)), d)
<1>. DEFINE m    == Sock(c)
            have == m.ooo \cup {d}
            got  == FirstMissing(m.got, have)
            m1   == [m EXCEPT !.got = got, !.ooo = Beyond(have, got)]
            c1   == On(c, m1)
<1>0. m \in Shape /\ m.got \in Nat
  BY ShapeOfSocket, Fields
<1>1. ASSUME NEW x, NEW y, Gains(m, Sock(x), d), Still(x, y)
      PROVE  Gains(m, Sock(y), d)
  BY <1>1 DEF Still, SameBytes, Gains, Has
<1>2. CASE d < m.got \/ d \in m.ooo
  <2>1. ReceivedData(c, d, closes) = SendDataAck(c)
    BY <1>0, <1>2 DEF ReceivedData
  <2>2. Still(c, SendDataAck(c))
    BY <1>0, SendEmptyStill DEF SendDataAck
  <2>3. Gains(m, m, d)
    BY <1>0 DEF Gains
  <2>. QED BY <1>1, <2>1, <2>2, <2>3 DEF Still
<1>3. CASE ~(d < m.got \/ d \in m.ooo)
  <2>1. m1 \in Shape /\ Works(m, m1) /\ Gains(m, m1, d)
    <3>. HIDE DEF m, have, got, m1
    <3>. QED BY NewDataGains DEF m, have, got, m1
  <2>2. Calm(c, c1) /\ Sock(c1) = m1
    <3>. HIDE DEF m1
    <3>. QED BY <2>1, OnSock DEF Calm
  <2>3. /\ Still(c1, SendDataAck(c1)) /\ Still(c1, DoPeerClose(c1, closes))
        /\ Still(DoPeerClose(c1, closes), SendDataAck(DoPeerClose(c1, closes)))
    <3>. HIDE DEF c1, m1
    <3>1. Still(c1, DoPeerClose(c1, closes))
      BY <2>1, <2>2, DoPeerCloseStill
    <3>. QED BY <2>1, <2>2, <3>1, SendEmptyStill DEF SendDataAck, Still, Calm
  <2>4. ReceivedData(c, d, closes) \in {SendDataAck(c1), SendDataAck(DoPeerClose(c1, closes))}
    <3>1. d >= m.got /\ d \notin m.ooo
      BY <1>0, <1>3
    <3>. QED BY <1>3, <3>1 DEF ReceivedData, FirstMissing, Beyond
  <2>. HIDE DEF c1, m1
  <2>5. Still(c1, ReceivedData(c, d, closes))
    BY <2>3, <2>4, StillAfter
  <2>. QED BY <1>1, <2>1, <2>2, <2>5, CalmAfter DEF Still
<1>. QED BY <1>2, <1>3

LEMMA ProcessGains ==
  ASSUME NEW h \in Hosts, NEW c, Sock(c) \in MetaSocket(h), NEW p \in Packet(Peer(h)),
         NEW closes
  PROVE  /\ Calm(c, Process(c, p, closes))
         /\ Gains(Sock(c), Sock(Process(c, p, closes)), p.data)
<1>. DEFINE m  == Sock(c)
            m1 == [m EXCEPT !.sfHead = p.ack, !.sendEvent = @ \/ m.sfHead < p.ack]
            c0 == On(c, m1)
            c1 == IF p.data = None THEN c0 ELSE ReceivedData(c0, p.data, closes)
            m2 == [Sock(c1) EXCEPT !.dackDue = TRUE]
<1>0. /\ m \in Shape /\ m.got \in Nat /\ p.ack \in 0..Limit[h] /\ p.ack \in Int
      /\ p.data # None => p.data \in Nat
  <2>1. Peer(h) \in Hosts /\ Peer(Peer(h)) = h
    BY Peers
  <2>2. Limit[h] \in Nat /\ Limit[Peer(h)] \in Nat
    BY <2>1, CloseAssumption DEF CloseAssumption
  <2>3. m \in Shape /\ m.got \in Nat
    BY ShapeOfSocket, Fields
  <2>4. p.ack \in 0..Limit[h] /\ p.data \in 0..(Limit[Peer(h)] - 1) \cup {None}
    BY <2>1 DEF Packet
  <2>. QED BY <2>2, <2>3, <2>4
<1>1. CASE p.ack < m.sfHead
  <2>1. Process(c, p, closes) = c
    BY <1>1 DEF Process
  <2>. QED BY <1>0, <2>1, StillNothing DEF Still, Gains
<1>2. CASE ~(p.ack < m.sfHead)
  <2>1. m1 \in MetaSocket(h) /\ m1 \in Shape
    <3>1. m1 \in MetaSocket(h)
      BY <1>0 DEF MetaSocket
    <3>. QED BY <3>1, ShapeOfSocket
  <2>2. Works(m, m1) /\ SameBytes(m, m1)
    BY <1>0 DEF Shape, Works, SameBytes, Open
  <2>3. Still(c, c0) /\ Sock(c0) = m1
    <3>. HIDE DEF m1
    <3>. QED BY <2>1, <2>2, StillOn
  <2>4. Calm(c0, c1) /\ Gains(m1, Sock(c1), p.data)
    <3>. HIDE DEF c0, m1
    <3>1. CASE p.data = None
      <4>1. Still(c0, c0) /\ m1.got \in Nat
        BY <2>1, <2>3, StillNothing, Fields
      <4>. QED BY <2>3, <3>1, <4>1 DEF Still, Gains
    <3>2. CASE p.data # None
      BY <1>0, <2>1, <2>3, <3>2, ReceivedDataGains
    <3>. QED BY <3>1, <3>2
  <2>5. Still(c1, On(c1, m2)) /\ Sock(On(c1, m2)) = m2
    <3>. HIDE DEF c1
    <3>1. Sock(c1) \in Shape
      BY <2>4 DEF Calm
    <3>2. m2 \in Shape
      BY <3>1 DEF Shape
    <3>3. Works(Sock(c1), m2) /\ SameBytes(Sock(c1), m2)
      BY <3>1 DEF Shape, Works, SameBytes, Open
    <3>. HIDE DEF m2
    <3>. QED BY <3>2, <3>3, StillOn
  <2>6. Process(c, p, closes) = On(c1, m2)
    BY <1>2 DEF Process
  <2>7. Gains(m, m2, p.data)
    <3>. HIDE DEF m, m1, m2, c0, c1
    <3>. QED BY <2>2, <2>3, <2>4, <2>5 DEF Still, SameBytes, Gains, Has
  <2>8. Calm(c, On(c1, m2))
    <3>. HIDE DEF m, m1, m2, c0, c1
    <3>. QED BY <2>3, <2>4, <2>5, CalmAfter DEF Still
  <2>. QED BY <2>5, <2>6, <2>7, <2>8
<1>. QED BY <1>1, <1>2

(* After a DATA_FIN the receiver knows where the stream ends. *)
LEMMA PeerCloseEnds ==
  ASSUME NEW h \in Hosts, NEW c, NEW r \in MetaSocket(Peer(h)), NEW rout,
         Safe(h, c, r, rout), Counts(r), NEW dack, NEW closes, NEW fin,
         fin = r.written \/ (fin = r.written + 1 /\ Finished(Sock(c)))
  PROVE  LET e == PeerClose(c, fin, dack, closes)
         IN  /\ Calm(c, e)
             /\ Sock(e).got = Sock(c).got /\ Sock(e).ooo = Sock(c).ooo
             /\ Sock(e).finSeq # None
<1>. DEFINE m == Sock(c)
            n == [m EXCEPT !.finSeq = fin]
            ignored == fin < NextRx(m) \/ (m.finSeq # None /\ m.finSeq < fin)
            e == PeerClose(c, fin, dack, closes)
            c1 == On(c, n)
<1>0. /\ m \in MetaSocket(h) /\ m \in Shape /\ Peer(h) \in Hosts /\ Flow(r, m)
      /\ r.written \in Nat /\ r.highTx \in Nat /\ m.got \in Nat
  BY Peers, ShapeOfSocket, Fields DEF Safe, Good
<1>1. fin \in Nat /\ fin # None
  BY <1>0 DEF None
<1>2. CASE ignored
  <2>1. e = c
    BY <1>2 DEF PeerClose
  <2>2. m.finSeq # None
    <3>1. SUFFICES ASSUME m.finSeq = None PROVE FALSE
      OBVIOUS
    <3>2. fin < m.got /\ fin = r.written
      BY <1>0, <1>2, <3>1 DEF NextRx, Finished, None
    <3>. QED BY <1>0, <3>2 DEF Flow, Counts
  <2>. QED BY <1>0, <2>1, <2>2, StillNothing DEF Still
<1>3. CASE ~ignored
  <2>1. n \in Shape /\ Works(m, n) /\ n.got = m.got /\ n.ooo = m.ooo /\ n.finSeq = fin
    <3>1. n \in Shape
      BY <1>0, <1>1 DEF Shape
    <3>2. Works(m, n) /\ n.got = m.got /\ n.ooo = m.ooo /\ n.finSeq = fin
      BY <1>0 DEF Shape, Works, Open
    <3>. QED BY <3>1, <3>2
  <2>2. Calm(c, c1) /\ Sock(c1) = n
    <3>. HIDE DEF n
    <3>. QED BY <2>1, OnSock DEF Calm
  <2>3. Still(c1, e)
    <3>1. CASE ~Finished(n)
      <4>1. e = c1
        BY <1>3, <3>1 DEF PeerClose
      <4>. HIDE DEF c1, n
      <4>. QED BY <2>1, <2>2, <4>1, StillNothing
    <3>2. CASE Finished(n) /\ n.state = "FinWait1"
      <4>. DEFINE k == [n EXCEPT !.state = "Closing"]
                  d == SendDataAck(On(c, k))
      <4>1. k \in Shape /\ Works(n, k) /\ SameBytes(n, k)
        <5>1. k \in Shape
          BY <2>1 DEF Shape, States
        <5>2. Works(n, k) /\ SameBytes(n, k)
          <6>. HIDE DEF n
          <6>. QED BY <2>1 DEF Shape, Works, SameBytes, Open
        <5>. QED BY <5>1, <5>2
      <4>2. On(c, k) = On(c1, k)
        BY DEF On, Out, Cap
      <4>3. Still(c1, d) /\ Sock(d) \in Shape
        <5>. HIDE DEF k, c1, n
        <5>1. Still(c1, On(c1, k)) /\ Sock(On(c1, k)) = k
          BY <2>2, <4>1, StillOn
        <5>2. Still(On(c1, k), SendDataAck(On(c1, k)))
          BY <4>1, <5>1, SendEmptyStill DEF SendDataAck
        <5>. QED BY <4>2, <5>1, <5>2, StillAfter DEF Still, Calm
      <4>4. Still(c1, On(d, TimeWait(CloseAllSubflows(Sock(d)))))
        <5>. HIDE DEF d, c1
        <5>. DEFINE x == CloseAllSubflows(Sock(d))
        <5>1. x \in Shape /\ Works(Sock(d), x) /\ SameBytes(Sock(d), x)
          BY <4>3, CloseAllSubflowsStill
        <5>. HIDE DEF x
        <5>2. TimeWait(x) \in Shape /\ Works(x, TimeWait(x)) /\ SameBytes(x, TimeWait(x))
          BY <5>1, TimeWaitStill
        <5>3. Works(Sock(d), TimeWait(x)) /\ SameBytes(Sock(d), TimeWait(x))
          BY <5>1, <5>2 DEF Works, SameBytes
        <5>4. Still(d, On(d, TimeWait(x)))
          BY <5>2, <5>3, StillOn
        <5>. QED BY <4>3, <5>4, StillAfter DEF x
      <4>5. e \in {d, On(d, TimeWait(CloseAllSubflows(Sock(d))))}
        BY <1>3, <3>2 DEF PeerClose
      <4>. HIDE DEF d, c1, e
      <4>. QED BY <4>3, <4>4, <4>5
    <3>3. CASE Finished(n) /\ n.state = "FinWait2"
      <4>. DEFINE d == SendDataAck(c1)
      <4>1. e = On(d, TimeWait(Sock(d)))
        BY <1>3, <3>3 DEF PeerClose
      <4>. HIDE DEF c1, n, e
      <4>2. Still(c1, d) /\ Sock(d) \in Shape
        BY <2>1, <2>2, SendEmptyStill DEF SendDataAck, Still, Calm
      <4>. HIDE DEF d
      <4>3. Still(d, On(d, TimeWait(Sock(d))))
        BY <4>2, TimeWaitStill, StillOn
      <4>. QED BY <4>1, <4>2, <4>3, StillAfter
    <3>4. CASE Finished(n) /\ n.state \notin {"FinWait1", "FinWait2"}
      <4>1. e = DoPeerClose(c1, closes)
        BY <1>3, <3>4 DEF PeerClose
      <4>. HIDE DEF c1, n, e
      <4>. QED BY <2>1, <2>2, <4>1, DoPeerCloseStill
    <3>. QED BY <3>1, <3>2, <3>3, <3>4
  <2>. HIDE DEF c1, n, e, m
  <2>4. Calm(c, e)
    BY <2>2, <2>3, CalmAfter DEF Still
  <2>5. Sock(e).got = m.got /\ Sock(e).ooo = m.ooo /\ Sock(e).finSeq # None
    BY <1>1, <2>1, <2>2, <2>3 DEF Still, SameBytes
  <2>. QED BY <2>4, <2>5 DEF m, e
<1>. QED BY <1>2, <1>3

(* What host m receives with the packet p: nothing, or the packet's byte    *)
(* and, if the packet has a DATA_FIN, where the stream ends.                *)
Takes(m, n, p) ==
  \/ SameBytes(m, n)
  \/ /\ m.got <= n.got
     /\ n.finSeq = None =>
          /\ m.finSeq = None /\ p.fin = None
          /\ \A x \in Nat : Has(n, x) => Has(m, x) \/ x = p.data

(* A packet arrives. *)
LEMMA ReceiveTakes ==
  ASSUME IInv, NEW h \in Hosts, NEW p \in net[Peer(h)], NEW closes \in BOOLEAN,
         Receive(h, p, closes)
  PROVE  \E d : /\ Calm(At(h), d) /\ Takes(meta[h], Sock(d), p)
                /\ meta' = [meta EXCEPT ![h] = Sock(d)]
                /\ net' = [net EXCEPT ![h] = Out(d), ![Peer(h)] = net[Peer(h)] \ {p}]
<1>. DEFINE m       == meta[h]
            c       == At(h)
            r       == meta[Peer(h)]
            rout    == net[Peer(h)]
            acked   == IF p.dack = None THEN c ELSE On(c, ReceivedAck(m, p.dack))
            handled == Process(acked, p, closes)
            all     == IF p.fin = None THEN handled
                       ELSE PeerClose(handled, p.fin, Max2(p.dack, 0), closes)
            done    == IF p.data # None /\ p.data + 1 < m.got THEN SendEmpty(c, FALSE) ELSE all
<1>1. /\ Safe(h, c, r, rout) /\ r \in MetaSocket(Peer(h)) /\ Peer(h) \in Hosts
      /\ Good(Peer(h), r, rout) /\ Sock(c) = m /\ m \in MetaSocket(h) /\ m \in Shape
  BY Sides, ShapeOfSocket
<1>2. /\ p \in Packet(Peer(h)) /\ Counts(r)
      /\ p.data < r.highTx /\ p.dack <= NextRx(r) /\ p.ack <= r.got
  BY <1>1 DEF Good, Honest
<1>3. p.dack # None => p.dack \in Nat
  <2>1. Limit[h] \in Nat /\ Peer(Peer(h)) = h
    BY Peers, CloseAssumption DEF CloseAssumption
  <2>. QED BY <1>2, <2>1 DEF Packet
<1>4. /\ meta' = [meta EXCEPT ![h] = Sock(done)]
      /\ net' = [net EXCEPT ![h] = Out(done), ![Peer(h)] = rout \ {p}]
  <2>1. net' = [net EXCEPT ![h] = Out(done), ![Peer(h)] = @ \ {p}]
    BY DEF Receive
  <2>2. net' = [net EXCEPT ![h] = Out(done), ![Peer(h)] = rout \ {p}]
    <3>. HIDE DEF done
    <3>. QED BY <2>1, Peers DEF IInv
  <2>. QED BY <2>2 DEF Receive
<1>5. Safe(h, acked, r, rout) /\ Still(c, acked)
  <2>1. Safe(h, acked, r, rout)
    <3>. HIDE DEF c, m, r, rout
    <3>. QED BY <1>1, <1>2, <1>3, ReceivedAckKeeps
  <2>2. Still(c, c)
    BY <1>1, StillNothing
  <2>3. ASSUME p.dack # None PROVE Still(c, On(c, ReceivedAck(m, p.dack)))
    <3>. HIDE DEF c, m
    <3>. QED BY <1>1, <1>3, <2>3, ReceivedAckStill, StillOn
  <2>. QED BY <2>1, <2>2, <2>3
<1>6. /\ Safe(h, handled, r, rout) /\ Calm(c, handled)
      /\ Gains(m, Sock(handled), p.data)
  <2>. HIDE DEF acked, r, rout, c
  <2>1. Safe(h, handled, r, rout)
    BY <1>1, <1>2, <1>5, ProcessKeeps
  <2>2. Calm(acked, handled) /\ Gains(Sock(acked), Sock(handled), p.data)
    BY <1>2, <1>5, ProcessGains DEF Safe, Good
  <2>3. Gains(m, Sock(handled), p.data)
    <3>. HIDE DEF handled, m
    <3>. QED BY <1>1, <1>5, <2>2 DEF Still, SameBytes, Gains, Has
  <2>. QED BY <1>5, <2>1, <2>2, <2>3, CalmAfter DEF Still
<1>7. Calm(c, all) /\ Takes(m, Sock(all), p)
  <2>. HIDE DEF handled, c, m
  <2>1. CASE p.fin = None
    BY <1>6, <2>1 DEF Takes, Gains
  <2>2. CASE p.fin # None
    <3>. DEFINE e == PeerClose(handled, p.fin, Max2(p.dack, 0), closes)
    <3>1. p.fin = r.written \/ (p.fin = r.written + 1 /\ Finished(Sock(handled)))
      BY <1>6, <2>2 DEF Safe, Fins
    <3>2. /\ Calm(handled, e) /\ Sock(e).got = Sock(handled).got
          /\ Sock(e).finSeq # None
      <4>. HIDE DEF r, rout
      <4>. QED BY <1>1, <1>2, <1>6, <3>1, PeerCloseEnds
    <3>3. all = e
      BY <2>2
    <3>. HIDE DEF e, all
    <3>. QED BY <1>6, <3>2, <3>3, CalmAfter DEF Takes, Gains
  <2>. QED BY <2>1, <2>2
<1>8. Calm(c, done) /\ Takes(m, Sock(done), p)
  <2>1. Still(c, SendEmpty(c, FALSE))
    BY <1>1, SendEmptyStill
  <2>. HIDE DEF all, c, m
  <2>. QED BY <1>1, <1>7, <2>1 DEF Still, Takes
<1>. HIDE DEF done
<1>. QED BY <1>4, <1>8

-----------------------------------------------------------------------------
(* From c to e the byte d is sent, with the DATA_FIN if fin. *)
Emits(c, e, d, fin) ==
  LET m == Sock(c)
      n == Sock(e)
  IN
  /\ n \in Shape /\ n.written = m.written /\ n.highTx = m.highTx
  /\ n.shutdownSend = m.shutdownSend /\ n.closeOnEmpty = m.closeOnEmpty
  /\ n.closeNotified = m.closeNotified /\ n.retx = m.retx /\ SameBytes(m, n)
  /\ n.state = "Established" => m.state = "Established" /\ ~fin
  /\ n.state = "FinWait1" => m.state = "FinWait1" \/ (m.state = "Established" /\ fin)
  /\ Open(n) => Open(m)
  /\ \A p \in Out(e) : p \in Out(c) \/ (p.data = d /\ p.fin = IF fin THEN d + 1 ELSE None)

LEMMA SendDataEmits ==
  ASSUME NEW c, Sock(c) \in Shape, NEW d \in Int
  PROVE  Emits(c, SendData(c, d), d, CheckAndAppendDataFin(Sock(c), d))
<1>. DEFINE m   == Sock(c)
            fin == CheckAndAppendDataFin(m, d)
            to  == IF ~fin THEN m.state
                   ELSE CASE m.state = "Established" -> "FinWait1"
                          [] m.state = "CloseWait"   -> "LastAck"
                          [] OTHER                   -> m.state
            k   == [m EXCEPT !.state = to]
            n   == [k EXCEPT !.dackDue = FALSE]
            p   == [data |-> d, fin |-> IF fin THEN d + 1 ELSE None, ack |-> k.got,
                    dack |-> NextRx(k)]
            e   == SendData(c, d)
<1>1. to \in States
  BY DEF Shape, States
<1>2. k \in Shape
  <2>. HIDE DEF to
  <2>. QED BY <1>1 DEF Shape
<1>3. /\ n \in Shape /\ n.written = m.written /\ n.highTx = m.highTx
      /\ n.shutdownSend = m.shutdownSend /\ n.closeOnEmpty = m.closeOnEmpty
      /\ n.closeNotified = m.closeNotified /\ n.retx = m.retx /\ SameBytes(m, n)
      /\ n.state = to
  <2>. HIDE DEF to
  <2>1. n \in Shape
    <3>. HIDE DEF k
    <3>. QED BY <1>2 DEF Shape
  <2>. QED BY <1>2, <2>1 DEF Shape, SameBytes
<1>4. e = Put(On(c, k), d, IF fin THEN d + 1 ELSE None, TRUE)
  BY DEF SendData
<1>5. Sock(e) = n /\ (Out(e) = Out(c) \/ Out(e) = Out(c) \cup {p})
  <2>. HIDE DEF k, fin
  <2>1. Sock(On(c, k)) = k /\ Out(On(c, k)) = Out(c)
    BY OnSock
  <2>. QED BY <1>4, <2>1 DEF Put, Sock, Out
<1>6. /\ n.state = "Established" => m.state = "Established" /\ ~fin
      /\ n.state = "FinWait1" => m.state = "FinWait1" \/ (m.state = "Established" /\ fin)
      /\ Open(n) => Open(m)
  <2>. HIDE DEF n, m, fin
  <2>. QED BY <1>3 DEF Open
<1>7. \A q \in Out(e) :
        q \in Out(c) \/ (q.data = d /\ q.fin = IF fin THEN d + 1 ELSE None)
  <2>1. p.data = d /\ p.fin = IF fin THEN d + 1 ELSE None
    OBVIOUS
  <2>. HIDE DEF p, e, fin
  <2>. QED BY <1>5, <2>1
<1>. HIDE DEF n, e, m, fin
<1>8. Emits(c, e, d, fin)
  BY <1>3, <1>5, <1>6, <1>7 DEF Emits, m
<1>. QED BY <1>8 DEF e, m, fin

-----------------------------------------------------------------------------
(* The steps of a host that send and receive no data. *)

(* What the invariant says of a host that acts. *)
LEMMA StillSides ==
  ASSUME IInv, NEW h \in Hosts
  PROVE  /\ Sock(At(h)) = meta[h] /\ Out(At(h)) = net[h] /\ meta[h] \in Shape
         /\ meta[h] \in MetaSocket(h) /\ Counts(meta[h])
         /\ meta[Peer(h)] \in MetaSocket(Peer(h)) /\ meta[Peer(h)].got \in Nat
         /\ Safe(h, At(h), meta[Peer(h)], net[Peer(h)]) /\ Flow(meta[h], meta[Peer(h)])
<1>1. Peer(h) \in Hosts
  BY Peers
<1>. QED BY <1>1, Sides, ShapeOfSocket, Fields DEF Safe, Good

(* While the peer has not got the DATA_FIN, the send buffer ends with the *)
(* last byte written.                                                     *)
LEMMA BeforeTheEnd ==
  ASSUME NEW h \in Hosts, NEW m \in MetaSocket(h), NEW r \in MetaSocket(Peer(h)),
         Counts(m), Flow(m, r), r.finSeq = None
  PROVE  TxTail(m) = m.written /\ r.got <= m.highTx /\ m.highTx <= m.written
<1>1. Peer(h) \in Hosts
  BY Peers
<1>2. m.written \in Nat /\ m.txHead \in Nat /\ m.highTx \in Nat
  BY Fields
<1>3. r.got \in Nat
  BY <1>1, Fields
<1>4. NextRx(r) = r.got
  BY <1>3 DEF NextRx, None
<1>5. m.highTx <= m.written /\ m.txHead <= r.got /\ r.got <= m.highTx
  BY <1>4 DEF Counts, Flow
<1>. QED BY <1>2, <1>3, <1>5 DEF TxTail, Max2

LEMMA AppCloseStill ==
  ASSUME IInv, NEW h \in Hosts, AppClose(h)
  PROVE  \E d : Still(At(h), d) /\ Becomes(h, d)
<1>1. Paced(meta[h])
  <2>. SUFFICES ASSUME meta[h].state = "Established"
       PROVE  meta[h].highTx <= meta[h].nextTx /\ meta[h].txHead <= meta[h].written
    BY DEF Paced
  <2>. DEFINE m == meta[h]
              r == meta[Peer(h)]
  <2>1. m \in MetaSocket(h) /\ r \in MetaSocket(Peer(h)) /\ Counts(m) /\ Flow(m, r)
    BY StillSides
  <2>2. r.finSeq = None
    BY <2>1 DEF Flow, Open
  <2>3. m.written \in Nat /\ m.txHead \in Nat /\ m.highTx \in Nat
    BY <2>1, Fields
  <2>4. TxTail(m) = m.written /\ m.nextTx = Max2(m.highTx, m.txHead)
    BY <2>1, <2>2, BeforeTheEnd DEF Counts
  <2>. HIDE DEF m, r
  <2>5. m.highTx <= m.nextTx /\ m.txHead <= m.written
    BY <2>3, <2>4 DEF TxTail, Max2
  <2>. QED BY <2>5 DEF m
<1>2. Still(At(h), Close(At(h)))
  BY <1>1, StillSides, CloseStill
<1>. QED BY <1>2 DEF AppClose

(* ShutdownSend sends the DATA_FIN before the state changes. *)
LEMMA AppShutdownSendEnds ==
  ASSUME IInv, NEW h \in Hosts, AppShutdownSend(h)
  PROVE  \E d : /\ Becomes(h, d) /\ Sock(d).shutdownSend /\ Onward(meta[h], Sock(d))
                /\ SameBytes(meta[h], Sock(d))
<1>. DEFINE m    == [meta[h] EXCEPT !.shutdownSend = TRUE, !.closeOnEmpty = TRUE]
            c    == On(At(h), m)
            fin  == SendDataFin(c, FALSE)
            next == IF m.state = "Established" THEN "FinWait1" ELSE "LastAck"
            k    == [Sock(fin) EXCEPT !.state = next]
            d    == IF TxEmpty(m) /\ m.state \in {"Established", "CloseWait"}
                      THEN On(fin, k) ELSE c
<1>1. /\ m \in Shape /\ m.shutdownSend /\ SameBytes(meta[h], m) /\ m.state = meta[h].state
      /\ m.written = meta[h].written /\ m.closeNotified = meta[h].closeNotified
      /\ meta[h].got \in Nat
  <2>1. meta[h] \in Shape /\ meta[h].got \in Nat
    BY StillSides, Fields
  <2>. QED BY <2>1 DEF Shape, SameBytes
<1>2. Becomes(h, d)
  BY DEF AppShutdownSend
<1>3. Sock(c) = m
  BY OnSock
<1>4. Sock(fin) \in Shape /\ SameBytes(m, Sock(fin)) /\ Works(m, Sock(fin))
  <2>. HIDE DEF m, c
  <2>. QED BY <1>1, <1>3, SendDataFinStill DEF Still, Calm
<1>. HIDE DEF fin, m, c
<1>5. /\ k.shutdownSend /\ SameBytes(m, k) /\ k.written = m.written /\ ~Open(k)
      /\ m.closeNotified => k.closeNotified
  <2>1. /\ k.shutdownSend = Sock(fin).shutdownSend /\ k.written = Sock(fin).written
        /\ k.closeNotified = Sock(fin).closeNotified /\ k.state = next
        /\ SameBytes(Sock(fin), k)
    BY <1>4 DEF Shape, SameBytes
  <2>. HIDE DEF k
  <2>. QED BY <1>1, <1>4, <2>1 DEF Works, SameBytes, Open
<1>. HIDE DEF k
<1>6. Onward(meta[h], m) /\ Onward(meta[h], k) /\ SameBytes(meta[h], k)
  BY <1>1, <1>5 DEF Onward, SameBytes, Open
<1>7. Sock(d) \in {m, k}
  BY <1>3, OnSock
<1>. HIDE DEF d
<1>. QED BY <1>1, <1>2, <1>5, <1>6, <1>7

(* The timer that expired is scheduled again. *)
LEMMA DataFinTimeoutStill ==
  ASSUME IInv, NEW h \in Hosts, DataFinTimeout(h)
  PROVE  \E d : Still(At(h), d) /\ Becomes(h, d)
<1>. DEFINE m == meta[h]
            k == [m EXCEPT !.retx = FALSE]
            c == On(At(h), k)
            d == SendDataFin(c, FALSE)
<1>1. Becomes(h, d)
  BY DEF DataFinTimeout
<1>2. /\ k \in Shape /\ k.written = m.written /\ k.highTx = m.highTx
      /\ k.shutdownSend = m.shutdownSend /\ k.closeOnEmpty = m.closeOnEmpty
      /\ k.closeNotified = m.closeNotified /\ k.state = m.state /\ SameBytes(m, k)
  <2>1. m \in Shape
    BY StillSides
  <2>. QED BY <2>1 DEF Shape, SameBytes
<1>3. Sock(c) = k /\ Out(c) = Out(At(h))
  BY OnSock
<1>4. Still(c, d) /\ Sock(d).retx
  <2>. HIDE DEF k, c
  <2>. QED BY <1>2, <1>3, SendDataFinStill
<1>. HIDE DEF k, c, d
<1>5. Works(m, Sock(d)) /\ SameBytes(m, Sock(d))
  BY <1>2, <1>3, <1>4 DEF Still, Calm, Works, SameBytes, Open
<1>6. Still(At(h), d)
  BY <1>3, <1>4, <1>5, StillSides DEF Still, Calm
<1>. QED BY <1>1, <1>6

LEMMA LastAckTimeoutStill ==
  ASSUME IInv, NEW h \in Hosts, LastAckTimeout(h)
  PROVE  \E d : Still(At(h), d) /\ Becomes(h, d)
<1>. DEFINE m == meta[h]
            k == [m EXCEPT !.lastAck = FALSE, !.closeNotified = TRUE]
            n == IF m.state = "LastAck" THEN CloseAndNotify(m) ELSE k
<1>1. m \in Shape /\ Becomes(h, On(At(h), n))
  BY StillSides DEF LastAckTimeout
<1>2. k \in Shape /\ Works(m, k) /\ SameBytes(m, k)
  BY <1>1 DEF Shape, Works, SameBytes, Open
<1>3. n \in Shape /\ Works(m, n) /\ SameBytes(m, n)
  <2>. HIDE DEF k
  <2>. QED BY <1>1, <1>2, CloseAndNotifyStill
<1>. HIDE DEF n
<1>4. Still(At(h), On(At(h), n))
  BY <1>3, StillSides, StillOn
<1>. QED BY <1>1, <1>4

LEMMA TimeWaitTimeoutStill ==
  ASSUME IInv, NEW h \in Hosts, TimeWaitTimeout(h)
  PROVE  \E d : Still(At(h), d) /\ Becomes(h, d)
<1>1. Still(At(h), On(At(h), CloseAndNotify(meta[h])))
  BY StillSides, CloseAndNotifyStill, StillOn
<1>. QED BY <1>1 DEF TimeWaitTimeout

LEMMA GiveUpStill ==
  ASSUME IInv, NEW h \in Hosts, GiveUp(h)
  PROVE  \E d : Still(At(h), d) /\ Becomes(h, d)
<1>. DEFINE m == meta[h]
            n == [m EXCEPT !.stop = "subflow dropped"]
<1>1. Sock(At(h)) = m /\ m \in Shape
  BY StillSides
<1>2. n \in Shape /\ Works(m, n) /\ SameBytes(m, n)
  BY <1>1 DEF Shape, Stops, Works, SameBytes, Open
<1>3. Becomes(h, On(At(h), n))
  BY DEF GiveUp
<1>. HIDE DEF m, n
<1>4. Still(At(h), On(At(h), n))
  BY <1>1, <1>2, StillOn
<1>. QED BY <1>3, <1>4

-----------------------------------------------------------------------------
(* The DATA_FIN is not forgotten. *)

(* Close was deferred: the last byte was not sent yet.  Send may still add *)
(* bytes, and ShutdownSend may end the stream with nothing left to send.   *)
Deferred(m) ==
  m.closeOnEmpty /\ ~m.shutdownSend /\ m.state = "Established" => m.highTx < m.written

(* In FIN_WAIT_1 without a timer, the DATA_FIN rides on the last byte: the *)
(* peer r does not have the byte, and every copy in flight carries it.     *)
Rides(m, out, r) ==
  m.state = "FinWait1" /\ ~m.shutdownSend /\ ~m.retx /\ r.finSeq = None =>
    /\ m.closeOnEmpty /\ m.highTx = m.written
    /\ r.got < m.written /\ m.written - 1 \notin r.ooo
    /\ \A p \in out : p.data = m.written - 1 => p.fin = m.written

Kept(m, out, r) == Deferred(m) /\ Rides(m, out, r)

FinInv ==
  IInv /\ \A h \in Hosts : Kept(meta[h], net[h], meta[Peer(h)])

(* Sending nothing forgets nothing. *)
LEMMA CalmKept ==
  ASSUME NEW c, NEW d, Calm(c, d), NEW r, r.got \in Nat, Kept(Sock(c), Out(c), r),
         Sock(c) \in Shape
  PROVE  Kept(Sock(d), Out(d), r)
<1>. DEFINE m == Sock(c)
            n == Sock(d)
<1>1. Works(m, n) /\ Deferred(m) /\ Rides(m, Out(c), r) /\ n \in Shape
      /\ m.written \in Int /\ \A p \in Out(d) : p \in Out(c) \/ p.data = None
  BY DEF Calm, Kept, Shape
<1>. HIDE DEF m, n
<1>2. Deferred(n)
  BY <1>1 DEF Deferred, Works
<1>3. Rides(n, Out(d), r)
  <2>. SUFFICES ASSUME n.state = "FinWait1", ~n.shutdownSend, ~n.retx, r.finSeq = None
       PROVE  /\ n.closeOnEmpty /\ n.highTx = n.written
              /\ r.got < n.written /\ n.written - 1 \notin r.ooo
              /\ \A p \in Out(d) : p.data = n.written - 1 => p.fin = n.written
    BY DEF Rides
  <2>1. /\ m.state = "FinWait1" /\ ~m.shutdownSend /\ ~m.retx
        /\ n.written = m.written /\ n.highTx = m.highTx
        /\ m.closeOnEmpty => n.closeOnEmpty
    BY <1>1 DEF Works
  <2>2. /\ m.closeOnEmpty /\ m.highTx = m.written
        /\ r.got < m.written /\ m.written - 1 \notin r.ooo
        /\ \A p \in Out(c) : p.data = m.written - 1 => p.fin = m.written
    BY <1>1, <2>1 DEF Rides
  <2>3. None # m.written - 1
    BY <1>1, <2>2 DEF None
  <2>. QED BY <1>1, <2>1, <2>2, <2>3
<1>. QED BY <1>2, <1>3 DEF Kept, n

(* What the peer receives: with the last byte it receives the DATA_FIN. *)
LEMMA TakesKept ==
  ASSUME NEW h \in Hosts, NEW m \in MetaSocket(h), NEW out, NEW r \in MetaSocket(Peer(h)),
         NEW s \in Shape, NEW p \in out, Takes(r, s, p), NEW left \in SUBSET out,
         Kept(m, out, r)
  PROVE  Kept(m, left, s)
<1>1. Rides(m, left, s)
  <2>. SUFFICES ASSUME m.state = "FinWait1", ~m.shutdownSend, ~m.retx, s.finSeq = None
       PROVE  /\ m.closeOnEmpty /\ m.highTx = m.written
              /\ s.got < m.written /\ m.written - 1 \notin s.ooo
              /\ \A q \in left : q.data = m.written - 1 => q.fin = m.written
    BY DEF Rides
  <2>1. r.finSeq = None
    BY DEF Takes, SameBytes
  <2>2. /\ m.closeOnEmpty /\ m.highTx = m.written
        /\ r.got < m.written /\ m.written - 1 \notin r.ooo
        /\ \A q \in out : q.data = m.written - 1 => q.fin = m.written
    BY <2>1 DEF Kept, Rides
  <2>3. m.written \in Nat /\ r.got \in Nat /\ Peer(h) \in Hosts /\ s.got \in Int
    BY Peers, Fields DEF Shape
  <2>4. s.got < m.written /\ m.written - 1 \notin s.ooo
    <3>1. CASE SameBytes(r, s)
      BY <2>2, <3>1 DEF SameBytes
    <3>2. CASE ~SameBytes(r, s)
      <4>. DEFINE last == m.written - 1
      <4>1. last \in Nat /\ ~Has(r, last)
        BY <2>2, <2>3 DEF Has
      <4>2. p.fin = None
        BY <3>2 DEF Takes
      <4>3. p.data # last
        BY <2>2, <2>3, <4>2 DEF None
      <4>. HIDE DEF last
      <4>4. ~Has(s, last)
        BY <3>2, <4>1, <4>3 DEF Takes
      <4>5. ~(last < s.got) /\ last \notin s.ooo
        BY <4>4 DEF Has
      <4>. QED BY <2>3, <4>1, <4>5 DEF last
    <3>. QED BY <3>1, <3>2
  <2>. QED BY <2>2, <2>4
<1>. QED BY <1>1 DEF Kept

(* A byte that was sent before: the last one with the DATA_FIN. *)
LEMMA SendAgainKept ==
  ASSUME NEW h \in Hosts, NEW c, NEW r \in MetaSocket(Peer(h)), NEW rout,
         Safe(h, c, r, rout), NEW d \in Nat, d < Sock(c).highTx,
         Kept(Sock(c), Out(c), r)
  PROVE  Kept(Sock(SendData(c, d)), Out(SendData(c, d)), r)
<1>. DEFINE m   == Sock(c)
            e   == SendData(c, d)
            n   == Sock(e)
            fin == CheckAndAppendDataFin(m, d)
<1>0. /\ m \in MetaSocket(h) /\ m \in Shape /\ Counts(m) /\ Flow(m, r)
      /\ m.highTx \in Nat /\ m.written \in Nat /\ d < m.highTx
      /\ Deferred(m) /\ Rides(m, Out(c), r)
  BY ShapeOfSocket, Fields DEF Safe, Good, Kept
<1>1. /\ n \in Shape /\ n.written = m.written /\ n.highTx = m.highTx
      /\ n.shutdownSend = m.shutdownSend /\ n.closeOnEmpty = m.closeOnEmpty
      /\ n.retx = m.retx
      /\ n.state = "Established" => m.state = "Established" /\ ~fin
      /\ n.state = "FinWait1" => m.state = "FinWait1" \/ (m.state = "Established" /\ fin)
      /\ \A p \in Out(e) :
           p \in Out(c) \/ (p.data = d /\ p.fin = IF fin THEN d + 1 ELSE None)
  <2>1. Emits(c, e, d, fin)
    BY <1>0, SendDataEmits
  <2>. HIDE DEF e, fin
  <2>. QED BY <2>1 DEF Emits
<1>2. r.finSeq = None => TxTail(m) = m.written
  BY <1>0, BeforeTheEnd
<1>3. fin <=> m.closeOnEmpty /\ TxTail(m) - (d + 1) = 0
  BY DEF CheckAndAppendDataFin
<1>. HIDE DEF m, e, n, fin
<1>4. Deferred(n)
  BY <1>0, <1>1 DEF Deferred
<1>5. Rides(n, Out(e), r)
  <2>. SUFFICES ASSUME n.state = "FinWait1", ~n.shutdownSend, ~n.retx, r.finSeq = None
       PROVE  /\ n.closeOnEmpty /\ n.highTx = n.written
              /\ r.got < n.written /\ n.written - 1 \notin r.ooo
              /\ \A p \in Out(e) : p.data = n.written - 1 => p.fin = n.written
    BY DEF Rides
  <2>1. ~(m.state = "Established" /\ fin)
    <3>1. SUFFICES ASSUME m.state = "Established", fin PROVE FALSE
      OBVIOUS
    <3>2. m.highTx < m.written
      BY <1>0, <1>1, <1>3, <3>1 DEF Deferred
    <3>3. d + 1 = m.written
      BY <1>0, <1>2, <1>3, <3>1
    <3>. QED BY <1>0, <3>2, <3>3
  <2>2. /\ m.closeOnEmpty /\ m.highTx = m.written
        /\ r.got < m.written /\ m.written - 1 \notin r.ooo
        /\ \A p \in Out(c) : p.data = m.written - 1 => p.fin = m.written
    BY <1>0, <1>1, <2>1 DEF Rides
  <2>3. d = m.written - 1 => fin /\ d + 1 = m.written
    BY <1>0, <1>2, <1>3, <2>2
  <2>. QED BY <1>1, <2>2, <2>3
<1>. QED BY <1>4, <1>5 DEF Kept, n, e

(* The next byte: the last one takes the DATA_FIN that Close deferred. *)
LEMMA SendNextKept ==
  ASSUME NEW h \in Hosts, NEW c, NEW r \in MetaSocket(Peer(h)), NEW rout,
         Safe(h, c, r, rout), NEW d \in Nat, Sock(c).nextTx = d, Sock(c).highTx = d,
         d < Sock(c).written, Kept(Sock(c), Out(c), r)
  PROVE  Kept(Sock(Advance(SendData(c, d))), Out(Advance(SendData(c, d))), r)
<1>. DEFINE m   == Sock(c)
            y   == Advance(c)
            k   == Sock(y)
            e   == SendData(y, d)
            n   == Sock(e)
            fin == CheckAndAppendDataFin(k, d)
<1>0. /\ m \in MetaSocket(h) /\ m \in Shape /\ Counts(m) /\ Flow(m, r)
      /\ m.written \in Nat /\ Deferred(m) /\ Rides(m, Out(c), r)
      /\ \A p \in Out(c) : p.data < d
      /\ m.highTx = d /\ d < m.written
  BY ShapeOfSocket, Fields DEF Safe, Good, Kept, Honest
<1>1. /\ Out(y) = Out(c) /\ k \in Shape /\ k.written = m.written /\ k.highTx = d + 1
      /\ k.txHead = m.txHead /\ k.shutdownSend = m.shutdownSend
      /\ k.closeOnEmpty = m.closeOnEmpty /\ k.retx = m.retx /\ k.state = m.state
  <2>1. k = [m EXCEPT !.nextTx = @ + 1, !.highTx = @ + 1] /\ Out(y) = Out(c)
    BY OnSock DEF Advance
  <2>2. k \in Shape
    <3>. DEFINE x == m.nextTx + 1
                z == m.highTx + 1
    <3>1. k = [m EXCEPT !.nextTx = x, !.highTx = z] /\ x \in Int /\ z \in Int
      BY <1>0, <2>1 DEF Shape
    <3>. HIDE DEF x, z, k, m
    <3>. QED BY <1>0, <3>1 DEF Shape
  <2>. HIDE DEF k
  <2>. QED BY <1>0, <2>1, <2>2 DEF Shape
<1>2. /\ n \in Shape /\ n.written = k.written /\ n.highTx = k.highTx
      /\ n.shutdownSend = k.shutdownSend /\ n.closeOnEmpty = k.closeOnEmpty
      /\ n.retx = k.retx
      /\ n.state = "Established" => k.state = "Established" /\ ~fin
      /\ n.state = "FinWait1" => k.state = "FinWait1" \/ (k.state = "Established" /\ fin)
      /\ \A p \in Out(e) :
           p \in Out(y) \/ (p.data = d /\ p.fin = IF fin THEN d + 1 ELSE None)
  <2>. HIDE DEF y
  <2>1. Emits(y, e, d, fin)
    BY <1>1, SendDataEmits
  <2>. HIDE DEF e, fin
  <2>. QED BY <2>1 DEF Emits
<1>3. r.finSeq = None => TxTail(k) = m.written /\ r.got <= d
  <2>1. TxTail(k) = TxTail(m)
    BY <1>1 DEF TxTail
  <2>. QED BY <1>0, <2>1, BeforeTheEnd
<1>4. fin <=> k.closeOnEmpty /\ TxTail(k) - (d + 1) = 0
  BY DEF CheckAndAppendDataFin
<1>5. e = Advance(SendData(c, d))
  BY <1>0, SendThenAdvance
<1>6. m.state = "Established" => r.finSeq = None
  BY <1>0 DEF Flow, Open
<1>7. \A x \in r.ooo : x < d
  BY <1>0 DEF Flow
<1>. HIDE DEF m, y, k, e, n, fin
<1>8. Deferred(n)
  BY <1>0, <1>1, <1>2, <1>3, <1>4, <1>6 DEF Deferred
<1>9. Rides(n, Out(e), r)
  <2>. SUFFICES ASSUME n.state = "FinWait1", ~n.shutdownSend, ~n.retx, r.finSeq = None
       PROVE  /\ n.closeOnEmpty /\ n.highTx = n.written
              /\ r.got < n.written /\ n.written - 1 \notin r.ooo
              /\ \A p \in Out(e) : p.data = n.written - 1 => p.fin = n.written
    BY DEF Rides
  <2>1. m.state # "FinWait1"
    BY <1>0, <1>1, <1>2 DEF Rides
  <2>2. fin /\ m.closeOnEmpty
    BY <1>1, <1>2, <1>4, <2>1
  <2>3. d + 1 = m.written
    BY <1>0, <1>3, <1>4, <2>2
  <2>4. n.written - 1 = d /\ n.closeOnEmpty /\ n.highTx = n.written /\ n.written = d + 1
    BY <1>1, <1>2, <2>2, <2>3
  <2>5. r.got < n.written
    <3>1. r.got \in Int
      BY ShapeOfSocket, Peers DEF Shape
    <3>. QED BY <1>3, <2>4, <3>1
  <2>6. d \notin r.ooo
    BY <1>7
  <2>7. \A p \in Out(e) : p.data = d => p.fin = d + 1
    BY <1>0, <1>1, <1>2, <2>2
  <2>. QED BY <2>4, <2>5, <2>6, <2>7
<1>. QED BY <1>5, <1>8, <1>9 DEF Kept, n

(* The peer's copy of what h sent, and h's own of what the peer sent: what  *)
(* an operation of h leaves true of both.                                   *)
LEMMA StepKept ==
  ASSUME FinInv, NEW h \in Hosts, NEW d, NEW left \in SUBSET net[Peer(h)],
         Kept(Sock(d), Out(d), meta[Peer(h)]),
         Kept(meta[Peer(h)], left, Sock(d)),
         meta' = [meta EXCEPT ![h] = Sock(d)],
         net' = [net EXCEPT ![h] = Out(d), ![Peer(h)] = left]
  PROVE  \A g \in Hosts : Kept(meta'[g], net'[g], meta'[Peer(g)])
<1>. DEFINE k == Peer(h)
<1>1. k \in Hosts /\ k # h /\ Peer(k) = h /\ \A g \in Hosts : g = h \/ g = k
  BY Peers
<1>2. meta = [g \in Hosts |-> meta[g]] /\ net = [g \in Hosts |-> net[g]]
  BY DEF FinInv, IInv
<1>3. meta'[h] = Sock(d) /\ meta'[k] = meta[k] /\ net'[h] = Out(d) /\ net'[k] = left
  BY <1>1, <1>2
<1>. QED BY <1>1, <1>3

(* An operation of h that takes no packet. *)
LEMMA BecomesKept ==
  ASSUME FinInv, NEW h \in Hosts, NEW d,
         Kept(Sock(d), Out(d), meta[Peer(h)]), SameBytes(meta[h], Sock(d)), Becomes(h, d)
  PROVE  \A g \in Hosts : Kept(meta'[g], net'[g], meta'[Peer(g)])
<1>1. net' = [net EXCEPT ![h] = Out(d), ![Peer(h)] = net[Peer(h)]]
      /\ meta' = [meta EXCEPT ![h] = Sock(d)]
  BY Peers DEF Becomes, FinInv, IInv
<1>2. Kept(meta[Peer(h)], net[Peer(h)], meta[h])
  BY Peers DEF FinInv
<1>3. Kept(meta[Peer(h)], net[Peer(h)], Sock(d))
  BY <1>2 DEF Kept, Rides, SameBytes
<1>. QED BY <1>1, <1>3, StepKept

(* And what FinInv says of it. *)
LEMMA KeptSides ==
  ASSUME FinInv, NEW h \in Hosts
  PROVE  /\ IInv /\ Kept(Sock(At(h)), Out(At(h)), meta[Peer(h)])
         /\ Sock(At(h)) = meta[h] /\ Out(At(h)) = net[h] /\ meta[h] \in Shape
         /\ meta[Peer(h)] \in MetaSocket(Peer(h)) /\ meta[Peer(h)].got \in Nat
         /\ Safe(h, At(h), meta[Peer(h)], net[Peer(h)])
<1>1. IInv /\ Peer(h) \in Hosts
  BY Peers DEF FinInv
<1>. QED BY <1>1, Sides, ShapeOfSocket, Fields DEF FinInv

(* An operation that sends and receives no data. *)
LEMMA StillKept ==
  ASSUME FinInv, NEW h \in Hosts, NEW d, Still(At(h), d), Becomes(h, d)
  PROVE  \A g \in Hosts : Kept(meta'[g], net'[g], meta'[Peer(g)])
<1>1. Kept(Sock(d), Out(d), meta[Peer(h)])
  BY KeptSides, CalmKept DEF Still
<1>2. SameBytes(meta[h], Sock(d))
  BY KeptSides DEF Still
<1>. QED BY <1>1, <1>2, BecomesKept

(* Send after a deferred Close only puts the end further off. *)
LEMMA AppSendKept ==
  ASSUME FinInv, NEW h \in Hosts, AppSend(h)
  PROVE  \A g \in Hosts : Kept(meta'[g], net'[g], meta'[Peer(g)])
<1>. DEFINE m == meta[h]
            w == m.written + 1
            event == m.sendEvent \/ ~m.shutdownSend
            n == [m EXCEPT !.written = w, !.sendEvent = event]
            d == On(At(h), n)
<1>1. m \in Shape /\ m.state = "Established" /\ Becomes(h, d)
  BY KeptSides DEF AppSend
<1>2. m.highTx \in Nat /\ m.written \in Nat /\ m.highTx <= m.written
  BY KeptSides, Fields DEF Safe, Good, Counts
<1>3. /\ n.written = w /\ n.highTx = m.highTx /\ n.state = "Established" /\ SameBytes(m, n)
  BY <1>1 DEF Shape, SameBytes
<1>4. Sock(d) = n
  BY OnSock
<1>. HIDE DEF n, d
<1>5. Kept(Sock(d), Out(d), meta[Peer(h)])
  BY <1>2, <1>3, <1>4 DEF Kept, Deferred, Rides
<1>. QED BY <1>1, <1>3, <1>4, <1>5, BecomesKept

(* What the calls of SendPendingData leave, by induction over them. *)
LEMMA SendPendingDataKept ==
  ASSUME FinInv, NEW h \in Hosts, NEW n \in 0..Limit[h], SendPendingData(h, n)
  PROVE  \E d : /\ Kept(Sock(d), Out(d), meta[Peer(h)]) /\ SameBytes(meta[h], Sock(d))
                /\ Onward(meta[h], Sock(d))
                /\ Becomes(h, d)
<1>. DEFINE m == meta[h]
            c == At(h)
            r == meta[Peer(h)]
            k == [m EXCEPT !.sendEvent = FALSE]
<1>0. /\ Limit[h] \in Nat /\ n \in Nat /\ m.nextTx \in Nat /\ r \in MetaSocket(Peer(h))
      /\ Safe(h, c, r, net[Peer(h)]) /\ Kept(Sock(c), Out(c), r)
      /\ Sock(c) = m /\ m \in Shape /\ r.got \in Nat /\ m.got \in Nat
  BY KeptSides, Sides, Fields, CloseAssumption DEF CloseAssumption
<1>1. PICK f : Calls(h, n, f) /\ Becomes(h, f[n])
  BY <1>0, SentData
<1>2. \A i \in 0..n : Underway(h, r, net[Peer(h)], n, f[i], i)
  BY <1>0, <1>1, SentData, SendPendingDataKeeps
<1>. DEFINE Sent(i) == /\ Kept(Sock(f[i]), Out(f[i]), r) /\ SameBytes(m, Sock(f[i]))
                       /\ Onward(m, Sock(f[i]))
            T == {i \in 0..n : ~Sent(i)}
<1>3. Sent(0)
  <2>1. f[0] = On(c, k)
    BY <1>0, <1>1 DEF After, Calls
  <2>2. k \in Shape /\ Works(m, k) /\ SameBytes(m, k)
    BY <1>0 DEF Shape, Works, SameBytes, Open
  <2>5. Onward(m, k)
    BY <1>0, <2>2 DEF Works, SameBytes, Onward
  <2>. HIDE DEF k, c, m, r
  <2>3. Still(c, On(c, k)) /\ Sock(On(c, k)) = k
    BY <1>0, <2>2, StillOn
  <2>4. Kept(Sock(On(c, k)), Out(On(c, k)), r)
    BY <1>0, <2>3, CalmKept DEF Still
  <2>. QED BY <2>1, <2>2, <2>3, <2>4, <2>5
<1>4. ASSUME NEW i \in 1..n, Sent(i - 1) PROVE Sent(i)
  <2>. DEFINE x == f[i - 1]
              d == m.nextTx + i - 1
              y == SendData(x, d)
  <2>1. i \in Nat /\ i > 0 /\ i - 1 \in 0..n /\ i \in 0..n /\ i - 1 < n /\ d \in Nat
        /\ d = m.nextTx + (i - 1)
    BY <1>0
  <2>2. f[i] = Advance(y)
    <3>1. f[i] = After(h, f[i - 1], i) /\ i # 0
      BY <1>1, <2>1 DEF Calls
    <3>. QED BY <3>1 DEF After
  <2>3. /\ Safe(h, x, r, net[Peer(h)]) /\ Sock(x).nextTx = d /\ Sock(x).highTx = d
        /\ Sock(x).written = m.written /\ d < m.written
    BY <1>2, <2>1 DEF Underway
  <2>4. Kept(Sock(x), Out(x), r) /\ SameBytes(m, Sock(x)) /\ Onward(m, Sock(x))
    BY <1>4
  <2>5. Sock(x) \in Shape
    BY <2>3, ShapeOfSocket DEF Safe, Good
  <2>. HIDE DEF x, d, m, r
  <2>6. Kept(Sock(Advance(y)), Out(Advance(y)), r)
    BY <1>0, <2>1, <2>3, <2>4, SendNextKept
  <2>7. Emits(x, y, d, CheckAndAppendDataFin(Sock(x), d))
    BY <2>1, <2>5, SendDataEmits
  <2>. HIDE DEF y
  <2>8. Sock(y) \in Shape /\ SameBytes(Sock(x), Sock(y)) /\ Onward(m, Sock(y))
    BY <2>4, <2>7 DEF Emits, Onward, SameBytes
  <2>9. Sock(Advance(y)) = [Sock(y) EXCEPT !.nextTx = @ + 1, !.highTx = @ + 1]
    BY OnSock DEF Advance
  <2>10. SameBytes(Sock(y), Sock(Advance(y))) /\ Onward(m, Sock(Advance(y)))
    BY <2>8, <2>9 DEF Shape, SameBytes, Onward, Open
  <2>. QED BY <2>2, <2>4, <2>6, <2>8, <2>10 DEF SameBytes
<1>. HIDE DEF Sent
<1>5. T = {}
  <2>1. SUFFICES ASSUME T # {} PROVE FALSE
    OBVIOUS
  <2>2. T \in SUBSET Nat
    OBVIOUS
  <2>. HIDE DEF T
  <2>3. PICK i \in T : \A y \in T : i <= y
    BY <2>1, <2>2, Least
  <2>. USE DEF T
  <2>4. i # 0 /\ i \in 0..n /\ i \in 1..n
    BY <1>0, <1>3, <2>3
  <2>5. Sent(i - 1)
    <3>1. i - 1 \in 0..n /\ ~(i <= i - 1)
      BY <2>4
    <3>. QED BY <2>3, <3>1
  <2>. QED BY <1>4, <2>3, <2>4, <2>5
<1>6. Sent(n)
  BY <1>0, <1>5
<1>. QED BY <1>1, <1>6 DEF Sent

LEMMA RetransmitKept ==
  ASSUME FinInv, NEW h \in Hosts, NEW d \in 0..Limit[h], Retransmit(h, d)
  PROVE  \A g \in Hosts : Kept(meta'[g], net'[g], meta'[Peer(g)])
<1>1. d \in Nat /\ d < meta[h].highTx /\ Becomes(h, SendData(At(h), d))
  <2>1. Limit[h] \in Nat
    BY CloseAssumption DEF CloseAssumption
  <2>. QED BY <2>1 DEF Retransmit
<1>2. Kept(Sock(SendData(At(h), d)), Out(SendData(At(h), d)), meta[Peer(h)])
  BY <1>1, KeptSides, SendAgainKept
<1>3. SameBytes(meta[h], Sock(SendData(At(h), d)))
  BY <1>1, KeptSides, SendDataEmits DEF Emits
<1>. QED BY <1>1, <1>2, <1>3, BecomesKept

(* What arrives changes what h knows of its own stream, and what it has of *)
(* its peer's.                                                             *)
LEMMA ReceiveKept ==
  ASSUME FinInv, NEW h \in Hosts, NEW p \in net[Peer(h)], NEW closes \in BOOLEAN,
         Receive(h, p, closes)
  PROVE  \A g \in Hosts : Kept(meta'[g], net'[g], meta'[Peer(g)])
<1>. DEFINE k == Peer(h)
<1>1. PICK d : /\ Calm(At(h), d) /\ Takes(meta[h], Sock(d), p)
               /\ meta' = [meta EXCEPT ![h] = Sock(d)]
               /\ net' = [net EXCEPT ![h] = Out(d), ![k] = net[k] \ {p}]
  BY KeptSides, ReceiveTakes
<1>2. Kept(Sock(d), Out(d), meta[k])
  BY <1>1, KeptSides, CalmKept
<1>3. /\ k \in Hosts /\ Peer(k) = h /\ meta[k] \in MetaSocket(k) /\ meta[h] \in MetaSocket(h)
      /\ Kept(meta[k], net[k], meta[h]) /\ Sock(d) \in Shape
  BY <1>1, Peers, Sides DEF FinInv, Calm
<1>4. Kept(meta[k], net[k] \ {p}, Sock(d))
  <2>1. net[k] \ {p} \in SUBSET net[k]
    OBVIOUS
  <2>. HIDE DEF k
  <2>. QED BY <1>1, <1>3, <2>1, TakesKept DEF k
<1>5. net[k] \ {p} \in SUBSET net[k]
  OBVIOUS
<1>. QED BY <1>1, <1>2, <1>4, <1>5, StepKept

LEMMA LoseKept ==
  ASSUME FinInv, NEW h \in Hosts, NEW p \in net[h], Lose(h, p)
  PROVE  \A g \in Hosts : Kept(meta'[g], net'[g], meta'[Peer(g)])
<1>1. meta' = meta /\ net' = [net EXCEPT ![h] = net[h] \ {p}]
  BY DEF Lose
<1>2. \A g \in Hosts : net'[g] \subseteq net[g]
  BY <1>1 DEF FinInv, IInv
<1>. QED BY <1>1, <1>2 DEF FinInv, Kept, Rides

LEMMA FinInitially == Init => FinInv
<1>. SUFFICES ASSUME Init PROVE FinInv
  OBVIOUS
<1>1. \A h \in Hosts : meta[h].state = "Established" /\ ~meta[h].closeOnEmpty
  BY DEF Init
<1>. QED BY <1>1, Initially DEF FinInv, Kept, Deferred, Rides

LEMMA FinSteps == FinInv /\ [Next]_vars => FinInv'
<1>. SUFFICES ASSUME FinInv, [Next]_vars
     PROVE  \A g \in Hosts : Kept(meta'[g], net'[g], meta'[Peer(g)])
  BY Steps DEF FinInv
<1>1. ASSUME NEW h \in Hosts,
             \/ AppClose(h) \/ GiveUp(h)
             \/ DataFinTimeout(h) \/ LastAckTimeout(h) \/ TimeWaitTimeout(h)
      PROVE  \A g \in Hosts : Kept(meta'[g], net'[g], meta'[Peer(g)])
  <2>1. \E d : Still(At(h), d) /\ Becomes(h, d)
    BY <1>1, KeptSides, AppCloseStill, GiveUpStill, DataFinTimeoutStill,
       LastAckTimeoutStill, TimeWaitTimeoutStill
  <2>. QED BY <2>1, StillKept
<1>2. ASSUME NEW h \in Hosts, AppShutdownSend(h)
      PROVE  \A g \in Hosts : Kept(meta'[g], net'[g], meta'[Peer(g)])
  <2>1. PICK d : Becomes(h, d) /\ Sock(d).shutdownSend /\ SameBytes(meta[h], Sock(d))
    BY <1>2, KeptSides, AppShutdownSendEnds
  <2>2. Kept(Sock(d), Out(d), meta[Peer(h)])
    BY <2>1 DEF Kept, Deferred, Rides
  <2>. QED BY <2>1, <2>2, BecomesKept
<1>3. ASSUME NEW h \in Hosts, NEW n \in 0..Limit[h], SendPendingData(h, n)
      PROVE  \A g \in Hosts : Kept(meta'[g], net'[g], meta'[Peer(g)])
  BY <1>3, SendPendingDataKept, BecomesKept
<1>4. CASE UNCHANGED vars
  BY <1>4 DEF vars, FinInv
<1>. QED
  BY <1>1, <1>2, <1>3, <1>4, AppSendKept, RetransmitKept, ReceiveKept, LoseKept DEF Next

(* A DATA_FIN is not forgotten (FinNotForgotten): a host in FIN_WAIT_1 has its *)
(* timer (SendDataFin), or its peer has the DATA_FIN, or the subflow must      *)
(* still retransmit the byte that carries it (CheckAndAppendDataFin).          *)
THEOREM FinStaysDue == Spec => []FinNotForgotten
<1>1. Init => FinInv
  BY FinInitially
<1>2. FinInv /\ [Next]_vars => FinInv'
  BY FinSteps
<1>3. FinInv => FinNotForgotten
  <2>. SUFFICES ASSUME FinInv, NEW h \in Hosts, meta[h].state = "FinWait1",
                       ~meta[h].shutdownSend, ~meta[h].retx, meta[Peer(h)].finSeq = None
       PROVE  meta[h].closeOnEmpty /\ meta[h].sfHead < meta[h].written
    BY DEF FinNotForgotten
  <2>1. /\ Kept(meta[h], net[h], meta[Peer(h)]) /\ Flow(meta[h], meta[Peer(h)])
        /\ meta[h] \in MetaSocket(h) /\ meta[Peer(h)].got \in Nat
    BY KeptSides, Sides DEF Safe
  <2>2. meta[h].closeOnEmpty /\ meta[Peer(h)].got < meta[h].written
    BY <2>1 DEF Kept, Rides
  <2>3. meta[h].sfHead <= meta[Peer(h)].got /\ meta[h].sfHead \in Nat /\ meta[h].written \in Nat
    BY <2>1, Fields DEF Flow
  <2>. QED BY <2>1, <2>2, <2>3
<1>. QED BY <1>1, <1>2, <1>3, PTL DEF Spec

-----------------------------------------------------------------------------
(* The connection is a pair of streams. *)

(* Every step of a host but Send goes on from what it had. *)
LEMMA GoesOn ==
  ASSUME FinInv, NEW h \in Hosts,
         \/ AppClose(h) \/ AppShutdownSend(h)
         \/ \E n \in 0..Limit[h] : SendPendingData(h, n)
         \/ \E d \in 0..Limit[h] : Retransmit(h, d)
         \/ GiveUp(h)
         \/ DataFinTimeout(h) \/ LastAckTimeout(h) \/ TimeWaitTimeout(h)
         \/ \E p \in net[Peer(h)], closes \in BOOLEAN : Receive(h, p, closes)
  PROVE  \E n : Onward(meta[h], n) /\ meta' = [meta EXCEPT ![h] = n]
<1>0. /\ Sock(At(h)) = meta[h] /\ meta[h].got \in Nat /\ meta[h] \in MetaSocket(h)
      /\ Limit[h] \in Nat /\ IInv /\ meta[h] \in Shape
  BY KeptSides, Sides, Fields
<1>1. ASSUME NEW d, Calm(At(h), d), meta[h].got <= Sock(d).got
      PROVE  Onward(meta[h], Sock(d))
  BY <1>0, <1>1 DEF Calm, Works, Onward
<1>2. CASE \/ AppClose(h) \/ GiveUp(h)
           \/ DataFinTimeout(h) \/ LastAckTimeout(h) \/ TimeWaitTimeout(h)
  <2>1. PICK d : Still(At(h), d) /\ Becomes(h, d)
    BY <1>0, <1>2, AppCloseStill, GiveUpStill, DataFinTimeoutStill, LastAckTimeoutStill,
       TimeWaitTimeoutStill
  <2>2. meta[h].got <= Sock(d).got
    BY <1>0, <2>1 DEF Still, SameBytes
  <2>. QED BY <1>1, <2>1, <2>2 DEF Still, Becomes
<1>3. CASE AppShutdownSend(h)
  BY <1>0, <1>3, AppShutdownSendEnds DEF Becomes
<1>4. ASSUME NEW n \in 0..Limit[h], SendPendingData(h, n)
      PROVE  \E k : Onward(meta[h], k) /\ meta' = [meta EXCEPT ![h] = k]
  BY <1>4, SendPendingDataKept DEF Becomes
<1>5. ASSUME NEW d \in 0..Limit[h], Retransmit(h, d)
      PROVE  \E k : Onward(meta[h], k) /\ meta' = [meta EXCEPT ![h] = k]
  <2>1. Becomes(h, SendData(At(h), d)) /\ d \in Int
    BY <1>0, <1>5 DEF Retransmit
  <2>2. Emits(At(h), SendData(At(h), d), d, CheckAndAppendDataFin(Sock(At(h)), d))
    BY <1>0, <2>1, SendDataEmits
  <2>3. Onward(meta[h], Sock(SendData(At(h), d)))
    BY <1>0, <2>2 DEF Emits, Onward, SameBytes
  <2>. QED BY <2>1, <2>3 DEF Becomes
<1>6. ASSUME NEW p \in net[Peer(h)], NEW closes \in BOOLEAN, Receive(h, p, closes)
      PROVE  \E k : Onward(meta[h], k) /\ meta' = [meta EXCEPT ![h] = k]
  <2>1. PICK d : /\ Calm(At(h), d) /\ Takes(meta[h], Sock(d), p)
                 /\ meta' = [meta EXCEPT ![h] = Sock(d)]
    BY <1>0, <1>6, ReceiveTakes
  <2>2. meta[h].got <= Sock(d).got
    BY <1>0, <2>1 DEF Takes, SameBytes
  <2>. QED BY <1>1, <2>1, <2>2
<1>. QED BY <1>2, <1>3, <1>4, <1>5, <1>6

(* A function of the hosts that changes at h. *)
LEMMA ChangedAt ==
  ASSUME NEW h \in Hosts, NEW F, NEW G, NEW v,
         F = [g \in Hosts |-> F[g]], G = [g \in Hosts |-> G[g]],
         \A g \in Hosts : G[g] = IF g = h THEN v ELSE F[g]
  PROVE  G = [F EXCEPT ![h] = v]
<1>1. [F EXCEPT ![h] = v] = [g \in Hosts |-> IF g = h THEN v ELSE F[g]]
  OBVIOUS
<1>. QED BY <1>1

(* Then it delivers what it now has, with the end of file if it is there, and *)
(* ends its own stream if it closed.                                          *)
LEMMA OnwardDelivers ==
  ASSUME IInv, IInv', NEW h \in Hosts, NEW n, Onward(meta[h], n),
         meta' = [meta EXCEPT ![h] = n]
  PROVE  Stream!Next
<1>. DEFINE m == meta[h]
            k == Peer(h)
            r == meta[k]
<1>1. /\ k \in Hosts /\ k # h /\ Peer(k) = h /\ meta = [g \in Hosts |-> meta[g]]
      /\ meta'[h] = n /\ meta'[k] = r /\ Limit[k] \in Nat
  BY Peers, CloseAssumption DEF IInv, CloseAssumption
<1>2. \A g \in Hosts : meta'[g] = IF g = h THEN n ELSE meta[g]
  BY <1>1
<1>3. /\ m \in MetaSocket(h) /\ r \in MetaSocket(k) /\ Counts(r)
  BY <1>1, Sides DEF Good
<1>4. n \in MetaSocket(h) /\ Heard(n) /\ Flow(r, n)
  <2>1. Safe(h, At(h), meta[Peer(h)], net[Peer(h)])'
    BY DEF IInv
  <2>2. Sock(At(h))' = n
    BY <1>1 DEF At, Sock
  <2>. QED BY <1>1, <2>1, <2>2 DEF Safe, Good
<1>5. m.got <= n.got /\ n.got <= r.written /\ n.got \in 0..Limit[k]
  <2>1. r.written \in Nat /\ r.highTx \in Nat
    BY <1>1, <1>3, Fields
  <2>2. n.got \in Nat
    BY <1>4, Fields
  <2>. QED BY <1>3, <1>4, <2>1, <2>2 DEF Flow, Counts, Onward, MetaSocket
<1>6. n.closeNotified => n.got = r.written /\ ~Open(r)
  <2>. SUFFICES ASSUME n.closeNotified PROVE n.got = r.written /\ ~Open(r)
    OBVIOUS
  <2>1. Finished(n)
    BY <1>4 DEF Heard, Told
  <2>. HIDE DEF k, r
  <2>. QED BY <1>1, <1>3, <1>4, <2>1, FinishedMeans
<1>7. /\ m.closeNotified \in BOOLEAN /\ n.closeNotified \in BOOLEAN
      /\ n.written = m.written /\ (m.closeNotified => n.closeNotified)
      /\ Open(n) => Open(m)
  BY <1>3, <1>4 DEF MetaSocket, Onward
<1>8. Stream!Peer(h) = k
  BY DEF Stream!Peer, Peer
<1>. HIDE DEF m, k, r
<1>9. [g \in Hosts |-> meta'[g].got] = [[g \in Hosts |-> meta[g].got] EXCEPT ![h] = n.got]
  <2>. DEFINE F == [g \in Hosts |-> meta[g].got]
              G == [g \in Hosts |-> meta'[g].got]
  <2>1. \A g \in Hosts : G[g] = IF g = h THEN n.got ELSE F[g]
    BY <1>2
  <2>2. F = [g \in Hosts |-> F[g]] /\ G = [g \in Hosts |-> G[g]]
    OBVIOUS
  <2>. HIDE DEF F, G
  <2>3. G = [F EXCEPT ![h] = n.got]
    BY <2>1, <2>2, ChangedAt
  <2>. QED BY <2>3 DEF F, G
<1>10. [g \in Hosts |-> meta'[g].closeNotified] =
         [[g \in Hosts |-> meta[g].closeNotified] EXCEPT ![h] = @ \/ n.closeNotified]
  <2>. DEFINE F == [g \in Hosts |-> meta[g].closeNotified]
              G == [g \in Hosts |-> meta'[g].closeNotified]
              v == F[h] \/ n.closeNotified
  <2>1. \A g \in Hosts : G[g] = IF g = h THEN v ELSE F[g]
    BY <1>2, <1>7 DEF m
  <2>2. F = [g \in Hosts |-> F[g]] /\ G = [g \in Hosts |-> G[g]]
    OBVIOUS
  <2>. HIDE DEF F, G, v
  <2>3. G = [F EXCEPT ![h] = v]
    BY <2>1, <2>2, ChangedAt
  <2>. QED BY <2>3 DEF F, G, v
<1>11. [g \in Hosts |-> meta'[g].state \notin {"Established", "CloseWait"}] =
         [[g \in Hosts |-> meta[g].state \notin {"Established", "CloseWait"}]
            EXCEPT ![h] = @ \/ ~Open(n)]
  <2>. DEFINE F == [g \in Hosts |-> meta[g].state \notin {"Established", "CloseWait"}]
              G == [g \in Hosts |-> meta'[g].state \notin {"Established", "CloseWait"}]
              v == F[h] \/ ~Open(n)
  <2>1. \A g \in Hosts : G[g] = IF g = h THEN v ELSE F[g]
    <3>1. (m.state \notin {"Established", "CloseWait"} \/ ~Open(n))
            = (n.state \notin {"Established", "CloseWait"})
      BY <1>7 DEF Open
    <3>2. v = (n.state \notin {"Established", "CloseWait"})
      BY <3>1 DEF m
    <3>. QED BY <1>2, <3>2
  <2>2. F = [g \in Hosts |-> F[g]] /\ G = [g \in Hosts |-> G[g]]
    OBVIOUS
  <2>. HIDE DEF F, G, v
  <2>3. G = [F EXCEPT ![h] = v]
    BY <2>1, <2>2, ChangedAt
  <2>. QED BY <2>3 DEF F, G, v
<1>12. UNCHANGED [g \in Hosts |-> meta[g].written]
  BY <1>2, <1>7 DEF m
<1>13. Stream!Deliver(h, n.got, n.closeNotified, ~Open(n))
  BY <1>1, <1>5, <1>6, <1>8, <1>9, <1>10, <1>11, <1>12 DEF Stream!Deliver, Open, m, r
<1>14. \E q \in 0..Limit[Stream!Peer(h)], last, ends \in BOOLEAN : Stream!Deliver(h, q, last, ends)
  <2>1. (~Open(n)) \in BOOLEAN
    OBVIOUS
  <2>. QED BY <1>5, <1>7, <1>8, <1>13, <2>1
<1>. QED BY <1>14 DEF Stream!Next

(* Send writes, while the stream is not ended. *)
LEMMA AppSendWrites ==
  ASSUME IInv, NEW h \in Hosts, AppSend(h)
  PROVE  Stream!Write(h)
<1>. DEFINE m == meta[h]
            w == m.written + 1
            event == m.sendEvent \/ ~m.shutdownSend
            n == [m EXCEPT !.written = w, !.sendEvent = event]
<1>1. meta = [g \in Hosts |-> meta[g]] /\ m \in Shape
  BY StillSides DEF IInv
<1>2. m.state = "Established" /\ m.written < Limit[h] /\ meta' = [meta EXCEPT ![h] = n]
  BY OnSock DEF AppSend, Becomes
<1>3. /\ n.written = w /\ n.state = m.state /\ n.got = m.got
      /\ n.closeNotified = m.closeNotified
  BY <1>1 DEF Shape
<1>. HIDE DEF n
<1>4. \A g \in Hosts : meta'[g] = IF g = h THEN n ELSE meta[g]
  BY <1>1, <1>2
<1>5. /\ [g \in Hosts |-> meta'[g].written] = [[g \in Hosts |-> meta[g].written] EXCEPT ![h] = @ + 1]
      /\ [g \in Hosts |-> meta'[g].got] = [g \in Hosts |-> meta[g].got]
      /\ [g \in Hosts |-> meta'[g].closeNotified] = [g \in Hosts |-> meta[g].closeNotified]
  BY <1>3, <1>4
<1>6. [g \in Hosts |-> meta'[g].state \notin {"Established", "CloseWait"}] =
        [g \in Hosts |-> meta[g].state \notin {"Established", "CloseWait"}]
  BY <1>3, <1>4
<1>. QED BY <1>2, <1>5, <1>6 DEF Stream!Write

(* The connection implements the pair of streams (StreamSpec): nothing is       *)
(* written behind a DATA_FIN that went (Send), nothing received is taken back,  *)
(* and NotifyNormalClose comes once, when the whole stream was received.        *)
THEOREM ImplementsDuplexStream == Spec => StreamSpec
<1>1. Init => Stream!Init
  <2>1. Init => \A h \in Hosts :
          /\ meta[h].written = 0 /\ meta[h].got = 0 /\ meta[h].closeNotified = FALSE
          /\ meta[h].state = "Established"
    BY DEF Init
  <2>2. ASSUME Init
        PROVE  \A h \in Hosts : (meta[h].state \notin {"Established", "CloseWait"}) = FALSE
    BY <2>1, <2>2
  <2>. QED BY <2>1, <2>2 DEF Stream!Init
<1>2. FinInv /\ FinInv' /\ [Next]_vars => [Stream!Next]_(Stream!vars)
  <2>. SUFFICES ASSUME FinInv, FinInv', [Next]_vars
       PROVE  Stream!Next \/ UNCHANGED Stream!vars
    OBVIOUS
  <2>1. IInv /\ IInv'
    BY DEF FinInv
  <2>2. ASSUME NEW h \in Hosts, AppSend(h) PROVE Stream!Next
    BY <2>1, <2>2, AppSendWrites DEF Stream!Next
  <2>3. ASSUME NEW h \in Hosts, NEW n, Onward(meta[h], n), meta' = [meta EXCEPT ![h] = n]
        PROVE  Stream!Next
    BY <2>1, <2>3, OnwardDelivers
  <2>4. ASSUME UNCHANGED meta PROVE UNCHANGED Stream!vars
    BY <2>4 DEF Stream!vars
  <2>5. UNCHANGED vars => UNCHANGED meta
    BY DEF vars
  <2>6. ASSUME NEW h \in Hosts, NEW p \in net[h], Lose(h, p) PROVE UNCHANGED meta
    BY <2>6 DEF Lose
  <2>. QED BY <2>2, <2>3, <2>4, <2>5, <2>6, GoesOn DEF Next
<1>3. Init => FinInv
  BY FinInitially
<1>4. FinInv /\ [Next]_vars => FinInv'
  BY FinSteps
<1>. QED BY <1>1, <1>2, <1>3, <1>4, PTL DEF Spec, StreamSpec, Stream!Spec
=============================================================================
