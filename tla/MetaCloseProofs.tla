--------------------------- MODULE MetaCloseProofs ---------------------------
(***************************************************************************)
(* Proofs about MetaClose, for every size of the streams and the links.    *)
(* The operations of a host are functions from a socket with its link to   *)
(* the next one, so the invariant is stated for such a pair (Safe), and    *)
(* there is one lemma per operation that it is kept, as the calls compose. *)
(***************************************************************************)
EXTENDS MetaClose, WellFoundedInduction, FiniteSetTheorems, TLAPS

(* The host may still write, and has sent no DATA_FIN. *)
Open(m) == m.state \in {"Established", "CloseWait"}

(* The host has taken notice that its peer is finished. *)
Told(m) ==
  \/ m.closeNotified \/ m.lastAck \/ m.timeWait
  \/ m.state \in {"CloseWait", "LastAck", "Closing", "TimeWait", "Closed"}

(* A host by itself: its numbers, what it sends, what it says it received. *)
Counts(m) == m.highTx <= m.written /\ m.nextTx = Max2(m.highTx, m.txHead)

Retries(m) == m.retx => m.highTx = m.written /\ ~Open(m)

Heard(m) == Told(m) => Finished(m)

Honest(m, out) ==
  \A p \in out : p.data < m.highTx /\ p.dack <= NextRx(m) /\ p.ack <= m.got

Good(h, m, out) ==
  /\ m \in MetaSocket(h) /\ out \subseteq Packet(h)
  /\ Counts(m) /\ Retries(m) /\ Heard(m) /\ Honest(m, out)

(* The DATA_FINs the socket m has in flight to the socket r. *)
Fins(m, out, r) ==
  \A p \in out :
    /\ p.fin \in {None, m.written} \/ (p.fin = m.written + 1 /\ Finished(r))
    /\ Open(m) => p.fin = None

(* What r has received of m is what m has sent, and m knows no more of it  *)
(* than there is.                                                          *)
Flow(m, r) ==
  /\ r.got <= m.highTx /\ \A x \in r.ooo : x < m.highTx
  /\ r.finSeq \in {None, m.written} /\ (Open(m) => r.finSeq = None)
  /\ m.txHead <= NextRx(r) /\ m.sfHead <= r.got
  /\ m.state = "FinWait2" => Finished(r)

(* The pair c of host h, whose peer has the socket r and the link rout. *)
Safe(h, c, r, rout) ==
  /\ Good(h, Sock(c), Out(c))
  /\ Fins(Sock(c), Out(c), r) /\ Flow(Sock(c), r)
  /\ Fins(r, rout, Sock(c)) /\ Flow(r, Sock(c))

IInv ==
  /\ meta = [h \in Hosts |-> meta[h]] /\ net = [h \in Hosts |-> net[h]]
  /\ \A h \in Hosts : Safe(h, At(h), meta[Peer(h)], net[Peer(h)])

-----------------------------------------------------------------------------
(* Two hosts are each other's peers. *)
LEMMA Peers ==
  ASSUME NEW h \in Hosts
  PROVE  /\ Peer(h) \in Hosts /\ Peer(h) # h /\ Peer(Peer(h)) = h
         /\ \A g \in Hosts : g = h \/ g = Peer(h)
<1>1. PICK x \in Hosts, y \in Hosts : x # y /\ Hosts = {x, y}
  BY CloseAssumption DEF CloseAssumption
<1>2. \A g \in Hosts : \E k \in Hosts : k # g
  BY <1>1
<1>3. \A g \in Hosts : Peer(g) \in Hosts /\ Peer(g) # g
  BY <1>2 DEF Peer
<1>. QED BY <1>1, <1>3

(* A set of numbers that is not empty has a least one. *)
LEMMA Least ==
  ASSUME NEW T \in SUBSET Nat, T # {}
  PROVE  \E x \in T : \A y \in T : x <= y
<1>. DEFINE R == {ss \in Nat \X Nat : ss[1] < ss[2]}
<1>1. IsWellFoundedOn(R, Nat)
  BY NatLessThanWellFounded DEF OpToRel
<1>2. \A x, y \in Nat : y < x => <<y, x>> \in R
  OBVIOUS
<1>. HIDE DEF R
<1>3. PICK x \in T : \A y \in T : ~(<<y, x>> \in R)
  BY <1>1, WFMin
<1>4. ASSUME NEW y \in T PROVE x <= y
  <2>1. x \in Nat /\ y \in Nat
    OBVIOUS
  <2>2. ~(y < x)
    BY <1>2, <1>3, <2>1
  <2>. QED BY <2>1, <2>2
<1>. QED BY <1>4

(* The fields of a socket. *)
LEMMA Fields ==
  ASSUME NEW h \in Hosts, NEW m \in MetaSocket(h)
  PROVE  /\ m.written \in Nat /\ m.txHead \in Nat /\ m.nextTx \in Nat /\ m.highTx \in Nat
         /\ m.sfHead \in Nat /\ m.got \in Nat /\ m.ooo \subseteq Nat
         /\ m.finSeq \in Nat \cup {None} /\ NextRx(m) \in Nat
         /\ m.got <= NextRx(m) /\ NextRx(m) <= m.got + 1
         /\ m.written <= Limit[h] /\ Limit[h] \in Nat
<1>1. Peer(h) \in Hosts /\ Limit[h] \in Nat
  BY Peers, CloseAssumption DEF CloseAssumption
<1>2. Limit[Peer(h)] \in Nat
  BY <1>1, CloseAssumption DEF CloseAssumption
<1>. QED BY <1>1, <1>2 DEF MetaSocket, NextRx, None

(* Once the peer is finished, it has all that was written. *)
LEMMA FinishedMeans ==
  ASSUME NEW h \in Hosts, NEW m \in MetaSocket(h), NEW r \in MetaSocket(Peer(h)),
         Counts(m), Flow(m, r), Finished(r)
  PROVE  /\ r.got = m.written /\ m.highTx = m.written /\ r.finSeq = m.written
         /\ NextRx(r) = m.written + 1 /\ ~Open(m)
<1>1. Peer(h) \in Hosts
  BY Peers
<1>. QED BY <1>1, Fields DEF Counts, Flow, Finished, NextRx, None

(* What the receiver has does not change. *)
SameInput(m, n) == n.got = m.got /\ n.finSeq = m.finSeq

(* With the same input a host is as finished. *)
LEMMA SameFinished ==
  ASSUME NEW m, NEW n, SameInput(m, n)
  PROVE  NextRx(n) = NextRx(m) /\ Finished(n) = Finished(m)
BY DEF SameInput, NextRx, Finished

(* On replaces the socket and leaves the link alone. *)
LEMMA OnSock ==
  ASSUME NEW c, NEW n
  PROVE  Sock(On(c, n)) = n /\ Out(On(c, n)) = Out(c)
BY DEF On, Sock, Out

-----------------------------------------------------------------------------
(* Changes of state, flags and timers only. *)

(* n is m after such a change: what the DATA_FIN ended stays ended, a timer *)
(* of the DATA_FIN and the news of the peer's come with what they need.     *)
Quiet(m, n) ==
  /\ n.written = m.written /\ n.txHead = m.txHead /\ n.nextTx = m.nextTx
  /\ n.highTx = m.highTx /\ n.sfHead = m.sfHead
  /\ n.got = m.got /\ n.ooo = m.ooo /\ n.finSeq = m.finSeq
  /\ Open(n) => Open(m) /\ ~n.retx
  /\ n.retx => m.retx \/ m.highTx = m.written
  /\ Told(n) => Told(m) \/ Finished(m)
  /\ n.state = "FinWait2" => m.state = "FinWait2"

(* Such a change disturbs nothing. *)
LEMMA QuietKeeps ==
  ASSUME NEW h \in Hosts, NEW c, NEW r \in MetaSocket(Peer(h)), NEW rout,
         Safe(h, c, r, rout), NEW n \in MetaSocket(h), Quiet(Sock(c), n)
  PROVE  Safe(h, On(c, n), r, rout) /\ SameInput(Sock(c), n)
<1>. DEFINE m == Sock(c)
<1>1. Sock(On(c, n)) = n /\ Out(On(c, n)) = Out(c)
  BY DEF On, Sock, Out
<1>2. /\ NextRx(n) = NextRx(m) /\ Finished(n) = Finished(m)
  BY DEF NextRx, Finished, Quiet
<1>3. Good(h, n, Out(c))
  BY <1>2 DEF Safe, Good, Counts, Retries, Heard, Honest, Quiet
<1>4. Fins(n, Out(c), r) /\ Flow(n, r)
  BY DEF Safe, Fins, Flow, Quiet
<1>5. Fins(r, rout, n) /\ Flow(r, n)
  BY <1>2 DEF Safe, Fins, Flow, Quiet
<1>. QED BY <1>1, <1>3, <1>4, <1>5 DEF Safe, Quiet, SameInput

(* A packet is sent, or dropped by a full link. *)
LEMMA PutKeeps ==
  ASSUME NEW h \in Hosts, NEW c, NEW r \in MetaSocket(Peer(h)), NEW rout,
         Safe(h, c, r, rout), NEW now,
         NEW data \in (0..(Limit[h] - 1)) \cup {None}, data < Sock(c).highTx,
         NEW fin \in Nat \cup {None},
         fin # None =>
           /\ ~Open(Sock(c))
           /\ fin = Sock(c).written \/ (fin = Sock(c).written + 1 /\ Finished(r))
  PROVE  /\ Safe(h, Put(c, data, fin, now), r, rout)
         /\ Sock(Put(c, data, fin, now)) = [Sock(c) EXCEPT !.dackDue = FALSE]
<1>. DEFINE m == Sock(c)
            n == [m EXCEPT !.dackDue = FALSE]
            p == [data |-> data, fin |-> fin, ack |-> m.got,
                  dack |-> IF now \/ m.dackDue THEN NextRx(m) ELSE None]
            d == Put(c, data, fin, now)
<1>0. m \in MetaSocket(h) /\ Peer(h) \in Hosts
  BY Peers DEF Safe, Good
<1>1. Sock(d) = n /\ (Out(d) = Out(c) \/ Out(d) = Out(c) \cup {p})
  BY DEF Put, Sock, Out
<1>2. n \in MetaSocket(h) /\ Quiet(m, n)
  BY ZenonT(60), <1>0 DEF MetaSocket, Quiet, Open, Told, Safe, Good, Retries
<1>3. Safe(h, On(c, n), r, rout)
  BY <1>2, QuietKeeps
<1>4. /\ Good(h, n, Out(c)) /\ Fins(n, Out(c), r) /\ Flow(n, r)
      /\ Fins(r, rout, n) /\ Flow(r, n)
  BY <1>3 DEF Safe, On, Sock, Out
<1>5. /\ n.highTx = m.highTx /\ n.written = m.written /\ n.got = m.got
      /\ NextRx(n) = NextRx(m) /\ Open(n) = Open(m)
  BY <1>0 DEF MetaSocket, NextRx, Open
<1>6. NextRx(m) \in 0..(Limit[Peer(h)] + 1) /\ m.got \in 0..Limit[Peer(h)]
  BY <1>0, Fields DEF MetaSocket
<1>7. p \in Packet(h)
  BY <1>0, <1>6, Fields DEF Packet, None
<1>8. p.data < n.highTx /\ p.dack <= NextRx(n) /\ p.ack <= n.got
  BY <1>0, <1>5, Fields DEF None
<1>9. /\ p.fin \in {None, n.written} \/ (p.fin = n.written + 1 /\ Finished(r))
      /\ Open(n) => p.fin = None
  BY <1>5
<1>10. Good(h, n, Out(c) \cup {p})
  BY <1>4, <1>7, <1>8 DEF Good, Honest
<1>11. Fins(n, Out(c) \cup {p}, r)
  BY <1>4, <1>9 DEF Fins
<1>12. Good(h, Sock(d), Out(d)) /\ Fins(Sock(d), Out(d), r)
  BY <1>1, <1>4, <1>10, <1>11
<1>. QED BY <1>1, <1>4, <1>12 DEF Safe

-----------------------------------------------------------------------------
(* The DATA_FIN. *)

LEMMA SendDataFinKeeps ==
  ASSUME NEW h \in Hosts, NEW c, NEW r \in MetaSocket(Peer(h)), NEW rout,
         Safe(h, c, r, rout), NEW withAck,
         ~Open(Sock(c)), Sock(c).highTx = Sock(c).written
  PROVE  /\ Safe(h, SendDataFin(c, withAck), r, rout)
         /\ SameInput(Sock(c), Sock(SendDataFin(c, withAck)))
<1>. DEFINE m == Sock(c)
            d == Put(c, None, m.nextTx, withAck)
            n == [Sock(d) EXCEPT !.retx = @ \/ ~withAck]
<1>0. m \in MetaSocket(h) /\ Peer(h) \in Hosts
  BY Peers DEF Safe, Good
<1>1. Counts(m) /\ Flow(m, r)
  BY DEF Safe, Good
<1>2. m.nextTx = m.written \/ (m.nextTx = m.written + 1 /\ Finished(r))
  BY <1>0, <1>1, Fields, Peers DEF Counts, Flow, Max2, NextRx, Finished, None
<1>3. /\ Safe(h, d, r, rout) /\ Sock(d) = [m EXCEPT !.dackDue = FALSE]
  <2>. DEFINE fin == m.nextTx
  <2>1. None < Sock(c).highTx /\ None \in (0..(Limit[h] - 1)) \cup {None}
    BY <1>0, Fields DEF None
  <2>2. fin \in Nat \cup {None}
    BY <1>0, Fields
  <2>3. fin # None =>
          /\ ~Open(Sock(c))
          /\ fin = Sock(c).written \/ (fin = Sock(c).written + 1 /\ Finished(r))
    BY <1>2
  <2>. HIDE DEF fin
  <2>4. /\ Safe(h, Put(c, None, fin, withAck), r, rout)
        /\ Sock(Put(c, None, fin, withAck)) = [Sock(c) EXCEPT !.dackDue = FALSE]
    BY ZenonT(60), <2>1, <2>2, <2>3, PutKeeps
  <2>. QED BY <2>4 DEF fin
<1>4. n \in MetaSocket(h) /\ Quiet(Sock(d), n)
  <2>. DEFINE k == Sock(d)
              b == k.retx \/ ~withAck
  <2>1. /\ k \in MetaSocket(h) /\ b \in BOOLEAN
        /\ ~Open(k) /\ k.highTx = k.written
    BY <1>0, <1>3 DEF MetaSocket, Open
  <2>2. n = [k EXCEPT !.retx = b]
    OBVIOUS
  <2>. HIDE DEF k, b
  <2>. QED BY <2>1, <2>2 DEF MetaSocket, Quiet, Open, Told
<1>5. Safe(h, On(d, n), r, rout)
  BY <1>3, <1>4, QuietKeeps
<1>6. SendDataFin(c, withAck) = On(d, n)
  BY DEF SendDataFin
<1>7. SameInput(m, n)
  BY <1>0, <1>3, <1>5 DEF MetaSocket, SameInput
<1>. HIDE DEF d, n
<1>. QED BY <1>5, <1>6, <1>7, OnSock

(* A byte that was mapped, now or before, with the DATA_FIN if it is the last. *)
LEMMA SendDataKeeps ==
  ASSUME NEW h \in Hosts, NEW c, NEW r \in MetaSocket(Peer(h)), NEW rout,
         Safe(h, c, r, rout), NEW d \in Nat, d < Sock(c).highTx
  PROVE  Safe(h, SendData(c, d), r, rout)
<1>. DEFINE m == Sock(c)
            fin == CheckAndAppendDataFin(m, d)
            to == IF ~fin THEN m.state
                  ELSE CASE m.state = "Established" -> "FinWait1"
                         [] m.state = "CloseWait"   -> "LastAck"
                         [] OTHER                   -> m.state
            n == [m EXCEPT !.state = to]
<1>0. m \in MetaSocket(h) /\ Peer(h) \in Hosts
  BY Peers DEF Safe, Good
<1>1. fin => m.written = d + 1 /\ m.highTx = m.written
  BY <1>0, Fields DEF CheckAndAppendDataFin, TxTail, Max2, Safe, Good, Counts
<1>2. n \in MetaSocket(h) /\ Quiet(m, n) /\ (fin => ~Open(n))
  <2>1. to \in States
    BY <1>0 DEF MetaSocket, States
  <2>2. n \in MetaSocket(h)
    BY <1>0, <2>1 DEF MetaSocket
  <2>3. Told(n) => Told(m)
    BY <1>0 DEF MetaSocket, Told
  <2>4. Open(n) => Open(m) /\ ~n.retx
    BY <1>0 DEF MetaSocket, Open, Safe, Good, Retries
  <2>. QED BY <1>0, <2>2, <2>3, <2>4 DEF MetaSocket, Quiet, Open
<1>3. Safe(h, On(c, n), r, rout)
  BY <1>2, QuietKeeps
<1>4. Sock(On(c, n)) = n
  BY DEF On, Sock
<1>5. n.highTx = m.highTx /\ n.written = m.written
  BY <1>0 DEF MetaSocket
<1>6. Safe(h, Put(On(c, n), d, IF fin THEN d + 1 ELSE None, TRUE), r, rout)
  <2>1. d \in 0..(Limit[h] - 1)
    BY <1>0, Fields DEF Safe, Good, Counts
  <2>2. (IF fin THEN d + 1 ELSE None) \in Nat \cup {None}
    OBVIOUS
  <2>. QED BY ZenonT(60), <1>1, <1>2, <1>3, <1>4, <1>5, <2>1, <2>2, PutKeeps
<1>. QED BY <1>6 DEF SendData

(* DATA_ACKs. *)
LEMMA SendEmptyKeeps ==
  ASSUME NEW h \in Hosts, NEW c, NEW r \in MetaSocket(Peer(h)), NEW rout,
         Safe(h, c, r, rout), NEW now
  PROVE  /\ Safe(h, SendEmpty(c, now), r, rout)
         /\ Sock(SendEmpty(c, now)) = [Sock(c) EXCEPT !.dackDue = FALSE]
<1>1. None < Sock(c).highTx
  BY Fields DEF Safe, Good, None
<1>. QED BY <1>1, PutKeeps DEF SendEmpty

-----------------------------------------------------------------------------
(* Close. *)

(* A host that closes for good has taken notice of its peer. *)
LEMMA CloseAndNotifyKeeps ==
  ASSUME NEW h \in Hosts, NEW c, NEW r \in MetaSocket(Peer(h)), NEW rout,
         Safe(h, c, r, rout), Finished(Sock(c))
  PROVE  Safe(h, On(c, CloseAndNotify(Sock(c))), r, rout)
<1>. DEFINE m == Sock(c)
            n == CloseAndNotify(m)
<1>0. m \in MetaSocket(h)
  BY DEF Safe, Good
<1>1. n \in MetaSocket(h)
  BY <1>0 DEF MetaSocket, CloseAndNotify, CancelAllEvents, States
<1>2. Quiet(m, n)
  BY <1>0 DEF MetaSocket, CloseAndNotify, CancelAllEvents, Quiet, Open
<1>. QED BY <1>1, <1>2, QuietKeeps

(* So has one that goes to TIME_WAIT. *)
LEMMA TimeWaitKeeps ==
  ASSUME NEW h \in Hosts, NEW c, NEW r \in MetaSocket(Peer(h)), NEW rout,
         Safe(h, c, r, rout), Finished(Sock(c))
  PROVE  Safe(h, On(c, TimeWait(Sock(c))), r, rout)
<1>. DEFINE m == Sock(c)
            n == TimeWait(m)
<1>0. m \in MetaSocket(h)
  BY DEF Safe, Good
<1>1. n \in MetaSocket(h)
  BY <1>0 DEF MetaSocket, TimeWait, CancelAllEvents, States
<1>2. Quiet(m, n)
  BY <1>0 DEF MetaSocket, TimeWait, CancelAllEvents, Quiet, Open
<1>. QED BY <1>1, <1>2, QuietKeeps

(* Closing the subflows changes nothing the meta sockets agree on. *)
LEMMA CloseAllSubflowsKeeps ==
  ASSUME NEW h \in Hosts, NEW c, NEW r \in MetaSocket(Peer(h)), NEW rout,
         Safe(h, c, r, rout)
  PROVE  /\ Safe(h, On(c, CloseAllSubflows(Sock(c))), r, rout)
         /\ CloseAllSubflows(Sock(c)).state = Sock(c).state
         /\ Finished(CloseAllSubflows(Sock(c))) = Finished(Sock(c))
<1>. DEFINE m == Sock(c)
            n == CloseAllSubflows(m)
<1>0. m \in MetaSocket(h)
  BY DEF Safe, Good
<1>1. n \in MetaSocket(h)
  BY <1>0 DEF MetaSocket, CloseAllSubflows, Stops
<1>2. /\ Quiet(m, n) /\ n.state = m.state /\ n.got = m.got /\ n.finSeq = m.finSeq
  BY <1>0 DEF MetaSocket, CloseAllSubflows, Quiet, Open, Told, Safe, Good, Retries
<1>3. Finished(n) = Finished(m)
  BY <1>2 DEF Finished, NextRx
<1>. QED BY <1>1, <1>2, <1>3, QuietKeeps

(* Close when everything was mapped. *)
LEMMA DoCloseKeeps ==
  ASSUME NEW h \in Hosts, NEW c, NEW r \in MetaSocket(Peer(h)), NEW rout,
         Safe(h, c, r, rout), ~(Sock(c).nextTx < TxTail(Sock(c)))
  PROVE  Safe(h, DoClose(c), r, rout) /\ SameInput(Sock(c), Sock(DoClose(c)))
<1>. DEFINE m == Sock(c)
<1>0. m \in MetaSocket(h) /\ Peer(h) \in Hosts
  BY Peers DEF Safe, Good
<1>1. Open(m) => m.highTx = m.written
  <2>1. Counts(m) /\ Flow(m, r)
    BY DEF Safe, Good
  <2>. QED BY <1>0, <2>1, Fields DEF Counts, Flow, TxTail, Max2, NextRx, None
<1>2. CASE m.state = "Established"
  <2>. DEFINE n == [m EXCEPT !.state = "FinWait1"]
  <2>1. n \in MetaSocket(h)
    BY <1>0 DEF MetaSocket, States
  <2>2. Quiet(m, n)
    BY <1>0, <1>2 DEF MetaSocket, Quiet, Open, Told
  <2>3. Safe(h, On(c, n), r, rout) /\ Sock(On(c, n)) = n /\ SameInput(m, n)
    BY <2>1, <2>2, QuietKeeps, OnSock
  <2>4. ~Open(n) /\ n.highTx = n.written
    BY <1>0, <1>1, <1>2 DEF MetaSocket, Open
  <2>5. /\ Safe(h, SendDataFin(On(c, n), FALSE), r, rout)
        /\ SameInput(n, Sock(SendDataFin(On(c, n), FALSE)))
    <3>. HIDE DEF n
    <3>. QED BY <2>3, <2>4, SendDataFinKeeps
  <2>6. DoClose(c) = SendDataFin(On(c, n), FALSE)
    BY <1>2 DEF DoClose
  <2>. HIDE DEF n
  <2>. QED BY <2>3, <2>5, <2>6 DEF SameInput
<1>3. CASE m.state = "CloseWait"
  <2>. DEFINE n == [m EXCEPT !.state = "LastAck"]
  <2>1. n \in MetaSocket(h)
    BY <1>0 DEF MetaSocket, States
  <2>2. Quiet(m, n)
    BY <1>0, <1>3 DEF MetaSocket, Quiet, Open, Told, Safe, Good, Retries
  <2>3. Safe(h, On(c, n), r, rout) /\ Sock(On(c, n)) = n /\ SameInput(m, n)
    BY <2>1, <2>2, QuietKeeps, OnSock
  <2>4. ~Open(n) /\ n.highTx = n.written
    BY <1>0, <1>1, <1>3 DEF MetaSocket, Open
  <2>5. /\ Safe(h, SendDataFin(On(c, n), TRUE), r, rout)
        /\ SameInput(n, Sock(SendDataFin(On(c, n), TRUE)))
    <3>. HIDE DEF n
    <3>. QED BY <2>3, <2>4, SendDataFinKeeps
  <2>6. DoClose(c) = SendDataFin(On(c, n), TRUE)
    BY <1>3 DEF DoClose
  <2>. HIDE DEF n
  <2>. QED BY <2>3, <2>5, <2>6 DEF SameInput
<1>4. CASE m.state = "LastAck"
  <2>1. Finished(m)
    BY <1>4 DEF Safe, Good, Heard, Told
  <2>2. DoClose(c) = On(c, CloseAndNotify(m))
    BY <1>4 DEF DoClose
  <2>3. SameInput(m, CloseAndNotify(m))
    BY <1>0 DEF SameInput, CloseAndNotify, CancelAllEvents, MetaSocket
  <2>. QED BY <2>1, <2>2, <2>3, CloseAndNotifyKeeps DEF On, Sock
<1>5. CASE m.state \notin {"Established", "CloseWait", "LastAck"}
  BY <1>5 DEF DoClose, SameInput
<1>. QED BY <1>2, <1>3, <1>4, <1>5

(* Close, at once or deferred. *)
LEMMA CloseKeeps ==
  ASSUME NEW h \in Hosts, NEW c, NEW r \in MetaSocket(Peer(h)), NEW rout,
         Safe(h, c, r, rout)
  PROVE  Safe(h, Close(c), r, rout) /\ SameInput(Sock(c), Sock(Close(c)))
<1>. DEFINE m == Sock(c)
<1>0. m \in MetaSocket(h)
  BY DEF Safe, Good
<1>1. CASE m.ooo # {}
  <2>. DEFINE n == [m EXCEPT !.stop = "unread data in Close"]
  <2>1. n \in MetaSocket(h)
    BY <1>0 DEF MetaSocket, Stops
  <2>2. Quiet(m, n) /\ SameInput(m, n)
    BY <1>0 DEF MetaSocket, Quiet, SameInput, Open, Told, Safe, Good, Retries
  <2>3. Close(c) = On(c, n)
    BY <1>1 DEF Close
  <2>. HIDE DEF n
  <2>. QED BY <2>1, <2>2, <2>3, QuietKeeps, OnSock
<1>2. CASE m.ooo = {} /\ m.nextTx < TxTail(m)
  <2>. DEFINE n == [m EXCEPT !.closeOnEmpty = TRUE]
  <2>1. n \in MetaSocket(h)
    BY <1>0 DEF MetaSocket
  <2>2. Quiet(m, n) /\ SameInput(m, n)
    BY <1>0 DEF MetaSocket, Quiet, SameInput, Open, Told, Safe, Good, Retries
  <2>3. Close(c) = On(c, n)
    BY <1>2 DEF Close
  <2>. HIDE DEF n
  <2>. QED BY <2>1, <2>2, <2>3, QuietKeeps, OnSock
<1>3. CASE m.ooo = {} /\ ~(m.nextTx < TxTail(m))
  <2>1. Close(c) = DoClose(c)
    BY <1>3 DEF Close
  <2>. QED BY <1>3, <2>1, DoCloseKeeps
<1>. QED BY <1>1, <1>2, <1>3

(* The peer is finished, and the application is told. *)
LEMMA DoPeerCloseKeeps ==
  ASSUME NEW h \in Hosts, NEW c, NEW r \in MetaSocket(Peer(h)), NEW rout,
         Safe(h, c, r, rout), Finished(Sock(c)), NEW closes
  PROVE  Safe(h, DoPeerClose(c, closes), r, rout)
<1>. DEFINE m  == Sock(c)
            m1 == [m EXCEPT !.state = "CloseWait"]
            c1 == On(c, m1)
            c2 == IF closes /\ ~m.closeNotified THEN Close(c1) ELSE c1
            m3 == [Sock(c2) EXCEPT !.closeNotified = TRUE]
            c3 == On(c2, m3)
            c4 == CASE m.shutdownSend -> Close(c3)
                    [] ~m.shutdownSend /\ Sock(c3).state = "CloseWait" -> SendDataAck(c3)
                    [] OTHER -> c3
            m5 == [Sock(c4) EXCEPT !.lastAck = @ \/ Sock(c4).state = "LastAck"]
<1>0. m \in MetaSocket(h)
  BY DEF Safe, Good
<1>1. CASE m.state # "Established"
  <2>. DEFINE n == [m EXCEPT !.stop = "DoPeerClose"]
  <2>1. n \in MetaSocket(h)
    BY ZenonT(60), <1>0 DEF MetaSocket, Stops
  <2>2. Quiet(m, n)
    BY <1>0 DEF MetaSocket, Quiet, Open, Told, Safe, Good, Retries
  <2>3. DoPeerClose(c, closes) = On(c, n)
    BY <1>1 DEF DoPeerClose
  <2>. HIDE DEF n
  <2>. QED BY <2>1, <2>2, <2>3, QuietKeeps
<1>2. CASE m.state = "Established"
  <2>1. Safe(h, c1, r, rout) /\ Finished(Sock(c1))
    <3>1. m1 \in MetaSocket(h)
      BY <1>0 DEF MetaSocket, States
    <3>2. Quiet(m, m1)
      BY <1>0, <1>2 DEF MetaSocket, Quiet, Open, Safe, Good, Retries
    <3>. HIDE DEF m1
    <3>. QED BY <3>1, <3>2, QuietKeeps, SameFinished, OnSock
  <2>2. Safe(h, c2, r, rout) /\ Finished(Sock(c2))
    <3>. HIDE DEF c1
    <3>. QED BY <2>1, CloseKeeps, SameFinished
  <2>3. Safe(h, c3, r, rout) /\ Finished(Sock(c3))
    <3>. HIDE DEF c2
    <3>1. Sock(c2) \in MetaSocket(h)
      BY <2>2 DEF Safe, Good
    <3>2. m3 \in MetaSocket(h)
      BY <3>1 DEF MetaSocket
    <3>3. Quiet(Sock(c2), m3)
      BY <2>2, <3>1 DEF MetaSocket, Quiet, Open, Safe, Good, Retries
    <3>. HIDE DEF m3
    <3>. QED BY <2>2, <3>2, <3>3, QuietKeeps, SameFinished, OnSock
  <2>4. Safe(h, c4, r, rout) /\ Finished(Sock(c4))
    <3>. HIDE DEF c3
    <3>1. Sock(c3) \in MetaSocket(h)
      BY <2>3 DEF Safe, Good
    <3>2. /\ Safe(h, SendDataAck(c3), r, rout)
          /\ Sock(SendDataAck(c3)) = [Sock(c3) EXCEPT !.dackDue = FALSE]
      BY <2>3, SendEmptyKeeps DEF SendDataAck
    <3>3. SameInput(Sock(c3), Sock(SendDataAck(c3)))
      BY <3>1, <3>2 DEF MetaSocket, SameInput
    <3>. QED BY <2>3, <3>2, <3>3, CloseKeeps, SameFinished
  <2>5. Safe(h, On(c4, m5), r, rout)
    <3>. HIDE DEF c4
    <3>1. Sock(c4) \in MetaSocket(h)
      BY <2>4 DEF Safe, Good
    <3>2. m5 \in MetaSocket(h)
      BY <3>1 DEF MetaSocket
    <3>3. Quiet(Sock(c4), m5)
      BY <2>4, <3>1 DEF MetaSocket, Quiet, Open, Safe, Good, Retries
    <3>. HIDE DEF m5
    <3>. QED BY <2>4, <3>2, <3>3, QuietKeeps
  <2>6. DoPeerClose(c, closes) = On(c4, m5)
    BY <1>2 DEF DoPeerClose
  <2>. QED BY <2>5, <2>6
<1>. QED BY <1>1, <1>2

-----------------------------------------------------------------------------
(* What arrives. *)

(* The receiver notes where the DATA_FIN stands. *)
LEMMA FinSeqKeeps ==
  ASSUME NEW h \in Hosts, NEW c, NEW r \in MetaSocket(Peer(h)), NEW rout,
         Safe(h, c, r, rout), ~Finished(Sock(c)), ~Open(r)
  PROVE  Safe(h, On(c, [Sock(c) EXCEPT !.finSeq = r.written]), r, rout)
<1>. DEFINE m == Sock(c)
            n == [m EXCEPT !.finSeq = r.written]
<1>0. m \in MetaSocket(h) /\ Peer(h) \in Hosts
  BY Peers DEF Safe, Good
<1>1. Counts(m) /\ Retries(m) /\ Heard(m) /\ Honest(m, Out(c)) /\ Flow(m, r) /\ Flow(r, m)
      /\ Fins(m, Out(c), r) /\ Fins(r, rout, m) /\ Out(c) \subseteq Packet(h)
  BY DEF Safe, Good
<1>2. n \in MetaSocket(h)
  BY <1>0 DEF MetaSocket
<1>3. NextRx(m) = m.got
  BY <1>0, <1>1, Fields DEF Finished, NextRx, Flow, None
<1>4. /\ n.written = m.written /\ n.txHead = m.txHead /\ n.nextTx = m.nextTx
      /\ n.highTx = m.highTx /\ n.sfHead = m.sfHead /\ n.got = m.got /\ n.ooo = m.ooo
      /\ n.finSeq = r.written /\ n.state = m.state /\ n.retx = m.retx
      /\ Open(n) = Open(m) /\ Told(n) = Told(m)
  BY <1>0 DEF MetaSocket, Open, Told
<1>5. NextRx(m) <= NextRx(n) /\ NextRx(n) \in Nat
  BY <1>0, <1>2, <1>3, <1>4, Fields DEF NextRx
<1>. HIDE DEF m, n
<1>6. Honest(n, Out(c))
  <2>1. ASSUME NEW p \in Out(c)
        PROVE  p.data < n.highTx /\ p.dack <= NextRx(n) /\ p.ack <= n.got
    <3>1. p.dack \in Int
      BY <1>1, <1>0, Fields DEF Packet, None
    <3>2. p.data < m.highTx /\ p.dack <= NextRx(m) /\ p.ack <= m.got
      BY <1>1 DEF Honest
    <3>. QED BY <1>0, <1>4, <1>5, <3>1, <3>2, Fields
  <2>. QED BY <2>1 DEF Honest
<1>7. Counts(n) /\ Retries(n) /\ Heard(n)
  BY <1>1, <1>4 DEF Counts, Retries, Heard, m
<1>8. Fins(n, Out(c), r) /\ Flow(n, r)
  BY <1>1, <1>4 DEF Fins, Flow
<1>9. Fins(r, rout, n)
  BY <1>1 DEF Fins, m
<1>10. Flow(r, n)
  BY <1>0, <1>1, <1>4, <1>5, Fields DEF Flow, m
<1>11. Safe(h, On(c, n), r, rout)
  BY <1>1, <1>2, <1>6, <1>7, <1>8, <1>9, <1>10, OnSock DEF Safe, Good
<1>. QED BY <1>11 DEF n, m

(* The DATA_FIN of the peer, new, out of sequence or late. *)
LEMMA PeerCloseKeeps ==
  ASSUME NEW h \in Hosts, NEW c, NEW r \in MetaSocket(Peer(h)), NEW rout,
         Safe(h, c, r, rout), NEW dack, NEW closes, ~Open(r), NEW fin,
         fin = r.written \/ (fin = r.written + 1 /\ Finished(Sock(c)))
  PROVE  Safe(h, PeerClose(c, fin, dack, closes), r, rout)
<1>. DEFINE m == Sock(c)
            n == [m EXCEPT !.finSeq = fin]
            ignored == fin < NextRx(m) \/ (m.finSeq # None /\ m.finSeq < fin)
            k == [n EXCEPT !.state = "Closing"]
            d == SendDataAck(On(c, k))
            e == SendDataAck(On(c, n))
<1>0. m \in MetaSocket(h) /\ Peer(h) \in Hosts /\ Peer(Peer(h)) = h
  BY Peers DEF Safe, Good
<1>1. CASE ignored
  BY <1>1 DEF PeerClose
<1>2. CASE ~ignored
  <2>1. fin = r.written /\ ~Finished(m)
    <3>1. ASSUME Finished(m) PROVE ignored
      <4>1. Flow(r, m)
        BY DEF Safe
      <4>2. m.finSeq = r.written /\ m.finSeq < NextRx(m) /\ m.finSeq # None
        BY <3>1, <4>1 DEF Finished, Flow
      <4>. QED BY <1>0, <4>2, Fields DEF None
    <3>. QED BY <1>2, <3>1
  <2>2. Safe(h, On(c, n), r, rout) /\ n \in MetaSocket(h) /\ Sock(On(c, n)) = n
    <3>1. Safe(h, On(c, n), r, rout)
      BY <2>1, FinSeqKeeps
    <3>. HIDE DEF n
    <3>. QED BY <3>1, OnSock DEF Safe, Good
  <2>3. CASE ~Finished(n)
    BY <1>2, <2>2, <2>3 DEF PeerClose
  <2>4. CASE Finished(n) /\ n.state = "FinWait1"
    <3>1. Safe(h, On(c, k), r, rout) /\ Finished(k) /\ Sock(On(c, k)) = k
      <4>1. k \in MetaSocket(h)
        BY <2>2 DEF MetaSocket, States
      <4>2. Quiet(n, k)
        BY <2>2, <2>4 DEF MetaSocket, Quiet, Open, Told
      <4>3. On(On(c, n), k) = On(c, k)
        BY DEF On, Out, Cap
      <4>. HIDE DEF n, k
      <4>. QED BY <2>2, <2>4, <4>1, <4>2, <4>3, QuietKeeps, SameFinished, OnSock
    <3>2. Safe(h, d, r, rout) /\ Finished(Sock(d))
      <4>1. /\ Safe(h, d, r, rout)
            /\ Sock(d) = [k EXCEPT !.dackDue = FALSE]
        <5>. HIDE DEF k
        <5>. QED BY <3>1, SendEmptyKeeps DEF SendDataAck
      <4>2. SameInput(k, Sock(d))
        BY <2>2, <4>1 DEF MetaSocket, SameInput
      <4>. HIDE DEF k, d
      <4>. QED BY <3>1, <4>1, <4>2, SameFinished
    <3>3. Safe(h, On(d, TimeWait(CloseAllSubflows(Sock(d)))), r, rout)
      <4>. HIDE DEF d
      <4>. DEFINE x == CloseAllSubflows(Sock(d))
      <4>1. Safe(h, On(d, x), r, rout) /\ Finished(x) /\ Sock(On(d, x)) = x
        BY <3>2, CloseAllSubflowsKeeps, OnSock
      <4>. HIDE DEF x
      <4>2. Safe(h, On(On(d, x), TimeWait(x)), r, rout)
        BY <4>1, TimeWaitKeeps
      <4>3. On(On(d, x), TimeWait(x)) = On(d, TimeWait(x))
        BY DEF On, Out, Cap
      <4>. QED BY <4>2, <4>3 DEF x
    <3>4. PeerClose(c, fin, dack, closes)
            \in {d, On(d, TimeWait(CloseAllSubflows(Sock(d))))}
      BY <1>2, <2>4 DEF PeerClose
    <3>. QED BY <3>2, <3>3, <3>4
  <2>5. CASE Finished(n) /\ n.state = "FinWait2"
    <3>1. Safe(h, e, r, rout) /\ Sock(e) = [n EXCEPT !.dackDue = FALSE]
      <4>. HIDE DEF n
      <4>. QED BY <2>2, SendEmptyKeeps DEF SendDataAck
    <3>2. SameInput(n, Sock(e))
      BY <2>2, <3>1 DEF MetaSocket, SameInput
    <3>3. Safe(h, On(e, TimeWait(Sock(e))), r, rout)
      <4>. HIDE DEF n, e
      <4>. QED BY <2>5, <3>1, <3>2, SameFinished, TimeWaitKeeps
    <3>4. PeerClose(c, fin, dack, closes) = On(e, TimeWait(Sock(e)))
      BY <1>2, <2>5 DEF PeerClose
    <3>. QED BY <3>3, <3>4
  <2>6. CASE Finished(n) /\ n.state \notin {"FinWait1", "FinWait2"}
    <3>1. Safe(h, DoPeerClose(On(c, n), closes), r, rout)
      <4>. HIDE DEF n
      <4>. QED BY <2>2, <2>6, DoPeerCloseKeeps
    <3>2. PeerClose(c, fin, dack, closes) = DoPeerClose(On(c, n), closes)
      BY <1>2, <2>6 DEF PeerClose
    <3>. QED BY <3>1, <3>2
  <2>. QED BY <2>3, <2>4, <2>5, <2>6
<1>. QED BY <1>1, <1>2

(* A DATA_ACK takes what it covers off the send buffer. *)
LEMMA NewAckKeeps ==
  ASSUME NEW h \in Hosts, NEW c, NEW r \in MetaSocket(Peer(h)), NEW rout,
         Safe(h, c, r, rout), NEW dack \in Nat, dack <= NextRx(r), dack > Sock(c).txHead
  PROVE  Safe(h, On(c, [Sock(c) EXCEPT !.txHead = dack, !.nextTx = Max2(@, dack)]), r, rout)
<1>. DEFINE m == Sock(c)
            next == Max2(m.nextTx, dack)
            n == [m EXCEPT !.txHead = dack, !.nextTx = Max2(@, dack)]
<1>0. m \in MetaSocket(h) /\ Peer(h) \in Hosts /\ Peer(Peer(h)) = h
  BY Peers DEF Safe, Good
<1>1. Counts(m) /\ Retries(m) /\ Heard(m) /\ Honest(m, Out(c)) /\ Flow(m, r) /\ Flow(r, m)
      /\ Fins(m, Out(c), r) /\ Fins(r, rout, m) /\ Out(c) \subseteq Packet(h)
  BY DEF Safe, Good
<1>2. dack <= m.highTx + 1 /\ dack <= Limit[h] + 1
  BY <1>0, <1>1, Fields DEF Flow, Counts
<1>3. next = Max2(m.highTx, dack) /\ next \in 0..(Limit[h] + 1)
  BY <1>0, <1>1, <1>2, Fields DEF Counts, Max2
<1>4. n \in MetaSocket(h)
  <2>. HIDE DEF next
  <2>1. n = [m EXCEPT !.txHead = dack, !.nextTx = next] /\ dack \in 0..(Limit[h] + 1)
    BY <1>0, <1>2, Fields DEF MetaSocket, next
  <2>. QED BY <1>0, <1>3, <2>1 DEF MetaSocket
<1>5. /\ n.written = m.written /\ n.txHead = dack /\ n.nextTx = Max2(m.highTx, dack)
      /\ n.highTx = m.highTx /\ n.sfHead = m.sfHead /\ n.got = m.got /\ n.ooo = m.ooo
      /\ n.finSeq = m.finSeq /\ n.state = m.state /\ n.retx = m.retx
      /\ n.closeNotified = m.closeNotified /\ n.lastAck = m.lastAck /\ n.timeWait = m.timeWait
  BY <1>0, <1>3 DEF MetaSocket
<1>. HIDE DEF m, n
<1>6. Open(n) = Open(m) /\ Told(n) = Told(m) /\ NextRx(n) = NextRx(m) /\ Finished(n) = Finished(m)
  BY <1>5 DEF Open, Told, NextRx, Finished
<1>7. Good(h, n, Out(c))
  BY <1>1, <1>4, <1>5, <1>6 DEF Good, Counts, Retries, Heard, Honest
<1>8. Fins(n, Out(c), r) /\ Flow(n, r)
  BY <1>1, <1>5, <1>6 DEF Fins, Flow
<1>9. Fins(r, rout, n) /\ Flow(r, n)
  BY <1>1, <1>5, <1>6 DEF Fins, Flow
<1>10. Safe(h, On(c, n), r, rout)
  BY <1>7, <1>8, <1>9, OnSock DEF Safe
<1>. QED BY <1>10 DEF n, m

(* An ACK of more than all data is that of the DATA_FIN. *)
LEMMA FinWait2Keeps ==
  ASSUME NEW h \in Hosts, NEW c, NEW r \in MetaSocket(Peer(h)), NEW rout,
         Safe(h, c, r, rout), Sock(c).state = "FinWait1", Finished(r)
  PROVE  Safe(h, On(c, [Sock(c) EXCEPT !.state = "FinWait2"]), r, rout)
<1>. DEFINE m == Sock(c)
            n == [m EXCEPT !.state = "FinWait2"]
<1>0. m \in MetaSocket(h)
  BY DEF Safe, Good
<1>1. Counts(m) /\ Retries(m) /\ Heard(m) /\ Honest(m, Out(c)) /\ Flow(m, r) /\ Flow(r, m)
      /\ Fins(m, Out(c), r) /\ Fins(r, rout, m) /\ Out(c) \subseteq Packet(h)
  BY DEF Safe, Good
<1>2. n \in MetaSocket(h)
  BY <1>0 DEF MetaSocket, States
<1>3. /\ n.written = m.written /\ n.txHead = m.txHead /\ n.nextTx = m.nextTx
      /\ n.highTx = m.highTx /\ n.sfHead = m.sfHead /\ n.got = m.got /\ n.ooo = m.ooo
      /\ n.finSeq = m.finSeq /\ n.state = "FinWait2" /\ m.state = "FinWait1"
      /\ n.retx = m.retx
      /\ n.closeNotified = m.closeNotified /\ n.lastAck = m.lastAck /\ n.timeWait = m.timeWait
  BY <1>0 DEF MetaSocket
<1>. HIDE DEF m, n
<1>4. Open(n) = Open(m) /\ Told(n) = Told(m) /\ NextRx(n) = NextRx(m) /\ Finished(n) = Finished(m)
  BY <1>3 DEF Open, Told, NextRx, Finished
<1>5. Good(h, n, Out(c))
  BY <1>1, <1>2, <1>3, <1>4 DEF Good, Counts, Retries, Heard, Honest
<1>6. Fins(n, Out(c), r) /\ Flow(n, r)
  BY <1>1, <1>3, <1>4 DEF Fins, Flow
<1>7. Fins(r, rout, n) /\ Flow(r, n)
  BY <1>1, <1>3, <1>4 DEF Fins, Flow
<1>8. Safe(h, On(c, n), r, rout)
  BY <1>5, <1>6, <1>7, OnSock DEF Safe
<1>. QED BY <1>8 DEF n, m

(* A DATA_ACK, and what it means in the state it finds. *)
LEMMA ReceivedAckKeeps ==
  ASSUME NEW h \in Hosts, NEW c, NEW r \in MetaSocket(Peer(h)), NEW rout,
         Safe(h, c, r, rout), NEW dack \in Nat, dack <= NextRx(r)
  PROVE  Safe(h, On(c, ReceivedAck(Sock(c), dack)), r, rout)
<1>. DEFINE m == Sock(c)
            n == IF dack > m.txHead THEN [m EXCEPT !.txHead = dack, !.nextTx = Max2(@, dack)]
                 ELSE m
            k == [n EXCEPT !.state = "FinWait2"]
            x == CloseAllSubflows(n)
<1>0. m \in MetaSocket(h) /\ Peer(h) \in Hosts /\ Peer(Peer(h)) = h
  BY Peers DEF Safe, Good
<1>1. Safe(h, On(c, n), r, rout)
  <2>1. CASE dack > m.txHead
    BY <2>1, NewAckKeeps
  <2>2. CASE ~(dack > m.txHead)
    <3>. DEFINE i == m
    <3>1. i \in MetaSocket(h) /\ Quiet(m, i)
      BY <1>0 DEF Quiet, Safe, Good, Retries
    <3>2. n = i
      BY <2>2
    <3>. HIDE DEF i
    <3>. QED BY <3>1, <3>2, QuietKeeps
  <2>. QED BY <2>1, <2>2
<1>2. /\ Sock(On(c, n)) = n /\ n \in MetaSocket(h) /\ n.state = m.state
      /\ n.finSeq = m.finSeq /\ n.got = m.got
  <2>1. Sock(On(c, n)) = n /\ n \in MetaSocket(h)
    <3>. HIDE DEF n
    <3>. QED BY <1>1, OnSock DEF Safe, Good
  <2>2. n.state = m.state /\ n.finSeq = m.finSeq /\ n.got = m.got
    BY <1>0 DEF MetaSocket
  <2>. QED BY <2>1, <2>2
<1>3. Heard(m) /\ Flow(n, r)
  BY <1>1, <1>2 DEF Safe, Good
<1>4. Told(m) => Finished(n)
  BY <1>2, <1>3 DEF Heard, NextRx, Finished
<1>5. CASE m.state = "FinWait1" /\ TxEmpty(n) /\ dack = n.highTx + 1
  <2>1. Finished(r)
    BY <1>0, <1>2, <1>3, <1>5, Fields DEF Flow, NextRx, Finished, None
  <2>2. Safe(h, On(c, k), r, rout)
    <3>1. Safe(h, On(On(c, n), [Sock(On(c, n)) EXCEPT !.state = "FinWait2"]), r, rout)
      <4>. HIDE DEF n
      <4>. QED BY <1>1, <1>2, <1>5, <2>1, FinWait2Keeps
    <3>2. On(On(c, n), k) = On(c, k)
      BY DEF On, Out, Cap
    <3>. HIDE DEF n
    <3>. QED BY <1>2, <3>1, <3>2
  <2>3. Safe(h, On(On(c, k), CloseAllSubflows(k)), r, rout)
    <3>. HIDE DEF k
    <3>. QED BY <2>2, CloseAllSubflowsKeeps, OnSock
  <2>4. On(On(c, k), CloseAllSubflows(k)) = On(c, ReceivedAck(m, dack))
    BY <1>5 DEF On, Out, Cap, ReceivedAck
  <2>. QED BY <2>3, <2>4
<1>6. Safe(h, On(c, x), r, rout) /\ Sock(On(c, x)) = x /\ (Finished(n) => Finished(x))
  <2>. HIDE DEF n
  <2>1. Safe(h, On(On(c, n), x), r, rout) /\ Finished(x) = Finished(n)
    BY <1>1, <1>2, CloseAllSubflowsKeeps
  <2>2. On(On(c, n), x) = On(c, x)
    BY DEF On, Out, Cap
  <2>. QED BY <2>1, <2>2, OnSock
<1>7. CASE m.state = "Closing"
  <2>1. Finished(x)
    BY <1>4, <1>6, <1>7 DEF Told
  <2>2. Safe(h, On(On(c, x), TimeWait(x)), r, rout)
    <3>. HIDE DEF x
    <3>. QED BY <1>6, <2>1, TimeWaitKeeps
  <2>3. On(On(c, x), TimeWait(x)) = On(c, ReceivedAck(m, dack))
    BY <1>7 DEF On, Out, Cap, ReceivedAck
  <2>. QED BY <2>2, <2>3
<1>8. CASE m.state = "LastAck"
  <2>1. Finished(x)
    BY <1>4, <1>6, <1>8 DEF Told
  <2>2. Safe(h, On(On(c, x), CloseAndNotify(x)), r, rout)
    <3>. HIDE DEF x
    <3>. QED BY <1>6, <2>1, CloseAndNotifyKeeps
  <2>3. On(On(c, x), CloseAndNotify(x)) = On(c, ReceivedAck(m, dack))
    BY <1>8 DEF On, Out, Cap, ReceivedAck
  <2>. QED BY <2>2, <2>3
<1>9. CASE /\ ~(m.state = "FinWait1" /\ TxEmpty(n) /\ dack = n.highTx + 1)
           /\ m.state # "Closing" /\ m.state # "LastAck"
  <2>1. ReceivedAck(m, dack) = n
    BY <1>9 DEF ReceivedAck
  <2>. QED BY <1>1, <2>1
<1>. QED BY <1>5, <1>7, <1>8, <1>9

(* The first byte from g on that is not there, as ReceivedData finds it. *)
FirstMissing(g, have) ==
  CHOOSE n \in g .. (g + Cardinality(have)) :
    n \notin have /\ \A x \in g .. (n - 1) : x \in have

(* The bytes from g on. *)
Beyond(have, g) == {x \in have : x >= g}

(* There is one, for there are more numbers to look at than bytes. *)
LEMMA NextMissing ==
  ASSUME NEW g \in Nat, NEW have \in SUBSET Nat, IsFiniteSet(have)
  PROVE  \E n \in g .. (g + Cardinality(have)) :
            n \notin have /\ \A x \in g .. (n - 1) : x \in have
<1>. DEFINE all == g .. (g + Cardinality(have))
            T   == {n \in all : n \notin have}
<1>1. Cardinality(have) \in Nat
  BY FS_CardinalityType
<1>2. T # {}
  <2>1. SUFFICES ASSUME all \subseteq have PROVE FALSE
    OBVIOUS
  <2>2. Cardinality(all) = Cardinality(have) + 1
    BY <1>1, FS_Interval
  <2>3. Cardinality(all) <= Cardinality(have)
    BY <2>1, FS_Subset
  <2>. QED BY <1>1, <2>2, <2>3
<1>3. T \in SUBSET Nat
  BY <1>1
<1>. HIDE DEF T
<1>4. \E n \in T : \A y \in T : n <= y
  BY <1>2, <1>3, Least
<1>5. PICK n \in T : \A y \in T : n <= y
  BY <1>4
<1>. USE DEF T
<1>6. ASSUME NEW x \in g .. (n - 1) PROVE x \in have
  <2>1. n \in Nat /\ x \in all /\ x < n
    BY <1>1, <1>5
  <2>. QED BY <1>1, <1>5, <2>1
<1>. QED BY <1>5, <1>6

(* A byte that is new, and those that were waiting for it. *)
LEMMA NewDataKeeps ==
  ASSUME NEW h \in Hosts, NEW c, NEW r \in MetaSocket(Peer(h)), NEW rout,
         Safe(h, c, r, rout), Counts(r), NEW d \in Nat, d < r.highTx, d >= Sock(c).got,
         NEW have, have = Sock(c).ooo \cup {d}, NEW got,
         got = FirstMissing(Sock(c).got, have)
  PROVE  Safe(h, On(c, [Sock(c) EXCEPT !.got = got, !.ooo = Beyond(have, got)]), r, rout)
<1>. DEFINE m == Sock(c)
            n == [m EXCEPT !.got = got, !.ooo = Beyond(have, got)]
<1>0. m \in MetaSocket(h) /\ Peer(h) \in Hosts /\ Peer(Peer(h)) = h
  BY Peers DEF Safe, Good
<1>1. Counts(m) /\ Retries(m) /\ Heard(m) /\ Honest(m, Out(c)) /\ Flow(m, r) /\ Flow(r, m)
      /\ Fins(m, Out(c), r) /\ Fins(r, rout, m) /\ Out(c) \subseteq Packet(h)
  BY DEF Safe, Good
<1>2. r.highTx \in Nat /\ r.written \in Nat /\ r.highTx <= r.written
      /\ r.highTx <= Limit[Peer(h)] /\ Limit[Peer(h)] \in Nat
  BY <1>0, Fields DEF Counts, MetaSocket
<1>. HIDE DEF m
<1>3. have \in SUBSET Nat /\ IsFiniteSet(have) /\ \A x \in have : x < r.highTx
  <2>1. IsFiniteSet(0..Limit[Peer(h)])
    <3>. DEFINE b == Limit[Peer(h)]
    <3>1. b \in Int /\ 0 \in Int
      BY <1>2
    <3>. HIDE DEF b
    <3>2. IsFiniteSet(0..b)
      BY <3>1, FS_Interval
    <3>. QED BY <3>2 DEF b
  <2>2. IsFiniteSet(m.ooo)
    <3>1. m.ooo \in SUBSET (0..Limit[Peer(h)])
      BY <1>0 DEF MetaSocket
    <3>. QED BY <2>1, <3>1, FS_Subset
  <2>3. IsFiniteSet(m.ooo \cup {d}) /\ have = m.ooo \cup {d}
    BY <2>2, FS_AddElement DEF m
  <2>4. m.ooo \subseteq Nat /\ \A x \in m.ooo : x < r.highTx
    BY <1>0, <1>1, Fields DEF Flow
  <2>. QED BY <2>3, <2>4
<1>4. /\ got \in m.got .. (m.got + Cardinality(have)) /\ got \notin have
      /\ \A x \in m.got .. (got - 1) : x \in have
  <2>1. m.got \in Nat
    BY <1>0, Fields
  <2>2. \E k \in m.got .. (m.got + Cardinality(have)) :
           k \notin have /\ \A x \in m.got .. (k - 1) : x \in have
    BY <1>3, <2>1, NextMissing
  <2>. QED BY <2>2 DEF FirstMissing, m
<1>5. got \in Nat /\ m.got \in Nat /\ m.got <= got /\ got <= r.highTx
  <2>1. m.got \in Nat /\ m.got <= r.highTx
    BY <1>0, <1>1, Fields DEF Flow
  <2>2. got \in Int /\ m.got <= got
    BY <1>3, <1>4, <2>1, FS_CardinalityType
  <2>3. CASE got = m.got
    BY <2>1, <2>2, <2>3
  <2>4. CASE got > m.got
    <3>1. got - 1 \in m.got .. (got - 1)
      BY <2>1, <2>2, <2>4
    <3>2. got - 1 \in have
      BY <1>4, <3>1
    <3>. QED BY <1>2, <1>3, <2>1, <2>2, <3>2
  <2>. QED BY <2>1, <2>2, <2>3, <2>4
<1>6. ~Finished(m) /\ NextRx(m) = m.got
  <2>1. m.finSeq \in {None, r.written}
    BY <1>1 DEF Flow
  <2>2. m.got < r.written /\ None # m.got
    BY <1>2, <1>5 DEF None, m
  <2>. QED BY <1>2, <1>5, <2>1, <2>2 DEF Finished, NextRx, None
<1>7. n \in MetaSocket(h)
  <2>1. got \in 0..Limit[Peer(h)]
    BY <1>2, <1>5
  <2>2. Beyond(have, got) \in SUBSET (0..Limit[Peer(h)])
    BY <1>2, <1>3 DEF Beyond
  <2>. DEFINE k == [m EXCEPT !.got = got]
  <2>3. k \in MetaSocket(h)
    BY <1>0, <2>1 DEF MetaSocket
  <2>4. n = [k EXCEPT !.ooo = Beyond(have, got)]
    OBVIOUS
  <2>. HIDE DEF k, n
  <2>. QED BY <2>2, <2>3, <2>4 DEF MetaSocket
<1>8. /\ n.written = m.written /\ n.txHead = m.txHead /\ n.nextTx = m.nextTx
      /\ n.highTx = m.highTx /\ n.sfHead = m.sfHead /\ n.got = got
      /\ n.ooo = Beyond(have, got) /\ n.finSeq = m.finSeq /\ n.state = m.state
      /\ n.retx = m.retx
      /\ n.closeNotified = m.closeNotified /\ n.lastAck = m.lastAck /\ n.timeWait = m.timeWait
  BY <1>0 DEF MetaSocket
<1>. HIDE DEF n
<1>9. Open(n) = Open(m) /\ Told(n) = Told(m)
  BY <1>8 DEF Open, Told
<1>10. NextRx(n) \in Nat /\ got <= NextRx(n)
  BY <1>0, <1>5, <1>7, <1>8, Fields
<1>11. Honest(n, Out(c))
  <2>1. ASSUME NEW p \in Out(c)
        PROVE  p.data < n.highTx /\ p.dack <= NextRx(n) /\ p.ack <= n.got
    <3>1. p.dack \in Int /\ p.ack \in Int
      BY <1>0, <1>1, <1>2 DEF Packet, None
    <3>2. p.data < m.highTx /\ p.dack <= NextRx(m) /\ p.ack <= m.got
      BY <1>1 DEF Honest
    <3>. QED BY <1>5, <1>6, <1>8, <1>10, <3>1, <3>2
  <2>. QED BY <2>1 DEF Honest
<1>12. Good(h, n, Out(c))
  BY <1>1, <1>6, <1>7, <1>8, <1>9, <1>11 DEF Good, Counts, Retries, Heard
<1>13. Fins(n, Out(c), r) /\ Flow(n, r)
  BY <1>1, <1>8, <1>9 DEF Fins, Flow
<1>14. Fins(r, rout, n)
  BY <1>1, <1>6 DEF Fins
<1>15. Flow(r, n)
  <2>1. r.txHead <= NextRx(n) /\ r.sfHead <= n.got
    <3>1. r.txHead <= m.got /\ r.sfHead <= m.got
      BY <1>1, <1>6 DEF Flow
    <3>2. r.txHead \in Nat /\ r.sfHead \in Nat
      BY <1>0, Fields
    <3>. QED BY <1>5, <1>8, <1>10, <3>1, <3>2
  <2>2. \A x \in n.ooo : x < r.highTx
    BY <1>3, <1>8 DEF Beyond
  <2>. QED BY <1>1, <1>5, <1>6, <1>8, <2>1, <2>2 DEF Flow
<1>16. Safe(h, On(c, n), r, rout)
  BY <1>12, <1>13, <1>14, <1>15, OnSock DEF Safe
<1>. QED BY <1>16 DEF n, m

(* Any byte, with the DATA_FIN it may bring into sequence. *)
LEMMA ReceivedDataKeeps ==
  ASSUME NEW h \in Hosts, NEW c, NEW r \in MetaSocket(Peer(h)), NEW rout,
         Safe(h, c, r, rout), Counts(r), NEW d \in Nat, d < r.highTx, NEW closes
  PROVE  Safe(h, ReceivedData(c, d, closes), r, rout)
<1>. DEFINE m    == Sock(c)
            have == m.ooo \cup {d}
            got  == FirstMissing(m.got, have)
            m1   == [m EXCEPT !.got = got, !.ooo = Beyond(have, got)]
            c1   == On(c, m1)
<1>1. CASE d < m.got \/ d \in m.ooo
  <2>1. Safe(h, SendDataAck(c), r, rout)
    BY SendEmptyKeeps DEF SendDataAck
  <2>2. ReceivedData(c, d, closes) = SendDataAck(c)
    <3>1. ~(d >= m.got /\ d \notin m.ooo)
      <4>1. m.got \in Nat
        BY Fields DEF Safe, Good
      <4>. QED BY <1>1, <4>1
    <3>. QED BY <1>1, <3>1 DEF ReceivedData
  <2>. QED BY <2>1, <2>2
<1>2. CASE ~(d < m.got \/ d \in m.ooo)
  <2>1. Safe(h, c1, r, rout) /\ Sock(c1) = m1
    <3>1. d >= m.got
      <4>1. m.got \in Nat
        BY Fields DEF Safe, Good
      <4>. QED BY <1>2, <4>1
    <3>2. Safe(h, c1, r, rout)
      <4>. HIDE DEF got, have
      <4>1. have = Sock(c).ooo \cup {d} /\ got = FirstMissing(Sock(c).got, have)
        BY DEF got, have
      <4>. QED BY <3>1, <4>1, NewDataKeeps
    <3>. HIDE DEF m1
    <3>. QED BY <3>2, OnSock
  <2>2. Safe(h, SendDataAck(c1), r, rout)
    <3>. HIDE DEF c1
    <3>. QED BY <2>1, SendEmptyKeeps DEF SendDataAck
  <2>3. ASSUME Finished(m1) PROVE Safe(h, SendDataAck(DoPeerClose(c1, closes)), r, rout)
    <3>. HIDE DEF m1, c1
    <3>1. Safe(h, DoPeerClose(c1, closes), r, rout)
      BY <2>1, <2>3, DoPeerCloseKeeps
    <3>. QED BY <3>1, SendEmptyKeeps DEF SendDataAck
  <2>4. /\ NextRx(m) < NextRx(m1) /\ Finished(m1) =>
             ReceivedData(c, d, closes) = SendDataAck(DoPeerClose(c1, closes))
        /\ ~(NextRx(m) < NextRx(m1) /\ Finished(m1)) =>
             ReceivedData(c, d, closes) = SendDataAck(c1)
    <3>1. d >= m.got /\ d \notin m.ooo
      <4>1. m.got \in Nat
        BY Fields DEF Safe, Good
      <4>. QED BY <1>2, <4>1
    <3>. QED BY <1>2, <3>1 DEF ReceivedData, FirstMissing, Beyond
  <2>. HIDE DEF c1, m1
  <2>. QED BY <2>2, <2>3, <2>4
<1>. QED BY <1>1, <1>2

(* What the packet acknowledges has arrived, and so has its data. *)
LEMMA ProcessKeeps ==
  ASSUME NEW h \in Hosts, NEW c, NEW r \in MetaSocket(Peer(h)), NEW rout,
         Safe(h, c, r, rout), Counts(r), NEW p \in Packet(Peer(h)),
         p.data < r.highTx, p.ack <= r.got, NEW closes
  PROVE  Safe(h, Process(c, p, closes), r, rout)
<1>. DEFINE m  == Sock(c)
            m1 == [m EXCEPT !.sfHead = p.ack, !.sendEvent = @ \/ m.sfHead < p.ack]
            c0 == On(c, m1)
            c1 == IF p.data = None THEN c0 ELSE ReceivedData(c0, p.data, closes)
            m2 == [Sock(c1) EXCEPT !.dackDue = TRUE]
<1>0. m \in MetaSocket(h) /\ Peer(h) \in Hosts /\ Peer(Peer(h)) = h
  BY Peers DEF Safe, Good
<1>1. CASE p.ack < m.sfHead
  BY <1>1 DEF Process
<1>2. CASE ~(p.ack < m.sfHead)
  <2>1. p.ack \in 0..Limit[h] /\ (p.data # None => p.data \in Nat)
    <3>1. Limit[h] \in Nat /\ Limit[Peer(h)] \in Nat
      BY <1>0, CloseAssumption DEF CloseAssumption
    <3>. QED BY <1>0, <3>1 DEF Packet, None
  <2>2. Safe(h, c0, r, rout) /\ Sock(c0) = m1
    <3>1. Counts(m) /\ Retries(m) /\ Heard(m) /\ Honest(m, Out(c)) /\ Flow(m, r)
          /\ Flow(r, m) /\ Fins(m, Out(c), r) /\ Fins(r, rout, m) /\ Out(c) \subseteq Packet(h)
      BY DEF Safe, Good
    <3>2. m1 \in MetaSocket(h)
      BY <1>0, <2>1 DEF MetaSocket
    <3>3. /\ m1.written = m.written /\ m1.txHead = m.txHead /\ m1.nextTx = m.nextTx
          /\ m1.highTx = m.highTx /\ m1.sfHead = p.ack /\ m1.got = m.got /\ m1.ooo = m.ooo
          /\ m1.finSeq = m.finSeq /\ m1.state = m.state /\ m1.retx = m.retx
          /\ m1.closeNotified = m.closeNotified /\ m1.lastAck = m.lastAck
          /\ m1.timeWait = m.timeWait
      BY <1>0 DEF MetaSocket
    <3>. HIDE DEF m, m1
    <3>4. /\ Open(m1) = Open(m) /\ Told(m1) = Told(m)
          /\ NextRx(m1) = NextRx(m) /\ Finished(m1) = Finished(m)
      BY <3>3 DEF Open, Told, NextRx, Finished
    <3>5. Good(h, m1, Out(c))
      BY <3>1, <3>2, <3>3, <3>4 DEF Good, Counts, Retries, Heard, Honest
    <3>6. Fins(m1, Out(c), r) /\ Flow(m1, r) /\ Fins(r, rout, m1) /\ Flow(r, m1)
      BY <3>1, <3>3, <3>4 DEF Fins, Flow
    <3>. QED BY <3>5, <3>6, OnSock DEF Safe
  <2>3. Safe(h, c1, r, rout)
    <3>. HIDE DEF c0
    <3>. QED BY <2>1, <2>2, ReceivedDataKeeps
  <2>4. Safe(h, On(c1, m2), r, rout)
    <3>. HIDE DEF c1
    <3>1. Sock(c1) \in MetaSocket(h)
      BY <2>3 DEF Safe, Good
    <3>2. m2 \in MetaSocket(h)
      BY <3>1 DEF MetaSocket
    <3>3. Quiet(Sock(c1), m2)
      BY <2>3, <3>1 DEF MetaSocket, Quiet, Open, Told, Safe, Good, Retries
    <3>. HIDE DEF m2
    <3>. QED BY <2>3, <3>2, <3>3, QuietKeeps
  <2>5. Process(c, p, closes) = On(c1, m2)
    BY <1>2 DEF Process
  <2>. QED BY <2>4, <2>5
<1>. QED BY <1>1, <1>2

-----------------------------------------------------------------------------
(* What the application writes and the socket sends. *)

(* Send adds a byte, which it only does before there is a DATA_FIN. *)
LEMMA AppSendKeeps ==
  ASSUME NEW h \in Hosts, NEW c, NEW r \in MetaSocket(Peer(h)), NEW rout,
         Safe(h, c, r, rout), Sock(c).state = "Established", Sock(c).written < Limit[h],
         NEW event \in BOOLEAN
  PROVE  Safe(h, On(c, [Sock(c) EXCEPT !.written = @ + 1, !.sendEvent = event]), r, rout)
<1>. DEFINE m == Sock(c)
            n == [m EXCEPT !.written = @ + 1, !.sendEvent = event]
<1>0. m \in MetaSocket(h) /\ Peer(h) \in Hosts /\ Peer(Peer(h)) = h
  BY Peers DEF Safe, Good
<1>1. Counts(m) /\ Retries(m) /\ Heard(m) /\ Honest(m, Out(c)) /\ Flow(m, r) /\ Flow(r, m)
      /\ Fins(m, Out(c), r) /\ Fins(r, rout, m) /\ Out(c) \subseteq Packet(h)
  BY DEF Safe, Good
<1>2. n \in MetaSocket(h)
  <2>1. m.written + 1 \in 0..Limit[h]
    BY <1>0, Fields
  <2>. QED BY <1>0, <2>1 DEF MetaSocket
<1>3. /\ n.written = m.written + 1 /\ n.txHead = m.txHead /\ n.nextTx = m.nextTx
      /\ n.highTx = m.highTx /\ n.sfHead = m.sfHead /\ n.got = m.got /\ n.ooo = m.ooo
      /\ n.finSeq = m.finSeq /\ n.state = m.state /\ n.retx = m.retx
      /\ n.closeNotified = m.closeNotified /\ n.lastAck = m.lastAck /\ n.timeWait = m.timeWait
  BY <1>0 DEF MetaSocket
<1>4. Open(m)
  BY DEF Open
<1>. HIDE DEF m, n
<1>5. Open(n) = Open(m) /\ Told(n) = Told(m) /\ NextRx(n) = NextRx(m) /\ Finished(n) = Finished(m)
  BY <1>3 DEF Open, Told, NextRx, Finished
<1>6. Counts(n)
  BY <1>0, <1>1, <1>3, Fields DEF Counts
<1>7. Good(h, n, Out(c))
  BY <1>1, <1>2, <1>3, <1>4, <1>5, <1>6 DEF Good, Retries, Heard, Honest
<1>8. Fins(n, Out(c), r) /\ Flow(n, r)
  BY <1>1, <1>3, <1>4, <1>5 DEF Fins, Flow
<1>9. Fins(r, rout, n) /\ Flow(r, n)
  BY <1>1, <1>3, <1>5 DEF Fins, Flow
<1>10. Safe(h, On(c, n), r, rout)
  BY <1>7, <1>8, <1>9, OnSock DEF Safe
<1>. QED BY <1>10 DEF n, m

(* The next byte of the send buffer counts as sent. *)
Advance(c) == On(c, [Sock(c) EXCEPT !.nextTx = @ + 1, !.highTx = @ + 1])

(* It was written and not yet sent, so the DATA_FIN is not due. *)
LEMMA AdvanceKeeps ==
  ASSUME NEW h \in Hosts, NEW c, NEW r \in MetaSocket(Peer(h)), NEW rout,
         Safe(h, c, r, rout), Sock(c).nextTx = Sock(c).highTx, Sock(c).highTx < Sock(c).written
  PROVE  Safe(h, Advance(c), r, rout)
<1>. DEFINE m == Sock(c)
            n == [m EXCEPT !.nextTx = @ + 1, !.highTx = @ + 1]
<1>0. m \in MetaSocket(h) /\ Peer(h) \in Hosts /\ Peer(Peer(h)) = h
  BY Peers DEF Safe, Good
<1>1. Counts(m) /\ Retries(m) /\ Heard(m) /\ Honest(m, Out(c)) /\ Flow(m, r) /\ Flow(r, m)
      /\ Fins(m, Out(c), r) /\ Fins(r, rout, m) /\ Out(c) \subseteq Packet(h)
  BY DEF Safe, Good
<1>2. n \in MetaSocket(h)
  <2>1. m.nextTx + 1 \in 0..(Limit[h] + 1) /\ m.highTx + 1 \in 0..Limit[h]
    BY <1>0, Fields
  <2>. QED BY <1>0, <2>1 DEF MetaSocket
<1>3. /\ n.written = m.written /\ n.txHead = m.txHead /\ n.nextTx = m.nextTx + 1
      /\ n.highTx = m.highTx + 1 /\ n.sfHead = m.sfHead /\ n.got = m.got /\ n.ooo = m.ooo
      /\ n.finSeq = m.finSeq /\ n.state = m.state /\ n.retx = m.retx
      /\ n.closeNotified = m.closeNotified /\ n.lastAck = m.lastAck /\ n.timeWait = m.timeWait
  BY <1>0 DEF MetaSocket
<1>4. /\ m.highTx \in Nat /\ m.written \in Nat /\ m.txHead \in Nat /\ r.got \in Nat
      /\ r.ooo \subseteq Nat
  BY <1>0, Fields
<1>5. m.nextTx = m.highTx /\ m.highTx < m.written
  OBVIOUS
<1>. HIDE DEF m, n
<1>6. Open(n) = Open(m) /\ Told(n) = Told(m) /\ NextRx(n) = NextRx(m) /\ Finished(n) = Finished(m)
  BY <1>3 DEF Open, Told, NextRx, Finished
<1>7. Counts(n)
  BY <1>1, <1>3, <1>4, <1>5 DEF Counts, Max2
<1>8. Retries(n)
  BY <1>1, <1>3, <1>4, <1>5 DEF Retries
<1>9. Honest(n, Out(c))
  <2>1. ASSUME NEW p \in Out(c)
        PROVE  p.data < n.highTx /\ p.dack <= NextRx(n) /\ p.ack <= n.got
    <3>1. p.data \in Int
      BY <1>1, CloseAssumption DEF Packet, None, CloseAssumption
    <3>2. p.data < m.highTx /\ p.dack <= NextRx(m) /\ p.ack <= m.got
      BY <1>1 DEF Honest
    <3>. QED BY <1>3, <1>4, <1>6, <3>1, <3>2
  <2>. QED BY <2>1 DEF Honest
<1>10. Fins(n, Out(c), r)
  BY <1>1, <1>3, <1>6 DEF Fins
<1>11. Flow(n, r)
  <2>1. r.got <= n.highTx /\ \A x \in r.ooo : x < n.highTx
    BY <1>1, <1>3, <1>4 DEF Flow
  <2>. QED BY <1>1, <1>3, <1>6, <2>1 DEF Flow
<1>12. Fins(r, rout, n) /\ Flow(r, n)
  BY <1>1, <1>3, <1>6 DEF Fins, Flow
<1>13. Safe(h, On(c, n), r, rout)
  BY <1>1, <1>2, <1>6, <1>7, <1>8, <1>9, <1>10, <1>11, <1>12, OnSock DEF Safe, Good, Heard, m, n
<1>. QED BY <1>13 DEF Advance, n, m

(* Whether it counts before or after it is put on the link is the same. *)
LEMMA SendThenAdvance ==
  ASSUME NEW h \in Hosts, NEW c, Sock(c) \in MetaSocket(h), NEW d
  PROVE  Advance(SendData(c, d)) = SendData(Advance(c), d)
<1>. DEFINE m   == Sock(c)
            n   == [m EXCEPT !.nextTx = @ + 1, !.highTx = @ + 1]
            fin == CheckAndAppendDataFin(m, d)
            to  == IF ~fin THEN m.state
                   ELSE CASE m.state = "Established" -> "FinWait1"
                          [] m.state = "CloseWait"   -> "LastAck"
                          [] OTHER                   -> m.state
            dsn == IF fin THEN d + 1 ELSE None
            a   == On(c, [m EXCEPT !.state = to])
            b   == On(Advance(c), [n EXCEPT !.state = to])
<1>1. Sock(Advance(c)) = n /\ Out(Advance(c)) = Out(c) /\ Cap(Advance(c)) = Cap(c)
  BY DEF Advance, On, Sock, Out, Cap
<1>2. CheckAndAppendDataFin(n, d) = fin /\ n.state = m.state
  BY DEF MetaSocket, CheckAndAppendDataFin, TxTail
<1>3. SendData(c, d) = Put(a, d, dsn, TRUE)
  BY DEF SendData
<1>4. SendData(Advance(c), d) = Put(b, d, dsn, TRUE)
  <2>. HIDE DEF n, m, fin
  <2>. QED BY <1>1, <1>2 DEF SendData
<1>5. Out(a) = Out(c) /\ Out(b) = Out(c) /\ Cap(a) = Cap(c) /\ Cap(b) = Cap(c)
  BY <1>1 DEF On, Out, Cap
<1>6. Sock(a) = [m EXCEPT !.state = to] /\ Sock(b) = [n EXCEPT !.state = to]
  BY OnSock
<1>. HIDE DEF to, dsn
<1>7. NextRx(Sock(b)) = NextRx(Sock(a)) /\ Sock(b).got = Sock(a).got
      /\ Sock(b).dackDue = Sock(a).dackDue
  <2>1. /\ Sock(a).got = m.got /\ Sock(a).finSeq = m.finSeq /\ Sock(a).dackDue = m.dackDue
        /\ Sock(b).got = m.got /\ Sock(b).finSeq = m.finSeq /\ Sock(b).dackDue = m.dackDue
    BY <1>6 DEF MetaSocket
  <2>. HIDE DEF a, b, m
  <2>. QED BY <2>1 DEF NextRx
<1>8. [Sock(b) EXCEPT !.dackDue = FALSE] =
        [[Sock(a) EXCEPT !.dackDue = FALSE] EXCEPT !.nextTx = @ + 1, !.highTx = @ + 1]
  BY ZenonT(60), <1>6 DEF MetaSocket
<1>. HIDE DEF a, b
<1>9. Put(b, d, dsn, TRUE) = Advance(Put(a, d, dsn, TRUE))
  BY <1>5, <1>7, <1>8 DEF Put, Advance, On, Sock, Out, Cap
<1>. QED BY <1>3, <1>4, <1>9

(* Sending a byte moves no number of the sender. *)
LEMMA SendDataFields ==
  ASSUME NEW h \in Hosts, NEW c, Sock(c) \in MetaSocket(h), NEW d
  PROVE  LET m == Sock(SendData(c, d))
         IN  /\ m.written = Sock(c).written /\ m.nextTx = Sock(c).nextTx
             /\ m.highTx = Sock(c).highTx
BY DEF SendData, Put, On, Sock, Out, Cap, MetaSocket

(* One call of SendPacket after another: x is what the calls before i left. *)
After(h, x, i) ==
  IF i = 0 THEN On(At(h), [meta[h] EXCEPT !.sendEvent = FALSE])
  ELSE Advance(SendData(x, meta[h].nextTx + i - 1))

(* f holds what each of the calls of SendPendingData leaves. *)
Calls(h, n, f) == f = [i \in 0..n |-> After(h, f[i - 1], i)]

(* That function, which is recursive, is there. *)
LEMMA SentExists ==
  ASSUME NEW h \in Hosts, NEW n \in Nat
  PROVE  \E f : Calls(h, n, f)
<1>. DEFINE P(j) == \E f : f = [i \in 0..j |-> After(h, f[i - 1], i)]
            T    == {j \in Nat : ~P(j)}
<1>1. \A x, y : After(h, x, 0) = After(h, y, 0)
  BY DEF After
<1>2. P(0)
  <2>. DEFINE f == [i \in 0..0 |-> After(h, 0, 0)]
  <2>1. \A i \in 0..0 : After(h, f[i - 1], i) = After(h, 0, 0)
    BY <1>1
  <2>. QED BY <2>1
<1>3. ASSUME NEW j \in Nat, j > 0, P(j - 1) PROVE P(j)
  <2>1. PICK f : f = [i \in 0..(j - 1) |-> After(h, f[i - 1], i)]
    BY <1>3
  <2>. DEFINE g == [i \in 0..j |-> IF i = j THEN After(h, f[j - 1], j) ELSE f[i]]
  <2>2. ASSUME NEW i \in 0..j PROVE g[i] = After(h, g[i - 1], i)
    <3>1. CASE i = 0
      BY <1>1, <1>3, <2>1, <3>1
    <3>2. CASE i = j
      BY <1>3, <3>2
    <3>3. CASE i # 0 /\ i # j
      <4>1. i \in 0..(j - 1) /\ g[i] = f[i] /\ g[i - 1] = f[i - 1]
        BY <3>3
      <4>. QED BY <2>1, <4>1
    <3>. QED BY <3>1, <3>2, <3>3
  <2>3. g = [i \in 0..j |-> After(h, g[i - 1], i)]
    BY <2>2
  <2>. HIDE DEF g
  <2>. QED BY <2>3
<1>. HIDE DEF P
<1>4. T = {}
  <2>1. SUFFICES ASSUME T # {} PROVE FALSE
    OBVIOUS
  <2>2. T \in SUBSET Nat
    OBVIOUS
  <2>. HIDE DEF T
  <2>3. PICK j \in T : \A y \in T : j <= y
    BY <2>1, <2>2, Least
  <2>. USE DEF T
  <2>4. j # 0
    BY <1>2
  <2>5. P(j - 1)
    BY <2>3, <2>4
  <2>. QED BY <1>3, <2>4, <2>5
<1>5. P(n)
  BY <1>4
<1>. QED BY <1>5 DEF P, Calls

(* What the action does is the last value of that function. *)
LEMMA SentData ==
  ASSUME NEW h \in Hosts, NEW n \in 0..Limit[h], SendPendingData(h, n), Limit[h] \in Nat
  PROVE  /\ meta[h].nextTx + n <= TxTail(meta[h])
         /\ \E f : Calls(h, n, f) /\ Becomes(h, f[n])
<1>1. \E f : f = [i \in 0..n |-> After(h, f[i - 1], i)]
  BY SentExists DEF Calls
<1>2. /\ meta[h].nextTx + n <= TxTail(meta[h])
      /\ \E f : f = [i \in 0..n |-> After(h, f[i - 1], i)] /\ Becomes(h, f[n])
  BY <1>1 DEF SendPendingData, After, Advance
<1>. QED BY <1>2 DEF Calls

(* c is what i of the n calls left: so many bytes were mapped. *)
Underway(h, r, rout, n, c, i) ==
  /\ Safe(h, c, r, rout) /\ Sock(c).written = meta[h].written
  /\ Sock(c).nextTx = meta[h].nextTx + i
  /\ i < n => /\ Sock(c).highTx = meta[h].nextTx + i
              /\ meta[h].nextTx + i < meta[h].written

(* Each call keeps the invariant; by induction all do. *)
LEMMA SendPendingDataKeeps ==
  ASSUME NEW h \in Hosts, NEW r \in MetaSocket(Peer(h)), NEW rout,
         Safe(h, At(h), r, rout), NEW n \in 0..Limit[h],
         meta[h].nextTx + n <= TxTail(meta[h]),
         NEW f, Calls(h, n, f)
  PROVE  \A i \in 0..n : Underway(h, r, rout, n, f[i], i)
<1>. DEFINE m == meta[h]
            c == At(h)
            k == [m EXCEPT !.sendEvent = FALSE]
            Sent(i) == /\ Safe(h, f[i], r, rout)
                       /\ Sock(f[i]).written = m.written /\ Sock(f[i]).nextTx = m.nextTx + i
                       /\ i < n => Sock(f[i]).highTx = m.nextTx + i
            T == {i \in 0..n : ~Sent(i)}
<1>0. /\ Sock(c) = m /\ m \in MetaSocket(h) /\ Peer(h) \in Hosts /\ Peer(Peer(h)) = h
      /\ Limit[h] \in Nat /\ n \in Nat
  BY Peers, CloseAssumption DEF Safe, Good, At, Sock, CloseAssumption
<1>1. n > 0 => m.nextTx = m.highTx /\ m.nextTx + n <= m.written
  <2>1. Counts(m) /\ Flow(m, r)
    BY <1>0 DEF Safe, Good
  <2>2. Finished(r) => m.highTx = m.written
    BY <1>0, <2>1, FinishedMeans
  <2>. QED BY SMTT(30), <1>0, <2>1, <2>2, Fields DEF Counts, Flow, TxTail, Max2, NextRx, Finished, None
<1>2. Sent(0)
  <2>1. f[0] = On(c, k)
    BY <1>0 DEF After, Calls
  <2>2. k \in MetaSocket(h) /\ Quiet(m, k)
    BY ZenonT(60), <1>0 DEF MetaSocket, Quiet, Open, Told, Safe, Good, Retries
  <2>3. k.written = m.written /\ k.nextTx = m.nextTx /\ k.highTx = m.highTx /\ m.nextTx \in Nat
    BY <1>0, Fields DEF MetaSocket
  <2>. HIDE DEF c, k
  <2>4. Safe(h, f[0], r, rout) /\ Sock(f[0]) = k
    BY <1>0, <2>1, <2>2, QuietKeeps, OnSock DEF c
  <2>. QED BY <1>1, <2>3, <2>4
<1>3. ASSUME NEW i \in 1..n, Sent(i - 1) PROVE Sent(i)
  <2>. DEFINE x == f[i - 1]
              d == m.nextTx + i - 1
              y == Advance(x)
  <2>1. i \in Nat /\ i > 0 /\ i <= n /\ i \in 0..n /\ i - 1 < n /\ m.nextTx \in Nat
    BY <1>0, Fields
  <2>2. f[i] = Advance(SendData(x, d))
    <3>1. f[i] = After(h, f[i - 1], i)
      BY <2>1 DEF Calls
    <3>2. i # 0
      BY <2>1
    <3>. QED BY <3>1, <3>2 DEF After
  <2>3. /\ Safe(h, x, r, rout) /\ Sock(x).written = m.written
        /\ Sock(x).nextTx = d /\ Sock(x).highTx = d
    BY <1>3, <2>1
  <2>4. d \in Nat /\ d < m.written
    BY SMTT(30), <1>0, <1>1, <2>1, Fields
  <2>5. Sock(x) \in MetaSocket(h)
    BY <2>3 DEF Safe, Good
  <2>. HIDE DEF x, d, Sent
  <2>6. Safe(h, y, r, rout)
    BY <2>3, <2>4, AdvanceKeeps
  <2>7. /\ Sock(y).written = m.written /\ Sock(y).nextTx = d + 1 /\ Sock(y).highTx = d + 1
        /\ Sock(y) \in MetaSocket(h)
    <3>1. Sock(y) = [Sock(x) EXCEPT !.nextTx = @ + 1, !.highTx = @ + 1]
      BY OnSock DEF Advance
    <3>2. Sock(y) \in MetaSocket(h)
      BY <2>6 DEF Safe, Good
    <3>. QED BY <2>3, <2>5, <3>1, <3>2 DEF MetaSocket
  <2>. HIDE DEF y
  <2>8. Safe(h, SendData(y, d), r, rout)
    BY <2>4, <2>6, <2>7, SendDataKeeps
  <2>9. f[i] = SendData(y, d)
    BY <2>2, <2>5, SendThenAdvance DEF y
  <2>10. Sock(f[i]).written = m.written /\ Sock(f[i]).nextTx = d + 1 /\ Sock(f[i]).highTx = d + 1
    BY <2>7, <2>9, SendDataFields
  <2>11. d + 1 = m.nextTx + i
    BY <2>1 DEF d
  <2>. QED BY <2>8, <2>9, <2>10, <2>11 DEF Sent
<1>. HIDE DEF Sent
<1>4. T = {}
  <2>1. SUFFICES ASSUME T # {} PROVE FALSE
    OBVIOUS
  <2>2. T \in SUBSET Nat
    OBVIOUS
  <2>. HIDE DEF T
  <2>3. PICK i \in T : \A y \in T : i <= y
    BY <2>1, <2>2, Least
  <2>. USE DEF T
  <2>4. i # 0 /\ i \in 0..n /\ i \in 1..n
    BY <1>0, <1>2, <2>3
  <2>5. Sent(i - 1)
    <3>1. i - 1 \in 0..n /\ ~(i <= i - 1)
      BY <2>4
    <3>. QED BY <2>3, <3>1
  <2>. QED BY <1>3, <2>3, <2>4, <2>5
<1>5. \A i \in 0..n : Sent(i)
  BY <1>4
<1>6. ASSUME NEW i \in 0..n, i < n PROVE m.nextTx + i < m.written
  BY SMTT(30), <1>0, <1>1, <1>6, Fields
<1>. HIDE DEF m
<1>7. \A i \in 0..n :
        /\ Safe(h, f[i], r, rout)
        /\ Sock(f[i]).written = m.written /\ Sock(f[i]).nextTx = m.nextTx + i
        /\ i < n => Sock(f[i]).highTx = m.nextTx + i
  BY <1>5 DEF Sent
<1>. QED BY <1>6, <1>7 DEF m, Underway

(* ShutdownSend: the DATA_FIN goes out before the state changes. *)
LEMMA AppShutdownSendKeeps ==
  ASSUME NEW h \in Hosts, NEW c, NEW r \in MetaSocket(Peer(h)), NEW rout,
         Safe(h, c, r, rout), TxEmpty(Sock(c)), Open(Sock(c)),
         NEW next \in {"FinWait1", "LastAck"},
         next = IF Sock(c).state = "Established" THEN "FinWait1" ELSE "LastAck"
  PROVE  Safe(h, On(SendDataFin(c, FALSE),
                    [Sock(SendDataFin(c, FALSE)) EXCEPT !.state = next]), r, rout)
<1>. DEFINE m == Sock(c)
            n == [m EXCEPT !.state = next]
            a == SendDataFin(c, FALSE)
            b == SendDataFin(On(c, n), FALSE)
<1>0. m \in MetaSocket(h) /\ Peer(h) \in Hosts /\ Peer(Peer(h)) = h
  BY Peers DEF Safe, Good
<1>1. Counts(m) /\ Flow(m, r) /\ Retries(m)
  BY DEF Safe, Good
<1>2. m.highTx = m.written
  BY <1>0, <1>1, Fields DEF Counts, Flow, TxEmpty, NextRx, None
<1>3. n \in MetaSocket(h) /\ Quiet(m, n)
  <2>1. n \in MetaSocket(h)
    BY <1>0 DEF MetaSocket, States
  <2>2. Told(n) => Told(m)
    BY <1>0 DEF MetaSocket, Told, Open
  <2>. QED BY <1>0, <2>1, <2>2 DEF MetaSocket, Quiet, Open
<1>4. /\ ~Open(n) /\ n.highTx = n.written
  BY <1>0, <1>2 DEF MetaSocket, Open
<1>5. Safe(h, b, r, rout)
  <2>. HIDE DEF n
  <2>. QED BY <1>3, <1>4, QuietKeeps, OnSock, SendDataFinKeeps
<1>6. b = On(a, [Sock(a) EXCEPT !.state = next])
  BY <1>0 DEF SendDataFin, Put, On, Sock, Out, Cap, MetaSocket, NextRx
<1>. QED BY <1>5, <1>6

-----------------------------------------------------------------------------
(* The steps. *)

(* The invariant says the same of two hosts, whichever comes first. *)
LEMMA OtherSide ==
  ASSUME NEW h \in Hosts, NEW c, NEW r, NEW rout, NEW e,
         Safe(h, c, r, rout), Good(Peer(h), r, rout), Sock(e) = r, Out(e) = rout
  PROVE  Safe(Peer(h), e, Sock(c), Out(c))
BY DEF Safe

(* What is lost can do no harm. *)
LEMMA FewerPackets ==
  ASSUME NEW h \in Hosts, NEW c, NEW r, NEW rout, NEW less \in SUBSET rout,
         Safe(h, c, r, rout)
  PROVE  Safe(h, c, r, less)
BY DEF Safe, Fins

(* What the invariant says of a host and its peer. *)
LEMMA Sides ==
  ASSUME IInv, NEW h \in Hosts
  PROVE  /\ Safe(h, At(h), meta[Peer(h)], net[Peer(h)])
         /\ Peer(h) \in Hosts /\ meta[Peer(h)] \in MetaSocket(Peer(h))
         /\ Good(Peer(h), meta[Peer(h)], net[Peer(h)])
         /\ Sock(At(h)) = meta[h] /\ Out(At(h)) = net[h]
         /\ meta[h] \in MetaSocket(h) /\ Good(h, meta[h], net[h])
<1>1. Peer(h) \in Hosts
  BY Peers
<1>2. \A k \in Hosts : Sock(At(k)) = meta[k] /\ Out(At(k)) = net[k]
  BY DEF At, Sock, Out
<1>3. \A k \in Hosts : Good(k, meta[k], net[k])
  BY <1>2 DEF IInv, Safe
<1>. QED BY <1>1, <1>2, <1>3 DEF IInv, Good

(* An operation of h, which may take packets off its peer's link. *)
LEMMA StepKeeps ==
  ASSUME IInv, NEW h \in Hosts, NEW d, NEW left \in SUBSET net[Peer(h)],
         Safe(h, d, meta[Peer(h)], net[Peer(h)]),
         meta' = [meta EXCEPT ![h] = Sock(d)],
         net' = [net EXCEPT ![h] = Out(d), ![Peer(h)] = left]
  PROVE  IInv'
<1>. DEFINE k == Peer(h)
<1>1. k \in Hosts /\ k # h /\ Peer(k) = h /\ \A g \in Hosts : g = h \/ g = k
  BY Peers
<1>2. meta = [g \in Hosts |-> meta[g]] /\ net = [g \in Hosts |-> net[g]]
  BY DEF IInv
<1>3. /\ meta'[h] = Sock(d) /\ meta'[k] = meta[k] /\ net'[h] = Out(d) /\ net'[k] = left
      /\ meta' = [g \in Hosts |-> meta'[g]] /\ net' = [g \in Hosts |-> net'[g]]
  BY <1>1, <1>2
<1>4. Good(k, meta[k], left)
  BY Sides DEF Good, Honest
<1>5. Safe(h, d, meta[k], left)
  BY FewerPackets
<1>. DEFINE e == <<meta'[h], net'[h], LinkCap[h]>>
            f == <<meta'[k], net'[k], LinkCap[k]>>
<1>6. Safe(h, e, meta[k], left)
  BY <1>3, <1>5 DEF Safe, Sock, Out
<1>7. Sock(f) = meta[k] /\ Out(f) = left /\ Sock(e) = meta'[h] /\ Out(e) = net'[h]
  BY <1>3 DEF Sock, Out
<1>. HIDE DEF e, f, k
<1>8. Safe(k, f, meta'[h], net'[h])
  BY <1>4, <1>6, <1>7, OtherSide DEF k
<1>9. \A g \in Hosts : Safe(g, <<meta'[g], net'[g], LinkCap[g]>>, meta'[Peer(g)], net'[Peer(g)])
  <2>1. Safe(h, <<meta'[h], net'[h], LinkCap[h]>>, meta'[k], net'[k])
    BY <1>3, <1>6 DEF e
  <2>2. Safe(k, <<meta'[k], net'[k], LinkCap[k]>>, meta'[Peer(k)], net'[Peer(k)])
    BY <1>1, <1>8 DEF f
  <2>. QED BY <1>1, <2>1, <2>2 DEF k
<1>. QED BY <1>3, <1>9 DEF IInv, At

(* An operation of h that takes none off. *)
LEMMA BecomesKeeps ==
  ASSUME IInv, NEW h \in Hosts, NEW d, Safe(h, d, meta[Peer(h)], net[Peer(h)]), Becomes(h, d)
  PROVE  IInv'
<1>1. net' = [net EXCEPT ![h] = Out(d), ![Peer(h)] = net[Peer(h)]]
  BY Peers DEF Becomes, IInv
<1>2. meta' = [meta EXCEPT ![h] = Sock(d)]
  BY DEF Becomes
<1>. QED BY <1>1, <1>2, StepKeeps

(* A packet arrives: each call in turn keeps the invariant. *)
LEMMA ReceiveKeeps ==
  ASSUME IInv, NEW h \in Hosts, NEW p \in net[Peer(h)], NEW closes \in BOOLEAN,
         Receive(h, p, closes)
  PROVE  IInv'
<1>. DEFINE m       == meta[h]
            c       == At(h)
            r       == meta[Peer(h)]
            rout    == net[Peer(h)]
            acked   == IF p.dack = None THEN c ELSE On(c, ReceivedAck(m, p.dack))
            handled == Process(acked, p, closes)
            all     == IF p.fin = None THEN handled
                       ELSE PeerClose(handled, p.fin, Max2(p.dack, 0), closes)
            done    == IF p.data # None /\ p.data + 1 < m.got THEN SendEmpty(c, FALSE) ELSE all
<1>1. /\ Safe(h, c, r, rout) /\ r \in MetaSocket(Peer(h)) /\ Peer(h) \in Hosts
      /\ Good(Peer(h), r, rout) /\ Sock(c) = m
  BY Sides
<1>2. /\ p \in Packet(Peer(h)) /\ Counts(r)
      /\ p.data < r.highTx /\ p.dack <= NextRx(r) /\ p.ack <= r.got
  BY <1>1 DEF Good, Honest
<1>3. Limit[h] \in Nat /\ Peer(Peer(h)) = h
  BY Peers, CloseAssumption DEF CloseAssumption
<1>4. p.dack # None => p.dack \in Nat
  BY <1>2, <1>3 DEF Packet
<1>5. /\ meta' = [meta EXCEPT ![h] = Sock(done)]
      /\ net' = [net EXCEPT ![h] = Out(done), ![Peer(h)] = rout \ {p}]
  <2>1. net' = [net EXCEPT ![h] = Out(done), ![Peer(h)] = @ \ {p}]
    BY DEF Receive
  <2>2. net' = [net EXCEPT ![h] = Out(done), ![Peer(h)] = rout \ {p}]
    <3>. HIDE DEF done
    <3>. QED BY <2>1, Peers DEF IInv
  <2>. QED BY <2>2 DEF Receive
<1>6. Safe(h, acked, r, rout)
  <2>. HIDE DEF c, m, r, rout
  <2>. QED BY <1>1, <1>2, <1>4, ReceivedAckKeeps
<1>7. Safe(h, handled, r, rout)
  <2>. HIDE DEF acked, r, rout
  <2>. QED BY <1>1, <1>2, <1>6, ProcessKeeps
<1>8. Safe(h, all, r, rout)
  <2>. HIDE DEF handled
  <2>1. ASSUME p.fin # None
        PROVE  /\ p.fin = r.written \/ (p.fin = r.written + 1 /\ Finished(Sock(handled)))
               /\ ~Open(r)
    BY <1>7, <2>1 DEF Safe, Fins
  <2>2. ASSUME p.fin # None
        PROVE  Safe(h, PeerClose(handled, p.fin, Max2(p.dack, 0), closes), r, rout)
    <3>. HIDE DEF r, rout
    <3>. QED BY <1>1, <1>7, <2>1, <2>2, PeerCloseKeeps
  <2>. QED BY <1>7, <2>2
<1>9. Safe(h, SendEmpty(c, FALSE), r, rout)
  <2>. HIDE DEF c, r, rout
  <2>. QED BY <1>1, SendEmptyKeeps
<1>10. Safe(h, done, r, rout)
  <2>. HIDE DEF all
  <2>. QED BY <1>8, <1>9
<1>. HIDE DEF done
<1>. QED BY <1>5, <1>10, StepKeeps

(* At the start nothing was written. *)
LEMMA Initially == Init => IInv
<1>. SUFFICES ASSUME Init PROVE IInv
  OBVIOUS
<1>. DEFINE fresh == [state |-> "Established", written |-> 0, txHead |-> 0, nextTx |-> 0,
        highTx |-> 0, closeOnEmpty |-> FALSE, shutdownSend |-> FALSE,
        closeNotified |-> FALSE, sendEvent |-> FALSE, retx |-> FALSE,
        lastAck |-> FALSE, timeWait |-> FALSE, sfHead |-> 0, got |-> 0, ooo |-> {},
        finSeq |-> None, dackDue |-> FALSE, subClosed |-> FALSE, stop |-> "running"]
<1>1. \A h \in Hosts : meta[h] = fresh /\ net[h] = {}
  BY DEF Init
<1>2. \A h \in Hosts : fresh \in MetaSocket(h)
  <2>1. \A h \in Hosts : Limit[h] \in Nat /\ Limit[Peer(h)] \in Nat
    BY Peers, CloseAssumption DEF CloseAssumption
  <2>. QED BY <2>1 DEF MetaSocket, States, Stops
<1>3. /\ fresh.written = 0 /\ fresh.txHead = 0 /\ fresh.nextTx = 0 /\ fresh.highTx = 0
      /\ fresh.sfHead = 0 /\ fresh.got = 0 /\ fresh.ooo = {} /\ fresh.finSeq = None
      /\ ~fresh.retx /\ fresh.state = "Established" /\ NextRx(fresh) = 0
      /\ ~Told(fresh)
  BY DEF NextRx, Told, None
<1>. HIDE DEF fresh
<1>4. \A h \in Hosts : Good(h, fresh, {})
  BY <1>2, <1>3 DEF Good, Counts, Retries, Heard, Honest, Max2
<1>5. Fins(fresh, {}, fresh) /\ Flow(fresh, fresh)
  BY <1>3 DEF Fins, Flow
<1>6. \A h \in Hosts : Sock(At(h)) = fresh /\ Out(At(h)) = {}
  BY <1>1 DEF At, Sock, Out
<1>7. \A h \in Hosts : Safe(h, At(h), meta[Peer(h)], net[Peer(h)])
  BY <1>1, <1>4, <1>5, <1>6, Peers DEF Safe
<1>8. meta = [h \in Hosts |-> meta[h]] /\ net = [h \in Hosts |-> net[h]]
  BY DEF Init
<1>. QED BY <1>7, <1>8 DEF IInv

(* Every step keeps the invariant. *)
LEMMA Steps == IInv /\ [Next]_vars => IInv'
<1>. SUFFICES ASSUME IInv, [Next]_vars PROVE IInv'
  OBVIOUS
<1>1. ASSUME NEW h \in Hosts, AppSend(h) PROVE IInv'
  <2>. DEFINE m == meta[h]
              event == m.sendEvent \/ ~m.shutdownSend
              n == [m EXCEPT !.written = @ + 1, !.sendEvent = @ \/ ~m.shutdownSend]
  <2>1. m.state = "Established" /\ m.written < Limit[h] /\ Becomes(h, On(At(h), n))
    BY <1>1 DEF AppSend
  <2>2. event \in BOOLEAN /\ n = [m EXCEPT !.written = @ + 1, !.sendEvent = event]
    BY <1>1, Sides DEF MetaSocket
  <2>. HIDE DEF n, event
  <2>3. Safe(h, On(At(h), n), meta[Peer(h)], net[Peer(h)])
    BY <1>1, <2>1, <2>2, Sides, AppSendKeeps
  <2>. QED BY <1>1, <2>1, <2>3, BecomesKeeps
<1>2. ASSUME NEW h \in Hosts, AppClose(h) PROVE IInv'
  <2>1. Safe(h, Close(At(h)), meta[Peer(h)], net[Peer(h)])
    BY <1>2, Sides, CloseKeeps
  <2>. QED BY <1>2, <2>1, BecomesKeeps DEF AppClose
<1>3. ASSUME NEW h \in Hosts, AppShutdownSend(h) PROVE IInv'
  <2>. DEFINE m == [meta[h] EXCEPT !.shutdownSend = TRUE, !.closeOnEmpty = TRUE]
              c == On(At(h), m)
              fin == SendDataFin(c, FALSE)
              next == IF m.state = "Established" THEN "FinWait1" ELSE "LastAck"
              sent == On(fin, [Sock(fin) EXCEPT !.state = next])
  <2>1. m \in MetaSocket(h) /\ Quiet(meta[h], m)
    <3>1. meta[h] \in MetaSocket(h) /\ Retries(meta[h])
      BY <1>3, Sides DEF Good
    <3>2. m \in MetaSocket(h)
      BY <3>1 DEF MetaSocket
    <3>3. Quiet(meta[h], m)
      BY <3>1 DEF MetaSocket, Quiet, Open, Told, Retries
    <3>. QED BY <3>2, <3>3
  <2>2. Safe(h, c, meta[Peer(h)], net[Peer(h)]) /\ Sock(c) = m
    <3>. HIDE DEF m
    <3>. QED BY <1>3, <2>1, Sides, QuietKeeps, OnSock
  <2>3. ASSUME TxEmpty(m), m.state \in {"Established", "CloseWait"}
        PROVE  Safe(h, sent, meta[Peer(h)], net[Peer(h)])
    <3>. HIDE DEF m, c
    <3>. QED BY <1>3, <2>2, <2>3, Sides, AppShutdownSendKeeps DEF Open
  <2>4. Becomes(h, IF TxEmpty(m) /\ m.state \in {"Established", "CloseWait"} THEN sent ELSE c)
    BY <1>3 DEF AppShutdownSend
  <2>. HIDE DEF m, c, sent
  <2>. QED BY <1>3, <2>2, <2>3, <2>4, BecomesKeeps
<1>4. ASSUME NEW h \in Hosts, NEW n \in 0..Limit[h], SendPendingData(h, n) PROVE IInv'
  <2>1. Limit[h] \in Nat
    BY <1>4, CloseAssumption DEF CloseAssumption
  <2>2. /\ meta[h].nextTx + n <= TxTail(meta[h])
        /\ \E f : Calls(h, n, f) /\ Becomes(h, f[n])
    BY <1>4, <2>1, SentData
  <2>3. PICK f : Calls(h, n, f) /\ Becomes(h, f[n])
    BY <2>2
  <2>4. \A i \in 0..n : Underway(h, meta[Peer(h)], net[Peer(h)], n, f[i], i)
    BY <1>4, <2>2, <2>3, Sides, SendPendingDataKeeps
  <2>5. Safe(h, f[n], meta[Peer(h)], net[Peer(h)])
    BY <1>4, <2>1, <2>4 DEF Underway
  <2>. QED BY <1>4, <2>3, <2>5, BecomesKeeps
<1>5. ASSUME NEW h \in Hosts, NEW d \in 0..Limit[h], Retransmit(h, d) PROVE IInv'
  <2>1. d \in Nat /\ d < meta[h].highTx
    <3>1. Limit[h] \in Nat
      BY <1>5, CloseAssumption DEF CloseAssumption
    <3>. QED BY <1>5, <3>1 DEF Retransmit
  <2>2. Safe(h, SendData(At(h), d), meta[Peer(h)], net[Peer(h)])
    BY <1>5, <2>1, Sides, SendDataKeeps
  <2>. QED BY <1>5, <2>2, BecomesKeeps DEF Retransmit
<1>6. ASSUME NEW h \in Hosts, DataFinTimeout(h) PROVE IInv'
  <2>. DEFINE m == meta[h]
              n == [m EXCEPT !.retx = FALSE]
  <2>1. n \in MetaSocket(h) /\ Quiet(m, n) /\ ~Open(n) /\ n.highTx = n.written
    <3>1. m \in MetaSocket(h) /\ m.highTx = m.written /\ ~Open(m)
      BY <1>6, Sides DEF DataFinTimeout, Good, Retries
    <3>2. n \in MetaSocket(h)
      BY <3>1 DEF MetaSocket
    <3>3. Quiet(m, n) /\ ~Open(n) /\ n.highTx = n.written
      BY <3>1 DEF MetaSocket, Quiet, Open, Told
    <3>. QED BY <3>2, <3>3
  <2>2. Becomes(h, SendDataFin(On(At(h), n), FALSE))
    BY <1>6 DEF DataFinTimeout
  <2>. HIDE DEF n, m
  <2>3. /\ Safe(h, On(At(h), n), meta[Peer(h)], net[Peer(h)]) /\ Sock(On(At(h), n)) = n
        /\ meta[Peer(h)] \in MetaSocket(Peer(h))
    BY <1>6, <2>1, Sides, QuietKeeps, OnSock DEF m
  <2>4. Safe(h, SendDataFin(On(At(h), n), FALSE), meta[Peer(h)], net[Peer(h)])
    BY <1>6, <2>1, <2>3, SendDataFinKeeps
  <2>. QED BY <1>6, <2>2, <2>4, BecomesKeeps
<1>7. ASSUME NEW h \in Hosts, LastAckTimeout(h) PROVE IInv'
  <2>. DEFINE m == meta[h]
              n == [m EXCEPT !.lastAck = FALSE, !.closeNotified = TRUE]
  <2>1. Finished(m) /\ m \in MetaSocket(h)
    BY <1>7, Sides DEF LastAckTimeout, Good, Heard, Told
  <2>2. Safe(h, On(At(h), CloseAndNotify(m)), meta[Peer(h)], net[Peer(h)])
    BY <1>7, <2>1, Sides, CloseAndNotifyKeeps
  <2>3. Safe(h, On(At(h), n), meta[Peer(h)], net[Peer(h)])
    <3>1. n \in MetaSocket(h)
      BY <2>1 DEF MetaSocket
    <3>2. Quiet(m, n)
      BY <1>7, <2>1, Sides DEF MetaSocket, Quiet, Open, Good, Retries
    <3>. HIDE DEF n
    <3>. QED BY <1>7, <3>1, <3>2, Sides, QuietKeeps
  <2>4. Becomes(h, On(At(h), IF m.state = "LastAck" THEN CloseAndNotify(m) ELSE n))
    BY <1>7 DEF LastAckTimeout
  <2>. HIDE DEF n, m
  <2>5. Safe(h, On(At(h), IF m.state = "LastAck" THEN CloseAndNotify(m) ELSE n),
             meta[Peer(h)], net[Peer(h)])
    BY <2>2, <2>3
  <2>. QED BY <1>7, <2>4, <2>5, BecomesKeeps
<1>8. ASSUME NEW h \in Hosts, TimeWaitTimeout(h) PROVE IInv'
  <2>1. Finished(meta[h])
    BY <1>8, Sides DEF TimeWaitTimeout, Good, Heard, Told
  <2>2. Safe(h, On(At(h), CloseAndNotify(meta[h])), meta[Peer(h)], net[Peer(h)])
    BY <1>8, <2>1, Sides, CloseAndNotifyKeeps
  <2>. QED BY <1>8, <2>2, BecomesKeeps DEF TimeWaitTimeout
<1>9. ASSUME NEW h \in Hosts, NEW p \in net[h], Lose(h, p) PROVE IInv'
  <2>. DEFINE k == Peer(h)
  <2>1. k \in Hosts /\ Peer(k) = h /\ k # h
    BY <1>9, Peers
  <2>2. Safe(k, At(k), meta[h], net[h]) /\ Sock(At(k)) = meta[k] /\ Out(At(k)) = net[k]
    BY <2>1, Sides
  <2>3. meta' = [meta EXCEPT ![k] = meta[k]]
        /\ net' = [net EXCEPT ![k] = net[k], ![Peer(k)] = net[h] \ {p}]
    BY <1>9, <2>1 DEF Lose, IInv
  <2>4. net[h] \ {p} \in SUBSET net[Peer(k)] /\ Safe(k, At(k), meta[Peer(k)], net[Peer(k)])
    BY <2>1, <2>2
  <2>. HIDE DEF k
  <2>. QED BY <2>1, <2>2, <2>3, <2>4, StepKeeps
<1>10. CASE UNCHANGED vars
  BY <1>10 DEF vars, IInv, At
<1>11. ASSUME NEW h \in Hosts, GiveUp(h) PROVE IInv'
  <2>. DEFINE m == meta[h]
              n == [m EXCEPT !.stop = "subflow dropped"]
  <2>1. n \in MetaSocket(h) /\ Quiet(m, n)
    <3>1. m \in MetaSocket(h) /\ Retries(m)
      BY <1>11, Sides DEF Good
    <3>2. n \in MetaSocket(h)
      BY <3>1 DEF MetaSocket, Stops
    <3>3. Quiet(m, n)
      BY <3>1 DEF MetaSocket, Quiet, Open, Told, Retries
    <3>. QED BY <3>2, <3>3
  <2>2. Becomes(h, On(At(h), n))
    BY <1>11 DEF GiveUp
  <2>. HIDE DEF n
  <2>3. Safe(h, On(At(h), n), meta[Peer(h)], net[Peer(h)])
    BY <1>11, <2>1, Sides, QuietKeeps
  <2>. QED BY <1>11, <2>2, <2>3, BecomesKeeps
<1>. QED
  BY <1>1, <1>2, <1>3, <1>4, <1>5, <1>6, <1>7, <1>8, <1>9, <1>10, <1>11, ReceiveKeeps
     DEF Next

-----------------------------------------------------------------------------
(* The theorems. *)

(* The invariant all others follow from: each host's numbers agree with what *)
(* the other received, and only a finished peer is taken notice of.          *)
THEOREM Invariance == Spec => []IInv
<1>1. Init => IInv
  BY Initially
<1>2. IInv /\ [Next]_vars => IInv'
  BY Steps
<1>. QED BY <1>1, <1>2, PTL DEF Spec

(* The retransmissions left, apart from all else: only DoRetransmit takes    *)
(* one away, while there is one, and a new acknowledgement gives them back.  *)
RetriesTyped == retrCount \in [Hosts -> 0..(DataRetries + 1)]

LEMMA RetriesStay == RetriesTyped /\ [Next]_vars => RetriesTyped'
<1>. SUFFICES ASSUME RetriesTyped, [Next]_vars PROVE RetriesTyped'
  OBVIOUS
<1>1. ASSUME NEW h \in Hosts, NEW n \in 0..(DataRetries + 1),
             retrCount' = [retrCount EXCEPT ![h] = n]
      PROVE  RetriesTyped'
  BY <1>1 DEF RetriesTyped
<1>2. ASSUME UNCHANGED retrCount PROVE RetriesTyped'
  BY <1>2 DEF RetriesTyped
<1>3. ASSUME NEW h \in Hosts, NEW d \in 0..Limit[h], Retransmit(h, d)
      PROVE  RetriesTyped'
  <2>1. CASE UNCHANGED retrCount
    BY <1>2, <2>1
  <2>2. CASE retrCount[h] > 0 /\ retrCount' = [retrCount EXCEPT ![h] = @ - 1]
    <3>1. retrCount[h] \in 0..(DataRetries + 1) /\ DataRetries \in Nat
      BY CloseAssumption DEF RetriesTyped, CloseAssumption
    <3>2. retrCount[h] - 1 \in 0..(DataRetries + 1)
      BY <2>2, <3>1
    <3>. QED BY <1>1, <2>2, <3>2
  <2>. QED BY <1>3, <2>1, <2>2 DEF Retransmit
<1>4. ASSUME NEW h \in Hosts, NEW p \in net[Peer(h)], NEW closes \in BOOLEAN,
             Receive(h, p, closes)
      PROVE  RetriesTyped'
  <2>1. \E m, k : \E n \in RetriesAfter(h, m, k) :
          retrCount' = [retrCount EXCEPT ![h] = n]
    BY <1>4 DEF Receive
  <2>2. PICK m, k, n : n \in RetriesAfter(h, m, k)
                      /\ retrCount' = [retrCount EXCEPT ![h] = n]
    BY <2>1
  <2>3. n \in 0..(DataRetries + 1)
    BY <2>2, CloseAssumption DEF RetriesTyped, RetriesAfter, CloseAssumption
  <2>. QED BY <1>1, <2>2, <2>3
<1>5. ASSUME NEW h \in Hosts,
             \/ AppSend(h) \/ AppClose(h) \/ AppShutdownSend(h) \/ GiveUp(h)
             \/ \E n \in 0..Limit[h] : SendPendingData(h, n)
             \/ DataFinTimeout(h) \/ LastAckTimeout(h) \/ TimeWaitTimeout(h)
             \/ \E p \in net[h] : Lose(h, p)
      PROVE  UNCHANGED retrCount
  BY <1>5 DEF AppSend, AppClose, AppShutdownSend, GiveUp, SendPendingData, DataFinTimeout,
              LastAckTimeout, TimeWaitTimeout, Lose
<1>6. CASE UNCHANGED vars
  BY <1>2, <1>6 DEF vars
<1>. QED BY <1>2, <1>3, <1>4, <1>5, <1>6 DEF Next

(* Sockets and packets have their types: though a DATA_FIN sent again takes *)
(* another number, none leaves its bound, whatever Limit is (SendDataFin).  *)
THEOREM TypeCorrect == Spec => []TypeOK
<1>1. IInv /\ RetriesTyped => TypeOK
  BY Sides DEF TypeOK, Good, RetriesTyped
<1>2. Init => RetriesTyped
  BY CloseAssumption DEF Init, RetriesTyped, CloseAssumption
<1>. QED BY <1>1, <1>2, RetriesStay, Invariance, PTL DEF Spec

(* A DATA_FIN stands right after the last byte its host ever writes, though *)
(* Close may be deferred and Send be called after it (FinIsEnd).            *)
THEOREM FinMarksEnd == Spec => []FinIsEnd
<1>1. IInv => FinIsEnd
  <2>. SUFFICES ASSUME IInv, NEW h \in Hosts
       PROVE  /\ meta[Peer(h)].finSeq \in {None, meta[h].written}
              /\ \A p \in net[h] :
                   \/ p.fin \in {None, meta[h].written}
                   \/ p.fin = meta[h].written + 1 /\ Finished(meta[Peer(h)])
    BY DEF FinIsEnd
  <2>1. /\ Fins(meta[h], net[h], meta[Peer(h)]) /\ Flow(meta[h], meta[Peer(h)])
    BY Sides DEF Safe
  <2>. QED BY <2>1 DEF Fins, Flow
<1>. QED BY <1>1, Invariance, PTL

(* The application is told of the end only when all its peer wrote is there *)
(* (EofAfterAllData).                                                       *)
THEOREM EofIsLast == Spec => []EofAfterAllData
<1>1. IInv => EofAfterAllData
  <2>. SUFFICES ASSUME IInv, NEW h \in Hosts, meta[h].closeNotified
       PROVE  Finished(meta[h]) /\ meta[h].got = meta[Peer(h)].written
    BY DEF EofAfterAllData, ReceivedAll
  <2>. DEFINE k == Peer(h)
  <2>1. k \in Hosts /\ Peer(k) = h /\ meta[h] \in MetaSocket(h) /\ Heard(meta[h])
    BY Peers, Sides DEF Good
  <2>2. Finished(meta[h])
    BY <2>1 DEF Heard, Told
  <2>3. Counts(meta[k]) /\ Flow(meta[k], meta[h]) /\ meta[k] \in MetaSocket(k)
    BY <2>1, Sides DEF Safe, Good
  <2>. HIDE DEF k
  <2>4. meta[h].got = meta[k].written
    BY <2>1, <2>2, <2>3, FinishedMeans
  <2>. QED BY <2>2, <2>4 DEF k
<1>. QED BY <1>1, Invariance, PTL

(* A host in FIN_WAIT_2 closes its subflows, and the peer lacks nothing *)
(* (FinWait2Acked).                                                     *)
THEOREM FinWait2Knows == Spec => []FinWait2Acked
<1>1. IInv => FinWait2Acked
  <2>. SUFFICES ASSUME IInv, NEW h \in Hosts, meta[h].state = "FinWait2"
       PROVE  Finished(meta[Peer(h)]) /\ meta[Peer(h)].got = meta[h].written
    BY Peers DEF FinWait2Acked, ReceivedAll
  <2>1. /\ Counts(meta[h]) /\ Flow(meta[h], meta[Peer(h)])
        /\ meta[h] \in MetaSocket(h) /\ meta[Peer(h)] \in MetaSocket(Peer(h))
    BY Sides DEF Safe, Good
  <2>2. Finished(meta[Peer(h)])
    BY <2>1 DEF Flow
  <2>. QED BY <2>1, <2>2, FinishedMeans
<1>. QED BY <1>1, Invariance, PTL
=============================================================================
