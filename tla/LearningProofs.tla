--------------------------- MODULE LearningProofs ---------------------------
(***************************************************************************)
(* Proofs about LearningLoop, for any number of schedulers, episodes and   *)
(* records and a memory of any size.                                       *)
(***************************************************************************)
EXTENDS LearningLoop, SequenceTheorems, TLAPS

(* The number of records the server has received in this episode. *)
Got == Len(server.data)

(* What a simulation has counted. *)
Counts == sim.time <= sim.seqNum /\ sim.acked <= sim.seqNum * MaxAcked

(* Between two simulations nothing is under way, and a server that listens *)
(* has begun its episode afresh.                                           *)
Idle ==
  ~conn =>
    /\ Ended /\ up = << >> /\ down = << >>
    /\ server.state \in {"listen", "done", "exit"}
    /\ server.state = "listen" =>
         /\ server.episode = episodeNum
         /\ server.data = << >> /\ server.action = << >> /\ server.schedulerId = << >>
         /\ server.lastSchedulerTiming = Never /\ server.accumulativeReward = 0

(* During a simulation, whose turn it is: the simulation's, with nothing   *)
(* under way; the server's, which has a record to receive or to answer; or *)
(* the simulation's, which has an answer to receive.                       *)
SimTurn ==
  /\ sim.state \in {"off", "running"} /\ up = << >> /\ down = << >>
  /\ server.state \in {"listen", "recv"}
  /\ sim.seqNum = Got /\ Len(sim.used) = Got /\ Len(server.action) = Got

RecordSent ==
  /\ sim.state = "waiting" /\ Len(up) = 1 /\ down = << >>
  /\ server.state \in {"listen", "recv"}
  /\ up[1].ssn = Got /\ up[1].acked = sim.acked
  /\ sim.seqNum = Got + 1 /\ Len(sim.used) = Got /\ Len(server.action) = Got

RecordReceived ==
  /\ sim.state = "waiting" /\ up = << >> /\ down = << >>
  /\ server.state = "answer"
  /\ sim.seqNum = Got /\ Len(sim.used) = Got - 1 /\ Len(server.action) = Got - 1

AnswerSent ==
  /\ sim.state = "waiting" /\ up = << >> /\ Len(down) = 1
  /\ server.state = "recv"
  /\ down[1] = server.action[Got]
  /\ sim.seqNum = Got /\ Len(sim.used) = Got - 1 /\ Len(server.action) = Got

Lockstep ==
  conn =>
    /\ server.episode = episodeNum - 1
    /\ server.state = "listen" <=> Got = 0
    /\ SimTurn \/ RecordSent \/ RecordReceived \/ AnswerSent

(* The logs of the server, and the variables of its loop. *)
Logs ==
  conn =>
    /\ Len(server.schedulerId) = Len(server.action)
    /\ server.lastSchedulerTiming = Never <=> server.action = << >>
    /\ server.action # << >> => server.lastAction = Last(server.schedulerId)
    /\ \A i \in 1..Len(server.action) :
         IF server.action[i] = Keep
           THEN i > 1 /\ server.schedulerId[i] = server.schedulerId[i - 1]
           ELSE server.schedulerId[i] = server.action[i]
    /\ Got > 0 => server.before = <<server.episode, Got - 1>>

(* The simulation uses what the server noted. *)
Used ==
  conn =>
    /\ \A k \in 1..Len(sim.used) : server.schedulerId[k] = sim.used[k]
    /\ sim.used # << >> => sim.scheduler = Last(sim.used)

(* What was acknowledged until record k, as far as it was rewarded. *)
Base(k) == IF k = 1 THEN 0 ELSE server.data[k].acked

(* The last choice among the first k answers. *)
ChosenAt(j, k) ==
  server.action[j] # Keep /\ \A i \in (j + 1)..k : server.action[i] = Keep

Rewards ==
  conn =>
    /\ \A i, k \in 1..Got : i <= k => server.data[i].acked <= server.data[k].acked
    /\ \A i \in 1..Got : server.data[i].acked <= sim.acked
    /\ Got > 0 => server.lastAckedSeqSum = Base(Got)
    /\ server.action = << >> => server.accumulativeReward = 0
    /\ server.action # << >> =>
         \E j \in 1..Len(server.action) :
           /\ ChosenAt(j, Len(server.action))
           /\ server.accumulativeReward = Base(Got) - Base(j)

(* The rows of the memory that were written. *)
Filled ==
  /\ conn /\ Got > 0 => learner.counter >= Got - 1
  /\ \A i \in Indices : i < learner.counter => learner.memory[i] # Zero
  /\ learner.sampled <= learner.counter

IInv ==
  /\ TypeOK /\ Counts /\ Idle /\ Lockstep
  /\ Logs /\ Used /\ Rewards /\ Filled /\ TransitionsTrue

-----------------------------------------------------------------------------
(* A ring of size m: two positions less than a round apart differ. *)
LEMMA Division ==
  ASSUME NEW m \in Nat \ {0}, NEW a \in Nat
  PROVE  /\ a % m \in 0..(m - 1) /\ a \div m \in Nat
         /\ a = m * (a \div m) + (a % m)
OBVIOUS

LEMMA RingDistinct ==
  ASSUME NEW m \in Nat \ {0}, NEW a \in Nat, NEW b \in Nat, 0 < b - a, b - a < m
  PROVE  a % m # b % m
<1> SUFFICES ASSUME a % m = b % m PROVE FALSE
  OBVIOUS
<1>0. a % m \in 0..(m - 1)
  BY Division
<1>1. PICK p \in Nat : a = m * p + (a % m)
  BY Division
<1>2. PICK q \in Nat : b = m * q + (b % m)
  BY Division
<1>3. b - a = m * (q - p) /\ q - p \in Int
  <2>1. b - a = m * q - m * p
    BY <1>0, <1>1, <1>2
  <2> QED BY <1>1, <1>2, <2>1
<1>4. CASE q - p <= 0
  <2>1. m * (q - p) <= 0
    BY <1>3, <1>4
  <2> QED BY <1>3, <2>1
<1>5. CASE q - p >= 1
  <2>1. m * (q - p) >= m
    BY <1>3, <1>5
  <2> QED BY <1>3, <2>1
<1> QED BY <1>3, <1>4, <1>5

LEMMA NewEpisodeTyped ==
  ASSUME NEW srv \in Server, NEW n \in 0..MaxEpisode
  PROVE  NewEpisode(srv, n) \in Server
<1>1. /\ << >> \in Seq(Record) /\ << >> \in Seq(Schedulers) /\ << >> \in Seq(Answers)
      /\ 0 \in Acked
  BY LearningAssumption DEF Acked
<1> QED BY <1>1 DEF NewEpisode, Server

LEMMA InitIInv == Init => IInv
<1> SUFFICES ASSUME Init PROVE IInv
  OBVIOUS
<1> USE LearningAssumption
<1>1. /\ MaxEpisode - 1 \in Nat /\ MaxRecords * MaxAcked \in Nat
      /\ 0 \in Acked /\ <<0, 0>> \in Observation
  BY DEF Acked, Observation
<1>2. TypeOK
  <2>1. sim \in Simulation
    BY <1>1 DEF Init, NewSimulation, Simulation, Time
  <2>2. PICK a \in Schedulers :
          server = NewEpisode([state |-> "listen", episode |-> 0, data |-> << >>,
                     schedulerId |-> << >>, action |-> << >>, lastAction |-> a,
                     lastSchedulerTiming |-> Never, lastAckedSeqSum |-> 0,
                     accumulativeReward |-> 0, before |-> <<0, 0>>], 0)
    BY Zenon DEF Init
  <2> DEFINE first == [state |-> "listen", episode |-> 0, data |-> << >>,
                       schedulerId |-> << >>, action |-> << >>, lastAction |-> a,
                       lastSchedulerTiming |-> Never, lastAckedSeqSum |-> 0,
                       accumulativeReward |-> 0, before |-> <<0, 0>>]
  <2>3. server \in Server
    <3>1. first \in Server
      BY <1>1, <2>2 DEF Server, Time
    <3> QED BY <2>2, <3>1, NewEpisodeTyped
  <2>4. learner \in Learner
    BY DEF Init, Learner, Indices
  <2>5. conn \in BOOLEAN
    BY Zenon DEF Init
  <2>6. episodeNum \in 0..MaxEpisode /\ up \in Seq(Record) /\ down \in Seq(Answers)
    BY DEF Init
  <2> QED BY <2>1, <2>3, <2>4, <2>5, <2>6 DEF TypeOK
<1>3. conn = FALSE /\ sim.state = "off" /\ sim.time = 0 /\ sim.seqNum = 0 /\ sim.acked = 0
  BY DEF Init, NewSimulation
<1>4. Counts /\ Idle
  BY SMTT(30), <1>1, <1>3 DEF Init, Counts, Idle, Ended, NewEpisode
<1>5. Filled
  BY <1>3 DEF Init, Filled, Indices
<1> QED BY <1>2, <1>3, <1>4, <1>5 DEF IInv, Lockstep, Logs, Used, Rewards, TransitionsTrue

-----------------------------------------------------------------------------
(* One lemma per action. *)

(* The scheduler in use when row k was earned, and what the row says. *)
Shows(row, k, log, used, action) ==
  \E j \in 1..k :
    /\ action[j] # Keep /\ \A i \in (j + 1)..k : action[i] = Keep
    /\ row = [s  |-> <<log.episode, k - 1>>, a |-> used[k],
              r  |-> log.data[k + 1].acked - (IF j = 1 THEN 0 ELSE log.data[j].acked),
              s_ |-> <<log.episode, k>>]

Row(memory, counter, age) == memory[(counter - 1 - age) % MemorySize]

LEMMA ShowsTransitions ==
  TransitionsTrue <=>
    (conn => \A k \in 1..(Len(server.data) - 1) :
               Len(server.data) - 1 - k < MemorySize =>
                 Shows(Row(learner.memory, learner.counter, Len(server.data) - 1 - k),
                       k, server, sim.used, server.action))
BY DEF TransitionsTrue, Shows, Row

LEMMA ShowsFrame ==
  ASSUME NEW row, NEW k \in Nat, NEW log, NEW used, NEW action,
         NEW log1, NEW used1, NEW action1, Shows(row, k, log, used, action),
         log1.data = log.data, log1.episode = log.episode,
         \A i \in 1..k : action1[i] = action[i] /\ used1[i] = used[i]
  PROVE  Shows(row, k, log1, used1, action1)
<1>1. PICK j \in 1..k :
        /\ action[j] # Keep /\ \A i \in (j + 1)..k : action[i] = Keep
        /\ row = [s  |-> <<log.episode, k - 1>>, a |-> used[k],
                  r  |-> log.data[k + 1].acked - (IF j = 1 THEN 0 ELSE log.data[j].acked),
                  s_ |-> <<log.episode, k>>]
  BY DEF Shows
<1>2. k \in 1..k /\ \A i \in (j + 1)..k : i \in 1..k
  BY <1>1
<1>3. action1[j] # Keep /\ \A i \in (j + 1)..k : action1[i] = Keep
  BY <1>1, <1>2
<1> QED BY Zenon, <1>1, <1>2, <1>3 DEF Shows

LEMMA TransitionsFrame ==
  ASSUME TransitionsTrue, UNCHANGED <<conn, learner, server.data, server.episode>>,
         \A k \in 1..(Got - 1) : /\ server'.action[k] = server.action[k]
                                /\ sim'.used[k] = sim.used[k]
  PROVE  TransitionsTrue'
<1>1. TransitionsTrue' <=>
        (conn' => \A k \in 1..(Len(server'.data) - 1) :
                    Len(server'.data) - 1 - k < MemorySize =>
                      Shows(Row(learner'.memory, learner'.counter, Len(server'.data) - 1 - k),
                            k, server', sim'.used, server'.action))
  BY DEF TransitionsTrue, Shows, Row
<1> SUFFICES ASSUME conn, NEW k \in 1..(Len(server.data) - 1),
                    Len(server.data) - 1 - k < MemorySize
             PROVE  Shows(Row(learner.memory, learner.counter, Len(server.data) - 1 - k),
                          k, server', sim'.used, server'.action)
  BY <1>1
<1>2. Shows(Row(learner.memory, learner.counter, Len(server.data) - 1 - k),
            k, server, sim.used, server.action)
  BY ShowsTransitions
<1>3. \A i \in 1..k : server'.action[i] = server.action[i] /\ sim'.used[i] = sim.used[i]
  BY DEF Got
<1>4. server'.data = server.data /\ server'.episode = server.episode
  OBVIOUS
<1>5. k \in Nat
  OBVIOUS
<1> HIDE DEF Row
<1> QED BY <1>2, <1>3, <1>4, <1>5, ShowsFrame

LEMMA StartSimulationKeeps ==
  ASSUME IInv, NEW s \in Schedulers, StartSimulation(s) PROVE IInv'
<1> USE LearningAssumption DEF IInv
<1>1. /\ episodeNum' = episodeNum + 1 /\ episodeNum < MaxEpisode /\ ~conn
      /\ UNCHANGED <<up, down, server, learner>>
      /\ up = << >> /\ down = << >>
      /\ \/ conn' = TRUE /\ sim' = NewSimulation("running", s) /\ server.state = "listen"
         \/ conn' = FALSE /\ sim' = NewSimulation("failed", s) /\ server.state # "listen"
  BY DEF StartSimulation, Slept, Finished, Lockstep, Idle, SimTurn, RecordSent,
         RecordReceived, AnswerSent, TypeOK
<1>2. TypeOK'
  <2>1. 0 \in Acked
    BY DEF Acked
  <2>2. sim' \in Simulation
    <3>1. NewSimulation("running", s) \in Simulation /\ NewSimulation("failed", s) \in Simulation
      BY <2>1 DEF NewSimulation, Simulation, Time
    <3> QED BY <1>1, <3>1
  <2>3. conn' \in BOOLEAN
    BY <1>1, Zenon
  <2>4. episodeNum' \in 0..MaxEpisode
    BY <1>1 DEF TypeOK
  <2> QED BY <1>1, <2>2, <2>3, <2>4 DEF TypeOK
<1>3. /\ sim'.seqNum = 0 /\ sim'.time = 0 /\ sim'.acked = 0 /\ sim'.used = << >>
      /\ sim'.state = IF conn' THEN "running" ELSE "failed"
  BY <1>1 DEF NewSimulation
<1>4. Counts'
  BY <1>3 DEF Counts
<1>5. Idle'
  BY <1>1, <1>3 DEF Idle, Ended
<1>6. conn' => Got' = 0 /\ server.episode = episodeNum /\ server.action = << >>
              /\ server.schedulerId = << >> /\ server.lastSchedulerTiming = Never
              /\ server.accumulativeReward = 0
  BY <1>1 DEF Idle, Got
<1>7. Lockstep'
  BY <1>1, <1>3, <1>6 DEF Lockstep, SimTurn, Got, TypeOK
<1>8. Logs' /\ Used' /\ Rewards' /\ Filled' /\ TransitionsTrue'
  BY <1>1, <1>3, <1>6 DEF Logs, Used, Rewards, Filled, TransitionsTrue, Got
<1> QED BY <1>2, <1>4, <1>5, <1>7, <1>8

LEMMA SendStatesKeeps ==
  ASSUME IInv, NEW elapsed \in 0..1, NEW acked \in 0..MaxAcked, SendStates(elapsed, acked)
  PROVE  IInv'
<1> USE LearningAssumption DEF IInv
<1> DEFINE r == [ssn |-> sim.seqNum, time |-> sim.time + elapsed, acked |-> sim.acked + acked]
<1>1. /\ conn /\ sim.state = "running" /\ sim.seqNum < MaxRecords
      /\ up' = Append(up, r) /\ UNCHANGED <<episodeNum, conn, down, server, learner>>
  BY DEF SendStates, Idle, Ended
<1>2. /\ sim \in Simulation /\ server \in Server /\ learner \in Learner
      /\ sim.seqNum \in Nat /\ sim.time \in Nat /\ sim.acked \in Nat
  BY DEF TypeOK, Simulation, Time, Acked
<1>3. SimTurn
  BY <1>1 DEF Lockstep, SimTurn, RecordSent, RecordReceived, AnswerSent
<1>4. /\ sim'.state = "waiting" /\ sim'.seqNum = sim.seqNum + 1
      /\ sim'.time = sim.time + elapsed /\ sim'.acked = sim.acked + acked
      /\ sim'.scheduler = sim.scheduler /\ sim'.used = sim.used
  BY <1>2 DEF SendStates, Simulation
<1>5. Counts'
  BY <1>2, <1>4 DEF Counts
<1>6. sim'.time \in Time /\ sim'.acked \in Acked /\ sim'.seqNum \in 0..MaxRecords
  <2>1. sim.acked + acked \in Nat /\ sim.time + elapsed \in Nat
    BY <1>2
  <2>2. /\ sim'.seqNum <= MaxRecords /\ sim'.seqNum \in Nat /\ sim'.acked \in Nat
        /\ sim'.time \in Nat
    BY <1>1, <1>2, <1>4, <2>1
  <2>3. sim'.seqNum * MaxAcked <= MaxRecords * MaxAcked /\ sim'.seqNum * MaxAcked \in Nat
        /\ MaxRecords * MaxAcked \in Nat
    BY <2>2
  <2> QED BY <1>5, <2>2, <2>3 DEF Counts, Time, Acked
<1>7. TypeOK'
  <2>1. sim' \in Simulation
    <3>1. sim' = [sim EXCEPT !.state = "waiting", !.seqNum = sim'.seqNum, !.time = sim'.time,
                            !.acked = sim'.acked]
      BY <1>4 DEF SendStates
    <3> QED BY <1>2, <1>6, <3>1 DEF Simulation
  <2>2. r \in Record
    BY <1>1, <1>2, <1>4, <1>6 DEF Record
  <2> QED BY <1>1, <2>1, <2>2 DEF TypeOK
<1>8. Idle'
  BY <1>1 DEF Idle
<1>9. Lockstep'
  BY <1>1, <1>2, <1>3, <1>4 DEF Lockstep, SimTurn, RecordSent, Got, TypeOK
<1>10. Logs' /\ Filled'
  BY <1>1 DEF Logs, Filled, Got
<1>11. Used'
  BY <1>1, <1>4 DEF Used
<1>12. TransitionsTrue'
  BY <1>1, <1>4, TransitionsFrame
<1>13. Rewards'
  <2>1. \A i \in 1..Got : server.data[i].acked <= sim'.acked
    <3> SUFFICES ASSUME NEW i \in 1..Got PROVE server.data[i].acked <= sim'.acked
      OBVIOUS
    <3>1. server.data \in Seq(Record)
      BY <1>2 DEF Server
    <3>2. server.data[i] \in Record
      BY <3>1 DEF Got
    <3>3. server.data[i].acked \in Nat
      BY <3>2 DEF Record, Acked
    <3>4. server.data[i].acked <= sim.acked
      BY <1>1 DEF Rewards
    <3> QED BY <1>2, <1>4, <3>3, <3>4
  <2> QED BY <1>1, <2>1 DEF Rewards, Got, Base, ChosenAt
<1> QED BY <1>5, <1>7, <1>8, <1>9, <1>10, <1>11, <1>12, <1>13

LEMMA EndSimulationKeeps ==
  ASSUME IInv, EndSimulation PROVE IInv'
<1> USE LearningAssumption DEF IInv
<1>1. /\ conn /\ sim.state = "running" /\ sim' = [sim EXCEPT !.state = "off"]
      /\ UNCHANGED <<episodeNum, conn, up, down, server, learner>>
  BY DEF EndSimulation, Idle, Ended
<1>2. sim \in Simulation /\ SimTurn
  BY <1>1 DEF TypeOK, Lockstep, SimTurn, RecordSent, RecordReceived, AnswerSent
<1>3. /\ sim'.state = "off" /\ sim'.seqNum = sim.seqNum /\ sim'.time = sim.time
      /\ sim'.acked = sim.acked /\ sim'.scheduler = sim.scheduler /\ sim'.used = sim.used
      /\ sim' \in Simulation
  BY <1>1, <1>2 DEF Simulation
<1>4. TypeOK' /\ Counts' /\ Idle'
  BY <1>1, <1>3 DEF TypeOK, Counts, Idle
<1>5. Lockstep'
  BY <1>1, <1>2, <1>3 DEF Lockstep, SimTurn, Got
<1>6. Logs' /\ Filled'
  BY <1>1 DEF Logs, Filled, Got
<1>7. Used'
  BY <1>1, <1>3 DEF Used
<1>8. TransitionsTrue'
  BY <1>1, <1>3, TransitionsFrame
<1>9. Rewards'
  BY <1>1, <1>3 DEF Rewards, Got, Base, ChosenAt
<1> QED BY <1>4, <1>5, <1>6, <1>7, <1>8, <1>9

LEMMA ApplyActionsKeeps ==
  ASSUME IInv, ApplyActions PROVE IInv'
<1> USE LearningAssumption DEF IInv
<1> DEFINE s == IF down[1] = Keep THEN sim.scheduler ELSE down[1]
<1>1. /\ conn /\ UNCHANGED <<episodeNum, conn, up, server, learner>>
      /\ down # << >> /\ down' = Tail(down) /\ sim.state = "waiting"
  BY DEF ApplyActions, Idle
<1>2. AnswerSent /\ sim \in Simulation /\ server \in Server /\ down \in Seq(Answers)
  BY <1>1 DEF TypeOK, Lockstep, SimTurn, RecordSent, RecordReceived, AnswerSent
<1>3. /\ server.schedulerId \in Seq(Schedulers) /\ server.action \in Seq(Answers)
      /\ sim.used \in Seq(Schedulers) /\ Got \in Nat /\ Got > 0
      /\ Len(sim.used) = Got - 1 /\ Len(server.schedulerId) = Got
      /\ Len(server.action) = Got /\ down[1] = server.action[Got] /\ Len(down) = 1
  BY <1>1, <1>2 DEF Simulation, Server, AnswerSent, Lockstep, Logs, Got
<1>4. s \in Schedulers
  <2>1. down[1] \in Answers
    BY <1>2, <1>3
  <2> QED BY <1>2, <2>1 DEF Simulation, Answers
<1>5. server.schedulerId[Got] = s
  <2>1. CASE down[1] = Keep
    <3>1. Got > 1 /\ server.schedulerId[Got] = server.schedulerId[Got - 1]
      <4>1. \A i \in 1..Len(server.action) :
              server.action[i] = Keep =>
                i > 1 /\ server.schedulerId[i] = server.schedulerId[i - 1]
        BY <1>1 DEF Logs
      <4>2. Got \in 1..Len(server.action) /\ server.action[Got] = Keep
        BY <1>3, <2>1
      <4> QED BY <4>1, <4>2
    <3>2. server.schedulerId[Got - 1] = sim.scheduler
      BY <1>1, <1>3, <3>1 DEF Used, Last
    <3> QED BY <2>1, <3>1, <3>2
  <2>2. CASE down[1] # Keep
    BY <1>1, <1>3, <2>2 DEF Logs
  <2> QED BY <2>1, <2>2
<1> HIDE DEF s
<1>6. sim' = [sim EXCEPT !.state = "running", !.scheduler = s, !.used = Append(@, s)]
  BY DEF ApplyActions, s
<1>7. /\ sim'.state = "running" /\ sim'.seqNum = sim.seqNum /\ sim'.time = sim.time
      /\ sim'.acked = sim.acked /\ sim'.scheduler = s /\ sim'.used = Append(sim.used, s)
  BY <1>2, <1>6 DEF Simulation
<1>8. /\ Len(sim'.used) = Got /\ sim'.used[Got] = s /\ down' = << >>
      /\ \A k \in 1..(Got - 1) : sim'.used[k] = sim.used[k]
  BY <1>1, <1>2, <1>3, <1>4, <1>7
<1>9. TypeOK'
  <2>1. sim' \in Simulation
    <3>1. Append(sim.used, s) \in Seq(Schedulers)
      BY <1>3, <1>4
    <3> QED BY <1>2, <1>4, <1>6, <3>1 DEF Simulation
  <2>2. down' \in Seq(Answers)
    BY <1>8
  <2> QED BY <1>1, <2>1, <2>2 DEF TypeOK
<1>10. Counts' /\ Idle'
  BY <1>1, <1>7 DEF Counts, Idle
<1>11. Lockstep'
  BY <1>1, <1>2, <1>3, <1>7, <1>8 DEF Lockstep, SimTurn, AnswerSent, Got
<1>12. Logs' /\ Filled'
  BY <1>1 DEF Logs, Filled, Got
<1>13. Used'
  <2>1. \A k \in 1..Got : server.schedulerId[k] = sim'.used[k]
    BY <1>1, <1>3, <1>5, <1>8 DEF Used
  <2> QED BY <1>1, <1>3, <1>7, <1>8, <2>1 DEF Used, Last
<1>14. Rewards'
  BY <1>1, <1>7 DEF Rewards, Got, Base, ChosenAt
<1>15. TransitionsTrue'
  BY <1>1, <1>8, TransitionsFrame
<1> QED BY <1>9, <1>10, <1>11, <1>12, <1>13, <1>14, <1>15

LEMMA ReceiveEndKeeps ==
  ASSUME IInv, ReceiveEnd PROVE IInv'
<1> USE LearningAssumption DEF IInv
<1>1. /\ conn /\ Ended /\ up = << >> /\ conn' = FALSE
      /\ UNCHANGED <<episodeNum, sim, up, down, learner>>
      /\ server.state \in {"listen", "recv"}
  BY DEF ReceiveEnd
<1>2. SimTurn /\ server.episode = episodeNum - 1 /\ server \in Server
  BY <1>1 DEF TypeOK, Ended, Lockstep, SimTurn, RecordSent, RecordReceived, AnswerSent
<1>3. server.episode + 1 = episodeNum /\ episodeNum \in 0..MaxEpisode
  BY <1>2 DEF TypeOK, Server
<1>4. \/ server' = [server EXCEPT !.state = "exit"]
      \/ server' = [server EXCEPT !.state = "done", !.episode = episodeNum]
      \/ server' = NewEpisode(server, episodeNum)
  <2>1. server.episode + 1 = episodeNum
    BY <1>3
  <2> QED BY <2>1 DEF ReceiveEnd
<1>5. server' \in Server
  <2>1. [server EXCEPT !.state = "exit"] \in Server
    BY <1>2 DEF Server
  <2>2. [server EXCEPT !.state = "done", !.episode = episodeNum] \in Server
    BY <1>2, <1>3 DEF Server
  <2>3. NewEpisode(server, episodeNum) \in Server
    BY <1>2, <1>3, NewEpisodeTyped
  <2> QED BY <1>4, <2>1, <2>2, <2>3
<1>6. TypeOK'
  <2>1. conn' \in BOOLEAN
    BY <1>1, Zenon
  <2> QED BY <1>1, <1>5, <2>1 DEF TypeOK
<1>7. Idle'
  <2>1. Ended' /\ up' = << >> /\ down' = << >>
    BY <1>1, <1>2 DEF Ended, SimTurn
  <2>2. CASE server' = [server EXCEPT !.state = "exit"]
    BY <1>2, <2>1, <2>2 DEF Idle, Server
  <2>3. CASE server' = [server EXCEPT !.state = "done", !.episode = episodeNum]
    BY <1>2, <2>1, <2>3 DEF Idle, Server
  <2>4. CASE server' = NewEpisode(server, episodeNum)
    BY <1>1, <1>2, <2>1, <2>4 DEF Idle, NewEpisode, Server
  <2> QED BY <1>4, <2>2, <2>3, <2>4
<1>8. Counts' /\ Filled'
  BY <1>1 DEF Counts, Filled, Got
<1> QED BY <1>1, <1>6, <1>7, <1>8 DEF Lockstep, Logs, Used, Rewards, TransitionsTrue

(* What both answers have in common: a is sent, and choice is noted with   *)
(* its time and reward.                                                    *)
LEMMA AnswerKeeps ==
  ASSUME IInv, server.state = "answer",
         NEW a \in Answers, NEW choice \in Schedulers, NEW timing \in Time, NEW reward \in Acked,
         server' = Answer(server, a, choice, timing, reward), down' = Append(down, a),
         UNCHANGED <<episodeNum, conn, sim, up, learner>>,
         IF a = Keep
           THEN /\ server.action # << >> /\ choice = server.lastAction
                /\ reward = server.accumulativeReward
           ELSE choice = a /\ reward = 0
  PROVE  IInv'
<1> USE LearningAssumption DEF IInv
<1>1. conn /\ RecordReceived /\ server \in Server /\ down \in Seq(Answers)
  BY DEF TypeOK, Idle, Lockstep, SimTurn, RecordSent, RecordReceived, AnswerSent
<1>2. /\ server.schedulerId \in Seq(Schedulers) /\ server.action \in Seq(Answers)
      /\ server.data \in Seq(Record)
      /\ Got \in Nat /\ Got > 0 /\ down = << >>
      /\ Len(server.schedulerId) = Got - 1 /\ Len(server.action) = Got - 1
      /\ Len(sim.used) = Got - 1
  BY <1>1 DEF Server, RecordReceived, Lockstep, Logs, Got
<1>3. /\ server'.state = "recv" /\ server'.episode = server.episode
      /\ server'.data = server.data /\ server'.before = server.before
      /\ server'.lastAckedSeqSum = server.lastAckedSeqSum
      /\ server'.action = Append(server.action, a) /\ server'.lastAction = choice
      /\ server'.schedulerId = Append(server.schedulerId, choice)
      /\ server'.lastSchedulerTiming = timing /\ server'.accumulativeReward = reward
  BY <1>1 DEF Answer, Server
<1>4. /\ Len(server'.action) = Got /\ server'.action[Got] = a
      /\ Len(server'.schedulerId) = Got /\ server'.schedulerId[Got] = choice
      /\ \A i \in 1..(Got - 1) : /\ server'.action[i] = server.action[i]
                               /\ server'.schedulerId[i] = server.schedulerId[i]
      /\ Got' = Got /\ Len(down') = 1 /\ down'[1] = a
  BY <1>2, <1>3 DEF Got
<1>5. TypeOK'
  <2>1. server' \in Server
    <3>1. /\ Append(server.action, a) \in Seq(Answers)
          /\ Append(server.schedulerId, choice) \in Seq(Schedulers)
      BY <1>2
    <3> QED BY <1>1, <3>1 DEF Answer, Server
  <2>2. down' \in Seq(Answers)
    BY <1>1
  <2> QED BY <2>1, <2>2 DEF TypeOK
<1>6. Counts' /\ Idle' /\ Filled'
  BY <1>1, <1>4 DEF Counts, Idle, Filled
<1>7. Lockstep'
  <2>1. AnswerSent'
    BY <1>1, <1>2, <1>3, <1>4 DEF RecordReceived, AnswerSent
  <2> QED BY <1>1, <1>2, <1>3, <1>4, <2>1 DEF Lockstep, RecordReceived
<1>8. Logs'
  <2>1. server'.lastSchedulerTiming # Never /\ server'.action # << >>
    BY <1>2, <1>3, <1>4 DEF Time, Never
  <2>2. server'.lastAction = Last(server'.schedulerId)
    BY <1>3, <1>4 DEF Last
  <2>3. ASSUME NEW i \in 1..Got
        PROVE  IF server'.action[i] = Keep
                 THEN i > 1 /\ server'.schedulerId[i] = server'.schedulerId[i - 1]
                 ELSE server'.schedulerId[i] = server'.action[i]
    <3>1. CASE i < Got
      <4>1. IF server.action[i] = Keep
              THEN i > 1 /\ server.schedulerId[i] = server.schedulerId[i - 1]
              ELSE server.schedulerId[i] = server.action[i]
        BY <1>1, <1>2, <3>1 DEF Logs
      <4>2. /\ server'.action[i] = server.action[i]
            /\ server'.schedulerId[i] = server.schedulerId[i]
            /\ i > 1 => server'.schedulerId[i - 1] = server.schedulerId[i - 1]
        <5>1. i \in 1..(Got - 1)
          BY <1>2, <3>1
        <5>2. i > 1 => i - 1 \in 1..(Got - 1)
          BY <1>2, <5>1
        <5> QED BY <1>4, <5>1, <5>2
      <4> QED BY <4>1, <4>2
    <3>2. CASE i = Got /\ a = Keep
      <4>1. Got > 1 /\ choice = Last(server.schedulerId)
        BY <1>1, <1>2, <3>2 DEF Logs
      <4>2. server.schedulerId[Got - 1] = choice
        BY <1>2, <4>1 DEF Last
      <4> QED BY <1>2, <1>4, <3>2, <4>1, <4>2
    <3>3. CASE i = Got /\ a # Keep
      BY <1>4, <3>3
    <3> QED BY <1>2, <3>1, <3>2, <3>3
  <2>4. Len(server'.action) = Got /\ Len(server'.schedulerId) = Got
    BY <1>4
  <2> QED BY <1>1, <1>3, <1>4, <2>1, <2>2, <2>3, <2>4 DEF Logs
<1>9. Used'
  BY <1>1, <1>2, <1>4 DEF Used
<1>10. Rewards'
  <2>0. /\ \A i, k \in 1..Got' : i <= k => server'.data[i].acked <= server'.data[k].acked
        /\ \A i \in 1..Got' : server'.data[i].acked <= sim'.acked
        /\ server'.lastAckedSeqSum = Base(Got)'
    BY <1>1, <1>2, <1>3, <1>4 DEF Rewards, Base
  <2>1. CASE a = Keep
    <3>1. PICK j \in 1..(Got - 1) :
            ChosenAt(j, Got - 1) /\ server.accumulativeReward = Base(Got) - Base(j)
      BY <1>1, <1>2, <2>1 DEF Rewards
    <3>2. ChosenAt(j, Got)'
      <4>1. server'.action[j] # Keep
        BY <1>4, <3>1 DEF ChosenAt
      <4>2. ASSUME NEW i \in (j + 1)..Got PROVE server'.action[i] = Keep
        <5>1. CASE i = Got
          BY <1>4, <2>1, <5>1
        <5>2. CASE i # Got
          <6>1. i \in (j + 1)..(Got - 1) /\ i \in 1..(Got - 1)
            BY <1>2, <5>2
          <6> QED BY <1>4, <3>1, <6>1 DEF ChosenAt
        <5> QED BY <5>1, <5>2
      <4> QED BY <1>4, <4>1, <4>2 DEF ChosenAt
    <3>3. (Base(Got) - Base(j))' = Base(Got) - Base(j)
      BY <1>3, <1>4 DEF Base
    <3>4. server'.accumulativeReward = (Base(Got) - Base(j))'
      BY <1>3, <2>1, <3>1, <3>3
    <3>5. j \in 1..Len(server'.action) /\ Len(server'.action) = Got' /\ server'.action # << >>
      BY <1>2, <1>4
    <3> QED BY <2>0, <3>2, <3>4, <3>5 DEF Rewards
  <2>2. CASE a # Keep
    <3>1. ChosenAt(Got, Got)'
      BY <1>2, <1>4, <2>2 DEF ChosenAt
    <3>2. Base(Got)' \in Int
      <4>1. server.data[Got] \in Record
        BY <1>2 DEF Got
      <4> QED BY <1>3, <1>4, <4>1 DEF Base, Record, Acked
    <3>3. server'.accumulativeReward = (Base(Got) - Base(Got))'
      BY <1>3, <2>2, <3>2
    <3>4. Got' \in 1..Len(server'.action) /\ Len(server'.action) = Got' /\ server'.action # << >>
      BY <1>2, <1>4
    <3> QED BY <2>0, <3>1, <3>3, <3>4 DEF Rewards
  <2> QED BY <2>1, <2>2
<1>11. TransitionsTrue'
  BY <1>3, <1>4, TransitionsFrame
<1> QED BY <1>5, <1>6, <1>7, <1>8, <1>9, <1>10, <1>11

LEMMA ChooseKeeps ==
  ASSUME IInv, NEW a \in Schedulers, Choose(a) PROVE IInv'
<1> USE LearningAssumption
<1>1. conn /\ RecordReceived /\ server \in Server
  BY DEF IInv, TypeOK, Choose, Idle, Lockstep, SimTurn, RecordSent, RecordReceived, AnswerSent
<1>2. Last(server.data).time \in Time
  <2>1. Got > 0 /\ server.data \in Seq(Record)
    BY <1>1 DEF IInv, RecordReceived, Server, Got, Lockstep
  <2>2. Last(server.data) \in Record
    BY <2>1 DEF Last, Got
  <2> QED BY <2>2 DEF Record
<1>3. a \in Answers /\ a # Keep /\ 0 \in Acked
  BY DEF Answers, Acked
<1> QED BY <1>2, <1>3, AnswerKeeps DEF Choose

LEMMA KeepChoiceKeeps ==
  ASSUME IInv, KeepChoice PROVE IInv'
<1>1. conn /\ server \in Server
  BY DEF IInv, TypeOK, KeepChoice, Idle
<1>2. server.lastSchedulerTiming # Never /\ server.action # << >>
  BY <1>1 DEF IInv, KeepChoice, ShouldUpdate, Logs
<1>3. /\ server.lastSchedulerTiming \in Time /\ server.lastAction \in Schedulers
      /\ server.accumulativeReward \in Acked /\ Keep \in Answers
  BY <1>1, <1>2 DEF Server, Answers
<1> QED BY <1>2, <1>3, AnswerKeeps DEF KeepChoice

LEMMA ReceiveRecordKeeps ==
  ASSUME IInv, ReceiveRecord PROVE IInv'
<1> USE LearningAssumption DEF IInv
<1> DEFINE r == up[1]
           rewarded == CalculateReward(server, r)
           t == [s |-> server.before, a |-> server.lastAction,
                 r |-> rewarded.accumulativeReward, s_ |-> After(server)]
<1>1. /\ conn /\ RecordSent /\ server \in Server /\ learner \in Learner
      /\ UNCHANGED <<episodeNum, conn, sim, down>> /\ up' = << >>
  BY DEF ReceiveRecord, TypeOK, Idle, Lockstep, SimTurn, RecordSent, RecordReceived, AnswerSent
<1>2. /\ server.data \in Seq(Record) /\ r \in Record /\ r.ssn = Got /\ Len(up) = 1
      /\ Got \in Nat /\ r.acked = sim.acked /\ Len(server.action) = Got
      /\ Len(sim.used) = Got /\ server.episode = episodeNum - 1
      /\ Got = 0 <=> server.data = << >>
      /\ Got = 0 <=> server.action = << >>
  <2>1. up \in Seq(Record) /\ server.data \in Seq(Record) /\ server.action \in Seq(Answers)
    BY <1>1 DEF TypeOK, Server
  <2>2. Len(up) = 1 /\ Len(server.action) = Got
    BY <1>1 DEF RecordSent
  <2>3. up[1] \in Record
    <3>1. up \in Seq(Record) /\ 1 \in 1..Len(up)
      BY <2>1, <2>2
    <3> QED BY <3>1, ElementOfSeq
  <2>4. Got = 0 <=> server.data = << >>
    BY <2>1 DEF Got
  <2>5. Got = 0 <=> server.action = << >>
    BY <2>1, <2>2
  <2>6. Got \in Nat
    BY <2>1 DEF Got
  <2> QED BY <1>1, <2>1, <2>2, <2>3, <2>4, <2>5, <2>6 DEF RecordSent, Lockstep
<1>3. /\ server' = [rewarded EXCEPT !.state = "answer", !.data = Append(@, r),
                                    !.before = ObservationKept(server)]
      /\ learner' = IF server.data = << >> THEN learner
                    ELSE Learn(StoreTransition(learner, t), Len(server.data) - 1)
  BY <1>2, Zenon DEF ReceiveRecord, Got
<1>4. /\ server'.state = "answer" /\ server'.episode = server.episode
      /\ server'.data = Append(server.data, r)
      /\ server'.before = <<server.episode, Got>>
      /\ server'.action = server.action /\ server'.schedulerId = server.schedulerId
      /\ server'.lastAction = server.lastAction
      /\ server'.lastSchedulerTiming = server.lastSchedulerTiming
      /\ server'.lastAckedSeqSum = IF Got = 0 THEN 0 ELSE r.acked
      /\ server'.accumulativeReward =
           IF Got = 0 THEN server.accumulativeReward
           ELSE server.accumulativeReward + (r.acked - server.lastAckedSeqSum)
      /\ rewarded.accumulativeReward = server'.accumulativeReward
  <2>1. CASE server.data = << >>
    BY <1>1, <1>2, <1>3, <2>1 DEF CalculateReward, ObservationKept, After, Server, Got
  <2>2. CASE server.data # << >>
    BY <1>1, <1>2, <1>3, <2>2 DEF CalculateReward, ObservationKept, After, Server, Got
  <2> QED BY <2>1, <2>2
<1>5. /\ Got' = Got + 1 /\ server'.data[Got + 1] = r
      /\ \A i \in 1..Got : server'.data[i] = server.data[i]
  BY <1>2, <1>4 DEF Got
<1>6. \A i \in 1..Got : server.data[i].acked \in Nat /\ server.data[i].acked <= r.acked
  <2> SUFFICES ASSUME NEW i \in 1..Got
               PROVE  server.data[i].acked \in Nat /\ server.data[i].acked <= r.acked
    OBVIOUS
  <2>1. server.data[i] \in Record
    BY <1>2 DEF Got
  <2> QED BY <1>1, <1>2, <2>1 DEF Record, Acked, Rewards
<1>7. r.acked \in Acked /\ r.acked \in Nat /\ Acked \subseteq Nat
  BY <1>2 DEF Record, Acked
(* The reward counts from the last choice on. *)
<1>8. ASSUME Got > 0
      PROVE  \E j \in 1..Got :
               /\ server.action[j] # Keep /\ \A i \in (j + 1)..Got : server.action[i] = Keep
               /\ server'.accumulativeReward
                    = r.acked - (IF j = 1 THEN 0 ELSE server.data[j].acked)
               /\ server'.accumulativeReward \in 0..r.acked
  <2>1. PICK j \in 1..Got :
          ChosenAt(j, Got) /\ server.accumulativeReward = Base(Got) - Base(j)
    BY <1>1, <1>2, <1>8 DEF Rewards
  <2>2. Base(j) \in 0..r.acked /\ Base(Got) \in Nat
    BY <1>2, <1>6, <1>7, <1>8 DEF Base
  <2>3. server.lastAckedSeqSum = Base(Got)
    BY <1>1, <1>8 DEF Rewards
  <2>4. server'.accumulativeReward = r.acked - Base(j)
    BY <1>4, <1>7, <1>8, <2>1, <2>2, <2>3
  <2>5. server'.accumulativeReward \in 0..r.acked
    BY <1>7, <2>2, <2>4
  <2> WITNESS j \in 1..Got
  <2> QED BY <2>1, <2>4, <2>5 DEF ChosenAt, Base
<1>9. t = [s |-> server.before, a |-> server.lastAction,
           r |-> server'.accumulativeReward, s_ |-> <<server.episode, Got>>]
  BY <1>4 DEF After, Got
<1> HIDE DEF r, rewarded, t
<1>10. server'.accumulativeReward \in Acked /\ server'.lastAckedSeqSum \in Acked
  <2>1. 0..r.acked \subseteq Acked
    BY <1>7 DEF Acked
  <2>2. CASE Got = 0
    BY <1>1, <1>4, <2>2 DEF Server, Acked
  <2>3. CASE Got > 0
    BY <1>4, <1>7, <1>8, <2>1, <2>3
  <2> QED BY <1>2, <2>2, <2>3
<1>11. <<server.episode, Got>> \in Observation
  <2>1. server.episode \in 0..(MaxEpisode - 1)
    BY <1>1, <1>2 DEF TypeOK, Server
  <2>2. Got \in 0..MaxRecords
    BY <1>2 DEF Record
  <2> QED BY <2>1, <2>2 DEF Observation
<1>12. t \in Transition /\ t # Zero
  <2>1. t \in Transition
    BY <1>1, <1>9, <1>10, <1>11 DEF Transition, Server
  <2>2. DOMAIN t = {"s", "a", "r", "s_"} /\ DOMAIN Zero = {"zero"}
    BY <1>9 DEF Zero
  <2> QED BY <2>1, <2>2
<1>13. server' \in Server
  <2>1. rewarded \in Server
    BY <1>1, <1>2, <1>4, <1>7, <1>10 DEF rewarded, CalculateReward, Server, Acked, Got
  <2>2. Append(server.data, r) \in Seq(Record)
    BY <1>2
  <2>3. ObservationKept(server) \in Observation
    BY <1>11 DEF ObservationKept, After, Got
  <2>4. rewarded.data = server.data
    BY <1>1 DEF rewarded, CalculateReward, Server
  <2>5. server' = [rewarded EXCEPT !.state = "answer", !.data = Append(server.data, r),
                                  !.before = ObservationKept(server)]
    BY <1>3, <2>4
  <2> QED BY <2>1, <2>2, <2>3, <2>5 DEF Server
(* The learner. *)
<1> DEFINE place == learner.counter % MemorySize
<1>14. /\ learner.memory \in [Indices -> Transition \cup {Zero}] /\ learner.counter \in Nat
       /\ learner.sampled \in 0..MemorySize /\ place \in Indices
  BY <1>1, Division DEF Learner, Indices
<1>15. Got > 0 => learner' = Learn(StoreTransition(learner, t), Len(server.data) - 1)
  BY <1>2, <1>3
<1>16. Got = 0 => learner' = learner
  BY <1>2, <1>3
<1> DEFINE stored == StoreTransition(learner, t)
<1>17. /\ stored \in Learner /\ stored.counter = learner.counter + 1
       /\ stored.memory = [learner.memory EXCEPT ![place] = t]
       /\ stored.sampled = learner.sampled
  <2> DEFINE rows == [learner.memory EXCEPT ![place] = t]
  <2>1. rows \in [Indices -> Transition \cup {Zero}]
    BY <1>12, <1>14
  <2>2. stored = [learner EXCEPT !.memory = rows, !.counter = learner.counter + 1]
    BY <1>1 DEF StoreTransition, Learner
  <2> HIDE DEF stored, rows
  <2>3. /\ stored.counter = learner.counter + 1 /\ stored.memory = rows
        /\ stored.sampled = learner.sampled
    BY <1>1, <2>2 DEF Learner
  <2>4. stored \in Learner
    <3>1. learner.counter + 1 \in Nat
      BY <1>14
    <3> QED BY <1>1, <2>1, <2>2, <3>1 DEF Learner
  <2>5. rows = [learner.memory EXCEPT ![place] = t]
    BY DEF rows
  <2> QED BY <2>3, <2>4, <2>5
<1> HIDE DEF place
<1>18. /\ SampleFrom(stored) \in 0..MemorySize
       /\ SampleFrom(stored) <= learner.counter + 1
  BY <1>14, <1>17 DEF SampleFrom
<1> HIDE DEF stored
<1>19. ASSUME Got > 0
       PROVE  /\ learner' \in Learner /\ learner'.counter = learner.counter + 1
              /\ learner'.memory = [learner.memory EXCEPT ![place] = t]
              /\ learner'.sampled <= learner.counter + 1
  <2>1. learner' = Learn(stored, Len(server.data) - 1)
    BY <1>15, <1>19 DEF stored
  <2>2. CASE learner' = stored
    BY <1>1, <1>14, <1>17, <2>2 DEF Filled
  <2>3. CASE learner' = [stored EXCEPT !.sampled = SampleFrom(stored)]
    BY <1>17, <1>18, <2>3 DEF Learner
  <2> QED BY <2>1, <2>2, <2>3 DEF Learn
<1>20. learner' \in Learner
  BY <1>1, <1>2, <1>16, <1>19
<1>21. TypeOK'
  <2>1. up' \in Seq(Record)
    BY <1>1
  <2> QED BY <1>1, <1>13, <1>20, <2>1 DEF TypeOK
<1>22. Counts' /\ Idle'
  BY <1>1 DEF Counts, Idle
<1>23. Lockstep'
  <2>1. RecordReceived'
    BY <1>1, <1>2, <1>4, <1>5 DEF RecordSent, RecordReceived
  <2> QED BY <1>1, <1>2, <1>4, <1>5, <2>1 DEF Lockstep
<1>24. Logs'
  BY <1>1, <1>2, <1>4, <1>5 DEF Logs
<1>25. Used'
  BY <1>1, <1>4 DEF Used
<1>26. Filled'
  <2>1. CASE Got = 0
    BY <1>1, <1>2, <1>5, <1>14, <1>16, <2>1 DEF Filled
  <2>2. CASE Got > 0
    <3>1. Got' - 1 <= learner'.counter
      BY <1>1, <1>2, <1>5, <1>14, <1>19, <2>2 DEF Filled
    <3>2. ASSUME NEW i \in Indices, i < learner.counter + 1
          PROVE  learner'.memory[i] # Zero
      <4>1. CASE i = place
        BY <1>12, <1>14, <1>19, <2>2, <4>1
      <4>2. CASE i # place
        <5>1. i # learner.counter
          BY <1>14, <4>2 DEF place, Indices
        <5>2. i < learner.counter
          BY <1>14, <3>2, <5>1 DEF Indices
        <5> QED BY <1>14, <1>19, <2>2, <4>2, <5>2 DEF Filled
      <4> QED BY <4>1, <4>2
    <3> QED BY <1>19, <2>2, <3>1, <3>2 DEF Filled
  <2> QED BY <1>2, <2>1, <2>2
<1>27. Rewards'
  <2>1. /\ \A i, k \in 1..Got' : i <= k => server'.data[i].acked <= server'.data[k].acked
        /\ \A i \in 1..Got' : server'.data[i].acked <= sim'.acked
    <3>0. ASSUME NEW i \in 1..(Got + 1) PROVE server'.data[i].acked <= r.acked
      <4>1. CASE i = Got + 1
        BY <1>5, <1>7, <4>1
      <4>2. CASE i # Got + 1
        <5>1. i \in 1..Got
          BY <1>2, <4>2
        <5> QED BY <1>5, <1>6, <5>1
      <4> QED BY <4>1, <4>2
    <3>1. ASSUME NEW i \in 1..(Got + 1), NEW k \in 1..(Got + 1), i <= k
          PROVE  server'.data[i].acked <= server'.data[k].acked
      <4>1. CASE k = Got + 1
        <5> QED BY <1>5, <3>0, <4>1
      <4>2. CASE k # Got + 1
        <5>1. i \in 1..Got /\ k \in 1..Got
          BY <1>2, <3>1, <4>2
        <5> QED BY <1>1, <1>5, <3>1, <5>1 DEF Rewards
      <4> QED BY <4>1, <4>2
    <3> QED BY <1>1, <1>2, <1>5, <3>0, <3>1
  <2>2. server'.lastAckedSeqSum = Base(Got)'
    BY <1>2, <1>4, <1>5 DEF Base
  <2>3. CASE Got = 0
    BY <1>1, <1>2, <1>4, <2>1, <2>2, <2>3 DEF Rewards
  <2>4. CASE Got > 0
    <3>1. PICK j \in 1..Got :
            /\ server.action[j] # Keep /\ \A i \in (j + 1)..Got : server.action[i] = Keep
            /\ server'.accumulativeReward
                 = r.acked - (IF j = 1 THEN 0 ELSE server.data[j].acked)
      BY <1>8, <2>4
    <3>2. ChosenAt(j, Len(server.action))'
      BY <1>2, <1>4, <3>1 DEF ChosenAt
    <3>3. server'.accumulativeReward = Base(Got)' - Base(j)'
      BY <1>2, <1>5, <2>4, <3>1 DEF Base
    <3>4. j \in 1..Len(server'.action) /\ server'.action # << >>
      BY <1>2, <1>4, <2>4
    <3> QED BY <2>1, <2>2, <3>2, <3>3, <3>4 DEF Rewards
  <2> QED BY <1>2, <2>3, <2>4
<1>28. TransitionsTrue'
  <2> SUFFICES ASSUME conn', NEW k \in 1..(Len(server'.data) - 1),
                      Len(server'.data) - 1 - k < MemorySize
               PROVE  \E j \in 1..k :
                        /\ server'.action[j] # Keep
                        /\ \A i \in (j + 1)..k : server'.action[i] = Keep
                        /\ learner'.memory[(learner'.counter - 1 - (Len(server'.data) - 1 - k))
                                             % MemorySize]
                             = [s  |-> <<server'.episode, k - 1>>, a |-> sim'.used[k],
                                r  |-> server'.data[k + 1].acked
                                         - (IF j = 1 THEN 0 ELSE server'.data[j].acked),
                                s_ |-> <<server'.episode, k>>]
    BY DEF TransitionsTrue
  <2>0. /\ Len(server'.data) - 1 = Got /\ k \in 1..Got /\ Got - k < MemorySize
        /\ server'.action = server.action /\ server'.episode = server.episode /\ sim' = sim
    <3>1. Len(server'.data) = Got + 1
      BY <1>5 DEF Got
    <3> QED BY <1>1, <1>2, <1>4, <3>1
  <2>1. /\ Got \in Nat /\ k \in Nat /\ learner.counter \in Nat /\ MemorySize \in Nat
        /\ Got > 0 /\ k <= Got /\ k > 0
    BY <1>2, <1>14, <2>0
  <2>2. learner'.counter - 1 - (Len(server'.data) - 1 - k) = learner.counter - (Got - k)
    <3>1. learner'.counter = learner.counter + 1
      BY <1>19, <2>1
    <3> QED BY <2>0, <2>1, <3>1
  <2>3. CASE k = Got
    <3>1. learner'.memory[(learner'.counter - 1 - (Len(server'.data) - 1 - k)) % MemorySize] = t
      <4>1. learner.counter - (Got - k) = learner.counter
        BY <1>2, <1>14, <2>3
      <4> QED BY <1>14, <1>19, <2>1, <2>2, <4>1 DEF place
    <3>2. server.lastAction = sim.used[Got]
      <4>1. server.lastAction = Last(server.schedulerId) /\ Len(server.schedulerId) = Got
        BY <1>1, <1>2, <2>1 DEF Logs
      <4>2. server.schedulerId[Got] = sim.used[Got]
        BY <1>1, <1>2, <2>1 DEF Used
      <4> QED BY <4>1, <4>2 DEF Last
    <3>3. server.before = <<server.episode, Got - 1>>
      BY <1>1, <2>1 DEF Logs
    <3>4. PICK j \in 1..k :
            /\ server.action[j] # Keep /\ \A i \in (j + 1)..Got : server.action[i] = Keep
            /\ server'.accumulativeReward
                 = r.acked - (IF j = 1 THEN 0 ELSE server.data[j].acked)
      BY <1>8, <2>1, <2>3
    <3>5. server'.data[Got + 1] = r /\ server'.data[j] = server.data[j]
      BY <1>5, <2>3
    <3>6. t = [s  |-> <<server.episode, k - 1>>, a |-> sim.used[k],
               r  |-> server'.data[k + 1].acked
                        - (IF j = 1 THEN 0 ELSE server'.data[j].acked),
               s_ |-> <<server.episode, k>>]
      BY <1>9, <2>3, <3>2, <3>3, <3>4, <3>5
    <3> WITNESS j \in 1..k
    <3> QED BY <2>0, <2>3, <3>1, <3>4, <3>6
  <2>4. CASE k < Got
    <3>1. k \in 1..(Got - 1) /\ Got - 1 - k < MemorySize
      BY <1>2, <1>14, <2>0, <2>4
    <3>2. PICK j \in 1..k :
            /\ server.action[j] # Keep /\ \A i \in (j + 1)..k : server.action[i] = Keep
            /\ learner.memory[(learner.counter - 1 - (Got - 1 - k)) % MemorySize]
                 = [s  |-> <<server.episode, k - 1>>, a |-> sim.used[k],
                    r  |-> server.data[k + 1].acked
                             - (IF j = 1 THEN 0 ELSE server.data[j].acked),
                    s_ |-> <<server.episode, k>>]
      BY <1>1, <3>1 DEF TransitionsTrue, Got
    <3> DEFINE pos == learner.counter - (Got - k)
    <3>3. /\ learner.counter - 1 - (Got - 1 - k) = pos
          /\ pos \in Nat /\ 0 < learner.counter - pos /\ learner.counter - pos < MemorySize
      <4>1. learner.counter >= Got - 1
        BY <1>1, <2>1 DEF Filled
      <4>2. Got - k < MemorySize
        BY <2>0
      <4> QED BY <2>1, <2>4, <4>1, <4>2
    <3> HIDE DEF pos
    <3>4. pos % MemorySize # place /\ pos % MemorySize \in Indices
      BY <1>14, <3>3, RingDistinct, Division DEF place, Indices
    <3>5. learner'.memory[(learner'.counter - 1 - (Len(server'.data) - 1 - k)) % MemorySize]
            = learner.memory[(learner.counter - 1 - (Got - 1 - k)) % MemorySize]
      BY <1>14, <1>19, <2>1, <2>2, <3>3, <3>4 DEF pos
    <3>6. server'.data[k + 1] = server.data[k + 1] /\ server'.data[j] = server.data[j]
      <4>1. k + 1 \in 1..Got /\ j \in 1..Got
        BY <1>2, <3>1
      <4> QED BY <1>5, <4>1
    <3>7. learner'.memory[(learner'.counter - 1 - (Len(server'.data) - 1 - k)) % MemorySize]
            = [s  |-> <<server'.episode, k - 1>>, a |-> sim'.used[k],
               r  |-> server'.data[k + 1].acked
                        - (IF j = 1 THEN 0 ELSE server'.data[j].acked),
               s_ |-> <<server'.episode, k>>]
      <4>1. server'.episode = server.episode /\ sim'.used = sim.used
        BY <2>0
      <4> QED BY <3>2, <3>5, <3>6, <4>1
    <3>8. server'.action[j] # Keep /\ \A i \in (j + 1)..k : server'.action[i] = Keep
      BY <2>0, <3>2
    <3> QED BY <3>7, <3>8, Zenon
  <2>5. k = Got \/ k < Got
    BY <2>1
  <2> QED BY <2>3, <2>4, <2>5, Zenon
<1> QED BY <1>21, <1>22, <1>23, <1>24, <1>25, <1>26, <1>27, <1>28

-----------------------------------------------------------------------------
LEMMA NextKeeps == IInv /\ [Next]_vars => IInv'
<1> SUFFICES ASSUME IInv, [Next]_vars PROVE IInv'
  OBVIOUS
<1>1. ASSUME NEW s \in Schedulers, StartSimulation(s) PROVE IInv'
  BY <1>1, StartSimulationKeeps
<1>2. ASSUME NEW elapsed \in 0..1, NEW acked \in 0..MaxAcked, SendStates(elapsed, acked)
      PROVE  IInv'
  BY <1>2, SendStatesKeeps
<1>3. CASE ApplyActions
  BY <1>3, ApplyActionsKeeps
<1>4. CASE EndSimulation
  BY <1>4, EndSimulationKeeps
<1>5. CASE ReceiveRecord
  BY <1>5, ReceiveRecordKeeps
<1>6. CASE ReceiveEnd
  BY <1>6, ReceiveEndKeeps
<1>7. ASSUME NEW a \in Schedulers, Choose(a) PROVE IInv'
  BY <1>7, ChooseKeeps
<1>8. CASE KeepChoice
  BY <1>8, KeepChoiceKeeps
<1>9. CASE UNCHANGED vars
  <2> USE <1>9 DEF vars
  <2>1. TypeOK' /\ Counts' /\ Idle'
    BY DEF IInv, TypeOK, Counts, Idle, Ended
  <2>2. Lockstep'
    BY DEF IInv, Lockstep, SimTurn, RecordSent, RecordReceived, AnswerSent, Got
  <2>3. Logs' /\ Used' /\ Filled'
    BY DEF IInv, Logs, Used, Filled, Got
  <2>4. Rewards'
    BY DEF IInv, Rewards, Base, ChosenAt, Got
  <2>5. TransitionsTrue'
    BY TransitionsFrame DEF IInv
  <2> QED BY <2>1, <2>2, <2>3, <2>4, <2>5 DEF IInv
<1> QED BY <1>1, <1>2, <1>3, <1>4, <1>5, <1>6, <1>7, <1>8, <1>9 DEF Next

THEOREM Invariance == Spec => []IInv
<1>1. Init => IInv
  BY InitIInv
<1>2. IInv /\ [Next]_vars => IInv'
  BY NextKeeps
<1> QED BY <1>1, <1>2, PTL DEF Spec

(* The variables keep their types: in particular rewards never turn        *)
(* negative, and what has been sampled stays within the memory.            *)
THEOREM TypeCorrect == Spec => []TypeOK
<1>1. IInv => TypeOK
  BY DEF IInv
<1> QED BY <1>1, Invariance, PTL

(* The assertions of add_one_record hold. *)
THEOREM NoRecordCombined == Spec => []RecordsIntact
<1>1. IInv => RecordsIntact
  BY DEF IInv, Idle, Lockstep, SimTurn, RecordSent, RecordReceived, AnswerSent, RecordsIntact,
         TypeOK
<1> QED BY <1>1, Invariance, PTL

(* The server notes the schedulers that the simulation uses. *)
THEOREM SchedulerNoted == Spec => []SchedulerRecorded
<1>1. IInv => SchedulerRecorded
  BY DEF IInv, Used, SchedulerRecorded
<1> QED BY <1>1, Invariance, PTL

(* What the memory holds of the episode is what happened. *)
THEOREM MemoryTrue == Spec => []TransitionsTrue
<1>1. IInv => TransitionsTrue
  BY DEF IInv
<1> QED BY <1>1, Invariance, PTL

(* The network only learns from what was stored. *)
THEOREM NeverLearnsZeros == Spec => []LearnsFromStored
<1>1. IInv => LearnsFromStored
  <2> SUFFICES ASSUME IInv, NEW i \in 0..(learner.sampled - 1)
               PROVE  learner.memory[i] # Zero
    BY DEF LearnsFromStored
  <2>1. learner.sampled \in 0..MemorySize /\ learner.counter \in Nat
    BY DEF IInv, TypeOK, Learner
  <2>2. i \in Indices /\ i < learner.counter
    BY LearningAssumption, <2>1 DEF IInv, Filled, Indices
  <2> QED BY <2>2 DEF IInv, Filled
<1> QED BY <1>1, Invariance, PTL

(* Script and server number the episodes alike. *)
THEOREM EpisodesNumberedAlike == Spec => []EpisodesAgree
<1>1. IInv => EpisodesAgree
  BY DEF IInv, Lockstep, EpisodesAgree
<1> QED BY <1>1, Invariance, PTL

(* The server has reached the number of the last episode only when it has  *)
(* ended; before that there is a simulation to come.                       *)
Expecting == server.state # "done" => server.episode < MaxEpisode

LEMMA ExpectingKept == TypeOK /\ Expecting /\ [Next]_vars => Expecting'
<1> SUFFICES ASSUME TypeOK, Expecting, [Next]_vars PROVE Expecting'
  OBVIOUS
<1>0. server \in Server /\ server.episode \in 0..MaxEpisode /\ MaxEpisode \in Nat \ {0}
  BY LearningAssumption DEF TypeOK, Server
<1>1. ASSUME UNCHANGED server PROVE Expecting'
  BY <1>1 DEF Expecting
<1>2. ASSUME server'.episode = server.episode, server.state # "done" PROVE Expecting'
  BY <1>2 DEF Expecting
<1>3. CASE ReceiveRecord
  <2>1. CalculateReward(server, up[1]).episode = server.episode
    BY <1>0 DEF CalculateReward, Server
  <2>3. server'.episode = server.episode
    BY <1>0, <1>3, <2>1 DEF ReceiveRecord, CalculateReward, Server
  <2> QED BY <1>2, <1>3, <2>3 DEF ReceiveRecord
<1>4. CASE ReceiveEnd
  <2>1. CASE server.state = "listen"
    <3>1. server' = [server EXCEPT !.state = "exit"]
      BY <1>4, <2>1 DEF ReceiveEnd
    <3> QED BY <1>0, <1>2, <2>1, <3>1 DEF Server
  <2>2. CASE server.state # "listen" /\ server.episode + 1 = MaxEpisode
    <3>1. server' = [server EXCEPT !.state = "done", !.episode = @ + 1]
      BY <1>4, <2>2 DEF ReceiveEnd
    <3> QED BY <1>0, <3>1 DEF Expecting, Server
  <2>3. CASE server.state # "listen" /\ server.episode + 1 # MaxEpisode
    <3>1. server' = NewEpisode(server, server.episode + 1) /\ server.state # "done"
      BY <1>4, <2>3 DEF ReceiveEnd
    <3>2. server'.episode = server.episode + 1
      BY <1>0, <3>1 DEF NewEpisode, Server
    <3> QED BY <1>0, <2>3, <3>1, <3>2 DEF Expecting
  <2> QED BY <2>1, <2>2, <2>3
<1>5. ASSUME NEW a, NEW c, NEW t, NEW r, server' = Answer(server, a, c, t, r),
             server.state = "answer"
      PROVE  Expecting'
  <2>1. server'.episode = server.episode
    BY <1>0, <1>5 DEF Answer, Server
  <2> QED BY <1>2, <1>5, <2>1
<1>6. ASSUME NEW a \in Schedulers, Choose(a) PROVE Expecting'
  BY <1>5, <1>6 DEF Choose
<1>7. CASE KeepChoice
  BY <1>5, <1>7 DEF KeepChoice
<1>8. ASSUME \/ \E s \in Schedulers : StartSimulation(s)
             \/ \E elapsed \in 0..1, acked \in 0..MaxAcked : SendStates(elapsed, acked)
             \/ ApplyActions \/ EndSimulation \/ UNCHANGED vars
      PROVE  UNCHANGED server
  BY <1>8 DEF StartSimulation, SendStates, ApplyActions, EndSimulation, vars
<1> QED BY <1>1, <1>3, <1>4, <1>6, <1>7, <1>8 DEF Next

(* Nobody is left waiting: RcvActions for an answer that does not come, or *)
(* the server's recv and accept for a record or a simulation that do not.  *)
THEOREM NobodyLeftWaiting == Spec => []NobodyStranded
<1>1. Init => Expecting
  BY LearningAssumption DEF Init, Expecting, NewEpisode
<1>2. IInv /\ Expecting => NobodyStranded
  <2> SUFFICES ASSUME IInv, Expecting PROVE NobodyStranded
    OBVIOUS
  <2>0. /\ server \in Server /\ episodeNum \in Nat /\ Len(<< >>) = 0
        /\ Idle /\ Lockstep /\ conn \in BOOLEAN
    BY DEF IInv, TypeOK
  <2>1. CASE conn
    <3>1. CASE SimTurn
      BY <2>0, <2>1, <3>1 DEF SimTurn, NobodyStranded
    <3>2. CASE RecordSent
      BY <2>0, <2>1, <3>2 DEF RecordSent, NobodyStranded, Finished
    <3>3. CASE RecordReceived
      BY <2>0, <2>1, <3>3 DEF RecordReceived, NobodyStranded, Finished
    <3>4. CASE AnswerSent
      BY <2>0, <2>1, <3>4 DEF AnswerSent, NobodyStranded, Finished
    <3> QED BY <2>0, <2>1, <3>1, <3>2, <3>3, <3>4 DEF Lockstep
  <2>2. CASE ~conn
    BY <2>0, <2>2 DEF Idle, Ended, Finished, Expecting, NobodyStranded
  <2> QED BY <2>1, <2>2
<1>3. IInv => TypeOK
  BY DEF IInv
<1> QED BY <1>1, <1>2, <1>3, ExpectingKept, Invariance, PTL DEF Spec

-----------------------------------------------------------------------------
(* Simulation and server implement AgentLoop. *)

(* During a simulation the phases of Lockstep are the turns. *)
LEMMA Turns ==
  ASSUME IInv
  PROVE  /\ ~conn => Turn = "over"
         /\ conn /\ SimTurn => Turn = "environment"
         /\ conn /\ RecordSent => Turn = "reported"
         /\ conn /\ RecordReceived => Turn = "deciding"
         /\ conn /\ AnswerSent => Turn = "decided"
<1>1. Len(<< >>) = 0 /\ conn \in BOOLEAN
  BY DEF IInv, TypeOK
<1> QED BY <1>1 DEF Turn, SimTurn, RecordSent, RecordReceived, AnswerSent

(* What the server noted last is what the simulation uses. *)
LEMMA NotedIsUsed ==
  ASSUME IInv, conn, Len(server.action) = Len(sim.used), server.action # << >>
  PROVE  server.lastAction = sim.scheduler
<1>1. /\ server.schedulerId \in Seq(Schedulers) /\ sim.used \in Seq(Schedulers)
      /\ server.action \in Seq(Answers)
  BY DEF IInv, TypeOK, Server, Simulation
<1>2. /\ Len(server.schedulerId) = Len(sim.used) /\ Len(sim.used) \in Nat \ {0}
      /\ server.lastAction = Last(server.schedulerId)
  BY <1>1 DEF IInv, Logs
<1>3. sim.scheduler = Last(sim.used)
  BY <1>1, <1>2 DEF IInv, Used
<1>4. server.schedulerId[Len(sim.used)] = sim.used[Len(sim.used)]
  BY <1>2 DEF IInv, Used
<1> QED BY <1>2, <1>3, <1>4 DEF Last

LEMMA StartBegins ==
  ASSUME IInv, NEW s \in Schedulers, StartSimulation(s)
  PROVE  Loop!Begin
<1>0. server \in Server /\ conn \in BOOLEAN /\ Len(<< >>) = 0
  BY DEF IInv, TypeOK
<1>1. ~conn /\ UNCHANGED <<up, down, server, learner>> /\ episodeNum' = episodeNum + 1
  BY DEF IInv, StartSimulation, Slept, Finished, Lockstep, SimTurn, RecordSent, RecordReceived,
         AnswerSent
<1>2. /\ up = << >> /\ down = << >> /\ Turn = "over" /\ Seen = 0 /\ Counted = 0 /\ Gain = 0
      /\ server.state = "listen" => server.data = << >> /\ server.accumulativeReward = 0
      /\ server.state # "answer"
  BY <1>0, <1>1, Turns DEF IInv, Idle, Seen, Counted, Gain
<1>3. /\ sim'.scheduler = s /\ sim'.acked = 0 /\ conn' \in BOOLEAN
      /\ (conn' => server.state = "listen")
  <2>1. CASE server.state = "listen"
    BY <1>1, <2>1 DEF StartSimulation, NewSimulation
  <2>2. CASE server.state # "listen"
    BY <1>0, <1>1, <2>2 DEF StartSimulation, NewSimulation
  <2> QED BY <2>1, <2>2
<1>4. Turn' \in {"over", "environment"}
  BY <1>1, <1>2, <1>3 DEF Turn
<1>5. Seen' = 0 /\ Counted' = 0 /\ Gain' = 0 /\ ToUse' = s
  BY <1>0, <1>1, <1>2, <1>3, <1>4 DEF Seen, Counted, Gain, ToUse
<1> QED BY <1>1, <1>2, <1>3, <1>4, <1>5 DEF Loop!Begin, Loop!Moves

LEMMA SendReports ==
  ASSUME IInv, NEW elapsed \in 0..1, NEW acked \in 0..MaxAcked, SendStates(elapsed, acked)
  PROVE  Loop!Report
<1>0. sim \in Simulation /\ up \in Seq(Record) /\ conn \in BOOLEAN /\ sim.acked \in Int
      /\ MaxAcked \in Nat
  BY LearningAssumption DEF IInv, TypeOK, Simulation, Acked
<1>1. /\ sim.state = "running" /\ UNCHANGED <<episodeNum, conn, down, server, learner>>
      /\ up' # << >> /\ sim'.acked = sim.acked + acked /\ sim'.scheduler = sim.scheduler
  BY <1>0 DEF SendStates, Simulation
<1>2. conn /\ SimTurn
  BY <1>1 DEF IInv, Idle, Ended, Lockstep, RecordSent, RecordReceived, AnswerSent
<1>3. Turn = "environment" /\ Turn' = "reported"
  BY <1>1, <1>2, Turns DEF Turn
<1>4. UNCHANGED <<Seen, Counted, Gain, ToUse>>
  BY <1>1, <1>3 DEF Seen, Counted, Gain, ToUse
<1> QED BY <1>0, <1>1, <1>3, <1>4 DEF Loop!Report, Loop!Moves

LEMMA ApplyApplies ==
  ASSUME IInv, ApplyActions
  PROVE  Loop!Apply
<1>0. sim \in Simulation /\ down \in Seq(Answers) /\ conn \in BOOLEAN /\ server \in Server
  BY DEF IInv, TypeOK
<1>1. /\ sim.state = "waiting" /\ down # << >> /\ down' = Tail(down)
      /\ UNCHANGED <<episodeNum, conn, up, server, learner>>
      /\ sim'.acked = sim.acked
      /\ sim'.scheduler = IF down[1] = Keep THEN sim.scheduler ELSE down[1]
  BY <1>0 DEF ApplyActions, Simulation
<1>2. conn /\ AnswerSent
  BY <1>1 DEF IInv, Idle, Ended, Lockstep, SimTurn, RecordSent, RecordReceived
<1>3. Turn = "decided" /\ Turn' = "environment"
  <2>1. down' = << >>
    BY <1>0, <1>1, <1>2 DEF AnswerSent
  <2> QED BY <1>1, <1>2, <2>1, Turns DEF Turn, AnswerSent
<1>4. sim'.scheduler = server.lastAction
  <2>1. /\ server.action \in Seq(Answers) /\ server.schedulerId \in Seq(Schedulers)
        /\ sim.used \in Seq(Schedulers) /\ server.data \in Seq(Record)
    BY <1>0 DEF Server, Simulation
  <2>2. /\ Len(server.action) = Got /\ Len(server.schedulerId) = Got /\ Got \in Nat \ {0}
        /\ Len(sim.used) = Got - 1 /\ down[1] = server.action[Got]
    BY <1>0, <1>2, <2>1 DEF AnswerSent, IInv, Logs, Simulation, Got
  <2>3. server.lastAction = server.schedulerId[Got]
    BY <1>2, <2>1, <2>2 DEF IInv, Logs, Last
  <2>4. IF server.action[Got] = Keep
          THEN Got > 1 /\ server.schedulerId[Got] = server.schedulerId[Got - 1]
          ELSE server.schedulerId[Got] = server.action[Got]
    BY <1>2, <2>2 DEF IInv, Logs
  <2>5. CASE server.action[Got] = Keep
    <3>1. server.schedulerId[Got - 1] = sim.used[Got - 1]
      BY <1>2, <2>2, <2>4, <2>5 DEF IInv, Used
    <3>2. sim.scheduler = sim.used[Got - 1]
      BY <1>2, <2>1, <2>2, <2>4, <2>5 DEF IInv, Used, Last
    <3> QED BY <1>1, <2>2, <2>3, <2>4, <2>5, <3>1, <3>2
  <2>6. CASE server.action[Got] # Keep
    BY <1>1, <2>2, <2>3, <2>4, <2>6
  <2> QED BY <2>5, <2>6
<1>5. UNCHANGED <<Seen, Counted, Gain>>
  BY <1>1 DEF Seen, Counted, Gain
<1>6. ToUse = server.lastAction /\ ToUse' = sim'.scheduler
  BY <1>3 DEF ToUse
<1> QED BY <1>1, <1>3, <1>4, <1>5, <1>6 DEF Loop!Apply, Loop!Moves

LEMMA ReceiveObserves ==
  ASSUME IInv, ReceiveRecord
  PROVE  Loop!Observe
<1>0. /\ server \in Server /\ learner \in Learner /\ up \in Seq(Record) /\ conn \in BOOLEAN
      /\ server.data \in Seq(Record) /\ MemorySize \in Nat \ {0} /\ Got \in Nat
      /\ server.accumulativeReward \in Int /\ server.lastAckedSeqSum \in Int
      /\ sim.acked \in Int
  BY LearningAssumption DEF IInv, TypeOK, Server, Simulation, Acked, Got
<1>1. up # << >> /\ up' = << >> /\ UNCHANGED <<episodeNum, conn, sim, down>>
  BY DEF ReceiveRecord
<1>2. conn /\ RecordSent
  BY <1>1 DEF IInv, Idle, Lockstep, SimTurn, RecordReceived, AnswerSent
<1>3. /\ Len(up) = 1 /\ up[1].ssn = Got /\ up[1].acked = sim.acked /\ up[1] \in Record
      /\ down = << >> /\ Len(server.action) = Got /\ Len(sim.used) = Got
      /\ server.episode = episodeNum - 1
  <2>1. up[1] \in Record
    <3>1. 1 \in 1..Len(up)
      BY <1>2 DEF RecordSent
    <3> QED BY <1>0, <3>1, ElementOfSeq
  <2>2. server.episode = episodeNum - 1
    BY <1>2 DEF IInv, Lockstep
  <2> QED BY <1>2, <2>1, <2>2 DEF RecordSent
<1> DEFINE rewarded == CalculateReward(server, up[1])
           t == [s |-> server.before, a |-> server.lastAction,
                 r |-> rewarded.accumulativeReward, s_ |-> After(server)]
<1>4. /\ server' = [rewarded EXCEPT !.state = "answer", !.data = Append(@, up[1]),
                                    !.before = ObservationKept(server)]
      /\ learner' = IF server.data = << >> THEN learner
                    ELSE Learn(StoreTransition(learner, t), Len(server.data) - 1)
  BY <1>3 DEF ReceiveRecord, Got
<1>5. /\ rewarded = IF server.data = << >> THEN [server EXCEPT !.lastAckedSeqSum = 0]
                    ELSE [server EXCEPT !.lastAckedSeqSum = up[1].acked,
                            !.accumulativeReward = @ + (up[1].acked - server.lastAckedSeqSum)]
  BY DEF CalculateReward
<1>6. /\ server'.state = "answer" /\ server'.data = Append(server.data, up[1])
      /\ server'.lastAckedSeqSum = IF server.data = << >> THEN 0 ELSE sim.acked
      /\ server'.accumulativeReward =
           IF server.data = << >> THEN server.accumulativeReward
           ELSE server.accumulativeReward + (sim.acked - server.lastAckedSeqSum)
      /\ server.data # << >> => rewarded.accumulativeReward = server'.accumulativeReward
  <2>1. CASE server.data = << >>
    BY <1>0, <1>3, <1>4, <1>5, <2>1 DEF Server
  <2>2. CASE server.data # << >>
    BY <1>0, <1>3, <1>4, <1>5, <2>2 DEF Server
  <2> QED BY <2>1, <2>2
<1> HIDE DEF rewarded
<1>7. Turn = "reported" /\ Turn' = "deciding" /\ UNCHANGED ToUse
  <2>1. Turn = "reported" /\ Turn' = "deciding"
    BY <1>1, <1>2, <1>6, Turns DEF Turn
  <2> QED BY <1>1, <2>1 DEF ToUse
<1>8. /\ Seen = Got /\ Seen' = Seen + 1 /\ server'.data # << >>
      /\ server.data = << >> <=> Got = 0
  BY <1>0, <1>1, <1>2, <1>3, <1>6 DEF Seen, Got
<1>9. CASE server.data = << >>
  <2>1. UNCHANGED <<Counted, Gain, learner>>
    BY <1>1, <1>2, <1>4, <1>6, <1>9 DEF Counted, Gain
  <2> QED BY <1>1, <1>7, <1>8, <1>9, <2>1 DEF Loop!Observe, Loop!Moves
<1>10. CASE server.data # << >>
  <2>1. /\ Counted = server.lastAckedSeqSum /\ Gain = server.accumulativeReward
        /\ Counted' = sim.acked /\ Gain' = Gain + (sim.acked - Counted)
        /\ Gain' = rewarded.accumulativeReward
    BY <1>1, <1>2, <1>6, <1>8, <1>10 DEF Counted, Gain
  <2>2. /\ server.before = <<episodeNum - 1, Seen - 1>> /\ After(server) = <<episodeNum - 1, Seen>>
        /\ server.lastAction = sim.scheduler
    <3>1. Got > 0 /\ server.action # << >> /\ Len(server.action) = Len(sim.used)
      BY <1>0, <1>3, <1>8, <1>10
    <3> QED BY <1>2, <1>3, <1>8, <3>1, NotedIsUsed DEF IInv, Logs, After, Got
  <2>3. t = [s |-> <<episodeNum - 1, Seen - 1>>, a |-> sim.scheduler, r |-> Gain',
             s_ |-> <<episodeNum - 1, Seen>>]
    BY <2>1, <2>2
  <2> HIDE DEF t
  <2>4. /\ learner'.memory = [learner.memory EXCEPT ![learner.counter % MemorySize] = t]
        /\ learner'.counter = learner.counter + 1
    BY <1>0, <1>4, <1>10 DEF Learn, StoreTransition, Learner
  <2>5. Loop!Remember
    BY <2>1, <2>3, <2>4 DEF Loop!Remember
  <2> QED BY <1>1, <1>7, <1>8, <1>10, <2>5 DEF Loop!Observe, Loop!Moves
<1> QED BY <1>9, <1>10

LEMMA ReceiveEnds ==
  ASSUME IInv, ReceiveEnd
  PROVE  Loop!End
<1>1. /\ conn /\ Ended /\ up = << >> /\ server.state \in {"listen", "recv"} /\ ~conn'
      /\ UNCHANGED <<episodeNum, sim, up, down, learner>>
  BY DEF ReceiveEnd
<1>2. SimTurn
  BY <1>1 DEF IInv, Lockstep, RecordSent, RecordReceived, AnswerSent, Ended
<1>3. Turn = "environment" /\ Turn' = "over"
  BY <1>1, <1>2, Turns DEF Turn
<1>4. Seen' = 0 /\ Counted' = 0 /\ Gain' = 0
  BY <1>1 DEF Seen, Counted, Gain
<1>5. UNCHANGED ToUse
  BY <1>1, <1>3 DEF ToUse
<1> QED BY <1>1, <1>3, <1>4, <1>5 DEF Loop!End, Loop!Moves

LEMMA AnswerDecides ==
  ASSUME IInv, NEW a \in Answers, NEW choice, NEW timing, NEW reward,
         server.state = "answer", server' = Answer(server, a, choice, timing, reward),
         down' = Append(down, a), UNCHANGED <<episodeNum, conn, sim, up, learner>>,
         \/ choice \in Schedulers /\ reward = 0
         \/ /\ choice = server.lastAction /\ reward = server.accumulativeReward
            /\ server.action # << >>
  PROVE  Loop!Decide
<1>0. /\ server \in Server /\ down \in Seq(Answers) /\ conn \in BOOLEAN
      /\ server.action \in Seq(Answers) /\ Got \in Nat
  BY DEF IInv, TypeOK, Server, Got
<1>1. conn /\ RecordReceived
  BY DEF IInv, Idle, Lockstep, SimTurn, RecordSent, AnswerSent
<1>2. /\ server'.state = "recv" /\ server'.data = server.data /\ server'.lastAction = choice
      /\ server'.accumulativeReward = reward /\ server'.lastAckedSeqSum = server.lastAckedSeqSum
  BY <1>0 DEF Answer, Server
<1>3. up = << >> /\ down' # << >>
  BY <1>0, <1>1 DEF RecordReceived
<1>4. Turn = "deciding" /\ Turn' = "decided"
  BY <1>1, <1>2, <1>3, Turns DEF Turn
<1>5. /\ UNCHANGED <<Seen, Counted>> /\ Gain' = reward /\ Gain = server.accumulativeReward
      /\ ToUse = sim.scheduler /\ ToUse' = choice
  BY <1>1, <1>2, <1>4 DEF Seen, Counted, Gain, ToUse
<1>6. ASSUME server.action # << >> PROVE Seen > 1 /\ server.lastAction = sim.scheduler
  <2>1. Len(server.action) = Got - 1 /\ Len(server.action) = Len(sim.used)
    BY <1>1 DEF RecordReceived
  <2>2. Got > 1 /\ Seen = Got
    BY <1>0, <1>1, <1>6, <2>1 DEF Seen, Got
  <2> QED BY <1>1, <1>6, <2>1, <2>2, NotedIsUsed
<1> QED BY <1>4, <1>5, <1>6 DEF Loop!Decide, Loop!Moves

(* The records and answers of an episode are one observation for one decision, *)
(* and what store_transition stores are the steps of the simulation (LoopSpec). *)
THEOREM ImplementsAgentLoop == Spec => LoopSpec
<1>1. ASSUME Init PROVE Loop!Init
  <2>1. /\ episodeNum = 0 /\ conn = FALSE
        /\ learner = [memory |-> [i \in Indices |-> Zero], counter |-> 0, sampled |-> 0]
    BY <1>1 DEF Init
  <2>2. PICK s \in Schedulers : sim = NewSimulation("off", s)
    BY <1>1 DEF Init
  <2>3. sim.scheduler = s /\ sim.acked = 0
    BY <2>2 DEF NewSimulation
  <2>4. Turn = "over" /\ Seen = 0 /\ Counted = 0 /\ Gain = 0 /\ ToUse = sim.scheduler
    BY <2>1 DEF Turn, Seen, Counted, Gain, ToUse
  <2> QED BY <2>1, <2>3, <2>4 DEF Loop!Init, Indices, Zero
<1>2. IInv /\ [Next]_vars => [Loop!Next]_(Loop!vars)
  <2> SUFFICES ASSUME IInv, [Next]_vars PROVE Loop!Next \/ UNCHANGED Loop!vars
    OBVIOUS
  <2>1. ASSUME NEW a \in Schedulers, Choose(a) PROVE Loop!Decide
    <3>1. a \in Answers
      BY DEF Answers
    <3> QED BY <2>1, <3>1, AnswerDecides DEF Choose
  <2>2. ASSUME KeepChoice PROVE Loop!Decide
    <3>1. Keep \in Answers
      BY DEF Answers
    <3>2. server.state = "answer" /\ server.lastSchedulerTiming # Never
      BY <2>2 DEF KeepChoice, ShouldUpdate
    <3>3. conn
      BY <3>2 DEF IInv, Idle
    <3>4. server.action # << >>
      BY <3>2, <3>3 DEF IInv, Logs
    <3> QED BY <2>2, <3>1, <3>4, AnswerDecides DEF KeepChoice
  <2>3. ASSUME EndSimulation \/ UNCHANGED vars PROVE UNCHANGED Loop!vars
    <3>1. /\ UNCHANGED <<episodeNum, conn, up, down, server, learner>>
          /\ sim'.scheduler = sim.scheduler /\ sim'.acked = sim.acked
      BY <2>3 DEF EndSimulation, vars, IInv, TypeOK, Simulation
    <3>2. UNCHANGED Turn
      BY <3>1 DEF Turn
    <3> QED BY <3>1, <3>2 DEF Loop!vars, Seen, Counted, Gain, ToUse
  <2> QED
    BY <2>1, <2>2, <2>3, StartBegins, SendReports, ApplyApplies, ReceiveObserves, ReceiveEnds
       DEF Next, Loop!Next
<1> QED BY <1>1, <1>2, Invariance, PTL DEF Spec, LoopSpec, Loop!Spec
=============================================================================
