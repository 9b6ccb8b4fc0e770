---------------------------- MODULE LearningLoop ----------------------------
(***************************************************************************)
(* The learning loop: the simulation, whose node 0 sends a record of its   *)
(* state before every SendPendingData and waits for the scheduler to use;  *)
(* the server, which answers and collects what it learns from; and the     *)
(* script, which starts one simulation per episode.  Simulation and server *)
(* talk over a TCP connection, a stream without record boundaries: a recv  *)
(* returns all that has arrived.  Of the learner there is the memory of    *)
(* transitions and what learn draws from it; what the network makes of     *)
(* them is left out, its choice is any scheduler.  The script sleeps       *)
(* before each simulation, as long as the server needs to listen again.    *)
(***************************************************************************)
EXTENDS Integers, Sequences, SequencesExt

CONSTANTS
  Schedulers,       \* the indices of m_schedulerArmoury
  MaxEpisode,       \* simulations the script starts and the server expects
  SwitchInterval,   \* how long a choice is kept; -1 to choose every time
  MemorySize,       \* memory_size
  LearnAfter,       \* the steps of an episode after which it learns (200)
  LearnEvery,       \* and how often then (5)
  MaxRecords,       \* bound: records of one simulation
  MaxAcked          \* bound: what is acknowledged between two records

Keep == 999         \* the answer that leaves the scheduler as it is

ASSUME LearningAssumption ==
  /\ Schedulers # {} /\ Schedulers \subseteq Nat \ {Keep}
  /\ MaxEpisode \in Nat \ {0} /\ MaxRecords \in Nat \ {0} /\ MaxAcked \in Nat
  /\ SwitchInterval \in Int
  /\ MemorySize \in Nat \ {0} /\ LearnAfter \in Nat /\ LearnEvery \in Nat \ {0}

VARIABLES
  episodeNum,       \* the script: simulations started
  conn,             \* the server has, or will accept, a connection
  sim,              \* the simulation: its process and the meta socket of node 0
  up,               \* records on their way to the server
  down,             \* answers on their way to the simulation
  server,           \* rl_server.py
  learner           \* its DeepQNetwork, which all episodes share

vars == <<episodeNum, conn, sim, up, down, server, learner>>

Never   == -1       \* lastSchedulerTiming is float("-inf")
Time    == 0..MaxRecords
Acked   == 0..(MaxRecords * MaxAcked)
Answers == Schedulers \cup {Keep}

(* Of a record: its number, the time, and lastAckedSeq summed over the     *)
(* subflows.                                                               *)
Record == [ssn : 0..MaxRecords, time : Time, acked : Acked]

(* An observation is named by its episode and record.  r is counted in     *)
(* acknowledged bytes.                                                     *)
Observation == (0..(MaxEpisode - 1)) \X (0..MaxRecords)
Transition  == [s : Observation, a : Schedulers, r : Acked, s_ : Observation]
Zero        == [zero |-> TRUE]   \* a row of np.zeros
Indices     == 0..(MemorySize - 1)

Simulation ==
  [state : {"off", "running", "waiting", "failed"}, seqNum : 0..MaxRecords,
   time : Time, acked : Acked, scheduler : Schedulers, used : Seq(Schedulers)]

(* The server is in accept or its first recv ("listen"), has a record to   *)
(* answer ("answer"), is in a later recv ("recv"), or has ended: after all *)
(* its episodes ("done"), by exit() or by an assertion ("failed").         *)
Server ==
  [state : {"listen", "answer", "recv", "done", "exit", "failed"},
   episode : 0..MaxEpisode, data : Seq(Record), schedulerId : Seq(Schedulers),
   action : Seq(Answers), lastAction : Schedulers,
   lastSchedulerTiming : Time \cup {Never}, lastAckedSeqSum : Acked,
   accumulativeReward : Acked, before : Observation]

Learner ==
  [memory : [Indices -> Transition \cup {Zero}], counter : Nat, sampled : 0..MemorySize]

TypeOK ==
  /\ episodeNum \in 0..MaxEpisode /\ conn \in BOOLEAN
  /\ sim \in Simulation /\ up \in Seq(Record) /\ down \in Seq(Answers)
  /\ server \in Server /\ learner \in Learner

(* A simulation process; its meta socket chooses a scheduler at random. *)
NewSimulation(state, s) ==
  [state |-> state, seqNum |-> 0, time |-> 0, acked |-> 0, scheduler |-> s,
   used |-> << >>]

(* Mutants of NewEpisode: the records are kept, or the time of the choice. *)
KeepRecords(srv, n) ==
  [srv EXCEPT !.state = "listen", !.episode = n, !.schedulerId = << >>,
     !.action = << >>, !.lastSchedulerTiming = Never,
     !.accumulativeReward = 0]

KeepTiming(srv, n) ==
  [srv EXCEPT !.state = "listen", !.episode = n, !.data = << >>,
     !.schedulerId = << >>, !.action = << >>,
     !.accumulativeReward = 0]

(* The server at the beginning of an episode; of the last one it keeps the *)
(* variable action.                                                        *)
NewEpisode(srv, n) ==
  [srv EXCEPT !.state = "listen", !.episode = n, !.data = << >>,
     !.schedulerId = << >>, !.action = << >>, !.lastSchedulerTiming = Never,
     !.accumulativeReward = 0]

Init ==
  /\ episodeNum = 0 /\ conn = FALSE
  /\ \E s \in Schedulers : sim = NewSimulation("off", s)
  /\ up = << >> /\ down = << >>
  /\ \E a \in Schedulers :
       server = NewEpisode([state |-> "listen", episode |-> 0, data |-> << >>,
                            schedulerId |-> << >>, action |-> << >>, lastAction |-> a,
                            lastSchedulerTiming |-> Never, lastAckedSeqSum |-> 0,
                            accumulativeReward |-> 0, before |-> <<0, 0>>], 0)
  /\ learner = [memory |-> [i \in Indices |-> Zero], counter |-> 0, sampled |-> 0]

-----------------------------------------------------------------------------
(* The script. *)

Ended    == sim.state \in {"off", "failed"}
Finished == server.state \in {"done", "exit", "failed"}

(* Mutant of Slept: the next simulation starts at once. *)
NotSlept == TRUE

(* The sleep is over: the server listens for the next simulation or is gone. *)
Slept == Finished \/ (server.state = "listen" /\ ~conn)

(* A simulation connects before its main, or is ended by the exception. *)
StartSimulation(s) ==
  /\ Ended /\ episodeNum < MaxEpisode /\ Slept
  /\ episodeNum' = episodeNum + 1
  /\ IF server.state = "listen" /\ ~conn
       THEN conn' = TRUE /\ sim' = NewSimulation("running", s)
       ELSE sim' = NewSimulation("failed", s) /\ UNCHANGED conn
  /\ UNCHANGED <<up, down, server, learner>>

-----------------------------------------------------------------------------
(* The simulation. *)

(* Events pass and SendPendingData of node 0 runs: SendStates, then RcvActions *)
(* blocks.                                                                     *)
SendStates(elapsed, acked) ==
  LET r == [ssn |-> sim.seqNum, time |-> sim.time + elapsed,
            acked |-> sim.acked + acked]
  IN
  /\ sim.state = "running" /\ sim.seqNum < MaxRecords
  /\ sim' = [sim EXCEPT !.state = "waiting", !.seqNum = @ + 1, !.time = r.time,
                        !.acked = r.acked]
  /\ up' = Append(up, r)
  /\ UNCHANGED <<episodeNum, conn, down, server, learner>>

(* ApplyActions; the data that can be sent then is sent with the scheduler. *)
ApplyActions ==
  LET s == IF down[1] = Keep THEN sim.scheduler ELSE down[1] IN
  /\ sim.state = "waiting" /\ down # << >>
  /\ sim' = [sim EXCEPT !.state = "running", !.scheduler = s, !.used = Append(@, s)]
  /\ down' = Tail(down)
  /\ UNCHANGED <<episodeNum, conn, up, server, learner>>

(* It is over, or a fatal error ends it. *)
EndSimulation ==
  /\ sim.state = "running"
  /\ sim' = [sim EXCEPT !.state = "off"]
  /\ UNCHANGED <<episodeNum, conn, up, down, server, learner>>

-----------------------------------------------------------------------------
(* The server. *)

(* Mutant of CalculateReward: the sum is not reset. *)
RewardWithoutReset(srv, r) ==
  IF srv.data = << >> THEN srv
  ELSE [srv EXCEPT !.lastAckedSeqSum = r.acked,
                   !.accumulativeReward = @ + (r.acked - srv.lastAckedSeqSum)]

(* calculate_reward, which for the first record only resets the sum, to 0. *)
CalculateReward(srv, r) ==
  IF srv.data = << >> THEN [srv EXCEPT !.lastAckedSeqSum = 0]
  ELSE [srv EXCEPT !.lastAckedSeqSum = r.acked,
                   !.accumulativeReward = @ + (r.acked - srv.lastAckedSeqSum)]

(* The observation of the record the server receives. *)
After(srv) == <<srv.episode, Len(srv.data)>>

(* Mutant of ObservationKept: it is kept for the whole episode. *)
FirstObservationKept(srv) == IF srv.data = << >> THEN After(srv) ELSE srv.before

(* What becomes of observation_before_action. *)
ObservationKept(srv) == After(srv)

(* store_transition: the oldest row gives way. *)
StoreTransition(l, t) ==
  [l EXCEPT !.memory[l.counter % MemorySize] = t, !.counter = @ + 1]

(* Mutant of SampleFrom: all the memory from the beginning. *)
SampleFromAll(l) == MemorySize

(* How many rows learn draws its batch from. *)
SampleFrom(l) == IF l.counter > MemorySize THEN MemorySize ELSE l.counter

Learn(l, step) ==
  IF step > LearnAfter /\ step % LearnEvery = 0
    THEN [l EXCEPT !.sampled = SampleFrom(l)] ELSE l

(* recv returns, with all records that have arrived, which the assertions  *)
(* of add_one_record want to be one, with the number expected.  From the   *)
(* second record of an episode on there is a transition to learn from.     *)
ReceiveRecord ==
  LET rewarded == CalculateReward(server, up[1])
      t == [s |-> server.before, a |-> server.lastAction,
            r |-> rewarded.accumulativeReward, s_ |-> After(server)]
  IN
  /\ server.state \in {"listen", "recv"} /\ up # << >>
  /\ up' = << >>
  /\ IF Len(up) # 1 \/ up[1].ssn # Len(server.data)
       THEN server' = [server EXCEPT !.state = "failed"] /\ UNCHANGED learner
       ELSE /\ server' = [rewarded EXCEPT !.state = "answer", !.data = Append(@, up[1]),
                                          !.before = ObservationKept(server)]
            /\ learner' = IF server.data = << >> THEN learner
                          ELSE Learn(StoreTransition(learner, t), Len(server.data) - 1)
  /\ UNCHANGED <<episodeNum, conn, sim, down>>

(* recv returns nothing: the simulation has ended.  Before its first record *)
(* that also ends the server.                                               *)
ReceiveEnd ==
  /\ conn /\ Ended /\ up = << >>
  /\ server.state \in {"listen", "recv"}
  /\ conn' = FALSE
  /\ server' =
       IF server.state = "listen" THEN [server EXCEPT !.state = "exit"]
       ELSE IF server.episode + 1 = MaxEpisode
              THEN [server EXCEPT !.state = "done", !.episode = @ + 1]
              ELSE NewEpisode(server, server.episode + 1)
  /\ UNCHANGED <<episodeNum, sim, up, down, learner>>

(* The answer a, and what the server notes: the choice and, if it is new,  *)
(* its time.                                                               *)
Answer(srv, a, choice, timing, reward) ==
  [srv EXCEPT !.state = "recv", !.action = Append(@, a), !.lastAction = choice,
              !.schedulerId = Append(@, choice), !.lastSchedulerTiming = timing,
              !.accumulativeReward = reward]

ShouldUpdate ==
  LET now == Last(server.data).time IN
  \/ server.lastSchedulerTiming = Never
  \/ now - server.lastSchedulerTiming > SwitchInterval

(* choose_action, or the scheduler of --forceReply, and apply_action. *)
Choose(a) ==
  /\ server.state = "answer" /\ ShouldUpdate
  /\ server' = Answer(server, a, a, Last(server.data).time, 0)
  /\ down' = Append(down, a)
  /\ UNCHANGED <<episodeNum, conn, sim, up, learner>>

(* Mutant of KeepChoice: nothing to change, nothing to answer. *)
KeepSilent ==
  /\ server.state = "answer" /\ ~ShouldUpdate
  /\ server' = Answer(server, Keep, server.lastAction, server.lastSchedulerTiming,
                      server.accumulativeReward)
  /\ UNCHANGED <<episodeNum, conn, sim, up, down, learner>>

KeepChoice ==
  /\ server.state = "answer" /\ ~ShouldUpdate
  /\ server' = Answer(server, Keep, server.lastAction, server.lastSchedulerTiming,
                      server.accumulativeReward)
  /\ down' = Append(down, Keep)
  /\ UNCHANGED <<episodeNum, conn, sim, up, learner>>

-----------------------------------------------------------------------------
Next ==
  \/ \E s \in Schedulers : StartSimulation(s)
  \/ \E elapsed \in 0..1, acked \in 0..MaxAcked : SendStates(elapsed, acked)
  \/ ApplyActions
  \/ EndSimulation
  \/ ReceiveRecord
  \/ ReceiveEnd
  \/ \E a \in Schedulers : Choose(a)
  \/ KeepChoice

Spec == Init /\ [][Next]_vars

(* Fairness: each of the three processes goes on when it can. *)
Fairness ==
  /\ WF_vars(\E s \in Schedulers : StartSimulation(s))
  /\ WF_vars(ApplyActions \/ EndSimulation)
  /\ WF_vars(ReceiveRecord \/ ReceiveEnd \/ KeepChoice \/ \E a \in Schedulers : Choose(a))

FairSpec == Spec /\ Fairness

-----------------------------------------------------------------------------
(* Properties. *)

(* "neighbour TCP segments must not combined into one" (add_one_record):   *)
(* the assertions of the server hold, since a record is only sent once the *)
(* last one was answered, in every episode anew.                           *)
RecordsIntact == server.state # "failed"

(* The scheduler the server notes for a record is the one the simulation   *)
(* used for what it sent next, though most answers only say to keep it and *)
(* each simulation begins with a scheduler of its own.                     *)
SchedulerRecorded ==
  conn => \A k \in 1..Len(sim.used) : server.schedulerId[k] = sim.used[k]

(* What the memory holds of this episode is what happened, newest last     *)
(* round the ring: each transition joins two neighbouring records, with    *)
(* the scheduler the simulation used in between and what it earned since   *)
(* that was chosen, though before, action and reward are kept in variables *)
(* of the loop that outlive records and episodes.                          *)
TransitionsTrue ==
  conn => \A k \in 1..(Len(server.data) - 1) :
    LET age == Len(server.data) - 1 - k
        row == learner.memory[(learner.counter - 1 - age) % MemorySize]
    IN age < MemorySize =>
         \E j \in 1..k :
           /\ server.action[j] # Keep /\ \A i \in (j + 1)..k : server.action[i] = Keep
           /\ row = [s  |-> <<server.episode, k - 1>>, a |-> sim.used[k],
                     r  |-> server.data[k + 1].acked
                              - (IF j = 1 THEN 0 ELSE server.data[j].acked),
                     s_ |-> <<server.episode, k>>]

(* The network never learns from a row of zeros that nothing was stored in. *)
LearnsFromStored == \A i \in 0..(learner.sampled - 1) : learner.memory[i] # Zero

(* Script and server number the episodes alike, so that the results of a   *)
(* simulation are stored as those of its episode.  Each keeps a count of   *)
(* its own, which agree because a simulation never runs without the        *)
(* server; that rests on the script's sleep being long enough (Slept).     *)
EpisodesAgree == conn => server.episode = episodeNum - 1

(* Whoever waits has somebody to wait for: a simulation blocked in         *)
(* RcvActions has one record on its way, being answered, or answered, of a *)
(* server that has not ended, and no answer is left over otherwise; and a  *)
(* server without a connection is in accept, with a simulation to come.    *)
NobodyStranded ==
  /\ Len(up) + Len(down) + (IF server.state = "answer" THEN 1 ELSE 0)
       = (IF sim.state = "waiting" THEN 1 ELSE 0)
  /\ sim.state = "waiting" => ~Finished
  /\ ~conn /\ ~Finished => server.state = "listen" /\ episodeNum < MaxEpisode

(* Whose turn it is, between a simulation and a server that are connected. *)
Turn ==
  CASE ~conn -> "over"
    [] conn /\ up # << >> -> "reported"
    [] conn /\ up = << >> /\ server.state = "answer" -> "deciding"
    [] conn /\ up = << >> /\ server.state # "answer" /\ down # << >> -> "decided"
    [] OTHER -> "environment"

(* What the server has of the episode; outside of one its variables keep   *)
(* values of the last.                                                     *)
Seen    == IF conn THEN Len(server.data) ELSE 0
Counted == IF conn /\ server.data # << >> THEN server.lastAckedSeqSum ELSE 0
Gain    == IF conn THEN server.accumulativeReward ELSE 0

(* The scheduler that the next data will be sent with. *)
ToUse == IF Turn = "decided" THEN server.lastAction ELSE sim.scheduler

Loop == INSTANCE AgentLoop WITH
  turn <- Turn, episode <- episodeNum, scheduler <- sim.scheduler, acked <- sim.acked,
  seen <- Seen, counted <- Counted, gain <- Gain, next <- ToUse,
  memory <- learner.memory, counter <- learner.counter

(* Simulation and server take turns, and for ever, over all episodes, the *)
(* rows of the memory are steps the simulation took, whatever the         *)
(* variables of the server's loop still hold from before.                 *)
LoopSpec == Loop!Spec

(* Nobody waits for ever: neither a simulation for its answer nor the      *)
(* server for a simulation that does not come.                             *)
Finishes == <>(episodeNum = MaxEpisode /\ Ended /\ Finished)
=============================================================================
