----------------------------- MODULE AgentLoop ------------------------------
(***************************************************************************)
(* What learning from simulations promises: environment and agent take     *)
(* turns, one report for one decision, and every report but the first of   *)
(* an episode is remembered as a step the environment took: from the       *)
(* report before to this one, under the scheduler that was used, with what *)
(* was gained since that was chosen.                                       *)
(***************************************************************************)
EXTENDS Integers

CONSTANTS
  Schedulers,
  MemorySize

VARIABLES
  turn,         \* whose turn it is; "over" between episodes
  episode,      \* episodes begun
  scheduler,    \* the scheduler in use
  acked,        \* what the environment has counted in this episode
  seen,         \* reports the agent has
  counted,      \* what the last one said; the first says nothing
  gain,         \* what was gained since the last decision that was not to keep
  next,         \* the scheduler to use next
  memory,       \* a ring of the newest steps
  counter       \* steps remembered so far

vars == <<turn, episode, scheduler, acked, seen, counted, gain, next, memory, counter>>

Init ==
  /\ turn = "over" /\ episode = 0 /\ acked = 0
  /\ scheduler \in Schedulers /\ next = scheduler
  /\ seen = 0 /\ counted = 0 /\ gain = 0
  /\ memory = [i \in 0..(MemorySize - 1) |-> [zero |-> TRUE]] /\ counter = 0

Moves(from, to) == turn = from /\ turn' = to

(* An episode begins, unless the environment cannot start, and ends. *)
Begin ==
  /\ Moves("over", "environment") \/ Moves("over", "over")
  /\ episode' = episode + 1 /\ acked' = 0
  /\ scheduler' \in Schedulers /\ next' = scheduler'
  /\ UNCHANGED <<seen, counted, gain, memory, counter>>

End ==
  /\ Moves("environment", "over")
  /\ seen' = 0 /\ counted' = 0 /\ gain' = 0
  /\ UNCHANGED <<episode, scheduler, acked, next, memory, counter>>

Report ==
  /\ Moves("environment", "reported")
  /\ acked' >= acked
  /\ UNCHANGED <<episode, scheduler, seen, counted, gain, next, memory, counter>>

Remember ==
  /\ counted' = acked /\ gain' = gain + (acked - counted)
  /\ memory' = [memory EXCEPT ![counter % MemorySize] =
                  [s |-> <<episode - 1, seen - 1>>, a |-> scheduler, r |-> gain',
                   s_ |-> <<episode - 1, seen>>]]
  /\ counter' = counter + 1

Observe ==
  /\ Moves("reported", "deciding") /\ seen' = seen + 1
  /\ IF seen = 0 THEN UNCHANGED <<counted, gain, memory, counter>> ELSE Remember
  /\ UNCHANGED <<episode, scheduler, acked, next>>

(* Another scheduler or the same again, or to keep the one in use. *)
Decide ==
  /\ Moves("deciding", "decided")
  /\ \/ next' \in Schedulers /\ gain' = 0
     \/ seen > 1 /\ UNCHANGED <<next, gain>>
  /\ UNCHANGED <<episode, scheduler, acked, seen, counted, memory, counter>>

Apply ==
  /\ Moves("decided", "environment") /\ scheduler' = next
  /\ UNCHANGED <<episode, acked, seen, counted, gain, next, memory, counter>>

Next == Begin \/ End \/ Report \/ Observe \/ Decide \/ Apply

Spec == Init /\ [][Next]_vars
=============================================================================
