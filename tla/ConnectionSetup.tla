-------------------------- MODULE ConnectionSetup ---------------------------
(***************************************************************************)
(* What the set-up of a connection promises, whatever the network loses or *)
(* repeats: each subflow goes through its handshake once and never back,   *)
(* the connection is there for an end as soon as the master is, each end   *)
(* learns that it is fully established after the other could know, and     *)
(* only then is another subflow asked for.                                 *)
(***************************************************************************)
CONSTANTS
  Master,       \* the first subflow
  Joins         \* the others

VARIABLES
  stage,        \* how far the handshake of each subflow is
  connected,    \* per host: the connection is established
  knows,        \* per host: it is fully established
  failed        \* a handshake was given up

vars == <<stage, connected, knows, failed>>

Hosts == {"client", "server"}
Flows == {Master} \cup Joins

(* A handshake that has begun and is not at its end. *)
Waiting == {"asked", "answered", "accepted"}

Init ==
  /\ stage = [f \in Flows |-> "closed"] /\ failed = FALSE
  /\ connected = [h \in Hosts |-> FALSE] /\ knows = [h \in Hosts |-> FALSE]

Moves(f, from, to) ==
  ~failed /\ stage[f] = from /\ stage' = [stage EXCEPT ![f] = to] /\ UNCHANGED failed

(* The connection is as far as its master. *)
Connects(h, f) ==
  connected' = IF f = Master THEN [connected EXCEPT ![h] = TRUE] ELSE connected

(* The client asks for a subflow, and the server answers. *)
Ask(f) ==
  /\ Moves(f, "closed", "asked") /\ (f = Master \/ knows["client"])
  /\ UNCHANGED <<connected, knows>>

Answer(f) ==
  /\ Moves(f, "asked", "answered") /\ (f = Master \/ knows["server"])
  /\ UNCHANGED <<connected, knows>>

(* The client has the answer, and the server hears of it. *)
Accept(f) ==
  Moves(f, "answered", "accepted") /\ Connects("client", f) /\ UNCHANGED knows

Complete(f) ==
  /\ Moves(f, "accepted", "up") /\ Connects("server", f)
  /\ knows' \in {knows, [knows EXCEPT !["server"] = TRUE]}

(* Data tell the server, and its acknowledgement tells the client, which *)
(* may ask for a subflow at once.                                        *)
ServerLearns ==
  /\ ~failed /\ \E f \in Flows : stage[f] = "up"
  /\ knows' = [knows EXCEPT !["server"] = TRUE]
  /\ UNCHANGED <<stage, connected, failed>>

ClientLearns ==
  /\ ~failed /\ knows["server"] /\ knows' = [knows EXCEPT !["client"] = TRUE]
  /\ (\E f \in Joins : Moves(f, "closed", "asked")) \/ UNCHANGED <<stage, failed>>
  /\ UNCHANGED connected

GiveUp ==
  /\ ~failed /\ \E f \in Flows : stage[f] \in Waiting
  /\ failed' = TRUE
  /\ UNCHANGED <<stage, connected, knows>>

Next ==
  \/ \E f \in Flows : Ask(f) \/ Answer(f) \/ Accept(f) \/ Complete(f)
  \/ ServerLearns \/ ClientLearns \/ GiveUp

Spec == Init /\ [][Next]_vars
=============================================================================
