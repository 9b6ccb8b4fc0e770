---------------------------- MODULE DuplexStream ----------------------------
(***************************************************************************)
(* What a connection promises while its two ends close it, whatever the    *)
(* network loses: a stream of bytes each way, which only its writer ends,  *)
(* and an end of file that comes after the last byte and after nothing     *)
(* else.  Streams are of bytes written in order, so counts stand for them. *)
(***************************************************************************)
EXTENDS Naturals

CONSTANTS
  Hosts,        \* the two ends
  Limit         \* per host: how many bytes it may write

VARIABLES
  written,      \* per host: bytes handed to Send so far
  ended,        \* no byte will follow
  received,     \* per host: bytes of the peer that it was given
  eof           \* it was told that the peer's stream is over

vars == <<written, ended, received, eof>>

Peer(h) == CHOOSE k \in Hosts : k # h

Init ==
  /\ written = [h \in Hosts |-> 0] /\ ended = [h \in Hosts |-> FALSE]
  /\ received = [h \in Hosts |-> 0] /\ eof = [h \in Hosts |-> FALSE]

Write(h) ==
  /\ ~ended[h] /\ written[h] < Limit[h]
  /\ written' = [written EXCEPT ![h] = @ + 1]
  /\ UNCHANGED <<ended, received, eof>>

End(h) ==
  /\ ended' = [ended EXCEPT ![h] = TRUE]
  /\ UNCHANGED <<written, received, eof>>

(* The host gets what its peer wrote up to byte n and, if that is all, may *)
(* be told so; in the same step it may end its own stream.                 *)
Deliver(h, n, last, ends) ==
  /\ received[h] <= n /\ n <= written[Peer(h)]
  /\ last => ended[Peer(h)] /\ n = written[Peer(h)]
  /\ received' = [received EXCEPT ![h] = n]
  /\ eof' = [eof EXCEPT ![h] = @ \/ last]
  /\ ended' = [ended EXCEPT ![h] = @ \/ ends]
  /\ UNCHANGED written

Next ==
  \E h \in Hosts :
    \/ Write(h)
    \/ End(h)
    \/ \E n \in 0..Limit[Peer(h)], last, ends \in BOOLEAN : Deliver(h, n, last, ends)

Spec == Init /\ [][Next]_vars
=============================================================================
