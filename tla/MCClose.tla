------------------------------ MODULE MCClose ------------------------------
(* Instances of MetaClose for TLC. *)
EXTENDS MetaClose

(* What each host may write, and what its link queues. *)
CONSTANTS a, b, OfA, OfB, CapA, CapB
MCLimit == [h \in Hosts |-> IF h = a THEN OfA ELSE OfB]
MCLinkCap == [h \in Hosts |-> IF h = a THEN CapA ELSE CapB]
=============================================================================
