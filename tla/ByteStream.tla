----------------------------- MODULE ByteStream -----------------------------
(***************************************************************************)
(* What an MPTCP connection promises the two applications, whatever the    *)
(* number of subflows: a reliable byte stream.  The byte at position d of  *)
(* what the sender wrote is written d here.  The receiver only ever reads  *)
(* the next bytes of the stream, each once and in order.                   *)
(***************************************************************************)
EXTENDS Naturals, Sequences

CONSTANT StreamLen   \* how many bytes the sending application writes

VARIABLES
  written,           \* number of bytes handed to Send so far
  delivered          \* the bytes returned by Recv so far

Init == written = 0 /\ delivered = << >>

Write(n) == written' = written + n /\ written' <= StreamLen /\ UNCHANGED delivered

(* Recv hands over the next n bytes that were written and not yet read. *)
Read(n) ==
  /\ Len(delivered) + n <= written
  /\ delivered' = delivered \o [i \in 1..n |-> Len(delivered) + i - 1]
  /\ UNCHANGED written

Next == \E n \in 1..StreamLen : Write(n) \/ Read(n)

Spec == Init /\ [][Next]_<<written, delivered>>
=============================================================================
