----------------------------- MODULE PacketQueue -----------------------------
(***************************************************************************)
(* The abstract connection: what `RecvHandler` promises of one direction   *)
(* of a socket.  Packets are delivered in the order in which they were     *)
(* written, each at most once and none skipped; the receiver may stop at   *)
(* any time, and nothing is delivered after that.                          *)
(***************************************************************************)
EXTENDS Naturals, Sequences

VARIABLES
  written,    \* number of packets written
  delivered,  \* the numbers of the packets delivered, in order
  stopped     \* the receiver has given up the connection

vars == <<written, delivered, stopped>>

Init == written = 0 /\ delivered = <<>> /\ stopped = FALSE

Write ==
  /\ written' = written + 1
  /\ UNCHANGED <<delivered, stopped>>

Deliver ==
  /\ ~stopped
  /\ Len(delivered) < written
  /\ delivered' = Append(delivered, Len(delivered) + 1)
  /\ UNCHANGED <<written, stopped>>

Stop ==
  /\ stopped' = TRUE
  /\ UNCHANGED <<written, delivered>>

Next == Write \/ Deliver \/ Stop

Spec == Init /\ [][Next]_vars
=============================================================================
