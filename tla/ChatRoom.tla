------------------------------ MODULE ChatRoom ------------------------------
(***************************************************************************)
(* The abstract chat: what the server promises to the people connected to  *)
(* it, with no task, channel or queue.  There is one log of messages.  A   *)
(* member follows it from the point at which it entered, in order and      *)
(* without a gap, and hears exactly the messages meant for it; the only    *)
(* message it may miss is the one at which it leaves.  Only members that   *)
(* were admitted, and the master, speak.                                   *)
(***************************************************************************)
EXTENDS Naturals, Sequences, Messages

VARIABLES
  log,     \* every message posted, in order
  status,  \* [Conns -> "out" | "entering" | "in" | "gone"]
  from,    \* [Conns -> Nat]  length of the log when the member entered
  upto,    \* [Conns -> Nat]  how far the member has followed the log
  heard    \* [Conns -> SUBSET Nat]  the positions of the log it was told

vars == <<log, status, from, upto, heard>>

TypeOK ==
  /\ log \in Seq(Message)
  /\ status \in [Conns -> {"out", "entering", "in", "gone"}]
  /\ from \in [Conns -> Nat]
  /\ upto \in [Conns -> Nat]
  /\ heard \in [Conns -> SUBSET Nat]

Init ==
  /\ log = <<>>
  /\ status = [c \in Conns |-> "out"]
  /\ from = [c \in Conns |-> 0]
  /\ upto = [c \in Conns |-> 0]
  /\ heard = [c \in Conns |-> {}]

(* A connection takes its place in the log before it is admitted.          *)
Enter(c) ==
  /\ status[c] = "out"
  /\ status' = [status EXCEPT ![c] = "entering"]
  /\ from' = [from EXCEPT ![c] = Len(log)]
  /\ upto' = [upto EXCEPT ![c] = Len(log)]
  /\ UNCHANGED <<log, heard>>

Admit(c) ==
  /\ status[c] = "entering"
  /\ status' = [status EXCEPT ![c] = "in"]
  /\ UNCHANGED <<log, from, upto, heard>>

(* A member or the master posts to everybody, or a member to itself.       *)
Post(m) ==
  /\ m.address = Master => m.kind = "Broadcast"
  /\ m.address # Master => status[m.address] = "in"
  /\ log' = Append(log, m)
  /\ UNCHANGED <<status, from, upto, heard>>

(* A member follows the log by one message.                                *)
Hear(c) ==
  /\ status[c] = "in"
  /\ upto[c] < Len(log)
  /\ upto' = [upto EXCEPT ![c] = @ + 1]
  /\ heard' = [heard EXCEPT ![c] =
                 IF MeantFor(c, log[upto[c] + 1]) THEN @ \cup {upto[c] + 1} ELSE @]
  /\ UNCHANGED <<log, status, from>>

(* A member leaves; if a message could not be delivered, it leaves at it.  *)
Leave(c) ==
  /\ status[c] # "gone"
  /\ status' = [status EXCEPT ![c] = "gone"]
  /\ \/ upto' = upto
     \/ /\ status[c] = "in"
        /\ upto[c] < Len(log)
        /\ upto' = [upto EXCEPT ![c] = @ + 1]
  /\ UNCHANGED <<log, from, heard>>

(* The room closes and everybody is gone.                                  *)
Close ==
  /\ status' = [c \in Conns |-> "gone"]
  /\ UNCHANGED <<log, from, upto, heard>>

Next ==
  \/ \E c \in Conns : Enter(c) \/ Admit(c) \/ Hear(c) \/ Leave(c)
  \/ \E m \in Message : Post(m)
  \/ Close

Spec == Init /\ [][Next]_vars

-----------------------------------------------------------------------------
(* The messages meant for c in the part of the log it has followed.        *)
Due(c) == {i \in (from[c] + 1) .. upto[c] : MeantFor(c, log[i])}

(* A member was told exactly what was meant for it since it entered: no    *)
(* line of its own, nobody else's personal message, no gap; one that has   *)
(* left may lack the last message it reached, and no other.                *)
GapFree ==
  \A c \in Conns :
    /\ heard[c] \subseteq Due(c)
    /\ Due(c) \ heard[c] \subseteq (IF status[c] = "gone" THEN {upto[c]} ELSE {})
=============================================================================
