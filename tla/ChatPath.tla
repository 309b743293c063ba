------------------------------ MODULE ChatPath ------------------------------
(***************************************************************************)
(* The way of a line from the keyboard of one client to the screen of      *)
(* another, as the composition of what the parts promise:                  *)
(*                                                                         *)
(*   typed --(PacketQueue)--> handler, room --> handler --(PacketQueue)--> *)
(*   shown                                                                 *)
(*                                                                         *)
(* ClientApp and PacketStream implement the two queues (LinesInOrder,      *)
(* ShownInOrder, QueueSpec), ChatServer the room (RoomSpec).  A queue      *)
(* whose receiver stops is one that is not read any more.                  *)
(***************************************************************************)
EXTENDS Naturals, Sequences, Messages

CONSTANTS
  MaxTyped,  \* bound: lines each client types
  MaxLog     \* bound: messages posted

ASSUME PathBounds == {MaxTyped, MaxLog} \subseteq Nat

VARIABLES
  typed,                           \* [Conns -> lines typed that are texts]
  taken,                           \* [Conns -> how many of them its handler has read]
  log, status, from, upto, heard,  \* the room: see ChatRoom
  said,                            \* for each message of the log, the number of the line
                                   \* it is, or 0 if it is no line of a client
  down,                            \* [Conns -> positions of the log written to it]
  shown                            \* [Conns -> how many of those it has displayed]

roomVars == <<log, status, from, upto, heard>>
vars == <<typed, taken, roomVars, said, down, shown>>

Room == INSTANCE ChatRoom

TypeOK ==
  /\ Room!TypeOK
  /\ typed \in [Conns -> Nat] /\ taken \in [Conns -> Nat] /\ shown \in [Conns -> Nat]
  /\ said \in Seq(Nat) /\ Len(said) = Len(log)
  /\ down \in [Conns -> Seq(Nat)]
  /\ \A c \in Conns : taken[c] <= typed[c] /\ shown[c] <= Len(down[c])

Init ==
  /\ Room!Init
  /\ typed = [c \in Conns |-> 0] /\ taken = [c \in Conns |-> 0]
  /\ said = <<>>
  /\ down = [c \in Conns |-> <<>>] /\ shown = [c \in Conns |-> 0]

\* `client_commands`: a line that is neither a command nor an answer, of a client
\* whose nick was one (ClientApp, NickIsAnAnswer).
Type(c) ==
  /\ typed[c] < MaxTyped
  /\ typed' = [typed EXCEPT ![c] = @ + 1]
  /\ UNCHANGED <<taken, roomVars, said, down, shown>>

\* Mutant: every other line is lost on the way.
SkipsALine(c) == taken[c] + 2

\* The queue from the client to its handler.
NextLine(c) == taken[c] + 1

\* `read_branch_n`: the next line is received and posted.
PostLine(c) ==
  /\ taken[c] < typed[c] /\ Len(log) < MaxLog
  /\ Room!Post(Broadcast(c, TRUE))
  /\ taken' = [taken EXCEPT ![c] = NextLine(c)]
  /\ said' = Append(said, NextLine(c))
  /\ UNCHANGED <<typed, down, shown>>

\* The texts of the admin, the replies to &LIST.  One that does not fit makes
\* its receivers leave, which they may do anyway.
PostOther(m) ==
  /\ m.fits /\ (m.kind = "Personal" \/ m.address = Master)
  /\ Len(log) < MaxLog
  /\ Room!Post(m)
  /\ said' = Append(said, 0)
  /\ UNCHANGED <<typed, taken, down, shown>>

\* Mutant: a message is written again when the write was slow.
WritesTwice(c) ==
  LET p == upto[c] + 1
  IN  IF MeantFor(c, log[p]) THEN <<p, p>> ELSE <<>>

\* `write_branch`: what a handler that reaches a message writes to its client.
Packets(c) ==
  LET p == upto[c] + 1
  IN  IF MeantFor(c, log[p]) THEN <<p>> ELSE <<>>

Hear(c) ==
  /\ Room!Hear(c)
  /\ down' = [down EXCEPT ![c] = @ \o Packets(c)]
  /\ UNCHANGED <<typed, taken, said, shown>>

\* The queue from the handler to the display of the client.
Show(c) ==
  /\ shown[c] < Len(down[c])
  /\ shown' = [shown EXCEPT ![c] = @ + 1]
  /\ UNCHANGED <<typed, taken, roomVars, said, down>>

\* Admission and departure.
Move(c) ==
  /\ Room!Enter(c) \/ Room!Admit(c) \/ Room!Leave(c)
  /\ UNCHANGED <<typed, taken, said, down, shown>>

Close ==
  /\ Room!Close
  /\ UNCHANGED <<typed, taken, said, down, shown>>

Next ==
  \/ \E c \in Conns : Type(c) \/ PostLine(c) \/ Hear(c) \/ Show(c) \/ Move(c)
  \/ \E m \in Message : PostOther(m)
  \/ Close

Spec == Init /\ [][Next]_vars

-----------------------------------------------------------------------------
\* Position p of the log is a line of a.
LineOf(a, p) == said[p] > 0 /\ log[p].address = a

(* End to end: what b displays of a's lines comes in the order in which a  *)
(* typed it, nothing twice; and every earlier line of a was displayed by b *)
(* before, unless it was posted before b connected.                        *)
EndToEnd ==
  \A a, b \in Conns : \A i \in 1 .. shown[b] :
    a # b /\ LineOf(a, down[b][i]) =>
      /\ \A j \in 1 .. (i - 1) :
           LineOf(a, down[b][j]) => said[down[b][j]] < said[down[b][i]]
      /\ \A n \in 1 .. (said[down[b][i]] - 1) : \E p \in 1 .. (down[b][i] - 1) :
           /\ LineOf(a, p) /\ said[p] = n
           /\ p <= from[b] \/ \E j \in 1 .. (i - 1) : down[b][j] = p
=============================================================================
