--------------------------- MODULE ChatRoomProofs ---------------------------
(* The abstract chat room is gap-free, for any set of connections.         *)
EXTENDS ChatRoom, TLAPS

(* Who is still out has heard nothing, and nobody is ahead of the log.     *)
Inv ==
  /\ TypeOK
  /\ \A c \in Conns : from[c] <= upto[c] /\ upto[c] <= Len(log)
  /\ \A c \in Conns : status[c] = "out" => heard[c] = {}
  /\ GapFree

LEMMA InitInv == Init => Inv
  BY DEF Init, Inv, TypeOK, GapFree, Due, Message

(* What is due to c depends on no message posted after those it followed.  *)
LEMMA DueIgnoresPosts ==
  ASSUME Inv, NEW m \in Message, log' = Append(log, m), UNCHANGED <<from, upto>>,
         NEW c \in Conns
  PROVE  Due(c)' = Due(c)
<1>1. from[c] \in Nat /\ upto[c] \in Nat /\ upto[c] <= Len(log)
  BY DEF Inv, TypeOK
<1>2. ASSUME NEW i \in (from[c] + 1) .. upto[c]
      PROVE  log'[i] = log[i]
  BY <1>1, <1>2 DEF Inv, TypeOK
<1> QED
  BY <1>1, <1>2 DEF Due, MeantFor

(* One more message followed is one more due, if it is meant for c.        *)
LEMMA DueGrows ==
  ASSUME Inv, NEW c \in Conns, upto[c] < Len(log), UNCHANGED <<log, from>>,
         upto' = [upto EXCEPT ![c] = @ + 1]
  PROVE  Due(c)' = IF MeantFor(c, log[upto[c] + 1]) THEN Due(c) \cup {upto[c] + 1}
                                                    ELSE Due(c)
<1>1. from[c] \in Nat /\ upto[c] \in Nat /\ from[c] <= upto[c]
  BY DEF Inv, TypeOK
<1>2. upto'[c] = upto[c] + 1
  BY DEF Inv, TypeOK
<1>3. (from[c] + 1) .. (upto[c] + 1) = ((from[c] + 1) .. upto[c]) \cup {upto[c] + 1}
  BY <1>1
<1>4. Due(c)' = {i \in (from[c] + 1) .. (upto[c] + 1) : MeantFor(c, log[i])}
  BY <1>2 DEF Due, MeantFor
<1> QED
  BY <1>3, <1>4 DEF Due

(* A room in which only the log grows stays gap-free.                      *)
LEMMA PostInv == ASSUME Inv, NEW m \in Message, Post(m) PROVE Inv'
<1> USE DEF Post
<1>1. TypeOK'
  BY DEF Inv, TypeOK
<1>2. Len(log') = Len(log) + 1
  BY DEF Inv, TypeOK
<1>3. \A c \in Conns : Due(c)' = Due(c)
  BY DueIgnoresPosts
<1>4. GapFree'
  BY <1>3 DEF Inv, GapFree
<1> QED
  BY <1>1, <1>2, <1>4 DEF Inv, TypeOK

LEMMA EnterInv == ASSUME Inv, NEW c \in Conns, Enter(c) PROVE Inv'
<1> USE DEF Enter
<1>1. TypeOK'
  BY DEF Inv, TypeOK
<1>2. \A d \in Conns : from'[d] <= upto'[d] /\ upto'[d] <= Len(log')
  BY DEF Inv, TypeOK
<1>3. \A d \in Conns : status'[d] = "out" => heard'[d] = {}
  BY DEF Inv, TypeOK
<1>4. \A d \in Conns : d # c =>
        Due(d)' = Due(d) /\ status'[d] = status[d] /\ upto'[d] = upto[d]
  BY DEF Inv, TypeOK, Due
<1>5. Due(c)' = {} /\ heard'[c] = {}
  BY DEF Inv, TypeOK, Due
<1>6. GapFree'
  BY <1>4, <1>5 DEF Inv, GapFree
<1> QED
  BY <1>1, <1>2, <1>3, <1>6 DEF Inv

LEMMA AdmitInv == ASSUME Inv, NEW c \in Conns, Admit(c) PROVE Inv'
<1> USE DEF Admit
<1>1. TypeOK'
  BY DEF Inv, TypeOK
<1>2. \A d \in Conns : Due(d)' = Due(d)
  BY DEF Due
<1>3. \A d \in Conns : d # c => status'[d] = status[d]
  BY DEF Inv, TypeOK
<1>4. status[c] # "gone" /\ status'[c] = "in"
  BY DEF Inv, TypeOK
<1>5. GapFree'
  BY <1>2, <1>3, <1>4 DEF Inv, GapFree
<1> QED
  BY <1>1, <1>3, <1>4, <1>5 DEF Inv

LEMMA HearInv == ASSUME Inv, NEW c \in Conns, Hear(c) PROVE Inv'
<1> USE DEF Hear
<1>1. TypeOK'
  BY DEF Inv, TypeOK
<1>2. \A d \in Conns : from'[d] <= upto'[d] /\ upto'[d] <= Len(log')
  BY DEF Inv, TypeOK
<1>3. \A d \in Conns : status'[d] = "out" => heard'[d] = {}
  BY DEF Inv, TypeOK
<1>4. \A d \in Conns : d # c =>
        Due(d)' = Due(d) /\ upto'[d] = upto[d] /\ heard'[d] = heard[d]
  BY DEF Inv, TypeOK, Due
<1>5. Due(c) = heard[c]
  BY DEF Inv, GapFree
<1>6. heard'[c] = IF MeantFor(c, log[upto[c] + 1]) THEN heard[c] \cup {upto[c] + 1}
                                                   ELSE heard[c]
  BY DEF Inv, TypeOK
<1>7. Due(c)' = heard'[c]
  BY <1>5, <1>6, DueGrows
<1>8. GapFree'
  BY <1>4, <1>7 DEF Inv, GapFree
<1> QED
  BY <1>1, <1>2, <1>3, <1>8 DEF Inv

LEMMA LeaveInv == ASSUME Inv, NEW c \in Conns, Leave(c) PROVE Inv'
<1> USE DEF Leave
<1>0. /\ upto' \in [Conns -> Nat]
      /\ \A d \in Conns : from'[d] <= upto'[d] /\ upto'[d] <= Len(log')
  <2>1. CASE upto' = upto
    BY <2>1 DEF Inv, TypeOK
  <2>2. CASE upto' # upto
    <3>1. upto[c] < Len(log) /\ upto' = [upto EXCEPT ![c] = @ + 1]
      BY <2>2
    <3> QED
      BY <3>1 DEF Inv, TypeOK
  <2> QED
    BY <2>1, <2>2
<1>1. TypeOK'
  BY <1>0 DEF Inv, TypeOK
<1>2. \A d \in Conns : from'[d] <= upto'[d] /\ upto'[d] <= Len(log')
  BY <1>0
<1>3. \A d \in Conns : status'[d] = "out" => heard'[d] = {}
  BY DEF Inv, TypeOK
<1>4. \A d \in Conns : d # c =>
        Due(d)' = Due(d) /\ upto'[d] = upto[d] /\ status'[d] = status[d]
  BY DEF Inv, TypeOK, Due
<1>5. Due(c) = heard[c] /\ heard'[c] = heard[c] /\ status'[c] = "gone"
  BY DEF Inv, GapFree, TypeOK
<1>6. UNCHANGED <<log, from>>
  OBVIOUS
<1>7. heard'[c] \subseteq Due(c)' /\ Due(c)' \ heard'[c] \subseteq {upto'[c]}
  <2>1. CASE upto' = upto
    BY <1>5, <2>1 DEF Due
  <2>2. CASE upto' # upto
    <3>1. upto[c] < Len(log) /\ upto' = [upto EXCEPT ![c] = @ + 1]
      BY <2>2
    <3>2. upto'[c] = upto[c] + 1
      BY <3>1 DEF Inv, TypeOK
    <3>3. Due(c)' = Due(c) \/ Due(c)' = Due(c) \cup {upto[c] + 1}
      BY <1>6, <3>1, DueGrows
    <3> QED
      BY <1>5, <3>2, <3>3
  <2> QED
    BY <2>1, <2>2
<1>8. GapFree'
  BY <1>4, <1>5, <1>7 DEF Inv, GapFree
<1> QED
  BY <1>1, <1>2, <1>3, <1>8 DEF Inv

LEMMA CloseInv == ASSUME Inv, Close PROVE Inv'
<1> USE DEF Close
<1>1. TypeOK'
  BY DEF Inv, TypeOK
<1>2. \A d \in Conns : Due(d)' = Due(d)
  BY DEF Due
<1>3. \A d \in Conns : status'[d] = "gone"
  OBVIOUS
<1>4. GapFree'
  BY <1>2, <1>3 DEF Inv, GapFree
<1> QED
  BY <1>1, <1>3, <1>4 DEF Inv

(* In the abstract room nobody ever hears less, or more, than was meant    *)
(* for it since it entered.                                                *)
THEOREM RoomIsGapFree == Spec => []GapFree
<1>1. Inv /\ [Next]_vars => Inv'
  <2> SUFFICES ASSUME Inv, [Next]_vars PROVE Inv'
    OBVIOUS
  <2>1. ASSUME NEW c \in Conns, Enter(c) \/ Admit(c) \/ Hear(c) \/ Leave(c) PROVE Inv'
    BY <2>1, EnterInv, AdmitInv, HearInv, LeaveInv
  <2>2. ASSUME NEW m \in Message, Post(m) PROVE Inv'
    BY <2>2, PostInv
  <2>3. CASE Close
    BY <2>3, CloseInv
  <2>4. CASE UNCHANGED vars
    BY <2>4 DEF vars, Inv, TypeOK, GapFree, Due
  <2> QED
    BY <2>1, <2>2, <2>3, <2>4 DEF Next
<1>2. Inv => GapFree
  BY DEF Inv
<1> QED
  BY InitInv, <1>1, <1>2, PTL DEF Spec
=============================================================================
