--------------------------- MODULE ChatPathProofs ---------------------------
(* The invariants of ChatPath: what the screens show of the keyboards, for *)
(* every set of connections and any number of lines.                       *)
EXTENDS ChatPath, TLAPS

(* A line in the log is one that its client's handler has read.            *)
SaidInv ==
  \A p \in 1 .. Len(log) : said[p] > 0 =>
    /\ log[p].kind = "Broadcast" /\ log[p].address \in Conns
    /\ said[p] <= taken[log[p].address]

(* The lines of a client stand in the log in the order in which they were  *)
(* taken from it, and none of them is missing.                             *)
LogIsFaithful ==
  \A a \in Conns :
    /\ \A p, q \in 1 .. Len(log) :
         LineOf(a, p) /\ LineOf(a, q) /\ p < q => said[p] < said[q]
    /\ \A n \in 1 .. taken[a] : \E p \in 1 .. Len(log) : LineOf(a, p) /\ said[p] = n

(* Nobody is ahead of the log.                                             *)
FollowInv == \A b \in Conns : from[b] <= upto[b] /\ upto[b] <= Len(log)

(* What was written to b: positions that it has reached, in order; and all *)
(* that were meant for it, but for the one at which it may have left.      *)
Wrote(b, p) == \E i \in 1 .. Len(down[b]) : down[b][i] = p

Written(b) ==
  /\ status[b] = "out" => down[b] = <<>>
  /\ \A i \in 1 .. Len(down[b]) : down[b][i] \in (from[b] + 1) .. upto[b]
  /\ \A i, j \in 1 .. Len(down[b]) : i < j => down[b][i] < down[b][j]
  /\ \A p \in (from[b] + 1) .. upto[b] : MeantFor(b, log[p]) =>
       Wrote(b, p) \/ (status[b] = "gone" /\ p = upto[b])

DownInv == \A b \in Conns : Written(b)

PathInv == TypeOK /\ SaidInv /\ LogIsFaithful /\ FollowInv /\ DownInv

-----------------------------------------------------------------------------
(* The room is one of the same messages.                                   *)
LEMMA SameMessages == Room!Message = Message /\ \A c, m : Room!MeantFor(c, m) = MeantFor(c, m)
  BY DEF Room!Message, Message, Room!MeantFor, MeantFor

LEMMA Types ==
  ASSUME TypeOK
  PROVE  /\ log \in Seq(Message) /\ Len(log) \in Nat /\ said \in Seq(Nat) /\ Len(said) = Len(log)
         /\ \A p \in 1 .. Len(log) : log[p] \in Message /\ said[p] \in Nat
         /\ \A c \in Conns :
              /\ from[c] \in Nat /\ upto[c] \in Nat /\ typed[c] \in Nat /\ taken[c] \in Nat
              /\ shown[c] \in Nat /\ down[c] \in Seq(Nat) /\ Len(down[c]) \in Nat
              /\ \A i \in 1 .. Len(down[c]) : down[c][i] \in Nat
<1>1. /\ log \in Seq(Message) /\ said \in Seq(Nat) /\ Len(said) = Len(log)
      /\ from \in [Conns -> Nat] /\ upto \in [Conns -> Nat] /\ typed \in [Conns -> Nat]
      /\ taken \in [Conns -> Nat] /\ shown \in [Conns -> Nat] /\ down \in [Conns -> Seq(Nat)]
  BY SameMessages DEF TypeOK, Room!TypeOK
<1>2. \A c \in Conns : down[c] \in Seq(Nat)
  BY <1>1
<1>3. ASSUME NEW q \in Seq(Nat) PROVE Len(q) \in Nat /\ \A i \in 1 .. Len(q) : q[i] \in Nat
  OBVIOUS
<1>4. Len(log) \in Nat /\ \A p \in 1 .. Len(log) : log[p] \in Message /\ said[p] \in Nat
  BY <1>1
<1> QED
  BY <1>1, <1>2, <1>3, <1>4

LEMMA InitPath == Init => PathInv
<1> SUFFICES ASSUME Init PROVE PathInv
  OBVIOUS
<1> USE DEF Init, Room!Init
<1>1. TypeOK
  <2>1. Room!TypeOK
    BY DEF Room!TypeOK
  <2>2. /\ \A c \in Conns : taken[c] <= typed[c] /\ shown[c] <= Len(down[c])
        /\ typed \in [Conns -> Nat] /\ taken \in [Conns -> Nat] /\ shown \in [Conns -> Nat]
    OBVIOUS
  <2>3. said \in Seq(Nat) /\ Len(said) = Len(log) /\ down \in [Conns -> Seq(Nat)]
    OBVIOUS
  <2> HIDE DEF Init, Room!Init
  <2> QED
    BY <2>1, <2>2, <2>3 DEF TypeOK
<1>2. SaidInv /\ LogIsFaithful /\ FollowInv
  BY DEF SaidInv, LogIsFaithful, FollowInv
<1>3. DownInv
  BY DEF DownInv, Written
<1> QED
  BY <1>1, <1>2, <1>3 DEF PathInv

(* What has been written to b depends only on what b has followed.         *)
LEMMA WrittenStays ==
  ASSUME PathInv, NEW b \in Conns, down'[b] = down[b], from'[b] = from[b],
         upto'[b] = upto[b], status'[b] = status[b],
         \A p \in 1 .. Len(log) : log'[p] = log[p]
  PROVE  Written(b)'
<1>1. from[b] \in Nat /\ upto[b] \in Nat /\ upto[b] <= Len(log) /\ Len(log) \in Nat
  BY Types DEF PathInv, FollowInv
<1>2. \A p \in (from[b] + 1) .. upto[b] : log'[p] = log[p]
  BY <1>1
<1>3. Written(b)
  BY DEF PathInv, DownInv
<1>4. \A p : Wrote(b, p)' = Wrote(b, p)
  BY DEF Wrote
<1> QED
  BY <1>2, <1>3, <1>4 DEF Written, MeantFor

(* The log grows by one message.                                           *)
LEMMA LogGrows ==
  ASSUME PathInv, NEW m \in Message, NEW n \in Nat, log' = Append(log, m), said' = Append(said, n)
  PROVE  /\ log' \in Seq(Message) /\ said' \in Seq(Nat)
         /\ Len(log') = Len(log) + 1 /\ Len(said') = Len(log) + 1
         /\ \A p \in 1 .. Len(log) : log'[p] = log[p] /\ said'[p] = said[p]
         /\ log'[Len(log) + 1] = m /\ said'[Len(log) + 1] = n
  BY Types DEF PathInv

(* Whoever posts, nobody's place in the log and screen change.             *)
LEMMA PostKeepsPlaces ==
  ASSUME PathInv, NEW m \in Message, NEW n \in Nat, Room!Post(m), said' = Append(said, n),
         UNCHANGED <<typed, down, shown>>
  PROVE  FollowInv' /\ DownInv' /\ Room!TypeOK'
<1>1. log' = Append(log, m) /\ UNCHANGED <<status, from, upto, heard>>
  BY DEF Room!Post
<1>2. Room!TypeOK'
  BY <1>1, LogGrows, SameMessages DEF PathInv, TypeOK, Room!TypeOK
<1>3. FollowInv'
  BY <1>1, LogGrows, Types DEF PathInv, FollowInv
<1>4. DownInv'
  <2>1. \A p \in 1 .. Len(log) : log'[p] = log[p]
    BY <1>1, LogGrows
  <2> QED
    BY <1>1, <2>1, WrittenStays DEF DownInv
<1> QED
  BY <1>2, <1>3, <1>4

LEMMA PostLineStep == ASSUME PathInv, NEW c \in Conns, PostLine(c) PROVE PathInv'
<1> DEFINE m == Broadcast(c, TRUE)
           n == taken[c] + 1
<1>1. /\ taken[c] < typed[c] /\ Room!Post(m) /\ taken' = [taken EXCEPT ![c] = n]
      /\ said' = Append(said, n) /\ UNCHANGED <<typed, down, shown>>
  BY DEF PostLine, NextLine
<1>2. m \in Message /\ m.kind = "Broadcast" /\ m.address = c
  BY DEF Broadcast, Message
<1>3. n \in Nat /\ taken \in [Conns -> Nat] /\ taken'[c] = n /\ n <= typed[c]
      /\ \A a \in Conns : a # c => taken'[a] = taken[a]
  BY <1>1, Types DEF PathInv, TypeOK
<1> HIDE DEF m
<1>4. FollowInv' /\ DownInv' /\ Room!TypeOK'
  BY <1>1, <1>2, <1>3, PostKeepsPlaces
<1>5. log' = Append(log, m)
  BY <1>1 DEF Room!Post
<1>6. /\ said' \in Seq(Nat) /\ Len(log') = Len(log) + 1 /\ Len(said') = Len(log) + 1
      /\ \A p \in 1 .. Len(log) : log'[p] = log[p] /\ said'[p] = said[p]
      /\ log'[Len(log) + 1] = m /\ said'[Len(log) + 1] = n
  BY <1>1, <1>2, <1>3, <1>5, LogGrows
<1>7. TypeOK'
  <2>1. taken' \in [Conns -> Nat] /\ \A a \in Conns : taken'[a] <= typed'[a]
    BY <1>1, <1>3 DEF PathInv, TypeOK
  <2> QED
    BY <1>1, <1>4, <1>6, <2>1 DEF PathInv, TypeOK
<1>8. \A p \in 1 .. Len(log') : p \in 1 .. Len(log) \/ p = Len(log) + 1
  BY <1>6, Types DEF PathInv
<1> HIDE DEF n
<1>9. SaidInv'
  <2>1. ASSUME NEW p \in 1 .. Len(log), said'[p] > 0
        PROVE  /\ log'[p].kind = "Broadcast" /\ log'[p].address \in Conns
               /\ said'[p] <= taken'[log'[p].address]
    <3>1. /\ log[p].kind = "Broadcast" /\ log[p].address \in Conns
          /\ said[p] <= taken[log[p].address]
      BY <1>6, <2>1 DEF PathInv, SaidInv
    <3>2. \A a \in Conns : taken[a] <= taken'[a] /\ taken[a] \in Nat /\ taken'[a] \in Nat
      BY <1>3, Types DEF PathInv, n
    <3>3. said[p] \in Nat
      BY Types DEF PathInv
    <3> QED
      BY <1>6, <3>1, <3>2, <3>3
  <2>2. /\ log'[Len(log) + 1].kind = "Broadcast" /\ log'[Len(log) + 1].address \in Conns
        /\ said'[Len(log) + 1] <= taken'[log'[Len(log) + 1].address]
    BY <1>2, <1>3, <1>6
  <2> QED
    BY <1>8, <2>1, <2>2 DEF SaidInv
<1>10. LogIsFaithful'
  <2>1. ASSUME NEW a \in Conns, NEW p \in 1 .. Len(log'), NEW q \in 1 .. Len(log'),
               LineOf(a, p)', LineOf(a, q)', p < q
        PROVE  said'[p] < said'[q]
    <3>1. p \in 1 .. Len(log) /\ said'[p] = said[p] /\ LineOf(a, p)
      BY <1>6, <1>8, <2>1, Types DEF PathInv, LineOf
    <3>2. CASE q \in 1 .. Len(log)
      BY <1>6, <2>1, <3>1, <3>2 DEF PathInv, LogIsFaithful, LineOf
    <3>3. CASE q = Len(log) + 1
      <4>1. a = c
        BY <1>2, <1>6, <2>1, <3>3 DEF LineOf
      <4>2. said[p] <= taken[c] /\ said[p] \in Nat
        BY <3>1, <4>1, Types DEF PathInv, SaidInv, LineOf
      <4> QED
        BY <1>6, <3>1, <3>3, <4>2, Types DEF PathInv, n
    <3> QED
      BY <1>8, <3>2, <3>3
  <2>2. ASSUME NEW a \in Conns, NEW k \in 1 .. taken'[a]
        PROVE  \E p \in 1 .. Len(log') : LineOf(a, p)' /\ said'[p] = k
    <3>1. CASE k \in 1 .. taken[a]
      <4>1. PICK p \in 1 .. Len(log) : LineOf(a, p) /\ said[p] = k
        BY <3>1 DEF PathInv, LogIsFaithful
      <4>2. p \in 1 .. Len(log') /\ LineOf(a, p)' /\ said'[p] = k
        BY <1>6, <4>1, Types DEF PathInv, LineOf
      <4> QED
        BY <4>2
    <3>2. CASE a = c /\ k = n
      <4>1. PICK p \in 1 .. Len(log') : p = Len(log) + 1
        BY <1>6, Types DEF PathInv
      <4>2. LineOf(a, p)' /\ said'[p] = k
        BY <1>2, <1>6, <3>2, <4>1, Types DEF PathInv, LineOf, n
      <4> QED
        BY <4>2
    <3> QED
      BY <1>3, <2>2, <3>1, <3>2, Types DEF PathInv, n
  <2> QED
    BY <2>1, <2>2 DEF LogIsFaithful
<1> QED
  BY <1>4, <1>7, <1>9, <1>10 DEF PathInv

LEMMA PostOtherStep == ASSUME PathInv, NEW m \in Message, PostOther(m) PROVE PathInv'
<1>1. Room!Post(m) /\ said' = Append(said, 0) /\ UNCHANGED <<typed, taken, down, shown>>
  BY DEF PostOther
<1>2. FollowInv' /\ DownInv' /\ Room!TypeOK'
  BY <1>1, PostKeepsPlaces
<1>3. log' = Append(log, m)
  BY <1>1 DEF Room!Post
<1>4. /\ said' \in Seq(Nat) /\ Len(log') = Len(log) + 1 /\ Len(said') = Len(log) + 1
      /\ \A p \in 1 .. Len(log) : log'[p] = log[p] /\ said'[p] = said[p]
      /\ said'[Len(log) + 1] = 0
  BY <1>1, <1>3, LogGrows
<1>5. TypeOK'
  BY <1>1, <1>2, <1>4 DEF PathInv, TypeOK
<1>6. \A p \in 1 .. Len(log') : p \in 1 .. Len(log) \/ (p = Len(log) + 1 /\ said'[p] = 0)
  BY <1>4, Types DEF PathInv
<1>7. SaidInv'
  BY <1>1, <1>4, <1>6 DEF PathInv, SaidInv
<1>8. LogIsFaithful'
  <2>1. \A a \in Conns : \A p \in 1 .. Len(log') :
          LineOf(a, p)' => p \in 1 .. Len(log) /\ LineOf(a, p) /\ said'[p] = said[p]
    BY <1>4, <1>6 DEF LineOf
  <2>2. \A a \in Conns : \A p \in 1 .. Len(log) :
          LineOf(a, p) => p \in 1 .. Len(log') /\ LineOf(a, p)' /\ said'[p] = said[p]
    BY <1>4, Types DEF PathInv, LineOf
  <2>3. ASSUME NEW a \in Conns, NEW p \in 1 .. Len(log'), NEW q \in 1 .. Len(log'),
               LineOf(a, p)', LineOf(a, q)', p < q
        PROVE  said'[p] < said'[q]
    BY <2>1, <2>3 DEF PathInv, LogIsFaithful
  <2>4. ASSUME NEW a \in Conns, NEW k \in 1 .. taken'[a]
        PROVE  \E p \in 1 .. Len(log') : LineOf(a, p)' /\ said'[p] = k
    <3>1. k \in 1 .. taken[a]
      BY <1>1, <2>4
    <3>2. PICK p \in 1 .. Len(log) : LineOf(a, p) /\ said[p] = k
      BY <3>1 DEF PathInv, LogIsFaithful
    <3> QED
      BY <2>2, <3>2
  <2> QED
    BY <2>3, <2>4 DEF LogIsFaithful
<1> QED
  BY <1>2, <1>5, <1>7, <1>8 DEF PathInv

(* While the log does not change, nothing is said that was not.            *)
LEMMA SaidStays ==
  ASSUME PathInv, UNCHANGED <<log, said, taken>>
  PROVE  SaidInv' /\ LogIsFaithful'
  BY DEF PathInv, SaidInv, LogIsFaithful, LineOf

LEMMA TypeOrShowStep ==
  ASSUME PathInv, NEW c \in Conns, Type(c) \/ Show(c)
  PROVE  PathInv'
<1>1. UNCHANGED <<taken, log, status, from, upto, heard, said, down>>
  BY DEF Type, Show, roomVars
<1>2. SaidInv' /\ LogIsFaithful'
  BY <1>1, SaidStays
<1>3. FollowInv' /\ DownInv'
  BY <1>1, WrittenStays DEF PathInv, FollowInv, DownInv
<1>4. Room!TypeOK' /\ said' \in Seq(Nat) /\ Len(said') = Len(log') /\ down' \in [Conns -> Seq(Nat)]
      /\ taken' \in [Conns -> Nat]
  BY <1>1 DEF PathInv, TypeOK, Room!TypeOK
<1>5. /\ typed' \in [Conns -> Nat] /\ shown' \in [Conns -> Nat]
      /\ \A d \in Conns : taken'[d] <= typed'[d] /\ shown'[d] <= Len(down'[d])
  <2>1. CASE Type(c)
    <3>1. typed' = [typed EXCEPT ![c] = @ + 1] /\ UNCHANGED shown
      BY <2>1 DEF Type
    <3> QED
      BY <1>1, <3>1, Types DEF PathInv, TypeOK
  <2>2. CASE Show(c)
    <3>1. shown[c] < Len(down[c]) /\ shown' = [shown EXCEPT ![c] = @ + 1] /\ UNCHANGED typed
      BY <2>2 DEF Show
    <3>2. shown \in [Conns -> Nat] /\ typed \in [Conns -> Nat]
          /\ \A d \in Conns : taken[d] <= typed[d] /\ shown[d] <= Len(down[d])
      BY DEF PathInv, TypeOK
    <3>3. shown[c] \in Nat /\ Len(down[c]) \in Nat
      BY Types DEF PathInv
    <3> QED
      BY <1>1, <3>1, <3>2, <3>3
  <2> QED
    BY <2>1, <2>2
<1>6. TypeOK'
  BY <1>4, <1>5 DEF TypeOK
<1> QED
  BY <1>2, <1>3, <1>6 DEF PathInv

(* A handler that writes what it hears.                                    *)
LEMMA HearStep ==
  ASSUME PathInv, NEW c \in Conns, Hear(c)
  PROVE  PathInv'
<1> DEFINE top == upto[c] + 1
           new == IF MeantFor(c, log[top]) THEN <<top>> ELSE <<>>
<1>1. /\ status[c] = "in" /\ upto[c] < Len(log) /\ upto' = [upto EXCEPT ![c] = top]
      /\ UNCHANGED <<log, status, from, typed, taken, said, shown>>
      /\ down' = [down EXCEPT ![c] = @ \o new]
  BY DEF Hear, Room!Hear, Packets
<1>2. SaidInv' /\ LogIsFaithful'
  BY <1>1, SaidStays
<1>3. /\ top \in Nat /\ top <= Len(log) /\ upto[c] \in Nat /\ from[c] \in Nat /\ Len(log) \in Nat
      /\ down[c] \in Seq(Nat) /\ Len(down[c]) \in Nat /\ from[c] <= upto[c]
  BY <1>1, Types DEF PathInv, FollowInv
<1>4. new \in Seq(Nat) /\ upto' \in [Conns -> Nat] /\ upto'[c] = top
      /\ \A d \in Conns : d # c => upto'[d] = upto[d]
  BY <1>1, <1>3 DEF PathInv, TypeOK, Room!TypeOK
<1>5. /\ down' \in [Conns -> Seq(Nat)] /\ down'[c] = down[c] \o new
      /\ \A d \in Conns : d # c => down'[d] = down[d]
  BY <1>1, <1>3, <1>4 DEF PathInv, TypeOK
<1>6. \/ /\ MeantFor(c, log[top]) /\ Len(down'[c]) = Len(down[c]) + 1
         /\ down'[c][Len(down[c]) + 1] = top
         /\ \A i \in 1 .. Len(down[c]) : down'[c][i] = down[c][i]
      \/ ~MeantFor(c, log[top]) /\ down'[c] = down[c]
  <2> HIDE DEF top
  <2>1. CASE MeantFor(c, log[top])
    <3>1. down'[c] = down[c] \o <<top>>
      BY <1>5, <2>1
    <3> QED
      BY <1>3, <2>1, <3>1
  <2>2. CASE ~MeantFor(c, log[top])
    <3>1. down'[c] = down[c] \o <<>>
      BY <1>5, <2>2
    <3> QED
      BY <1>3, <2>2, <3>1
  <2> QED
    BY <2>1, <2>2
<1>7. Room!TypeOK'
  <2>1. heard' \in [Conns -> SUBSET Nat]
    BY <1>3 DEF Hear, Room!Hear, PathInv, TypeOK, Room!TypeOK
  <2> QED
    BY <1>1, <1>4, <2>1 DEF PathInv, TypeOK, Room!TypeOK
<1> HIDE DEF new, top
<1>8. TypeOK'
  <2>1. \A d \in Conns : Len(down'[d]) >= Len(down[d])
    <3>1. \A d \in Conns : Len(down[d]) \in Nat
      BY Types DEF PathInv
    <3>2. Len(down'[c]) >= Len(down[c])
      BY <1>6, <3>1
    <3> QED
      BY <1>5, <3>1, <3>2
  <2>2. \A d \in Conns : shown'[d] <= Len(down'[d])
    <3>1. \A d \in Conns : Len(down[d]) \in Nat /\ shown[d] \in Nat /\ shown[d] <= Len(down[d])
      BY Types DEF PathInv, TypeOK
    <3>2. \A d \in Conns : Len(down'[d]) \in Nat
      BY <1>3, <1>5, <1>6, <3>1
    <3> QED
      BY <1>1, <2>1, <3>1, <3>2
  <2> QED
    BY <1>1, <1>5, <1>7, <2>2 DEF PathInv, TypeOK
<1>9. FollowInv'
  BY <1>1, <1>3, <1>4, Types DEF PathInv, FollowInv, top
<1>10. Written(c)'
  <2>1. status'[c] = "in" /\ from'[c] = from[c] /\ upto'[c] = top /\ log' = log
    BY <1>1, <1>4
  <2>2. /\ \A i \in 1 .. Len(down[c]) : down[c][i] \in (from[c] + 1) .. upto[c]
        /\ \A i, j \in 1 .. Len(down[c]) : i < j => down[c][i] < down[c][j]
        /\ \A p \in (from[c] + 1) .. upto[c] : MeantFor(c, log[p]) => Wrote(c, p)
    BY <1>1 DEF PathInv, DownInv, Written
  <2>3. \A p : Wrote(c, p) => Wrote(c, p)'
    BY <1>3, <1>6 DEF Wrote
  <2>4. ASSUME NEW p \in (from[c] + 1) .. top, MeantFor(c, log[p])
        PROVE  Wrote(c, p)'
    <3>1. CASE p \in (from[c] + 1) .. upto[c]
      BY <2>2, <2>3, <2>4, <3>1
    <3>2. CASE p = top
      <4>1. Len(down'[c]) = Len(down[c]) + 1 /\ down'[c][Len(down[c]) + 1] = top
        BY <1>6, <2>4, <3>2
      <4>2. Len(down[c]) + 1 \in 1 .. Len(down'[c])
        BY <1>3, <4>1
      <4> QED
        BY <3>2, <4>1, <4>2 DEF Wrote
    <3> QED
      BY <1>3, <2>4, <3>1, <3>2 DEF top
  <2>5. ASSUME NEW i \in 1 .. Len(down'[c])
        PROVE  down'[c][i] \in (from[c] + 1) .. top
    <3>1. Len(down[c]) \in Nat /\ top = upto[c] + 1 /\ from[c] <= upto[c]
      BY <1>3, <2>2 DEF top
    <3>2. CASE i \in 1 .. Len(down[c])
      <4>1. down[c][i] \in (from[c] + 1) .. upto[c]
        BY <2>2, <3>2
      <4>2. down'[c][i] = down[c][i]
        BY <1>6, <3>2
      <4> QED
        BY <1>3, <3>1, <4>1, <4>2
    <3>3. CASE i \notin 1 .. Len(down[c])
      <4>1. down'[c][i] = top
        BY <1>6, <3>1, <3>3
      <4> QED
        BY <1>3, <3>1, <4>1
    <3> QED
      BY <3>2, <3>3
  <2>6. \A i, j \in 1 .. Len(down'[c]) : i < j => down'[c][i] < down'[c][j]
    <3>1. \A i \in 1 .. Len(down[c]) : down[c][i] < top
      BY <1>3, <2>2 DEF top
    <3>2. CASE down'[c] = down[c]
      BY <2>2, <3>2
    <3>3. CASE /\ Len(down'[c]) = Len(down[c]) + 1 /\ down'[c][Len(down[c]) + 1] = top
               /\ \A i \in 1 .. Len(down[c]) : down'[c][i] = down[c][i]
      <4> SUFFICES ASSUME NEW i \in 1 .. Len(down'[c]), NEW j \in 1 .. Len(down'[c]), i < j
                   PROVE  down'[c][i] < down'[c][j]
        OBVIOUS
      <4>1. i \in 1 .. Len(down[c]) /\ (j \in 1 .. Len(down[c]) \/ j = Len(down[c]) + 1)
        BY <1>3, <3>3
      <4> QED
        BY <2>2, <3>1, <3>3, <4>1
    <3> QED
      BY <1>6, <3>2, <3>3
  <2>7. \A p : MeantFor(c, log'[p]) = MeantFor(c, log[p])
    BY <2>1
  <2>8. \A p \in (from'[c] + 1) .. upto'[c] : MeantFor(c, log'[p]) => Wrote(c, p)'
    BY <2>1, <2>4, <2>7
  <2>9. \A i \in 1 .. Len(down'[c]) : down'[c][i] \in (from'[c] + 1) .. upto'[c]
    BY <2>1, <2>5
  <2> QED
    BY <2>1, <2>6, <2>8, <2>9, Zenon DEF Written, MeantFor
<1>11. DownInv'
  <2>1. \A d \in Conns : d # c => Written(d)'
    BY <1>1, <1>4, <1>5, WrittenStays
  <2> QED
    BY <1>10, <2>1 DEF DownInv
<1> QED
  BY <1>2, <1>8, <1>9, <1>11 DEF PathInv

(* Somebody comes, or goes; one that goes may miss the message it is at.   *)
LEMMA MoveStep ==
  ASSUME PathInv, NEW c \in Conns, Move(c)
  PROVE  PathInv'
<1>1. UNCHANGED <<typed, taken, log, said, down, shown, heard>>
  BY DEF Move, Room!Enter, Room!Admit, Room!Leave
<1>2. SaidInv' /\ LogIsFaithful'
  BY <1>1, SaidStays
<1>3. \A d \in Conns : /\ from[d] \in Nat /\ upto[d] \in Nat /\ from[d] <= upto[d]
                       /\ upto[d] <= Len(log) /\ Len(log) \in Nat
  BY Types DEF PathInv, FollowInv
<1>4. Room!TypeOK /\ Written(c)
  BY DEF PathInv, TypeOK, DownInv
<1>5. /\ status' \in [Conns -> {"out", "entering", "in", "gone"}]
      /\ from' \in [Conns -> Nat] /\ upto' \in [Conns -> Nat]
      /\ \A d \in Conns : d # c => status'[d] = status[d] /\ from'[d] = from[d] /\ upto'[d] = upto[d]
      /\ from'[c] <= upto'[c] /\ upto'[c] <= Len(log)
      /\ Written(c)'
  <2>1. CASE Room!Enter(c)
    <3>1. /\ status[c] = "out" /\ status' = [status EXCEPT ![c] = "entering"]
          /\ from' = [from EXCEPT ![c] = Len(log)] /\ upto' = [upto EXCEPT ![c] = Len(log)]
      BY <2>1 DEF Room!Enter
    <3>2. /\ status' \in [Conns -> {"out", "entering", "in", "gone"}]
          /\ from' \in [Conns -> Nat] /\ upto' \in [Conns -> Nat]
          /\ \A d \in Conns : d # c => status'[d] = status[d] /\ from'[d] = from[d] /\ upto'[d] = upto[d]
          /\ from'[c] = Len(log) /\ upto'[c] = Len(log) /\ status'[c] = "entering"
      BY <1>3, <1>4, <3>1 DEF Room!TypeOK
    <3>3. down'[c] = <<>>
      BY <1>1, <1>4, <3>1 DEF Written
    <3>4. Written(c)'
      BY <1>3, <3>2, <3>3 DEF Written
    <3> QED
      BY <1>3, <3>2, <3>4
  <2>2. CASE Room!Admit(c)
    <3>1. /\ status[c] = "entering" /\ status' = [status EXCEPT ![c] = "in"]
          /\ UNCHANGED <<from, upto>>
      BY <2>2 DEF Room!Admit
    <3>2. /\ status' \in [Conns -> {"out", "entering", "in", "gone"}] /\ status'[c] = "in"
          /\ \A d \in Conns : d # c => status'[d] = status[d]
      BY <1>4, <3>1 DEF Room!TypeOK
    <3>3. Written(c)'
      BY <1>1, <1>4, <3>1, <3>2 DEF Written, Wrote, MeantFor
    <3> QED
      BY <1>3, <1>4, <3>1, <3>2, <3>3 DEF Room!TypeOK
  <2>3. CASE Room!Leave(c)
    <3>1. /\ status[c] # "gone" /\ status' = [status EXCEPT ![c] = "gone"] /\ UNCHANGED from
          /\ \/ upto' = upto
             \/ upto[c] < Len(log) /\ upto' = [upto EXCEPT ![c] = @ + 1]
      BY <2>3 DEF Room!Leave
    <3>2. /\ status' \in [Conns -> {"out", "entering", "in", "gone"}] /\ status'[c] = "gone"
          /\ \A d \in Conns : d # c => status'[d] = status[d]
      BY <1>4, <3>1 DEF Room!TypeOK
    <3>3. /\ upto' \in [Conns -> Nat] /\ upto'[c] <= Len(log)
          /\ upto'[c] = upto[c] \/ upto'[c] = upto[c] + 1
          /\ \A d \in Conns : d # c => upto'[d] = upto[d]
      <4>1. CASE upto' = upto
        BY <1>3, <1>4, <4>1 DEF Room!TypeOK
      <4>2. CASE upto[c] < Len(log) /\ upto' = [upto EXCEPT ![c] = @ + 1]
        BY <1>3, <1>4, <4>2 DEF Room!TypeOK
      <4> QED
        BY <3>1, <4>1, <4>2
    <3>4. Written(c)'
      <4>1. from'[c] = from[c] /\ down'[c] = down[c] /\ log' = log
        BY <1>1, <3>1
      <4>2. \A p : Wrote(c, p)' = Wrote(c, p)
        BY <1>1 DEF Wrote
      <4>3. \A i \in 1 .. Len(down[c]) : down[c][i] \in (from[c] + 1) .. upto'[c]
        BY <1>3, <1>4, <3>3 DEF Written
      <4>4. \A p \in (from[c] + 1) .. upto'[c] :
              MeantFor(c, log[p]) => Wrote(c, p) \/ p = upto'[c]
        BY <1>3, <1>4, <3>1, <3>3 DEF Written
      <4> QED
        BY <1>4, <3>2, <4>1, <4>2, <4>3, <4>4 DEF Written, MeantFor
    <3> QED
      BY <1>3, <1>4, <3>1, <3>2, <3>3, <3>4 DEF Room!TypeOK
  <2> QED
    BY <2>1, <2>2, <2>3 DEF Move
<1>6. TypeOK' /\ FollowInv'
  BY <1>1, <1>3, <1>5 DEF PathInv, TypeOK, Room!TypeOK, FollowInv
<1>7. DownInv'
  <2>1. \A d \in Conns : d # c => Written(d)'
    BY <1>1, <1>5, WrittenStays
  <2> QED
    BY <1>5, <2>1 DEF DownInv
<1> QED
  BY <1>2, <1>6, <1>7 DEF PathInv

LEMMA CloseStep == ASSUME PathInv, Close PROVE PathInv'
<1>1. /\ UNCHANGED <<typed, taken, log, said, down, shown, heard, from, upto>>
      /\ status' = [d \in Conns |-> "gone"]
  BY DEF Close, Room!Close
<1>2. SaidInv' /\ LogIsFaithful'
  BY <1>1, SaidStays
<1>3. TypeOK' /\ FollowInv'
  BY <1>1 DEF PathInv, TypeOK, Room!TypeOK, FollowInv
<1>4. DownInv'
  <2>1. ASSUME NEW b \in Conns PROVE Written(b)'
    <3>1. Written(b)
      BY DEF PathInv, DownInv
    <3>2. status'[b] = "gone"
      BY <1>1
    <3>3. \A p : Wrote(b, p)' = Wrote(b, p)
      BY <1>1 DEF Wrote
    <3> QED
      BY <1>1, <3>1, <3>2, <3>3 DEF Written, MeantFor
  <2> QED
    BY <2>1 DEF DownInv
<1> QED
  BY <1>2, <1>3, <1>4 DEF PathInv

LEMMA PathStep == PathInv /\ [Next]_vars => PathInv'
<1> SUFFICES ASSUME PathInv, [Next]_vars PROVE PathInv'
  OBVIOUS
<1>1. CASE UNCHANGED vars
  <2>1. UNCHANGED <<typed, taken, log, status, from, upto, heard, said, down, shown>>
    BY <1>1 DEF vars, roomVars
  <2>2. SaidInv' /\ LogIsFaithful'
    BY <2>1, SaidStays
  <2>3. FollowInv' /\ DownInv'
    BY <2>1, WrittenStays DEF PathInv, FollowInv, DownInv
  <2>4. TypeOK'
    BY <2>1 DEF PathInv, TypeOK, Room!TypeOK
  <2> QED
    BY <2>2, <2>3, <2>4 DEF PathInv
<1>2. ASSUME NEW c \in Conns, Type(c) \/ PostLine(c) \/ Hear(c) \/ Show(c) \/ Move(c)
      PROVE  PathInv'
  BY <1>2, TypeOrShowStep, PostLineStep, HearStep, MoveStep
<1>3. ASSUME NEW m \in Message, PostOther(m) PROVE PathInv'
  BY <1>3, PostOtherStep
<1> QED
  BY <1>1, <1>2, <1>3, CloseStep DEF Next

LEMMA PathInvariant == Spec => []PathInv
  BY InitPath, PathStep, PTL DEF Spec

-----------------------------------------------------------------------------
(* The state has its types.                                                *)
THEOREM PathTyped == Spec => []TypeOK
<1>1. PathInv => TypeOK
  BY DEF PathInv
<1> QED
  BY <1>1, PathInvariant, PTL

(* What b displays of a's lines comes in the order in which a typed it,    *)
(* nothing twice; and an earlier line of a that b has not displayed is one *)
(* that was posted before b connected.                                     *)
THEOREM DisplayedAsTyped == Spec => []EndToEnd
<1>1. PathInv => EndToEnd
  <2> SUFFICES ASSUME PathInv, NEW a \in Conns, NEW b \in Conns, NEW i \in 1 .. shown[b],
                      a # b, LineOf(a, down[b][i])
               PROVE  /\ \A j \in 1 .. (i - 1) :
                           LineOf(a, down[b][j]) => said[down[b][j]] < said[down[b][i]]
                      /\ \A n \in 1 .. (said[down[b][i]] - 1) : \E p \in 1 .. (down[b][i] - 1) :
                           /\ LineOf(a, p) /\ said[p] = n
                           /\ p <= from[b] \/ \E j \in 1 .. (i - 1) : down[b][j] = p
    BY DEF EndToEnd
  <2> DEFINE q == down[b][i]
  <2>1. /\ shown[b] \in Nat /\ shown[b] <= Len(down[b]) /\ Len(down[b]) \in Nat
        /\ from[b] \in Nat /\ upto[b] \in Nat /\ upto[b] <= Len(log) /\ Len(log) \in Nat
    BY Types DEF PathInv, TypeOK, FollowInv
  <2>2. /\ \A j \in 1 .. Len(down[b]) : down[b][j] \in (from[b] + 1) .. upto[b]
        /\ \A j, k \in 1 .. Len(down[b]) : j < k => down[b][j] < down[b][k]
        /\ \A p \in (from[b] + 1) .. upto[b] : MeantFor(b, log[p]) =>
             Wrote(b, p) \/ (status[b] = "gone" /\ p = upto[b])
    BY DEF PathInv, DownInv, Written
  <2>3. i \in 1 .. Len(down[b]) /\ q \in (from[b] + 1) .. upto[b] /\ q \in 1 .. Len(log)
    BY <2>1, <2>2
  <2>4. /\ \A p, r \in 1 .. Len(log) :
             LineOf(a, p) /\ LineOf(a, r) /\ p < r => said[p] < said[r]
        /\ \A n \in 1 .. taken[a] : \E p \in 1 .. Len(log) : LineOf(a, p) /\ said[p] = n
    BY DEF PathInv, LogIsFaithful
  <2>5. ASSUME NEW j \in 1 .. (i - 1), LineOf(a, down[b][j])
        PROVE  said[down[b][j]] < said[q]
    <3>1. j \in 1 .. Len(down[b]) /\ j < i
      BY <2>1, <2>3
    <3>2. down[b][j] < q /\ down[b][j] \in 1 .. Len(log)
      BY <2>1, <2>2, <2>3, <3>1
    <3> QED
      BY <2>3, <2>4, <2>5, <3>2
  <2>6. ASSUME NEW n \in 1 .. (said[q] - 1)
        PROVE  \E p \in 1 .. (q - 1) :
                 /\ LineOf(a, p) /\ said[p] = n
                 /\ p <= from[b] \/ \E j \in 1 .. (i - 1) : down[b][j] = p
    <3>1. said[q] \in Nat /\ said[q] <= taken[a] /\ taken[a] \in Nat
      BY <2>3, Types DEF PathInv, SaidInv, LineOf
    <3>0. n \in 1 .. taken[a] /\ n \in Nat /\ n < said[q]
      BY <3>1
    <3>2. PICK p \in 1 .. Len(log) : LineOf(a, p) /\ said[p] = n
      BY <2>4, <3>0
    <3>3. p < q
      <4>1. ~(q < p) /\ q # p
        BY <2>3, <2>4, <3>0, <3>1, <3>2
      <4> QED
        BY <2>1, <2>3, <4>1
    <3>4. ASSUME p > from[b] PROVE \E j \in 1 .. (i - 1) : down[b][j] = p
      <4>1. p \in (from[b] + 1) .. upto[b] /\ p # upto[b]
        BY <2>1, <2>3, <3>3, <3>4
      <4>2. MeantFor(b, log[p])
        BY <3>1, <3>2 DEF PathInv, SaidInv, LineOf, MeantFor
      <4>3. PICK j \in 1 .. Len(down[b]) : down[b][j] = p
        BY <2>2, <4>1, <4>2 DEF Wrote
      <4>4. j < i
        <5>1. ~(i < j) /\ i # j
          BY <2>2, <2>3, <3>3, <4>1, <4>3, <2>1
        <5> QED
          BY <2>3, <4>3, <5>1
      <4>5. j \in 1 .. (i - 1)
        BY <2>1, <2>3, <4>4
      <4> QED
        BY <4>3, <4>5
    <3>5. p <= from[b] \/ \E j \in 1 .. (i - 1) : down[b][j] = p
      BY <2>1, <3>4
    <3>6. p \in 1 .. (q - 1)
      BY <2>1, <2>3, <3>3
    <3> QED
      BY <3>2, <3>5, <3>6
  <2> QED
    BY <2>5, <2>6
<1> QED
  BY <1>1, PathInvariant, PTL
=============================================================================
