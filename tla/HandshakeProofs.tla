-------------------------- MODULE HandshakeProofs --------------------------
(* Type correctness of the handshake, the agreement of its two sides, and  *)
(* the order of what they say, for every range of sequence numbers and     *)
(* whatever users and timers do.                                           *)
EXTENDS Handshake, Integers, TLAPS

-----------------------------------------------------------------------------
(* What reads and closed connections leave under way.                      *)

Mail == [Side -> Seq(Packet)]

\* Every packet of `some` is one of `all`, or what is left of one.
Within(some, all) ==
  /\ some \in Mail
  /\ \A t \in Side : \A i \in 1 .. Len(some[t]) : \E j \in 1 .. Len(all[t]) :
       some[t][i].form = all[t][j].form /\ some[t][i].body = all[t][j].body

LEMMA WithinItself == ASSUME NEW all \in Mail PROVE Within(all, all)
  <1>1. ASSUME NEW t \in Side, NEW i \in 1 .. Len(all[t])
        PROVE  \E j \in 1 .. Len(all[t]) :
                 all[t][i].form = all[t][j].form /\ all[t][i].body = all[t][j].body
    OBVIOUS
  <1> QED BY <1>1 DEF Within

LEMMA WithinWithin ==
  ASSUME NEW few, NEW some, NEW all, Within(few, some), Within(some, all)
  PROVE  Within(few, all)
  <1>1. ASSUME NEW t \in Side, NEW i \in 1 .. Len(few[t])
        PROVE  \E j \in 1 .. Len(all[t]) :
                 few[t][i].form = all[t][j].form /\ few[t][i].body = all[t][j].body
    <2>1. PICK k \in 1 .. Len(some[t]) :
            few[t][i].form = some[t][k].form /\ few[t][i].body = some[t][k].body
      BY DEF Within
    <2>2. PICK j \in 1 .. Len(all[t]) :
            some[t][k].form = all[t][j].form /\ some[t][k].body = all[t][j].body
      BY DEF Within
    <2> QED BY <2>1, <2>2
  <1> QED BY <1>1 DEF Within

(* A packet that was torn is still one.                                    *)
LEMMA TornPacket ==
  ASSUME NEW packet \in Packet
  PROVE  /\ Torn(packet) \in Packet
         /\ Torn(packet).form = packet.form /\ Torn(packet).body = packet.body
  BY DEF Torn, Packet

(* A read takes the first packet, and perhaps the start of the second.     *)
LEMMA AfterWithin ==
  ASSUME NEW s \in Side, net \in Mail, net[s] # <<>>, NEW rest \in After(s)
  PROVE  Within(rest, net)
  <1> DEFINE queue == net[s]
  <1>1. queue \in Seq(Packet) /\ Len(queue) >= 1
    BY DEF Mail
  <1>2. ASSUME NEW left \in Seq(Packet),
               \A i \in 1 .. Len(left) : \E j \in 1 .. Len(queue) :
                 left[i].form = queue[j].form /\ left[i].body = queue[j].body
        PROVE  Within([net EXCEPT ![s] = left], net)
    <2> DEFINE some == [net EXCEPT ![s] = left]
    <2>1. some \in Mail
      BY DEF Mail
    <2>2. ASSUME NEW t \in Side, NEW i \in 1 .. Len(some[t])
          PROVE  \E j \in 1 .. Len(net[t]) :
                   some[t][i].form = net[t][j].form /\ some[t][i].body = net[t][j].body
      <3>1. CASE t = s
        BY <1>2, <3>1 DEF Mail
      <3>2. CASE t # s
        <4>1. some[t] = net[t]
          BY <3>2 DEF Mail
        <4> QED BY <4>1
      <3> QED BY <3>1, <3>2
    <2> QED BY <2>1, <2>2 DEF Within
  <1>3. CASE rest = [net EXCEPT ![s] = Tail(queue)]
    <2>1. Tail(queue) \in Seq(Packet)
      BY <1>1
    <2>2. \A i \in 1 .. Len(Tail(queue)) :
            i + 1 \in 1 .. Len(queue) /\ Tail(queue)[i] = queue[i + 1]
      BY <1>1
    <2> HIDE DEF queue
    <2>3. \A i \in 1 .. Len(Tail(queue)) : \E j \in 1 .. Len(queue) :
            Tail(queue)[i].form = queue[j].form /\ Tail(queue)[i].body = queue[j].body
      BY <2>2
    <2> QED BY <1>2, <1>3, <2>1, <2>3
  <1>4. CASE /\ Len(queue) # 1
             /\ rest = [net EXCEPT ![s] = <<Torn(queue[2])>> \o SubSeq(queue, 3, Len(queue))]
    <2> DEFINE left == <<Torn(queue[2])>> \o SubSeq(queue, 3, Len(queue))
    <2>1. Len(queue) >= 2 /\ queue[2] \in Packet
      BY <1>1, <1>4
    <2>2. Torn(queue[2]) \in Packet
          /\ Torn(queue[2]).form = queue[2].form /\ Torn(queue[2]).body = queue[2].body
      BY <2>1, TornPacket
    <2>3. SubSeq(queue, 3, Len(queue)) \in Seq(Packet)
          /\ Len(SubSeq(queue, 3, Len(queue))) = Len(queue) - 2
          /\ \A i \in 1 .. (Len(queue) - 2) :
               SubSeq(queue, 3, Len(queue))[i] = queue[i + 2]
      BY <1>1, <2>1
    <2> HIDE DEF queue
    <2>4. left \in Seq(Packet) /\ Len(left) = Len(queue) - 1 /\ left[1] = Torn(queue[2])
      BY <1>1, <2>1, <2>2, <2>3
    <2>5. \A i \in 2 .. (Len(queue) - 1) : left[i] = queue[i + 1]
      BY <1>1, <2>1, <2>2, <2>3
    <2>6. ASSUME NEW i \in 1 .. Len(left)
          PROVE  \E j \in 1 .. Len(queue) :
                   left[i].form = queue[j].form /\ left[i].body = queue[j].body
      <3> HIDE DEF left
      <3>1. CASE i = 1
        BY <1>1, <2>1, <2>2, <2>4, <3>1
      <3>2. CASE i # 1
        <4>1. i \in 2 .. (Len(queue) - 1) /\ i + 1 \in 1 .. Len(queue)
          BY <1>1, <2>1, <2>4, <3>2
        <4> QED BY <2>5, <4>1
      <3> QED BY <3>1, <3>2
    <2> QED BY <1>2, <1>4, <2>4, <2>6
  <1>5. Len(net[s]) = 1 \/ Len(net[s]) # 1
    OBVIOUS
  <1> QED BY <1>3, <1>4, <1>5 DEF After

(* A recv_str that is dropped tears the first packet.                      *)
LEMMA HalfReadWithin ==
  ASSUME net \in Mail
  PROVE  Within([net EXCEPT !.client = HalfRead(@)], net)
  <1> DEFINE queue == net.client
             left == HalfRead(queue)
             some == [net EXCEPT !.client = HalfRead(@)]
  <1>1. queue \in Seq(Packet) /\ "client" \in Side
    BY DEF Mail, Side
  <1>2. left \in Seq(Packet) /\ \A i \in 1 .. Len(left) : \E j \in 1 .. Len(queue) :
          left[i].form = queue[j].form /\ left[i].body = queue[j].body
    <2> HIDE DEF queue
    <2>1. CASE queue = <<>>
      BY <1>1, <2>1 DEF HalfRead
    <2>2. CASE queue # <<>>
      <3>1. Head(queue) \in Packet /\ Head(queue) = queue[1] /\ Len(queue) >= 1
            /\ Tail(queue) \in Seq(Packet) /\ Len(Tail(queue)) = Len(queue) - 1
            /\ \A i \in 1 .. (Len(queue) - 1) : Tail(queue)[i] = queue[i + 1]
        BY <1>1, <2>2
      <3>2. Torn(Head(queue)) \in Packet
            /\ Torn(Head(queue)).form = queue[1].form /\ Torn(Head(queue)).body = queue[1].body
        BY <3>1, TornPacket
      <3>3. left = <<Torn(Head(queue))>> \o Tail(queue)
        BY <2>2 DEF HalfRead
      <3>4. left \in Seq(Packet) /\ Len(left) = Len(queue) /\ left[1] = Torn(Head(queue))
            /\ \A i \in 2 .. Len(queue) : left[i] = queue[i]
        BY <1>1, <3>1, <3>2, <3>3
      <3> HIDE DEF left
      <3>5. \A i \in 1 .. Len(left) :
              left[i].form = queue[i].form /\ left[i].body = queue[i].body
        BY <1>1, <3>2, <3>4
      <3> QED BY <3>4, <3>5
    <2> QED BY <2>1, <2>2
  <1>3. some = [net EXCEPT !["client"] = left]
    OBVIOUS
  <1> HIDE DEF left
  <1>4. ASSUME NEW t \in Side, NEW i \in 1 .. Len(some[t])
        PROVE  \E j \in 1 .. Len(net[t]) :
                 some[t][i].form = net[t][j].form /\ some[t][i].body = net[t][j].body
    <2>1. CASE t = "client"
      <3>1. some[t] = left
        BY <1>1, <1>3, <2>1 DEF Mail
      <3> QED BY <1>2, <2>1, <3>1
    <2>2. CASE t # "client"
      <3>1. some[t] = net[t]
        BY <1>3, <2>2 DEF Mail
      <3> QED BY <3>1
    <2> QED BY <2>1, <2>2
  <1>5. some \in Mail
    BY <1>1, <1>2, <1>3 DEF Mail
  <1> QED BY <1>4, <1>5 DEF Within

(* A side that closes leaves a part of what it has written.                *)
LEMMA SurvivorsWithin ==
  ASSUME NEW s \in Side, NEW all \in Mail, NEW some \in Survivors(s, all)
  PROVE  Within(some, all)
  <1>1. Peer(s) \in Side /\ Peer(s) # s /\ \A t \in Side : t = s \/ t = Peer(s)
    BY DEF Peer, Side
  <1>2. PICK n \in 0 .. Len(all[Peer(s)]) :
          some = [all EXCEPT ![s] = <<>>, ![Peer(s)] = SubSeq(@, 1, n)]
    <2>1. all[Peer(s)] \in Seq(Packet)
      BY <1>1 DEF Mail
    <2>2. Len(all[Peer(s)]) \in 0 .. Len(all[Peer(s)])
      BY <2>1
    <2> QED BY <2>2 DEF Survivors
  <1>3. all[Peer(s)] \in Seq(Packet)
    BY <1>1 DEF Mail
  <1>4. SubSeq(all[Peer(s)], 1, n) \in Seq(Packet)
        /\ Len(SubSeq(all[Peer(s)], 1, n)) = n
        /\ \A i \in 1 .. n : SubSeq(all[Peer(s)], 1, n)[i] = all[Peer(s)][i]
    BY <1>3
  <1>5. some[s] = <<>> /\ some[Peer(s)] = SubSeq(all[Peer(s)], 1, n) /\ some \in Mail
    <2> DEFINE cut == SubSeq(all[Peer(s)], 1, n)
               emptied == [all EXCEPT ![s] = <<>>]
    <2>1. some = [emptied EXCEPT ![Peer(s)] = cut]
      BY <1>1, <1>2 DEF Mail
    <2>2. cut \in Seq(Packet) /\ <<>> \in Seq(Packet)
      BY <1>4
    <2> HIDE DEF cut
    <2>3. emptied \in Mail /\ emptied[s] = <<>>
      BY <2>2 DEF Mail
    <2> HIDE DEF emptied
    <2>4. some \in Mail /\ some[s] = <<>> /\ some[Peer(s)] = cut
      BY <1>1, <2>1, <2>2, <2>3 DEF Mail
    <2> QED BY <2>4 DEF cut
  <1>6. ASSUME NEW t \in Side, NEW i \in 1 .. Len(some[t])
        PROVE  \E j \in 1 .. Len(all[t]) :
                 some[t][i].form = all[t][j].form /\ some[t][i].body = all[t][j].body
    <2>1. CASE t = s
      BY <1>5, <2>1
    <2>2. CASE t = Peer(s)
      <3>1. i \in 1 .. n /\ some[t][i] = all[t][i]
        BY <1>4, <1>5, <2>2
      <3>2. i \in 1 .. Len(all[t])
        BY <1>3, <2>2, <3>1
      <3> QED BY <3>1, <3>2
    <2> QED BY <1>1, <2>1, <2>2
  <1> QED BY <1>5, <1>6 DEF Within

(* A packet that is written is the only one that was not there before.     *)
LEMMA WithAdds ==
  ASSUME TypeOK, NEW s \in Side, NEW all \in Mail, NEW body \in Body
  PROVE  /\ With(all, s, body) \in Mail
         /\ \A t \in Side : \A i \in 1 .. Len(With(all, s, body)[t]) :
              \/ \E j \in 1 .. Len(all[t]) : With(all, s, body)[t][i] = all[t][j]
              \/ /\ t = Peer(s)
                 /\ With(all, s, body)[t][i].form = (IF tools[s] THEN "cipher" ELSE "plain")
                 /\ With(all, s, body)[t][i].body = body
  <1> DEFINE packet == [form  |-> IF tools[s] THEN "cipher" ELSE "plain",
                        seq   |-> IF tools[s] THEN writeSeq[s] ELSE 0,
                        body  |-> body,
                        whole |-> TRUE]
             more == [all EXCEPT ![Peer(s)] = Append(@, packet)]
  <1>1. packet \in Packet
    <2>1. 0 \in 0 .. (SeqModulus - 1) /\ writeSeq[s] \in 0 .. (SeqModulus - 1)
      BY HandshakeConstants DEF TypeOK
    <2> QED BY <2>1 DEF Packet
  <1>2. Peer(s) \in Side
    BY DEF Peer, Side
  <1>3. packet.form = (IF tools[s] THEN "cipher" ELSE "plain") /\ packet.body = body
    OBVIOUS
  <1>4. With(all, s, body) = all \/ With(all, s, body) = more
    BY DEF With
  <1> HIDE DEF packet
  <1>5. more \in Mail
    BY <1>1, <1>2 DEF Mail
  <1>6. ASSUME NEW t \in Side, NEW i \in 1 .. Len(more[t])
        PROVE  \/ \E j \in 1 .. Len(all[t]) : more[t][i] = all[t][j]
               \/ t = Peer(s) /\ more[t][i] = packet
    <2>1. CASE t = Peer(s)
      <3>1. all[t] \in Seq(Packet) /\ more[t] = Append(all[t], packet)
        BY <1>2, <2>1 DEF Mail
      <3>2. \/ i \in 1 .. Len(all[t]) /\ more[t][i] = all[t][i]
            \/ more[t][i] = packet
        BY <1>1, <3>1
      <3> QED BY <2>1, <3>2
    <2>2. CASE t # Peer(s)
      <3>1. more[t] = all[t]
        BY <2>2 DEF Mail
      <3> QED BY <3>1
    <2> QED BY <2>1, <2>2
  <1> HIDE DEF more
  <1>7. CASE With(all, s, body) = all
    BY <1>7
  <1>8. CASE With(all, s, body) = more
    BY <1>3, <1>5, <1>6, <1>8
  <1> QED BY <1>4, <1>7, <1>8

-----------------------------------------------------------------------------
(* Type correctness.                                                       *)

LEMMA EndTyped ==
  ASSUME TypeOK, NEW s \in Side, NEW packets \in Mail, NEW reason \in Reasons,
         End(s, packets, reason)
  PROVE  /\ pc' = [pc EXCEPT ![s] = "ended"] /\ pc' \in [Side -> State]
         /\ why' \in [Side -> Reasons]
         /\ net' \in Mail /\ Within(net', packets)
  <1>1. Within(net', packets)
    BY SurvivorsWithin DEF End
  <1>2. pc' = [pc EXCEPT ![s] = "ended"] /\ pc' \in [Side -> State]
    BY DEF End, Goto, TypeOK, State
  <1>3. why' \in [Side -> Reasons]
    BY DEF End, TypeOK
  <1> QED BY <1>1, <1>2, <1>3 DEF Within

LEMMA FaultTyped == \A s \in Side : Fault(s) \in {"misplaced", "hmac"} /\ Fault(s) \in Reasons
  BY DEF Fault, Reasons

(* The packet whose start is dropped is the first.                         *)
LEMMA TailWithin ==
  ASSUME net \in Mail, net.server # <<>>
  PROVE  /\ [net EXCEPT !.server = Tail(@)] \in Mail
         /\ Within([net EXCEPT !.server = Tail(@)], net)
  <1>1. "server" \in Side /\ [net EXCEPT !.server = Tail(@)] \in After("server")
    BY DEF Side, After
  <1> QED BY <1>1, AfterWithin DEF Within

(* The numbers of a side stay u32.                                         *)
LEMMA NumbersTyped ==
  ASSUME TypeOK, NEW s \in Side
  PROVE  /\ Count(s) => writeSeq' \in [Side -> 0 .. (SeqModulus - 1)]
         /\ Expect(s) => readSeq' \in [Side -> 0 .. (SeqModulus - 1)]
         /\ Import(s) => /\ writeSeq' \in [Side -> 0 .. (SeqModulus - 1)]
                         /\ readSeq' \in [Side -> 0 .. (SeqModulus - 1)]
                         /\ tools' \in [Side -> BOOLEAN]
  <1> DEFINE Number == 0 .. (SeqModulus - 1)
  <1>1. SeqModulus \in Nat /\ SeqModulus > 0
    BY HandshakeConstants
  <1>2. \A n \in Number : NextNumber(n) \in Number
    BY <1>1 DEF NextNumber
  <1>3. writeSeq \in [Side -> Number] /\ readSeq \in [Side -> Number]
    BY DEF TypeOK
  <1>4. first \in Number
    BY HandshakeConstants DEF TypeOK
  <1>5. tools \in [Side -> BOOLEAN]
    BY DEF TypeOK
  <1> HIDE DEF Number
  <1>6. Count(s) => writeSeq' \in [Side -> Number]
    BY <1>2, <1>3 DEF Count
  <1>7. Expect(s) => readSeq' \in [Side -> Number]
    BY <1>2, <1>3 DEF Expect
  <1>8. Import(s) => /\ writeSeq' \in [Side -> Number] /\ readSeq' \in [Side -> Number]
                     /\ tools' \in [Side -> BOOLEAN]
    BY <1>3, <1>4, <1>5 DEF Import
  <1> QED BY <1>6, <1>7, <1>8 DEF Number

(* What arrives is a packet with a body, and what is left typed.           *)
LEMMA ReadTyped ==
  ASSUME TypeOK, NEW s \in Side, Arrived(s)
  PROVE  /\ Head(net[s]) \in Packet
         /\ Head(net[s]) = net[s][1] /\ 1 \in 1 .. Len(net[s])
         /\ \A rest \in After(s) : rest \in Mail /\ Within(rest, net)
  <1>1. net \in Mail /\ net[s] \in Seq(Packet) /\ net[s] # <<>>
    BY DEF TypeOK, Mail, Arrived
  <1>2. \A rest \in After(s) : rest \in Mail /\ Within(rest, net)
    BY <1>1, AfterWithin DEF Within
  <1> QED BY <1>1, <1>2

\* What the actions change together, and what the steps below show of it.
PlaceTyped ==
  /\ pc \in [Side -> State]
  /\ pc.server \in {"key", "answer", "nick", "serving", "ended"}
  /\ pc.client \in {"key", "proof", "nick", "chatting", "ended"}
  /\ why \in [Side -> Reasons]
  /\ net \in Mail

NumbersOK ==
  /\ tools \in [Side -> BOOLEAN]
  /\ writeSeq \in [Side -> 0 .. (SeqModulus - 1)]
  /\ readSeq \in [Side -> 0 .. (SeqModulus - 1)]

LEMMA TypeParts ==
  TypeOK <=> /\ PlaceTyped /\ NumbersOK
             /\ secretsMatch \in BOOLEAN /\ first \in SeqNumbers
             /\ told \subseteq Tokens /\ texts \in [Side -> 0 .. MaxTexts]
             /\ scrap \in BOOLEAN /\ lost \in Nat
  BY DEF TypeOK, PlaceTyped, NumbersOK, Mail

LEMMA EndPlace ==
  ASSUME TypeOK, NEW s \in Side, NEW packets \in Mail, NEW reason \in Reasons,
         End(s, packets, reason)
  PROVE  PlaceTyped'
  <1>1. pc' = [pc EXCEPT ![s] = "ended"] /\ pc' \in [Side -> State]
        /\ why' \in [Side -> Reasons] /\ net' \in Mail
    BY EndTyped
  <1>2. PlaceTyped
    BY TypeParts
  <1> QED BY <1>1, <1>2 DEF PlaceTyped, Side

\* A side goes on to a state of its own, and the packets stay packets.
LEMMA GotoPlace ==
  ASSUME TypeOK, NEW s \in Side, NEW state \in State, Goto(s, state),
         IF s = "server" THEN state \in {"answer", "nick", "serving"}
                         ELSE state \in {"proof", "nick", "chatting"},
         net' \in Mail, why' = why
  PROVE  PlaceTyped'
  BY TypeParts DEF PlaceTyped, Goto, Side

LEMMA StepTyped == TypeOK /\ [Next]_vars => TypeOK'
  <1> SUFFICES ASSUME TypeOK, [Next]_vars PROVE TypeOK'
    OBVIOUS
  <1> USE DEF toolVars, lossVars
  <1>a. /\ PlaceTyped /\ NumbersOK /\ net \in Mail
        /\ secretsMatch \in BOOLEAN /\ first \in SeqNumbers
        /\ told \subseteq Tokens /\ texts \in [Side -> 0 .. MaxTexts]
        /\ scrap \in BOOLEAN /\ lost \in Nat
    BY TypeParts DEF PlaceTyped
  <1>b. "server" \in Side /\ "client" \in Side
    BY DEF Side
  <1>c. {"key", "answer", "proof", "text"} \cup Tokens \cup NickKinds \subseteq Body
    BY DEF Body
  <1>d. \A s \in Side, body \in Body, all \in Mail : With(all, s, body) \in Mail
    BY WithAdds
  <1>e. \A response : told \cup ({response} \cap Tokens) \subseteq Tokens
    BY <1>a
  <1>f. ASSUME PlaceTyped', NumbersOK', UNCHANGED <<secretsMatch, first>>,
               told' \subseteq Tokens, texts' \in [Side -> 0 .. MaxTexts],
               scrap' \in BOOLEAN, lost' \in Nat
        PROVE  TypeOK'
    BY <1>a, <1>f, TypeParts DEF TypeOK, PlaceTyped, NumbersOK, Mail
  <1>g. UNCHANGED toolVars => NumbersOK'
    BY <1>a DEF NumbersOK
  <1>1. ASSUME SendKey PROVE TypeOK'
    <2>1. net' \in Mail
      BY <1>1, <1>a, <1>b, <1>c, <1>d DEF SendKey
    <2>2. PlaceTyped'
      BY <1>1, <1>b, <2>1, GotoPlace DEF SendKey, State
    <2> QED BY <1>1, <1>a, <1>f, <1>g, <2>2 DEF SendKey
  <1>2. ASSUME TakeAnswer PROVE TypeOK'
    <2>1. PICK rest \in After("server") :
            IF ~InPlace("server")
            THEN End("server", rest, "misplaced") /\ UNCHANGED toolVars
            ELSE IF ~AnswerVerifies(Head(net.server))
            THEN End("server", rest, "secret") /\ UNCHANGED toolVars
            ELSE IF ~NumberParses
            THEN End("server", rest, "number") /\ UNCHANGED toolVars
            ELSE /\ net' = With(rest, "server", "proof")
                 /\ Import("server")
                 /\ Goto("server", "nick")
                 /\ UNCHANGED why
      BY <1>2 DEF TakeAnswer
    <2>2. rest \in Mail
      BY <1>2, <1>b, ReadTyped DEF TakeAnswer
    <2>3. {"misplaced", "secret", "number"} \subseteq Reasons
      BY DEF Reasons
    <2>4. CASE /\ \E reason \in {"misplaced", "secret", "number"} : End("server", rest, reason)
               /\ UNCHANGED toolVars
      <3>1. PlaceTyped'
        BY <1>b, <2>2, <2>3, <2>4, EndPlace
      <3> QED BY <1>2, <1>a, <1>f, <1>g, <2>4, <3>1 DEF TakeAnswer
    <2>5. CASE /\ net' = With(rest, "server", "proof") /\ Import("server")
               /\ Goto("server", "nick") /\ UNCHANGED why
      <3>1. net' \in Mail
        BY <1>b, <1>c, <1>d, <2>2, <2>5
      <3>2. PlaceTyped'
        BY <1>b, <2>5, <3>1, GotoPlace DEF State
      <3>3. NumbersOK'
        BY <1>b, <2>5, NumbersTyped DEF NumbersOK
      <3> QED BY <1>2, <1>a, <1>f, <3>2, <3>3 DEF TakeAnswer
    <2> QED BY <2>1, <2>4, <2>5
  <1>3. ASSUME TakeNick PROVE TypeOK'
    <2>1. PICK rest \in After("server") :
            LET nick == Head(net.server).body IN
            IF ~InPlace("server")
            THEN /\ UNCHANGED readSeq
                 /\ IF Fault("server") = "misplaced"
                    THEN /\ End("server", Refuse(rest, "MALFORMED_PACKET"), "misplaced")
                         /\ Count("server")
                    ELSE End("server", rest, "hmac") /\ UNCHANGED writeSeq
            ELSE /\ Expect("server")
                 /\ IF nick \in DOMAIN RefusalOf
                    THEN End("server", Refuse(rest, RefusalOf[nick]), "nick") /\ Count("server")
                    ELSE Goto("server", "serving") /\ net' = rest /\ UNCHANGED <<why, writeSeq>>
      BY <1>3 DEF TakeNick
    <2>2. rest \in Mail
      BY <1>3, <1>b, ReadTyped DEF TakeNick
    <2>3. {"misplaced", "nick", "hmac"} \subseteq Reasons
      BY DEF Reasons
    <2>4. \A token \in Tokens : Refuse(rest, token) \in Mail
      BY <1>b, <1>c, <1>d, <2>2 DEF Refuse
    <2>5. "MALFORMED_PACKET" \in Tokens /\ \A nick \in DOMAIN RefusalOf : RefusalOf[nick] \in Tokens
      BY DEF Tokens, RefusalOf
    <2>6. UNCHANGED tools /\ tools \in [Side -> BOOLEAN]
      BY <1>3, <1>a DEF TakeNick, NumbersOK
    <2>7. NumbersOK'
      BY <1>a, <1>b, <2>1, <2>6, NumbersTyped DEF NumbersOK
    <2>8. PlaceTyped'
      <3>1. CASE \E token \in Tokens, reason \in {"misplaced", "nick"} :
                   End("server", Refuse(rest, token), reason)
        BY <1>b, <2>3, <2>4, <3>1, EndPlace
      <3>2. CASE Goto("server", "serving") /\ net' = rest /\ UNCHANGED why
        BY <1>b, <2>2, <3>2, GotoPlace DEF State
      <3>3. CASE End("server", rest, "hmac")
        BY <1>b, <2>2, <2>3, <3>3, EndPlace
      <3> QED BY <2>1, <2>5, <3>1, <3>2, <3>3
    <2> QED BY <1>3, <1>a, <1>f, <2>7, <2>8 DEF TakeNick
  <1>4. ASSUME TimeOut PROVE TypeOK'
    <2>1. With(net, "server", "TIMEOUT") \in Mail /\ "timeout" \in Reasons
      BY <1>a, <1>b, <1>c, <1>d DEF Tokens, Reasons
    <2>2. PlaceTyped'
      BY <1>4, <1>b, <2>1, EndPlace DEF TimeOut
    <2>3. NumbersOK'
      BY <1>4, <1>a, <1>b, NumbersTyped DEF TimeOut, NumbersOK
    <2> QED BY <1>4, <1>a, <1>f, <2>2, <2>3 DEF TimeOut
  <1>5. ASSUME TakeKey PROVE TypeOK'
    <2>1. PICK rest \in After("client") :
            IF InPlace("client") /\ Head(net.client).body = "key"
            THEN /\ net' = With(rest, "client", "answer")
                 /\ Goto("client", "proof")
                 /\ UNCHANGED why
            ELSE End("client", rest, "misplaced")
      BY <1>5 DEF TakeKey
    <2>2. rest \in Mail /\ With(rest, "client", "answer") \in Mail /\ "misplaced" \in Reasons
      BY <1>5, <1>b, <1>c, <1>d, ReadTyped DEF TakeKey, Reasons
    <2>3. PlaceTyped'
      <3>1. CASE End("client", rest, "misplaced")
        BY <1>b, <2>2, <3>1, EndPlace
      <3>2. CASE /\ net' = With(rest, "client", "answer") /\ Goto("client", "proof")
                 /\ UNCHANGED why
        BY <1>b, <2>2, <3>2, GotoPlace DEF State
      <3> QED BY <2>1, <3>1, <3>2
    <2> QED BY <1>5, <1>a, <1>f, <1>g, <2>3 DEF TakeKey
  <1>6. ASSUME TakeProof PROVE TypeOK'
    <2>1. PICK rest \in After("client") :
            IF ~InPlace("client")
            THEN End("client", rest, "misplaced") /\ UNCHANGED toolVars
            ELSE IF ~ProofVerifies(Head(net.client))
            THEN End("client", rest, "proof") /\ UNCHANGED toolVars
            ELSE /\ net' = rest
                 /\ Import("client")
                 /\ Goto("client", "nick")
                 /\ UNCHANGED why
      BY <1>6 DEF TakeProof
    <2>2. rest \in Mail /\ {"misplaced", "proof"} \subseteq Reasons
      BY <1>6, <1>b, ReadTyped DEF TakeProof, Reasons
    <2>3. CASE /\ \E reason \in {"misplaced", "proof"} : End("client", rest, reason)
               /\ UNCHANGED toolVars
      <3>1. PlaceTyped'
        BY <1>b, <2>2, <2>3, EndPlace
      <3> QED BY <1>6, <1>a, <1>f, <1>g, <2>3, <3>1 DEF TakeProof
    <2>4. CASE net' = rest /\ Import("client") /\ Goto("client", "nick") /\ UNCHANGED why
      <3>1. PlaceTyped'
        BY <1>b, <2>2, <2>4, GotoPlace DEF State
      <3>2. NumbersOK'
        BY <1>b, <2>4, NumbersTyped DEF NumbersOK
      <3> QED BY <1>6, <1>a, <1>f, <3>1, <3>2 DEF TakeProof
    <2> QED BY <2>1, <2>3, <2>4
  <1>7. ASSUME NEW nick \in Nicks, TypeNick(nick) PROVE TypeOK'
    <2>1. PICK packets \in {net, [net EXCEPT !.client = HalfRead(@)]} :
            IF nick = "huge"
            THEN End("client", packets, "unwritable") /\ UNCHANGED writeSeq
            ELSE /\ net' = With(packets, "client", nick)
                 /\ Count("client")
                 /\ Goto("client", "chatting")
                 /\ UNCHANGED why
      BY <1>7 DEF TypeNick
    <2>2. packets \in Mail
      BY <1>a, <2>1, HalfReadWithin DEF Within
    <2>3. nick \in Body /\ "unwritable" \in Reasons
      BY <1>c, HandshakeConstants DEF Reasons
    <2>4. NumbersOK'
      BY <1>7, <1>a, <1>b, <2>1, NumbersTyped DEF TypeNick, NumbersOK
    <2>5. PlaceTyped'
      <3>1. CASE End("client", packets, "unwritable")
        BY <1>b, <2>2, <2>3, <3>1, EndPlace
      <3>2. CASE /\ net' = With(packets, "client", nick) /\ Goto("client", "chatting")
                 /\ UNCHANGED why
        <4>1. net' \in Mail
          BY <1>b, <1>d, <2>2, <2>3, <3>2
        <4> QED BY <1>b, <3>2, <4>1, GotoPlace DEF State
      <3> QED BY <2>1, <3>1, <3>2
    <2> QED BY <1>7, <1>a, <1>f, <2>4, <2>5 DEF TypeNick
  <1>8. ASSUME TakeResponse PROVE TypeOK'
    <2>1. PICK rest \in After("client") :
            LET response == Head(net.client).body IN
            IF ~InPlace("client")
            THEN End("client", rest, Fault("client")) /\ UNCHANGED <<readSeq, told>>
            ELSE /\ Expect("client")
                 /\ told' = told \cup ({response} \cap Tokens)
                 /\ IF response = "OK"
                    THEN Goto("client", "chatting") /\ net' = rest /\ UNCHANGED why
                    ELSE End("client", rest, "refused")
      BY <1>8 DEF TakeResponse
    <2>2. rest \in Mail /\ {Fault("client"), "refused"} \subseteq Reasons
      BY <1>8, <1>b, ReadTyped, FaultTyped DEF TakeResponse, Reasons
    <2>3. NumbersOK'
      BY <1>8, <1>a, <1>b, <2>1, NumbersTyped DEF TakeResponse, NumbersOK
    <2>4. told' \subseteq Tokens
      BY <1>a, <1>e, <2>1
    <2>5. PlaceTyped'
      <3>1. CASE \E reason \in {Fault("client"), "refused"} : End("client", rest, reason)
        BY <1>b, <2>2, <3>1, EndPlace
      <3>2. CASE Goto("client", "chatting") /\ net' = rest /\ UNCHANGED why
        BY <1>b, <2>2, <3>2, GotoPlace DEF State
      <3> QED BY <2>1, <3>1, <3>2
    <2> QED BY <1>8, <1>a, <1>f, <2>3, <2>4, <2>5 DEF TakeResponse
  <1>9. ASSUME NEW s \in Side, Say(s) PROVE TypeOK'
    <2>1. net' \in Mail
      BY <1>9, <1>a, <1>c, <1>d DEF Say
    <2>2. PlaceTyped'
      BY <1>9, <1>a, <2>1 DEF Say, PlaceTyped
    <2>3. NumbersOK'
      BY <1>9, <1>a, NumbersTyped DEF Say, NumbersOK
    <2>4. texts' \in [Side -> 0 .. MaxTexts]
      BY <1>9, <1>a, HandshakeConstants DEF Say
    <2> QED BY <1>9, <1>a, <1>f, <2>2, <2>3, <2>4 DEF Say
  <1>10. ASSUME NEW s \in Side, Hear(s) PROVE TypeOK'
    <2>1. PICK rest \in After(s) :
            IF ~InPlace(s)
            THEN End(s, rest, Fault(s)) /\ UNCHANGED <<readSeq, told>>
            ELSE /\ net' = rest
                 /\ Expect(s)
                 /\ told' = IF s = "client" THEN told \cup ({Head(net[s]).body} \cap Tokens)
                            ELSE told
                 /\ UNCHANGED <<pc, why>>
      BY <1>10 DEF Hear
    <2>2. rest \in Mail /\ Fault(s) \in Reasons
      BY <1>10, ReadTyped, FaultTyped DEF Hear
    <2>3. NumbersOK'
      BY <1>10, <1>a, <2>1, NumbersTyped DEF Hear, NumbersOK
    <2>4. told' \subseteq Tokens
      BY <1>a, <1>e, <2>1
    <2>5. PlaceTyped'
      <3>1. CASE End(s, rest, Fault(s))
        BY <2>2, <3>1, EndPlace
      <3>2. CASE net' = rest /\ UNCHANGED <<pc, why>>
        BY <1>a, <2>2, <3>2 DEF PlaceTyped
      <3> QED BY <2>1, <3>1, <3>2
    <2> QED BY <1>10, <1>a, <1>f, <2>3, <2>4, <2>5 DEF Hear
  <1>11. ASSUME NEW s \in Side, ReadEnd(s) \/ GiveUp(s) PROVE TypeOK'
    <2>1. PICK reason \in {"interrupted", "gave up"} : End(s, net, reason)
      BY <1>11 DEF ReadEnd, GiveUp
    <2>2. PlaceTyped'
      BY <1>a, <2>1, EndPlace DEF Reasons
    <2> QED BY <1>11, <1>a, <1>f, <1>g, <2>2 DEF ReadEnd, GiveUp
  <1>12. ASSUME OtherBranch PROVE TypeOK'
    <2>1. net' \in Mail
      BY <1>12, <1>a, TailWithin DEF OtherBranch
    <2>2. PlaceTyped'
      BY <1>12, <1>a, <2>1 DEF OtherBranch, PlaceTyped
    <2>3. scrap' \in BOOLEAN /\ lost' \in Nat
      <3>1. scrap' \in BOOLEAN
        BY <1>12, <1>a, Zenon DEF OtherBranch
      <3>2. lost' \in Nat
        <4>1. lost' = lost \/ lost' = lost + 1
          BY <1>12 DEF OtherBranch
        <4> QED BY <1>a, <4>1
      <3> QED BY <3>1, <3>2
    <2> QED BY <1>12, <1>a, <1>f, <1>g, <2>2, <2>3 DEF OtherBranch
  <1>13. ASSUME ReadTorn PROVE TypeOK'
    <2>1. PlaceTyped'
      BY <1>13, <1>a, <1>b, EndPlace DEF ReadTorn, Reasons
    <2> QED BY <1>13, <1>a, <1>f, <1>g, <2>1 DEF ReadTorn
  <1>14. CASE UNCHANGED vars
    BY <1>14, <1>a, <1>f, <1>g DEF vars, PlaceTyped
  <1> QED
    BY <1>1, <1>2, <1>3, <1>4, <1>5, <1>6, <1>7, <1>8, <1>9, <1>10, <1>11, <1>12, <1>13,
       <1>14, <1>b
    DEF Next, ServerGoesOn, ClientGoesOn, ReadBranch, RecvMsg

LEMMA InitTyped == Init => TypeOK
  <1>1. SeqModulus \in Nat /\ 0 \in 0 .. (SeqModulus - 1) /\ 0 \in 0 .. MaxTexts
    BY HandshakeConstants
  <1>2. Init => scrap \in BOOLEAN
    BY Zenon DEF Init
  <1> QED BY <1>1, <1>2 DEF Init, TypeOK, State, Side, Reasons

(* Every variable stays in its range: sequence numbers, in both handlers   *)
(* and in every packet under way, never leave u32 (prepare_packet,         *)
(* validate_packet).                                                       *)
THEOREM HandshakeTyped == Spec => []TypeOK
  BY InitTyped, StepTyped, PTL DEF Spec

-----------------------------------------------------------------------------
(* The agreement.  A side can tell who is at the other end only from what  *)
(* reaches it, so the invariant speaks of the packets under way: one that  *)
(* is encrypted reaches the server only from a client that has its tools,  *)
(* and a proof reaches the client only from a server that has its own.     *)

Trusted(all) ==
  /\ \A i \in 1 .. Len(all.server) : all.server[i].form = "cipher" => tools.client
  /\ \A i \in 1 .. Len(all.client) : all.client[i].body = "proof" => tools.server

AgreementInv ==
  /\ Agreement
  /\ pc.server \in {"nick", "serving"} => tools.server
  /\ Trusted(net)

LEMMA TrustedWithin ==
  ASSUME NEW some, NEW all, Within(some, all), Trusted(all)
  PROVE  Trusted(some)
  <1>1. ASSUME NEW i \in 1 .. Len(some.server), some.server[i].form = "cipher"
        PROVE  tools.client
    <2>1. PICK j \in 1 .. Len(all.server) : some.server[i].form = all.server[j].form
      BY DEF Within, Side
    <2> QED BY <1>1, <2>1 DEF Trusted
  <1>2. ASSUME NEW i \in 1 .. Len(some.client), some.client[i].body = "proof"
        PROVE  tools.server
    <2>1. PICK j \in 1 .. Len(all.client) : some.client[i].body = all.client[j].body
      BY DEF Within, Side
    <2> QED BY <1>2, <2>1 DEF Trusted
  <1> QED BY <1>1, <1>2 DEF Trusted

\* What s writes is trusted, too: only the server proves anything.
LEMMA TrustedWith ==
  ASSUME TypeOK, NEW s \in Side, NEW all \in Mail, NEW body \in Body, Trusted(all),
         body = "proof" => tools.server
  PROVE  With(all, s, body) \in Mail /\ Trusted(With(all, s, body))
  <1> DEFINE more == With(all, s, body)
  <1>1. /\ more \in Mail
        /\ \A t \in Side : \A i \in 1 .. Len(more[t]) :
             \/ \E j \in 1 .. Len(all[t]) : more[t][i] = all[t][j]
             \/ /\ t = Peer(s)
                /\ more[t][i].form = (IF tools[s] THEN "cipher" ELSE "plain")
                /\ more[t][i].body = body
    BY WithAdds
  <1> HIDE DEF more
  <1>2. ASSUME NEW i \in 1 .. Len(more.server), more.server[i].form = "cipher"
        PROVE  tools.client
    <2>1. CASE \E j \in 1 .. Len(all.server) : more.server[i] = all.server[j]
      BY <1>2, <2>1 DEF Trusted
    <2>2. CASE /\ "server" = Peer(s)
               /\ more.server[i].form = (IF tools[s] THEN "cipher" ELSE "plain")
      <3>1. s = "client"
        BY <2>2 DEF Peer, Side
      <3> QED BY <1>2, <2>2, <3>1
    <2> QED BY <1>1, <2>1, <2>2 DEF Side
  <1>3. ASSUME NEW i \in 1 .. Len(more.client), more.client[i].body = "proof"
        PROVE  tools.server
    <2>1. CASE \E j \in 1 .. Len(all.client) : more.client[i] = all.client[j]
      BY <1>3, <2>1 DEF Trusted
    <2>2. CASE more.client[i].body = body
      BY <1>3, <2>2
    <2> QED BY <1>1, <2>1, <2>2 DEF Side
  <1> QED BY <1>1, <1>2, <1>3 DEF Trusted, more

\* A step that leaves the tools alone, and lets no side go on.
LEMMA AgreementKept ==
  ASSUME AgreementInv, UNCHANGED <<secretsMatch, tools>>, Trusted(net'),
         pc'.server = pc.server \/ pc'.server = "ended"
           \/ (pc'.server = "serving" /\ tools.client)
           \/ pc'.server \in {"key", "answer"}
  PROVE  AgreementInv'
  <1>1. Trusted(net)'
    BY DEF Trusted
  <1>2. tools.client => tools.server
    BY DEF AgreementInv, Agreement
  <1> QED BY <1>1, <1>2 DEF AgreementInv, Agreement

LEMMA EndAgreement ==
  ASSUME TypeOK, AgreementInv, UNCHANGED <<secretsMatch, tools>>,
         NEW s \in Side, NEW packets \in Mail, NEW reason \in Reasons,
         Trusted(packets), End(s, packets, reason)
  PROVE  AgreementInv'
  <1>1. Trusted(net')
    BY EndTyped, TrustedWithin
  <1>2. pc' = [pc EXCEPT ![s] = "ended"]
    BY EndTyped
  <1>3. pc'.server = pc.server \/ pc'.server = "ended"
    BY <1>2 DEF TypeOK, Side
  <1> QED BY <1>1, <1>3, AgreementKept

\* After an import, packets are trusted no less than before.
LEMMA ImportAgreement ==
  ASSUME TypeOK, AgreementInv, UNCHANGED secretsMatch, secretsMatch,
         NEW s \in Side, Import(s), s = "client" => tools.server,
         pc'.server = pc.server \/ (s = "server" /\ pc'.server = "nick"),
         Trusted(net)'
  PROVE  AgreementInv'
  <1>1. tools' = [tools EXCEPT ![s] = TRUE] /\ tools \in [Side -> BOOLEAN]
    BY DEF Import, TypeOK
  <1>2. tools'[s] = TRUE /\ \A t \in Side : t # s => tools'[t] = tools[t]
    BY <1>1
  <1>3. CASE s = "server"
    BY <1>2, <1>3 DEF AgreementInv, Agreement, Side
  <1>4. CASE s = "client"
    BY <1>2, <1>4 DEF AgreementInv, Agreement, Side
  <1> QED BY <1>3, <1>4 DEF Side

LEMMA StepAgreement == TypeOK /\ AgreementInv /\ [Next]_vars => AgreementInv'
  <1> SUFFICES ASSUME TypeOK, AgreementInv, [Next]_vars PROVE AgreementInv'
    OBVIOUS
  <1> USE DEF toolVars, lossVars
  <1>a. net \in Mail /\ Trusted(net) /\ pc \in [Side -> State]
    BY DEF TypeOK, Mail, AgreementInv
  <1>b. "server" \in Side /\ "client" \in Side
    BY DEF Side
  <1>c. \A s \in Side : Arrived(s) =>
          \A rest \in After(s) : rest \in Mail /\ Trusted(rest)
    <2>1. ASSUME NEW s \in Side, Arrived(s), NEW rest \in After(s)
          PROVE  rest \in Mail /\ Trusted(rest)
      <3>1. rest \in Mail /\ Within(rest, net)
        BY <2>1, ReadTyped
      <3> QED BY <1>a, <3>1, TrustedWithin
    <2> QED BY <2>1
  <1>d. \A s \in Side, body \in Body \ {"proof"}, all \in Mail :
          Trusted(all) => With(all, s, body) \in Mail /\ Trusted(With(all, s, body))
    BY TrustedWith
  <1>e. \A body \in {"key", "answer", "text"} \cup Tokens \cup NickKinds : body \in Body \ {"proof"}
    BY DEF Body, Tokens, NickKinds
  <1>1. ASSUME SendKey PROVE AgreementInv'
    <2>1. Trusted(net')
      BY <1>1, <1>a, <1>b, <1>d, <1>e DEF SendKey
    <2>2. pc'.server = "answer"
      BY <1>1, <1>a, <1>b DEF SendKey, Goto
    <2> QED BY <1>1, <2>1, <2>2, AgreementKept DEF SendKey
  <1>2. ASSUME TakeAnswer PROVE AgreementInv'
    <2>1. PICK rest \in After("server") :
            IF ~InPlace("server")
            THEN End("server", rest, "misplaced") /\ UNCHANGED toolVars
            ELSE IF ~AnswerVerifies(Head(net.server))
            THEN End("server", rest, "secret") /\ UNCHANGED toolVars
            ELSE IF ~NumberParses
            THEN End("server", rest, "number") /\ UNCHANGED toolVars
            ELSE /\ net' = With(rest, "server", "proof")
                 /\ Import("server")
                 /\ Goto("server", "nick")
                 /\ UNCHANGED why
      BY <1>2 DEF TakeAnswer
    <2>2. rest \in Mail /\ Trusted(rest)
      BY <1>2, <1>b, <1>c DEF TakeAnswer
    <2>3. CASE /\ \E reason \in {"misplaced", "secret", "number"} : End("server", rest, reason)
               /\ UNCHANGED tools
      <3>1. PICK reason \in Reasons : End("server", rest, reason)
        BY <2>3 DEF Reasons
      <3> QED BY <1>2, <1>b, <2>2, <2>3, <3>1, EndAgreement DEF TakeAnswer
    <2>4. CASE /\ net' = With(rest, "server", "proof") /\ Import("server")
               /\ Goto("server", "nick") /\ AnswerVerifies(Head(net.server))
      <3>1. secretsMatch /\ UNCHANGED secretsMatch
        BY <1>2, <2>4 DEF AnswerVerifies, TakeAnswer
      <3>2. pc'.server = "nick"
        BY <1>a, <1>b, <2>4 DEF Goto
      <3>3. tools'.server = TRUE /\ tools'.client = tools.client
        BY <1>b, <2>4 DEF Import, TypeOK, Side
      <3>4. \A i \in 1 .. Len(net'.server) : net'.server[i].form = "cipher" => tools.client
        <4>1. ASSUME NEW i \in 1 .. Len(net'.server), net'.server[i].form = "cipher"
              PROVE  tools.client
          <5>1. "proof" \in Body /\ Peer("server") # "server"
            BY DEF Body, Peer
          <5> DEFINE more == With(rest, "server", "proof")
          <5>2. \A t \in Side : \A k \in 1 .. Len(more[t]) :
                  (\E j \in 1 .. Len(rest[t]) : more[t][k] = rest[t][j]) \/ t = Peer("server")
            BY <1>b, <2>2, <5>1, WithAdds
          <5>3. net' = more
            BY <2>4
          <5> HIDE DEF more
          <5>4. \E j \in 1 .. Len(rest.server) : net'.server[i] = rest.server[j]
            BY <1>b, <4>1, <5>1, <5>2, <5>3
          <5> QED BY <2>2, <4>1, <5>4 DEF Trusted
        <4> QED BY <4>1
      <3>5. Trusted(net)'
        BY <3>3, <3>4 DEF Trusted
      <3> QED BY <1>b, <2>4, <3>1, <3>2, <3>5, ImportAgreement
    <2> QED BY <2>1, <2>3, <2>4
  <1>3. ASSUME TakeNick PROVE AgreementInv'
    <2>1. PICK rest \in After("server") :
            LET nick == Head(net.server).body IN
            IF ~InPlace("server")
            THEN /\ UNCHANGED readSeq
                 /\ IF Fault("server") = "misplaced"
                    THEN /\ End("server", Refuse(rest, "MALFORMED_PACKET"), "misplaced")
                         /\ Count("server")
                    ELSE End("server", rest, "hmac") /\ UNCHANGED writeSeq
            ELSE /\ Expect("server")
                 /\ IF nick \in DOMAIN RefusalOf
                    THEN End("server", Refuse(rest, RefusalOf[nick]), "nick") /\ Count("server")
                    ELSE Goto("server", "serving") /\ net' = rest /\ UNCHANGED <<why, writeSeq>>
      BY <1>3 DEF TakeNick
    <2>2. rest \in Mail /\ Trusted(rest)
      BY <1>3, <1>b, <1>c DEF TakeNick
    <2>3. \A token \in Tokens : Refuse(rest, token) \in Mail /\ Trusted(Refuse(rest, token))
      BY <1>b, <1>d, <1>e, <2>2 DEF Refuse
    <2>4. "MALFORMED_PACKET" \in Tokens /\ \A nick \in DOMAIN RefusalOf : RefusalOf[nick] \in Tokens
      BY DEF Tokens, RefusalOf
    <2>5. CASE \E token \in Tokens, reason \in {"misplaced", "nick"} :
                 End("server", Refuse(rest, token), reason)
      <3>1. PICK token \in Tokens, reason \in Reasons : End("server", Refuse(rest, token), reason)
        BY <2>5 DEF Reasons
      <3> QED BY <1>3, <1>b, <2>3, <3>1, EndAgreement DEF TakeNick
    <2>6. CASE InPlace("server") /\ Goto("server", "serving") /\ net' = rest
      <3>1. tools.server
        BY <1>3 DEF TakeNick, AgreementInv
      <3>2. Head(net.server).form = "cipher" /\ Head(net.server) = net.server[1]
            /\ 1 \in 1 .. Len(net.server)
        BY <1>3, <1>b, <2>6, <3>1, ReadTyped DEF TakeNick, InPlace
      <3>3. tools.client
        BY <1>a, <3>2 DEF Trusted
      <3>4. pc'.server = "serving"
        BY <1>a, <1>b, <2>6 DEF Goto
      <3> QED BY <1>3, <2>2, <2>6, <3>3, <3>4, AgreementKept DEF TakeNick
    <2>7. CASE End("server", rest, "hmac")
      BY <1>3, <1>b, <2>2, <2>7, EndAgreement DEF TakeNick, Reasons
    <2> QED BY <2>1, <2>4, <2>5, <2>6, <2>7
  <1>4. ASSUME TimeOut PROVE AgreementInv'
    <2>1. With(net, "server", "TIMEOUT") \in Mail /\ Trusted(With(net, "server", "TIMEOUT"))
      BY <1>a, <1>b, <1>d, <1>e DEF Tokens
    <2> QED BY <1>4, <1>b, <2>1, EndAgreement DEF TimeOut, Reasons
  <1>5. ASSUME TakeKey PROVE AgreementInv'
    <2>1. PICK rest \in After("client") :
            IF InPlace("client") /\ Head(net.client).body = "key"
            THEN /\ net' = With(rest, "client", "answer")
                 /\ Goto("client", "proof")
                 /\ UNCHANGED why
            ELSE End("client", rest, "misplaced")
      BY <1>5 DEF TakeKey
    <2>2. rest \in Mail /\ Trusted(rest)
      BY <1>5, <1>b, <1>c DEF TakeKey
    <2>3. CASE End("client", rest, "misplaced")
      BY <1>5, <1>b, <2>2, <2>3, EndAgreement DEF TakeKey, Reasons
    <2>4. CASE net' = With(rest, "client", "answer") /\ Goto("client", "proof")
      <3>1. Trusted(net')
        BY <1>b, <1>d, <1>e, <2>2, <2>4
      <3>2. pc'.server = pc.server
        BY <1>a, <1>b, <2>4 DEF Goto
      <3> QED BY <1>5, <3>1, <3>2, AgreementKept DEF TakeKey
    <2> QED BY <2>1, <2>3, <2>4
  <1>6. ASSUME TakeProof PROVE AgreementInv'
    <2>1. PICK rest \in After("client") :
            IF ~InPlace("client")
            THEN End("client", rest, "misplaced") /\ UNCHANGED toolVars
            ELSE IF ~ProofVerifies(Head(net.client))
            THEN End("client", rest, "proof") /\ UNCHANGED toolVars
            ELSE /\ net' = rest
                 /\ Import("client")
                 /\ Goto("client", "nick")
                 /\ UNCHANGED why
      BY <1>6 DEF TakeProof
    <2>2. rest \in Mail /\ Trusted(rest)
      BY <1>6, <1>b, <1>c DEF TakeProof
    <2>3. CASE /\ \E reason \in {"misplaced", "proof"} : End("client", rest, reason)
               /\ UNCHANGED tools
      <3>1. PICK reason \in Reasons : End("client", rest, reason)
        BY <2>3 DEF Reasons
      <3> QED BY <1>6, <1>b, <2>2, <2>3, <3>1, EndAgreement DEF TakeProof
    <2>4. CASE net' = rest /\ Import("client") /\ Goto("client", "nick")
               /\ ProofVerifies(Head(net.client))
      <3>1. secretsMatch /\ UNCHANGED secretsMatch
        BY <1>6, <2>4 DEF ProofVerifies, TakeProof
      <3>2. tools.server
        <4>1. net.client[1].body = "proof" /\ 1 \in 1 .. Len(net.client)
          BY <1>6, <1>b, <2>4, ReadTyped DEF TakeProof, ProofVerifies
        <4> QED BY <1>a, <4>1 DEF Trusted
      <3>3. pc'.server = pc.server
        BY <1>a, <1>b, <2>4 DEF Goto
      <3>4. tools'.client = TRUE /\ tools'.server = tools.server
        BY <1>b, <2>4 DEF Import, TypeOK, Side
      <3>5. Trusted(net)'
        BY <3>2, <3>4 DEF Trusted
      <3> QED BY <1>b, <2>4, <3>1, <3>2, <3>3, <3>5, ImportAgreement
    <2> QED BY <2>1, <2>3, <2>4
  <1>7. ASSUME NEW nick \in Nicks, TypeNick(nick) PROVE AgreementInv'
    <2>1. PICK packets \in {net, [net EXCEPT !.client = HalfRead(@)]} :
            IF nick = "huge"
            THEN End("client", packets, "unwritable") /\ UNCHANGED writeSeq
            ELSE /\ net' = With(packets, "client", nick)
                 /\ Count("client")
                 /\ Goto("client", "chatting")
                 /\ UNCHANGED why
      BY <1>7 DEF TypeNick
    <2>2. packets \in Mail /\ Trusted(packets)
      <3>1. Within(packets, net)
        BY <1>a, <2>1, HalfReadWithin, WithinItself
      <3> QED BY <1>a, <3>1, TrustedWithin DEF Within
    <2>3. CASE End("client", packets, "unwritable")
      BY <1>7, <1>b, <2>2, <2>3, EndAgreement DEF TypeNick, Reasons
    <2>4. CASE net' = With(packets, "client", nick) /\ Goto("client", "chatting")
      <3>1. nick \in Body \ {"proof"}
        BY <1>e, HandshakeConstants
      <3>2. Trusted(net')
        BY <1>b, <1>d, <2>2, <2>4, <3>1
      <3>3. pc'.server = pc.server
        BY <1>a, <1>b, <2>4 DEF Goto
      <3> QED BY <1>7, <3>2, <3>3, AgreementKept DEF TypeNick
    <2> QED BY <2>1, <2>3, <2>4
  <1>8. ASSUME TakeResponse PROVE AgreementInv'
    <2>1. PICK rest \in After("client") :
            LET response == Head(net.client).body IN
            IF ~InPlace("client")
            THEN End("client", rest, Fault("client")) /\ UNCHANGED <<readSeq, told>>
            ELSE /\ Expect("client")
                 /\ told' = told \cup ({response} \cap Tokens)
                 /\ IF response = "OK"
                    THEN Goto("client", "chatting") /\ net' = rest /\ UNCHANGED why
                    ELSE End("client", rest, "refused")
      BY <1>8 DEF TakeResponse
    <2>2. rest \in Mail /\ Trusted(rest)
      BY <1>8, <1>b, <1>c DEF TakeResponse
    <2>3. CASE \E reason \in {Fault("client"), "refused"} : End("client", rest, reason)
      <3>1. PICK reason \in Reasons : End("client", rest, reason)
        BY <1>b, <2>3, FaultTyped DEF Reasons
      <3> QED BY <1>8, <1>b, <2>2, <3>1, EndAgreement DEF TakeResponse
    <2>4. CASE Goto("client", "chatting") /\ net' = rest
      <3>1. pc'.server = pc.server
        BY <1>a, <1>b, <2>4 DEF Goto
      <3> QED BY <1>8, <2>2, <2>4, <3>1, AgreementKept DEF TakeResponse
    <2> QED BY <2>1, <2>3, <2>4
  <1>9. ASSUME NEW s \in Side, Say(s) PROVE AgreementInv'
    <2>1. Trusted(net')
      BY <1>9, <1>a, <1>d, <1>e DEF Say
    <2> QED BY <1>9, <2>1, AgreementKept DEF Say
  <1>10. ASSUME NEW s \in Side, Hear(s) PROVE AgreementInv'
    <2>1. PICK rest \in After(s) :
            IF ~InPlace(s)
            THEN End(s, rest, Fault(s)) /\ UNCHANGED <<readSeq, told>>
            ELSE /\ net' = rest
                 /\ Expect(s)
                 /\ told' = IF s = "client" THEN told \cup ({Head(net[s]).body} \cap Tokens)
                            ELSE told
                 /\ UNCHANGED <<pc, why>>
      BY <1>10 DEF Hear
    <2>2. rest \in Mail /\ Trusted(rest)
      BY <1>10, <1>c DEF Hear
    <2>3. CASE End(s, rest, Fault(s))
      BY <1>10, <2>2, <2>3, EndAgreement, FaultTyped DEF Hear
    <2>4. CASE net' = rest /\ UNCHANGED pc
      BY <1>10, <2>2, <2>4, AgreementKept DEF Hear
    <2> QED BY <2>1, <2>3, <2>4
  <1>11. ASSUME NEW s \in Side, ReadEnd(s) \/ GiveUp(s) PROVE AgreementInv'
    <2>1. PICK reason \in Reasons : End(s, net, reason)
      BY <1>11 DEF ReadEnd, GiveUp, Reasons
    <2> QED BY <1>11, <1>a, <2>1, EndAgreement DEF ReadEnd, GiveUp
  <1>12. ASSUME OtherBranch PROVE AgreementInv'
    <2>1. Trusted(net')
      <3>1. CASE UNCHANGED net
        BY <1>a, <3>1
      <3>2. CASE net.server # <<>> /\ net' = [net EXCEPT !.server = Tail(@)]
        BY <1>a, <3>2, TailWithin, TrustedWithin
      <3> QED BY <1>12, <3>1, <3>2 DEF OtherBranch
    <2> QED BY <1>12, <2>1, AgreementKept DEF OtherBranch
  <1>13. ASSUME ReadTorn PROVE AgreementInv'
    BY <1>13, <1>a, <1>b, EndAgreement DEF ReadTorn, Reasons
  <1>14. CASE UNCHANGED vars
    BY <1>14, <1>a, AgreementKept DEF vars
  <1> QED
    BY <1>1, <1>2, <1>3, <1>4, <1>5, <1>6, <1>7, <1>8, <1>9, <1>10, <1>11, <1>12, <1>13,
       <1>14, <1>b
    DEF Next, ServerGoesOn, ClientGoesOn, ReadBranch, RecvMsg

LEMMA InitAgreement == Init => AgreementInv
  BY DEF Init, AgreementInv, Agreement, Trusted, Side

(* Keys are used only between holders of one secret, the client has them   *)
(* only if the server has, and the server serves nobody who has not        *)
(* verified it in turn: whatever is dropped, torn, timed out or typed      *)
(* (key_exchange of both sides, handshake).                                *)
THEOREM SidesAgree == Spec => []Agreement
  <1>1. Spec => [](TypeOK /\ AgreementInv)
    BY InitTyped, StepTyped, InitAgreement, StepAgreement, PTL DEF Spec
  <1>2. AgreementInv => Agreement
    BY DEF AgreementInv
  <1> QED BY <1>1, <1>2, PTL

-----------------------------------------------------------------------------
(* The numbers go round.                                                   *)

LEMMA Division ==
  ASSUME NEW m \in Nat, m > 0, NEW j \in Nat
  PROVE  j = (j \div m) * m + (j % m) /\ j % m \in 0 .. (m - 1) /\ j \div m \in Nat
  OBVIOUS

LEMMA Multiples ==
  ASSUME NEW m \in Nat, NEW d \in Int
  PROVE  (d >= 1 => d * m >= m) /\ (d <= 0 - 1 => d * m <= 0 - m)
  OBVIOUS

LEMMA OneRound ==
  ASSUME NEW m \in Nat, m > 0, NEW j \in Nat
  PROVE  (m + j) % m = j % m
  <1> DEFINE p == (m + j) \div m
             q == j \div m
             d == p - q - 1
             r == (m + j) % m
             t == j % m
  <1>1. /\ m + j = p * m + r /\ r \in 0 .. (m - 1) /\ p \in Nat
        /\ j = q * m + t /\ t \in 0 .. (m - 1) /\ q \in Nat
    BY Division
  <1> HIDE DEF p, q, r, t
  <1>2. d * m = p * m - q * m - m
    BY <1>1
  <1>3. d * m = t - r
    BY <1>1, <1>2
  <1>4. (d >= 1 => d * m >= m) /\ (d <= 0 - 1 => d * m <= 0 - m) /\ d \in Int
    BY <1>1, Multiples
  <1>5. d = 0
    <2> HIDE DEF d
    <2> QED BY <1>1, <1>3, <1>4
  <1>6. r = t
    BY <1>1, <1>3, <1>5
  <1> QED BY <1>6 DEF r, t

(* Counting on from the next number is counting on from this one.          *)
LEMMA CountingOn ==
  ASSUME NEW number \in 0 .. (SeqModulus - 1), NEW j \in Nat
  PROVE  /\ (NextNumber(number) + j) % SeqModulus = (number + (j + 1)) % SeqModulus
         /\ NextNumber((number + j) % SeqModulus) = (number + (j + 1)) % SeqModulus
         /\ (number + 0) % SeqModulus = number
         /\ NextNumber(number) \in 0 .. (SeqModulus - 1)
  <1>a. SeqModulus \in Nat /\ SeqModulus > 0 /\ number \in Nat /\ number < SeqModulus
    BY HandshakeConstants
  <1>1. ASSUME NEW n \in 0 .. (SeqModulus - 1), NEW i \in Nat
        PROVE  (NextNumber(n) + i) % SeqModulus = (n + (i + 1)) % SeqModulus
    <2>1. CASE n + 1 < SeqModulus
      <3>1. (n + 1) % SeqModulus = n + 1
        BY <1>a, <2>1
      <3>2. (n + 1) + i = n + (i + 1)
        OBVIOUS
      <3> QED BY <3>1, <3>2 DEF NextNumber
    <2>2. CASE n + 1 = SeqModulus
      <3>1. (n + 1) % SeqModulus = 0
        BY <1>a, <2>2
      <3>2. (SeqModulus + i) % SeqModulus = i % SeqModulus
        BY <1>a, OneRound
      <3>3. n + (i + 1) = SeqModulus + i /\ 0 + i = i
        BY <1>a, <2>2
      <3> QED BY <3>1, <3>2, <3>3 DEF NextNumber
    <2> QED BY <1>a, <2>1, <2>2
  <1>2. (number + 0) % SeqModulus = number
    BY <1>a
  <1>3. \A n \in 0 .. (SeqModulus - 1) : NextNumber(n) \in 0 .. (SeqModulus - 1)
    BY <1>a DEF NextNumber
  <1>4. NextNumber((number + j) % SeqModulus) = (number + (j + 1)) % SeqModulus
    <2> DEFINE all == number + j
               part == all % SeqModulus
               rounds == all \div SeqModulus
    <2>1. all \in Nat
      BY <1>a
    <2> HIDE DEF all
    <2>2. part \in 0 .. (SeqModulus - 1)
      BY <1>a, <2>1, Division
    <2>3. NextNumber(part) = (all + 1) % SeqModulus
      <3>1. all = rounds * SeqModulus + part /\ rounds \in Nat
        BY <1>a, <2>1, Division
      <3> HIDE DEF part, rounds
      <3> QED BY <1>a, <2>1, <2>2, <3>1, SMTT(30) DEF NextNumber
    <2>4. all + 1 = number + (j + 1)
      BY <1>a DEF all
    <2> QED BY <2>3, <2>4 DEF part, all
  <1> QED BY <1>1, <1>2, <1>3, <1>4

LEMMA CountingOnward ==
  ASSUME NEW number \in 0 .. (SeqModulus - 1), NEW d \in Nat, NEW j \in Nat
  PROVE  /\ (NextNumber(number) + d + j) % SeqModulus = (number + d + (j + 1)) % SeqModulus
         /\ NextNumber((number + d + j) % SeqModulus) = (number + d + (j + 1)) % SeqModulus
  <1>a. SeqModulus \in Nat /\ number \in Nat /\ d + j \in Nat
        /\ NextNumber(number) \in 0 .. (SeqModulus - 1)
    BY HandshakeConstants, CountingOn
  <1>1. /\ (NextNumber(number) + (d + j)) % SeqModulus = (number + ((d + j) + 1)) % SeqModulus
        /\ NextNumber((number + (d + j)) % SeqModulus) = (number + ((d + j) + 1)) % SeqModulus
    BY <1>a, CountingOn
  <1>2. /\ NextNumber(number) + d + j = NextNumber(number) + (d + j)
        /\ number + d + j = number + (d + j)
        /\ number + d + (j + 1) = number + ((d + j) + 1)
    BY <1>a
  <1> QED BY <1>1, <1>2

-----------------------------------------------------------------------------
(* The packets to one side, one by one: what writes, reads and closings do *)
(* to them.                                                                *)

LEMMA Sides ==
  /\ "server" \in Side /\ "client" \in Side
  /\ Peer("server") = "client" /\ Peer("client") = "server"
  /\ \A s \in Side : /\ s = "server" \/ s = "client"
                     /\ Peer(s) \in Side /\ Peer(s) # s /\ Peer(Peer(s)) = s
  BY DEF Side, Peer

\* The packet that s writes next.
Written(s, body) ==
  [form  |-> IF tools[s] THEN "cipher" ELSE "plain",
   seq   |-> IF tools[s] THEN writeSeq[s] ELSE 0,
   body  |-> body,
   whole |-> TRUE]

\* `longer` is `queue` with one packet more.
Added(longer, queue, packet) ==
  /\ Len(longer) = Len(queue) + 1
  /\ longer[Len(queue) + 1] = packet
  /\ \A i \in 1 .. Len(queue) : longer[i] = queue[i]

\* `shorter` is the start of `queue`.
Cut(shorter, queue) ==
  /\ Len(shorter) <= Len(queue)
  /\ \A i \in 1 .. Len(shorter) : shorter[i] = queue[i]

\* `some` is `queue`, but for parts of packets.
Alike(some, queue) ==
  /\ Len(some) = Len(queue)
  /\ \A i \in 1 .. Len(some) :
       /\ some[i].form = queue[i].form /\ some[i].seq = queue[i].seq
       /\ some[i].body = queue[i].body

LEMMA WrittenPacket ==
  ASSUME TypeOK, NEW s \in Side, NEW body \in Body
  PROVE  /\ Written(s, body) \in Packet
         /\ Written(s, body).body = body /\ Written(s, body).whole
         /\ tools[s] => Written(s, body).form = "cipher" /\ Written(s, body).seq = writeSeq[s]
         /\ ~tools[s] => Written(s, body).form = "plain"
  <1>1. 0 \in 0 .. (SeqModulus - 1) /\ writeSeq[s] \in 0 .. (SeqModulus - 1)
    BY HandshakeConstants DEF TypeOK
  <1> QED BY <1>1 DEF Packet, Written

LEMMA WithLane ==
  ASSUME TypeOK, NEW s \in Side, NEW all \in Mail, NEW body \in Body
  PROVE  /\ With(all, s, body) \in Mail
         /\ With(all, s, body)[s] = all[s]
         /\ pc[Peer(s)] = "ended" => With(all, s, body) = all
         /\ pc[Peer(s)] # "ended" =>
              Added(With(all, s, body)[Peer(s)], all[Peer(s)], Written(s, body))
  <1> DEFINE packet == Written(s, body)
             more == [all EXCEPT ![Peer(s)] = Append(@, packet)]
  <1>1. packet \in Packet
    BY WrittenPacket
  <1>2. With(all, s, body) = IF pc[Peer(s)] = "ended" THEN all ELSE more
    BY DEF With, Written
  <1> HIDE DEF packet
  <1>3. Peer(s) \in Side /\ Peer(s) # s /\ all[Peer(s)] \in Seq(Packet)
    BY Sides DEF Mail
  <1>4. more \in Mail /\ more[s] = all[s] /\ more[Peer(s)] = Append(all[Peer(s)], packet)
    BY <1>1, <1>3 DEF Mail
  <1>5. ASSUME NEW queue \in Seq(Packet) PROVE Added(Append(queue, packet), queue, packet)
    BY <1>1 DEF Added
  <1> QED BY <1>2, <1>3, <1>4, <1>5 DEF packet

LEMMA EndLane ==
  ASSUME TypeOK, NEW s \in Side, NEW packets \in Mail, NEW reason, End(s, packets, reason)
  PROVE  /\ pc' = [pc EXCEPT ![s] = "ended"] /\ why' = [why EXCEPT ![s] = reason]
         /\ net' \in Mail /\ net'[s] = <<>> /\ Cut(net'[Peer(s)], packets[Peer(s)])
  <1>1. Peer(s) \in Side /\ Peer(s) # s /\ packets[Peer(s)] \in Seq(Packet)
    BY Sides DEF Mail
  <1>2. PICK n \in 0 .. Len(packets[Peer(s)]) :
          net' = [packets EXCEPT ![s] = <<>>, ![Peer(s)] = SubSeq(@, 1, n)]
    <2>1. Len(packets[Peer(s)]) \in 0 .. Len(packets[Peer(s)])
      BY <1>1
    <2> QED BY <2>1 DEF End, Survivors
  <1> DEFINE cut == SubSeq(packets[Peer(s)], 1, n)
             emptied == [packets EXCEPT ![s] = <<>>]
  <1>3. cut \in Seq(Packet) /\ Cut(cut, packets[Peer(s)])
    <2>1. ASSUME NEW queue \in Seq(Packet), n \in 0 .. Len(queue)
          PROVE  SubSeq(queue, 1, n) \in Seq(Packet) /\ Cut(SubSeq(queue, 1, n), queue)
      BY <2>1 DEF Cut
    <2> QED BY <1>1, <2>1
  <1>4. net' = [emptied EXCEPT ![Peer(s)] = cut]
    BY <1>1, <1>2 DEF Mail
  <1>5. <<>> \in Seq(Packet)
    OBVIOUS
  <1> HIDE DEF cut
  <1>6. net' \in Mail /\ net'[s] = <<>> /\ net'[Peer(s)] = cut
    BY <1>1, <1>3, <1>4, <1>5 DEF Mail
  <1> QED BY <1>3, <1>6 DEF End, Goto

LEMMA TornAlike ==
  ASSUME NEW packet \in Packet
  PROVE  /\ Torn(packet) \in Packet /\ Torn(packet).form = packet.form
         /\ Torn(packet).seq = packet.seq /\ Torn(packet).body = packet.body
  BY DEF Torn, Packet

LEMMA BehindSecond ==
  ASSUME NEW S, NEW queue \in Seq(S), Len(queue) >= 2
  PROVE  /\ SubSeq(queue, 3, Len(queue)) \in Seq(S)
         /\ Len(SubSeq(queue, 3, Len(queue))) = Len(queue) - 2
         /\ \A i \in 1 .. (Len(queue) - 2) : SubSeq(queue, 3, Len(queue))[i] = queue[i + 2]
  <1> DEFINE n == Len(queue) - 2
             rest == SubSeq(queue, 3, Len(queue))
  <1>1. n \in Nat /\ Len(queue) = n + 2
    OBVIOUS
  <1>2. rest = [i \in 1 .. n |-> queue[i + 2]]
    OBVIOUS
  <1>3. \A i \in 1 .. n : queue[i + 2] \in S
    <2> HIDE DEF n
    <2> QED BY <1>1
  <1> HIDE DEF n, rest
  <1>4. rest \in Seq(S) /\ Len(rest) = n /\ \A i \in 1 .. n : rest[i] = queue[i + 2]
    BY <1>1, <1>2, <1>3
  <1> QED BY <1>4 DEF n, rest

\* The rest after a read: shifted, and torn at most in plain sight of another
\* packet.
LEMMA AfterLane ==
  ASSUME TypeOK, NEW s \in Side, Arrived(s), NEW rest \in After(s)
  PROVE  /\ rest \in Mail /\ rest[Peer(s)] = net[Peer(s)]
         /\ Len(net[s]) >= 1 /\ Head(net[s]) = net[s][1] /\ Head(net[s]) \in Packet
         /\ Len(rest[s]) = Len(net[s]) - 1
         /\ Alike(rest[s], Tail(net[s]))
         /\ tools[s] \/ Len(net[s]) = 1 => rest[s] = Tail(net[s])
  <1> DEFINE queue == net[s]
             torn == <<Torn(queue[2])>> \o SubSeq(queue, 3, Len(queue))
  <1>1. net \in Mail /\ queue \in Seq(Packet) /\ queue # <<>> /\ Peer(s) \in Side /\ Peer(s) # s
    BY Sides DEF TypeOK, Mail, Arrived
  <1>2. rest = [net EXCEPT ![s] = Tail(queue)]
        \/ /\ ~(tools[s] \/ Len(queue) = 1)
           /\ rest = [net EXCEPT ![s] = torn]
    BY DEF After
  <1>3. /\ Len(queue) >= 1 /\ Head(queue) = queue[1] /\ Head(queue) \in Packet
        /\ Tail(queue) \in Seq(Packet) /\ Len(Tail(queue)) = Len(queue) - 1
        /\ \A i \in 1 .. Len(Tail(queue)) : Tail(queue)[i] = queue[i + 1]
    <2> HIDE DEF queue
    <2> QED BY <1>1
  <1>4. Len(queue) # 1 => torn \in Seq(Packet) /\ Alike(torn, Tail(queue))
    <2> SUFFICES ASSUME Len(queue) # 1 PROVE torn \in Seq(Packet) /\ Alike(torn, Tail(queue))
      OBVIOUS
    <2> HIDE DEF queue
    <2>1. Len(queue) >= 2 /\ queue[2] \in Packet
      BY <1>1, <1>3
    <2>2. /\ Torn(queue[2]) \in Packet /\ Torn(queue[2]).form = queue[2].form
          /\ Torn(queue[2]).seq = queue[2].seq /\ Torn(queue[2]).body = queue[2].body
      BY <2>1, TornAlike
    <2>3. /\ SubSeq(queue, 3, Len(queue)) \in Seq(Packet)
          /\ Len(SubSeq(queue, 3, Len(queue))) = Len(queue) - 2
          /\ \A i \in 1 .. (Len(queue) - 2) : SubSeq(queue, 3, Len(queue))[i] = queue[i + 2]
      BY <1>1, <2>1, BehindSecond
    <2>4. torn \in Seq(Packet) /\ Len(torn) = Len(queue) - 1 /\ torn[1] = Torn(queue[2])
          /\ \A i \in 2 .. (Len(queue) - 1) : torn[i] = queue[i + 1]
      BY <1>1, <2>1, <2>2, <2>3
    <2> HIDE DEF torn
    <2>5. ASSUME NEW i \in 1 .. Len(torn)
          PROVE  /\ torn[i].form = Tail(queue)[i].form /\ torn[i].seq = Tail(queue)[i].seq
                 /\ torn[i].body = Tail(queue)[i].body
      <3>1. CASE i = 1
        BY <1>1, <1>3, <2>1, <2>2, <2>4, <3>1
      <3>2. CASE i # 1
        BY <1>1, <1>3, <2>1, <2>4, <3>2
      <3> QED BY <3>1, <3>2
    <2> QED BY <1>3, <2>4, <2>5 DEF Alike
  <1> HIDE DEF torn
  <1>5. Alike(Tail(queue), Tail(queue))
    BY DEF Alike
  <1>6. PICK left \in Seq(Packet) :
          /\ rest = [net EXCEPT ![s] = left] /\ Alike(left, Tail(queue))
          /\ tools[s] \/ Len(queue) = 1 => left = Tail(queue)
    BY <1>2, <1>3, <1>4, <1>5
  <1>7. rest \in Mail /\ rest[s] = left /\ rest[Peer(s)] = net[Peer(s)]
    BY <1>1, <1>6 DEF Mail
  <1>8. Len(left) = Len(queue) - 1
    BY <1>3, <1>6 DEF Alike
  <1> QED BY <1>3, <1>6, <1>7, <1>8

\* What the recv_str that is dropped leaves.
LEMMA HalfReadLane ==
  ASSUME TypeOK, NEW packets \in {net, [net EXCEPT !.client = HalfRead(@)]}
  PROVE  /\ packets \in Mail /\ packets.server = net.server
         /\ Alike(packets.client, net.client)
         /\ net.client = <<>> => packets.client = <<>>
  <1> DEFINE queue == net.client
             half == HalfRead(queue)
  <1>1. net \in Mail /\ queue \in Seq(Packet)
    BY Sides DEF TypeOK, Mail
  <1>2. half \in Seq(Packet) /\ Alike(half, queue) /\ (queue = <<>> => half = <<>>)
    <2> HIDE DEF queue
    <2>1. CASE queue = <<>>
      BY <2>1 DEF HalfRead, Alike
    <2>2. CASE queue # <<>>
      <3>1. Head(queue) \in Packet /\ Head(queue) = queue[1] /\ Len(queue) >= 1
            /\ Tail(queue) \in Seq(Packet) /\ Len(Tail(queue)) = Len(queue) - 1
            /\ \A i \in 1 .. (Len(queue) - 1) : Tail(queue)[i] = queue[i + 1]
        BY <1>1, <2>2
      <3>2. /\ Torn(Head(queue)) \in Packet /\ Torn(Head(queue)).form = queue[1].form
            /\ Torn(Head(queue)).seq = queue[1].seq /\ Torn(Head(queue)).body = queue[1].body
        BY <3>1, TornAlike
      <3>3. half = <<Torn(Head(queue))>> \o Tail(queue)
        BY <2>2 DEF HalfRead
      <3>4. half \in Seq(Packet) /\ Len(half) = Len(queue) /\ half[1] = Torn(Head(queue))
            /\ \A i \in 2 .. Len(queue) : half[i] = queue[i]
        BY <1>1, <3>1, <3>2, <3>3
      <3> HIDE DEF half
      <3> QED BY <1>1, <2>2, <3>2, <3>4 DEF Alike
    <2> QED BY <2>1, <2>2
  <1>3. Alike(queue, queue)
    BY DEF Alike
  <1> HIDE DEF half
  <1>4. packets = net \/ packets = [net EXCEPT !.client = half]
    BY DEF half
  <1>5. [net EXCEPT !.client = half] \in Mail
        /\ [net EXCEPT !.client = half].client = half
        /\ [net EXCEPT !.client = half].server = net.server
    BY <1>1, <1>2, Sides DEF Mail
  <1> QED BY <1>1, <1>2, <1>3, <1>4, <1>5

-----------------------------------------------------------------------------
(* The conversation.  What a side finds under way to it follows from how   *)
(* far the two are: while the keys are exchanged they take turns, so that  *)
(* a lane holds one plain packet at most; after that it is numbered.  Only *)
(* a server that times out speaks out of turn, and it is gone then.        *)

\* The plain packets in front of the numbered ones, once the writer numbers.
PlainAhead(s) == IF tools[s] \/ net[s] = <<>> THEN 0 ELSE 1

\* What the first numbered packet to s bears: the number that s expects, but for
\* the packets that the server has dropped half read.
Base(s) == Expected(s) + Missing(s)

\* After k plain packets, the others count on from `number`.
Counted(queue, k, number) ==
  \A i \in 1 .. Len(queue) :
    /\ i <= k => queue[i].form = "plain"
    /\ i > k => /\ queue[i].form = "cipher"
                /\ queue[i].seq = (number + (i - k - 1)) % SeqModulus

NumbersInv(s) ==
  pc[s] # "ended" /\ tools[Peer(s)] =>
    /\ Counted(net[s], PlainAhead(s), Base(s))
    /\ pc[Peer(s)] # "ended" =>
         writeSeq[Peer(s)] = (Base(s) + (Len(net[s]) - PlainAhead(s))) % SeqModulus

PlainInv(s) == ~tools[Peer(s)] => \A i \in 1 .. Len(net[s]) : net[s][i].form = "plain"

ServerStage ==
  /\ pc.server = "key" =>
       pc.client \in {"key", "ended"} /\ net.client = <<>> /\ net.server = <<>>
  /\ pc.server = "answer" =>
       /\ pc.client = "key" => net.client # <<>>
       /\ pc.client = "proof" => net.client = <<>>
  /\ pc.server \in {"key", "answer"} => ~tools.server
  /\ pc.server = "nick" /\ pc.client = "proof" => net.client # <<>>
  /\ pc.server = "serving" => pc.client \in {"chatting", "ended"}
  /\ pc.server \in {"nick", "serving"} =>
       tools.server /\ (~tools.client => net.server = <<>> /\ readSeq.server = first)

ClientStage ==
  /\ pc.client = "key" =>
       /\ pc.server \in {"key", "answer", "ended"} /\ ~tools.server /\ net.server = <<>>
       /\ net.client # <<>> => net.client[1].body = "key"
  /\ pc.client = "proof" =>
       /\ pc.server \in {"answer", "nick", "ended"} /\ ~tools.client
       /\ net.client # <<>> => net.client[1].body = "proof" \/ TimedOut
  /\ pc.client = "nick" =>
       /\ pc.server \in {"nick", "ended"} /\ tools.client /\ net.server = <<>>
       /\ net.client # <<>> => TimedOut
  /\ pc.client = "chatting" => pc.server \in {"nick", "serving", "ended"} /\ tools.client

\* Nothing is lost before the select! of connection_handler, and what is left of
\* a packet is left of one that was lost.
LossInv ==
  /\ lost # 0 => pc.server \in {"serving", "ended"}
  /\ scrap => lost # 0

EndedInv ==
  /\ \A s \in Side : pc[s] = "ended" => net[s] = <<>>
  /\ why.server # "none" => pc.server = "ended"

TalkInv ==
  /\ EndedInv /\ ServerStage /\ ClientStage
  /\ \A s \in Side : NumbersInv(s) /\ PlainInv(s)
  /\ TurnsAreKept /\ EndsAreExplained

LEMMA CountedAdded ==
  ASSUME NEW queue \in Seq(Packet), NEW longer \in Seq(Packet), NEW packet,
         NEW k \in Nat, NEW number \in Nat, k <= Len(queue),
         Counted(queue, k, number), Added(longer, queue, packet),
         packet.form = "cipher", packet.seq = (number + (Len(queue) - k)) % SeqModulus
  PROVE  Counted(longer, k, number)
  <1> SUFFICES ASSUME NEW i \in 1 .. Len(longer)
               PROVE  /\ i <= k => longer[i].form = "plain"
                      /\ i > k => /\ longer[i].form = "cipher"
                                  /\ longer[i].seq = (number + (i - k - 1)) % SeqModulus
    BY DEF Counted
  <1>1. Len(longer) = Len(queue) + 1 /\ Len(queue) \in Nat
    BY DEF Added
  <1>2. CASE i \in 1 .. Len(queue)
    <2>1. longer[i] = queue[i]
      BY <1>2 DEF Added
    <2> QED BY <1>2, <2>1 DEF Counted
  <1>3. CASE i = Len(queue) + 1
    <2>1. longer[i] = packet /\ i - k - 1 = Len(queue) - k /\ i > k
      BY <1>1, <1>3 DEF Added
    <2> QED BY <2>1
  <1> QED BY <1>1, <1>2, <1>3

LEMMA CountedCut ==
  ASSUME NEW queue \in Seq(Packet), NEW shorter \in Seq(Packet),
         NEW k, NEW number, Counted(queue, k, number), Cut(shorter, queue)
  PROVE  Counted(shorter, k, number)
  <1>1. Len(shorter) <= Len(queue) /\ Len(shorter) \in Nat /\ Len(queue) \in Nat
    BY DEF Cut
  <1>2. \A i \in 1 .. Len(shorter) : i \in 1 .. Len(queue) /\ shorter[i] = queue[i]
    BY <1>1 DEF Cut
  <1> QED BY <1>2 DEF Counted

LEMMA CountedAlike ==
  ASSUME NEW queue \in Seq(Packet), NEW some \in Seq(Packet),
         NEW k, NEW number, Counted(queue, k, number), Alike(some, queue)
  PROVE  Counted(some, k, number)
  BY DEF Counted, Alike

\* The reader takes a numbered packet, and expects the next.
LEMMA CountedNext ==
  ASSUME NEW queue \in Seq(Packet), queue # <<>>, NEW number \in 0 .. (SeqModulus - 1),
         NEW d \in Nat, Counted(queue, 0, number + d)
  PROVE  /\ Counted(Tail(queue), 0, NextNumber(number) + d)
         /\ queue[1].form = "cipher" /\ (d = 0 => queue[1].seq = number)
  <1>1. Len(queue) \in Nat /\ Len(queue) >= 1 /\ Len(Tail(queue)) = Len(queue) - 1
        /\ \A i \in 1 .. Len(Tail(queue)) : Tail(queue)[i] = queue[i + 1]
    OBVIOUS
  <1>2. queue[1].form = "cipher" /\ (d = 0 => queue[1].seq = number)
    <2>1. 1 \in 1 .. Len(queue) /\ 1 > 0 /\ 1 - 0 - 1 = 0
      BY <1>1
    <2>2. queue[1].form = "cipher" /\ queue[1].seq = (number + d + 0) % SeqModulus
      BY <2>1 DEF Counted
    <2>3. ASSUME d = 0 PROVE number + d + 0 = number + 0
      BY <2>3
    <2>4. (number + 0) % SeqModulus = number
      BY CountingOn
    <2> QED BY <2>2, <2>3, <2>4
  <1>3. ASSUME NEW i \in 1 .. Len(Tail(queue))
        PROVE  /\ i <= 0 => Tail(queue)[i].form = "plain"
               /\ i > 0 => /\ Tail(queue)[i].form = "cipher"
                           /\ Tail(queue)[i].seq = (NextNumber(number) + d + (i - 0 - 1)) % SeqModulus
    <2>1. i + 1 \in 1 .. Len(queue) /\ i + 1 > 0 /\ (i + 1) - 0 - 1 = (i - 1) + 1
          /\ Tail(queue)[i] = queue[i + 1] /\ i - 1 \in Nat /\ i - 0 - 1 = i - 1
          /\ ~(i <= 0)
      BY <1>1
    <2>2. (NextNumber(number) + d + (i - 1)) % SeqModulus = (number + d + ((i - 1) + 1)) % SeqModulus
      BY <2>1, CountingOnward
    <2>3. queue[i + 1].form = "cipher"
          /\ queue[i + 1].seq = (number + d + ((i + 1) - 0 - 1)) % SeqModulus
      BY <2>1 DEF Counted
    <2> QED BY <2>1, <2>2, <2>3
  <1> QED BY <1>2, <1>3 DEF Counted

\* A numbered packet is dropped, and the next bears the number after.
LEMMA CountedDropped ==
  ASSUME NEW queue \in Seq(Packet), queue # <<>>, NEW number \in Nat,
         Counted(queue, 0, number)
  PROVE  Counted(Tail(queue), 0, number + 1)
  <1>1. Len(queue) \in Nat /\ Len(queue) >= 1 /\ Len(Tail(queue)) = Len(queue) - 1
        /\ \A i \in 1 .. Len(Tail(queue)) : Tail(queue)[i] = queue[i + 1]
    OBVIOUS
  <1>2. ASSUME NEW i \in 1 .. Len(Tail(queue))
        PROVE  /\ i <= 0 => Tail(queue)[i].form = "plain"
               /\ i > 0 => /\ Tail(queue)[i].form = "cipher"
                           /\ Tail(queue)[i].seq = (number + 1 + (i - 0 - 1)) % SeqModulus
    <2>1. i + 1 \in 1 .. Len(queue) /\ i + 1 > 0 /\ ~(i <= 0)
          /\ number + ((i + 1) - 0 - 1) = number + 1 + (i - 0 - 1)
          /\ Tail(queue)[i] = queue[i + 1]
      BY <1>1
    <2>2. queue[i + 1].form = "cipher"
          /\ queue[i + 1].seq = (number + ((i + 1) - 0 - 1)) % SeqModulus
      BY <2>1 DEF Counted
    <2> QED BY <2>1, <2>2
  <1> QED BY <1>2 DEF Counted

\* The reader takes the last plain packet.
LEMMA CountedFirst ==
  ASSUME NEW queue \in Seq(Packet), queue # <<>>, NEW rest \in Seq(Packet),
         NEW number \in Nat, Counted(queue, 1, number), Alike(rest, Tail(queue))
  PROVE  Counted(rest, 0, number) /\ queue[1].form = "plain"
  <1>1. Len(queue) \in Nat /\ Len(queue) >= 1 /\ Len(Tail(queue)) = Len(queue) - 1
        /\ \A i \in 1 .. Len(Tail(queue)) : Tail(queue)[i] = queue[i + 1]
    OBVIOUS
  <1>2. queue[1].form = "plain"
    BY <1>1 DEF Counted
  <1>3. ASSUME NEW i \in 1 .. Len(rest)
        PROVE  /\ i <= 0 => rest[i].form = "plain"
               /\ i > 0 => /\ rest[i].form = "cipher"
                           /\ rest[i].seq = (number + (i - 0 - 1)) % SeqModulus
    <2>1. i + 1 \in 1 .. Len(queue) /\ i + 1 > 1 /\ (i + 1) - 1 - 1 = i - 0 - 1
          /\ Tail(queue)[i] = queue[i + 1] /\ i > 0
          /\ rest[i].form = Tail(queue)[i].form /\ rest[i].seq = Tail(queue)[i].seq
      BY <1>1 DEF Alike
    <2>2. queue[i + 1].form = "cipher"
          /\ queue[i + 1].seq = (number + ((i + 1) - 1 - 1)) % SeqModulus
      BY <2>1 DEF Counted
    <2> QED BY <2>1, <2>2
  <1> QED BY <1>2, <1>3 DEF Counted

\* What is read is what is expected, if nothing was dropped.
LEMMA AlwaysInPlace ==
  ASSUME TypeOK, AgreementInv, TalkInv, NEW s \in Side, Arrived(s), pc[s] # "ended",
         s = "server" => lost = 0
  PROVE  InPlace(s)
  <1>1. net[s] \in Seq(Packet) /\ net[s] # <<>> /\ Head(net[s]) = net[s][1] /\ 1 \in 1 .. Len(net[s])
    BY Sides DEF TypeOK, Arrived
  <1>2. tools.client => tools.server
    BY DEF AgreementInv, Agreement
  <1>3. CASE tools[s]
    <2>1. tools[Peer(s)]
      <3>1. CASE s = "client"
        BY <1>2, <1>3, <3>1, Sides
      <3>2. CASE s = "server"
        <4>1. pc.server \in {"nick", "serving"}
          BY <1>3, <3>2 DEF TypeOK, TalkInv, ServerStage
        <4> QED BY <1>1, <3>2, <4>1, Sides DEF TalkInv, ServerStage
      <3> QED BY <3>1, <3>2, Sides
    <2>2. Counted(net[s], 0, readSeq[s] + 0)
      BY <1>3, <2>1, Sides DEF TalkInv, NumbersInv, PlainAhead, Base, Expected, Missing
    <2>3. readSeq[s] \in 0 .. (SeqModulus - 1) /\ 0 \in Nat
      BY DEF TypeOK
    <2>4. net[s][1].form = "cipher" /\ net[s][1].seq = readSeq[s]
      BY <1>1, <2>2, <2>3, CountedNext
    <2> QED BY <1>1, <1>3, <2>4 DEF InPlace
  <1>4. CASE ~tools[s] /\ tools[Peer(s)]
    <2>1. Counted(net[s], 1, first + Missing(s))
      BY <1>1, <1>4 DEF TalkInv, NumbersInv, PlainAhead, Base, Expected, Missing
    <2>2. net[s][1].form = "plain"
      BY <1>1, <2>1 DEF Counted
    <2> QED BY <1>1, <1>4, <2>2 DEF InPlace
  <1>5. CASE ~tools[s] /\ ~tools[Peer(s)]
    <2>1. net[s][1].form = "plain"
      BY <1>1, <1>5 DEF TalkInv, PlainInv
    <2> QED BY <1>1, <1>5, <2>1 DEF InPlace
  <1> QED BY <1>3, <1>4, <1>5

LEMMA EmptyCut ==
  ASSUME NEW queue \in Seq(Packet), NEW shorter \in Seq(Packet), Cut(shorter, queue)
  PROVE  /\ queue = <<>> => shorter = <<>>
         /\ Len(shorter) <= Len(queue)
         /\ shorter # <<>> => queue # <<>> /\ shorter[1] = queue[1]
  BY DEF Cut

\* Whole packets stay whole when a queue is cut.
LEMMA WholeCut ==
  ASSUME NEW queue \in Seq(Packet), NEW shorter \in Seq(Packet), Cut(shorter, queue),
         NEW excuse, \A i \in 1 .. Len(queue) : ~queue[i].whole => excuse
  PROVE  \A i \in 1 .. Len(shorter) : ~shorter[i].whole => excuse
  <1>1. ASSUME NEW i \in 1 .. Len(shorter), ~shorter[i].whole PROVE excuse
    <2>1. i \in 1 .. Len(queue) /\ shorter[i] = queue[i]
      <3>1. Len(shorter) <= Len(queue) /\ Len(shorter) \in Nat /\ Len(queue) \in Nat
        BY DEF Cut
      <3> QED BY <3>1 DEF Cut
    <2> QED BY <1>1, <2>1, Zenon
  <1> QED BY <1>1

\* The client is gone: what it has written may still be read.
LEMMA EndOfClient ==
  ASSUME TypeOK, AgreementInv, TalkInv, pc.client # "ended",
         NEW packets \in Mail, packets.server = net.server,
         NEW reason \in Reasons \ {"misplaced", "hmac"},
         reason \in {"proof", "refused"} => TimedOut,
         End("client", packets, reason),
         UNCHANGED <<first, tools, lost>>, readSeq'.server = readSeq.server
  PROVE  TalkInv'
  <1>1. /\ pc' = [pc EXCEPT !["client"] = "ended"] /\ why' = [why EXCEPT !["client"] = reason]
        /\ net' \in Mail /\ net'.client = <<>> /\ Cut(net'.server, net.server)
    BY EndLane, Sides
  <1>2. /\ pc'.client = "ended" /\ pc'.server = pc.server
        /\ why'.client = reason /\ why'.server = why.server
    BY <1>1, Sides DEF TypeOK
  <1>3. net.server \in Seq(Packet) /\ net'.server \in Seq(Packet) /\ Peer("server") = "client"
        /\ Peer("client") = "server" /\ \A s \in Side : s = "server" \/ s = "client"
    BY <1>1, Sides DEF TypeOK, Mail
  <1>4. /\ net.server = <<>> => net'.server = <<>>
        /\ Len(net'.server) <= Len(net.server)
    BY <1>1, <1>3, EmptyCut
  <1>5. EndedInv'
    BY <1>1, <1>2, <1>3, <1>4, Sides DEF TalkInv, EndedInv
  <1>6. ServerStage' /\ ClientStage'
    BY <1>1, <1>2, <1>4 DEF TalkInv, ServerStage, ClientStage
  <1>7. NumbersInv("server")'
    <2> SUFFICES ASSUME pc.server # "ended", tools.client
                 PROVE  Counted(net'.server, PlainAhead("server")', Base("server")')
      BY <1>2, <1>3 DEF NumbersInv
    <2>1. tools.server
      BY DEF AgreementInv, Agreement
    <2>2. Counted(net.server, 0, readSeq.server + lost)
      BY <1>3, <2>1, Sides DEF TalkInv, NumbersInv, PlainAhead, Base, Expected, Missing
    <2>3. Counted(net'.server, 0, readSeq.server + lost)
      BY <1>1, <1>3, <2>2, CountedCut
    <2> QED BY <2>1, <2>3, Sides DEF PlainAhead, Base, Expected, Missing
  <1>8. NumbersInv("client")'
    BY <1>2 DEF NumbersInv
  <1>9. PlainInv("server")' /\ PlainInv("client")'
    <2>1. ~tools.client => \A i \in 1 .. Len(net.server) : net.server[i].form = "plain"
      BY <1>3, Sides DEF TalkInv, PlainInv
    <2>2. \A i \in 1 .. Len(net'.server) : i \in 1 .. Len(net.server) /\ net'.server[i] = net.server[i]
      BY <1>1, <1>3 DEF Cut
    <2> QED BY <1>1, <1>3, <2>1, <2>2 DEF PlainInv
  <1>10. TurnsAreKept'
    <2>1. ~tools.server => ~(Len(net.server) > 1)
      BY Sides DEF TalkInv, TurnsAreKept
    <2> QED BY <1>1, <1>3, <1>4, <2>1 DEF TurnsAreKept
  <1>11. EndsAreExplained'
    <2>1. \A i \in 1 .. Len(net.server) : ~net.server[i].whole => TimedOut
      BY Sides DEF TalkInv, EndsAreExplained
    <2>2. \A i \in 1 .. Len(net'.server) : ~net'.server[i].whole => TimedOut
      BY <1>1, <1>3, <2>1, WholeCut
    <2>3. TimedOut' = TimedOut
      BY <1>2 DEF TimedOut
    <2>4. /\ why'.client \notin {"misplaced", "hmac"}
          /\ why'.server \in {"misplaced", "hmac"} => lost' > 0
      BY <1>2, <1>3, Sides DEF TalkInv, EndsAreExplained
    <2>5. ASSUME NEW s \in Side, NEW i \in 1 .. Len(net'[s]), ~net'[s][i].whole
          PROVE  TimedOut'
      BY <1>1, <1>3, <2>2, <2>3, <2>5
    <2> QED BY <1>2, <2>3, <2>4, <2>5 DEF EndsAreExplained
  <1> QED BY <1>3, <1>5, <1>6, <1>7, <1>8, <1>9, <1>10, <1>11 DEF TalkInv

\* The server is gone: it may have said one thing more.
LEMMA EndOfServer ==
  ASSUME TypeOK, AgreementInv, TalkInv, pc.server # "ended",
         NEW packets \in Mail, NEW reason \in Reasons \ {"none"},
         reason \in {"misplaced", "hmac"} => lost > 0,
         \/ packets.client = net.client
         \/ \E token \in Body :
              /\ pc.client # "ended" /\ pc.server # "key"
              /\ Added(packets.client, net.client, Written("server", token))
              /\ pc.client = "chatting" \/ reason = "timeout",
         End("server", packets, reason),
         UNCHANGED <<first, tools, lost>>, readSeq'.client = readSeq.client
  PROVE  TalkInv'
  <1> DEFINE said == packets.client
  <1>1. /\ pc' = [pc EXCEPT !["server"] = "ended"] /\ why' = [why EXCEPT !["server"] = reason]
        /\ net' \in Mail /\ net'.server = <<>> /\ Cut(net'.client, said)
    BY EndLane, Sides
  <1>2. /\ pc'.server = "ended" /\ pc'.client = pc.client
        /\ why'.server = reason /\ why'.client = why.client
    BY <1>1, Sides DEF TypeOK
  <1>3. /\ net.client \in Seq(Packet) /\ said \in Seq(Packet) /\ net'.client \in Seq(Packet)
        /\ Peer("server") = "client" /\ Peer("client") = "server"
        /\ \A s \in Side : s = "server" \/ s = "client"
    BY <1>1, Sides DEF TypeOK, Mail
  <1>4. ~TimedOut /\ (TimedOut' <=> reason = "timeout")
    BY <1>2 DEF TimedOut, TalkInv, EndedInv
  <1>5. \/ said = net.client
        \/ /\ pc.client # "ended" /\ pc.server # "key"
           /\ \E token \in Body : Added(said, net.client, Written("server", token))
           /\ pc.client = "chatting" \/ reason = "timeout"
    OBVIOUS
  <1>6. /\ net'.client # <<>> => said # <<>> /\ net'.client[1] = said[1]
        /\ said = <<>> => net'.client = <<>>
        /\ Len(net'.client) <= Len(said)
    BY <1>1, <1>3, EmptyCut
  <1>7. net.client # <<>> => said[1] = net.client[1]
    BY <1>3, <1>5 DEF Added
  <1> HIDE DEF said
  <1>8. EndedInv'
    <2>1. pc.client = "ended" => net.client = <<>> /\ said = net.client
      BY <1>5, Sides DEF TalkInv, EndedInv
    <2> QED BY <1>1, <1>2, <1>3, <1>6, <2>1 DEF EndedInv
  <1>9. ServerStage'
    BY <1>2 DEF ServerStage
  <1>10. ClientStage'
    <2>1. pc.client = "key" /\ net'.client # <<>> => net'.client[1].body = "key"
      <3> SUFFICES ASSUME pc.client = "key", net'.client # <<>> PROVE net'.client[1].body = "key"
        OBVIOUS
      <3>1. net.client # <<>>
        BY <1>5, <1>6 DEF TalkInv, ClientStage, ServerStage, TypeOK
      <3> QED BY <1>6, <1>7, <3>1 DEF TalkInv, ClientStage
    <2>2. pc.client = "proof" /\ net'.client # <<>> => net'.client[1].body = "proof" \/ TimedOut'
      BY <1>4, <1>5, <1>6, <1>7 DEF TalkInv, ClientStage
    <2>3. pc.client = "nick" /\ net'.client # <<>> => TimedOut'
      BY <1>4, <1>5, <1>6 DEF TalkInv, ClientStage
    <2> QED BY <1>1, <1>2, <2>1, <2>2, <2>3 DEF TalkInv, ClientStage
  <1>11. NumbersInv("client")'
    <2> SUFFICES ASSUME pc.client # "ended", tools.server
                 PROVE  Counted(net'.client, PlainAhead("client")', Base("client")')
      BY <1>2, <1>3 DEF NumbersInv
    <2> DEFINE k == PlainAhead("client")
               number == Base("client")
    <2>1. /\ Counted(net.client, k, number)
          /\ writeSeq.server = (number + (Len(net.client) - k)) % SeqModulus
      BY <1>3, Sides DEF TalkInv, NumbersInv
    <2>2. k \in Nat /\ k <= Len(net.client) /\ number \in Nat
      <3>1. readSeq.client \in Nat /\ first \in Nat
        BY HandshakeConstants, Sides DEF TypeOK
      <3> QED BY <1>3, <3>1 DEF PlainAhead, Base, Expected, Missing
    <2>3. Counted(said, k, number)
      <3>1. CASE said = net.client
        BY <2>1, <3>1
      <3>2. CASE \E token \in Body : Added(said, net.client, Written("server", token))
        <4>1. PICK token \in Body : Added(said, net.client, Written("server", token))
          BY <3>2
        <4>2. Written("server", token).form = "cipher" /\ Written("server", token).seq = writeSeq.server
          BY Sides, WrittenPacket
        <4> HIDE DEF k, number
        <4> QED BY <1>3, <2>1, <2>2, <4>1, <4>2, CountedAdded
      <3> QED BY <1>5, <3>1, <3>2
    <2>4. Counted(net'.client, k, number)
      BY <1>1, <1>3, <2>3, CountedCut
    <2>5. Base("client")' = number
      BY Sides DEF Base, Expected, Missing
    <2>6. CASE net'.client = <<>>
      BY <2>6 DEF Counted
    <2>7. CASE net'.client # <<>>
      <3>1. tools.client \/ net.client # <<>>
        <4>1. pc.client \in {"proof", "nick", "chatting"}
          BY DEF TalkInv, ClientStage, TypeOK
        <4>2. pc.client = "proof" => net.client # <<>>
          BY <4>1, Sides DEF TalkInv, ClientStage, ServerStage, TypeOK
        <4>3. pc.client # "proof" => tools.client
          BY <4>1 DEF TalkInv, ClientStage
        <4> QED BY <4>2, <4>3
      <3> QED BY <2>4, <2>5, <2>7, <3>1 DEF PlainAhead
    <2> QED BY <2>6, <2>7
  <1>12. NumbersInv("server")'
    BY <1>2 DEF NumbersInv
  <1>13. PlainInv("server")' /\ PlainInv("client")'
    <2>1. ~tools.server => \A i \in 1 .. Len(net.client) : net.client[i].form = "plain"
      BY <1>3, Sides DEF TalkInv, PlainInv
    <2>2. ~tools.server => \A i \in 1 .. Len(said) : said[i].form = "plain"
      <3>1. CASE said = net.client
        BY <2>1, <3>1
      <3>2. CASE \E token \in Body : Added(said, net.client, Written("server", token))
        <4>1. PICK token \in Body : Added(said, net.client, Written("server", token))
          BY <3>2
        <4>2. ~tools.server => Written("server", token).form = "plain"
          BY Sides, WrittenPacket
        <4> QED BY <1>3, <2>1, <4>1, <4>2 DEF Added
      <3> QED BY <1>5, <3>1, <3>2
    <2>3. \A i \in 1 .. Len(net'.client) : i \in 1 .. Len(said) /\ net'.client[i] = said[i]
      BY <1>1, <1>3 DEF Cut
    <2> QED BY <1>1, <1>3, <2>2, <2>3 DEF PlainInv
  <1>14. TurnsAreKept'
    <2>1. ~tools.client => ~(Len(net.client) > 1)
      BY <1>4, Sides DEF TalkInv, TurnsAreKept
    <2>2. pc.client = "chatting" => tools.client
      BY DEF TalkInv, ClientStage
    <2>3. ~tools.client /\ Len(net'.client) > 1 => reason = "timeout"
      BY <1>3, <1>5, <1>6, <2>1, <2>2
    <2> QED BY <1>1, <1>3, <1>4, <2>3 DEF TurnsAreKept
  <1>15. EndsAreExplained'
    <2>1. \A i \in 1 .. Len(net.client) : ~net.client[i].whole => FALSE
      BY <1>4, Sides DEF TalkInv, EndsAreExplained
    <2>2. \A i \in 1 .. Len(said) : ~said[i].whole => FALSE
      <3>1. CASE said = net.client
        BY <2>1, <3>1
      <3>2. CASE \E token \in Body : Added(said, net.client, Written("server", token))
        <4>1. PICK token \in Body : Added(said, net.client, Written("server", token))
          BY <3>2
        <4>2. Written("server", token).whole
          BY Sides, WrittenPacket
        <4>3. \A i \in 1 .. Len(said) : (i \in 1 .. Len(net.client) /\ said[i] = net.client[i])
                                         \/ said[i] = Written("server", token)
          BY <1>3, <4>1 DEF Added
        <4> QED BY <2>1, <4>2, <4>3, Zenon
      <3> QED BY <1>5, <3>1, <3>2
    <2>3. \A i \in 1 .. Len(net'.client) : ~net'.client[i].whole => FALSE
      BY <1>1, <1>3, <2>2, WholeCut
    <2>4. /\ why'.client \notin {"misplaced", "hmac"}
          /\ why'.server \in {"misplaced", "hmac"} => lost' > 0
      BY <1>2, <1>3, Sides DEF TalkInv, EndsAreExplained
    <2>5. why'.client \notin {"proof", "refused"}
      BY <1>2, <1>4 DEF TalkInv, EndsAreExplained
    <2>6. ASSUME NEW s \in Side, NEW i \in 1 .. Len(net'[s]), ~net'[s][i].whole
          PROVE  FALSE
      BY <1>1, <1>3, <2>3, <2>6
    <2> QED BY <2>4, <2>5, <2>6 DEF EndsAreExplained
  <1> QED BY <1>3, <1>8, <1>9, <1>10, <1>11, <1>12, <1>13, <1>14, <1>15 DEF TalkInv

-----------------------------------------------------------------------------
(* What a step does to the numbers of one lane.                            *)

\* Nobody ends, and the tools and the first number stay.
GoOn ==
  /\ \A t \in Side : pc'[t] = "ended" <=> pc[t] = "ended"
  /\ UNCHANGED <<first, tools, why, lost>>

LEMMA NumbersIn ==
  ASSUME TypeOK, NEW s \in Side
  PROVE  /\ net[s] \in Seq(Packet) /\ PlainAhead(s) \in Nat
         /\ PlainAhead(s) <= Len(net[s]) /\ Len(net[s]) \in Nat
         /\ Expected(s) \in 0 .. (SeqModulus - 1) /\ Missing(s) \in Nat
         /\ Base(s) = Expected(s) + Missing(s) /\ Base(s) \in Nat
         /\ readSeq[s] \in 0 .. (SeqModulus - 1) /\ first \in 0 .. (SeqModulus - 1)
         /\ SeqModulus \in Nat
  <1>1. net[s] \in Seq(Packet) /\ readSeq[s] \in 0 .. (SeqModulus - 1)
        /\ first \in 0 .. (SeqModulus - 1) /\ SeqModulus \in Nat
    BY HandshakeConstants DEF TypeOK
  <1>2. Expected(s) \in 0 .. (SeqModulus - 1) /\ Missing(s) \in Nat
    BY <1>1 DEF Expected, Missing, TypeOK
  <1>4. Base(s) = Expected(s) + Missing(s) /\ Base(s) \in Nat
    BY <1>1, <1>2 DEF Base
  <1>3. PlainAhead(s) \in Nat /\ PlainAhead(s) <= Len(net[s]) /\ Len(net[s]) \in Nat
    BY <1>1 DEF PlainAhead
  <1> QED BY <1>1, <1>2, <1>3, <1>4

\* Nothing comes or goes.
LEMMA LaneKept ==
  ASSUME TypeOK, TalkInv, GoOn, NEW s \in Side, net'[s] \in Seq(Packet),
         Alike(net'[s], net[s]), readSeq'[s] = readSeq[s],
         writeSeq'[Peer(s)] = writeSeq[Peer(s)]
  PROVE  NumbersInv(s)' /\ PlainInv(s)'
  <1>1. Peer(s) \in Side /\ net[s] \in Seq(Packet)
    BY Sides, NumbersIn
  <1>2. Len(net'[s]) = Len(net[s]) /\ (net'[s] = <<>> <=> net[s] = <<>>)
    BY <1>1 DEF Alike
  <1>3. PlainAhead(s)' = PlainAhead(s) /\ Base(s)' = Base(s)
    BY <1>2 DEF PlainAhead, Base, Expected, Missing, GoOn
  <1>4. NumbersInv(s)'
    <2> SUFFICES ASSUME pc[s] # "ended", tools[Peer(s)]
                 PROVE  /\ Counted(net'[s], PlainAhead(s), Base(s))
                        /\ pc[Peer(s)] # "ended" =>
                             writeSeq[Peer(s)] = (Base(s) + (Len(net'[s]) - PlainAhead(s))) % SeqModulus
      BY <1>1, <1>3 DEF NumbersInv, GoOn
    <2>1. /\ Counted(net[s], PlainAhead(s), Base(s))
          /\ pc[Peer(s)] # "ended" =>
               writeSeq[Peer(s)] = (Base(s) + (Len(net[s]) - PlainAhead(s))) % SeqModulus
      BY DEF TalkInv, NumbersInv
    <2>2. Counted(net'[s], PlainAhead(s), Base(s))
      BY <1>1, <2>1, CountedAlike
    <2> QED BY <1>2, <2>1, <2>2
  <1>5. PlainInv(s)'
    BY <1>2 DEF TalkInv, PlainInv, Alike, GoOn
  <1> QED BY <1>4, <1>5

LEMMA SameLane ==
  ASSUME NEW queue
  PROVE  Alike(queue, queue)
  BY DEF Alike

\* One packet is written.
LEMMA LaneWritten ==
  ASSUME TypeOK, TalkInv, GoOn, NEW w \in Side, NEW all \in Mail, NEW body \in Body,
         pc[w] # "ended", Alike(all[Peer(w)], net[Peer(w)]),
         net' = With(all, w, body), Count(w), readSeq'[Peer(w)] = readSeq[Peer(w)],
         tools[w] => tools[Peer(w)] \/ net[Peer(w)] # <<>>
  PROVE  NumbersInv(Peer(w))' /\ PlainInv(Peer(w))'
  <1> DEFINE s == Peer(w)
  <1>1. s \in Side /\ Peer(s) = w /\ net[s] \in Seq(Packet) /\ all[s] \in Seq(Packet)
    BY Sides, NumbersIn DEF Mail
  <1>2. /\ With(all, w, body) \in Mail
        /\ pc[s] # "ended" => Added(net'[s], all[s], Written(w, body))
        /\ pc[s] = "ended" => net' = all
    BY WithLane
  <1>3. net'[s] \in Seq(Packet)
    BY <1>1, <1>2 DEF Mail
  <1>4. Len(all[s]) = Len(net[s]) /\ (all[s] = <<>> <=> net[s] = <<>>)
    BY <1>1 DEF Alike
  <1> HIDE DEF s
  <1>5. NumbersInv(s)'
    <2> SUFFICES ASSUME pc[s] # "ended", tools[w]
                 PROVE  /\ Counted(net'[s], PlainAhead(s)', Base(s)')
                        /\ writeSeq'[w] = (Base(s)' + (Len(net'[s]) - PlainAhead(s)')) % SeqModulus
      BY <1>1 DEF NumbersInv, GoOn
    <2> DEFINE k == PlainAhead(s)
               number == Base(s)
    <2>1. Added(net'[s], all[s], Written(w, body))
      BY <1>2
    <2>2. net'[s] # <<>> /\ Len(net'[s]) = Len(net[s]) + 1
      BY <1>1, <1>3, <1>4, <2>1 DEF Added
    <2>3. PlainAhead(s)' = k /\ Base(s)' = number
      BY <2>2 DEF PlainAhead, Base, Expected, Missing, GoOn, s
    <2>4. Counted(net[s], k, number)
          /\ writeSeq[w] = (number + (Len(net[s]) - k)) % SeqModulus
      BY <1>1 DEF TalkInv, NumbersInv
    <2>5. k \in Nat /\ k <= Len(net[s]) /\ number \in Nat
          /\ number = Expected(s) + Missing(s) /\ Missing(s) \in Nat
          /\ Expected(s) \in 0 .. (SeqModulus - 1) /\ Len(net[s]) \in Nat
      BY <1>1, NumbersIn
    <2>6. Written(w, body).form = "cipher" /\ Written(w, body).seq = writeSeq[w]
      BY WrittenPacket
    <2> HIDE DEF k, number
    <2>7. Counted(net'[s], k, number)
      <3>1. Counted(all[s], k, number)
        BY <1>1, <2>4, CountedAlike DEF s
      <3> QED BY <1>1, <1>3, <1>4, <2>1, <2>4, <2>5, <2>6, <3>1, CountedAdded
    <2>8. writeSeq'[w] = NextNumber(writeSeq[w])
      BY DEF Count, TypeOK
    <2>9. NextNumber((number + (Len(net[s]) - k)) % SeqModulus)
            = (number + ((Len(net[s]) - k) + 1)) % SeqModulus
      <3>1. Len(net[s]) - k \in Nat
        BY <2>5
      <3>2. \A j \in Nat : NextNumber((number + j) % SeqModulus) = (number + (j + 1)) % SeqModulus
        BY <2>5, CountingOnward
      <3> QED BY <3>1, <3>2
    <2>10. (Len(net[s]) - k) + 1 = Len(net'[s]) - k
      BY <2>2, <2>5
    <2> QED BY <2>3, <2>4, <2>7, <2>8, <2>9, <2>10
  <1>6. PlainInv(s)'
    <2> SUFFICES ASSUME ~tools[w], NEW i \in 1 .. Len(net'[s])
                 PROVE  net'[s][i].form = "plain"
      BY <1>1 DEF PlainInv, GoOn
    <2>1. \A j \in 1 .. Len(all[s]) : all[s][j].form = "plain"
      BY <1>1 DEF TalkInv, PlainInv, Alike, s
    <2>2. Written(w, body).form = "plain"
      BY WrittenPacket
    <2> QED BY <1>1, <1>2, <2>1, <2>2 DEF Added
  <1> QED BY <1>5, <1>6 DEF s

\* One numbered packet is read.
LEMMA LaneRead ==
  ASSUME TypeOK, TalkInv, GoOn, NEW s \in Side, pc[s] # "ended", tools[s], tools[Peer(s)],
         net[s] # <<>>, net'[s] = Tail(net[s]),
         readSeq'[s] = NextNumber(readSeq[s]), writeSeq'[Peer(s)] = writeSeq[Peer(s)]
  PROVE  NumbersInv(s)' /\ PlainInv(s)'
  <1>1. Peer(s) \in Side /\ net[s] \in Seq(Packet) /\ readSeq[s] \in 0 .. (SeqModulus - 1)
    BY Sides, NumbersIn
  <1>2. Len(net[s]) \in Nat /\ Len(net[s]) >= 1 /\ Len(net'[s]) = Len(net[s]) - 1
    <2>1. ASSUME NEW queue \in Seq(Packet), queue # <<>>
          PROVE  Len(queue) \in Nat /\ Len(queue) >= 1 /\ Len(Tail(queue)) = Len(queue) - 1
      BY <2>1
    <2> QED BY <1>1, <2>1
  <1> DEFINE d == Missing(s)
  <1>d. d \in Nat
    BY NumbersIn
  <1>3. /\ Counted(net[s], 0, readSeq[s] + d)
        /\ pc[Peer(s)] # "ended" =>
             writeSeq[Peer(s)] = (readSeq[s] + d + (Len(net[s]) - 0)) % SeqModulus
    BY DEF TalkInv, NumbersInv, PlainAhead, Base, Expected
  <1>4. Counted(net'[s], 0, NextNumber(readSeq[s]) + d)
    BY <1>1, <1>d, <1>3, CountedNext
  <1>5. (NextNumber(readSeq[s]) + d + (Len(net[s]) - 1)) % SeqModulus
          = (readSeq[s] + d + ((Len(net[s]) - 1) + 1)) % SeqModulus
    BY <1>1, <1>d, <1>2, CountingOnward
  <1>6. (Len(net[s]) - 1) + 1 = Len(net[s]) - 0 /\ Len(net'[s]) - 0 = Len(net[s]) - 1
    BY <1>2
  <1>7. PlainAhead(s)' = 0 /\ Base(s)' = NextNumber(readSeq[s]) + d
    BY DEF PlainAhead, Base, Expected, Missing, GoOn
  <1>8. NumbersInv(s)'
    BY <1>1, <1>3, <1>4, <1>5, <1>6, <1>7 DEF NumbersInv, GoOn
  <1> QED BY <1>8 DEF PlainInv, GoOn

-----------------------------------------------------------------------------
(* The steps.                                                              *)

LEMMA Facts ==
  ASSUME TypeOK, AgreementInv, TalkInv
  PROVE  /\ net \in Mail /\ net.server \in Seq(Packet) /\ net.client \in Seq(Packet)
         /\ pc.server \in {"key", "answer", "nick", "serving", "ended"}
         /\ pc.client \in {"key", "proof", "nick", "chatting", "ended"}
         /\ tools.client => tools.server
         /\ pc.server = "ended" => net.server = <<>>
         /\ pc.client = "ended" => net.client = <<>>
         /\ TimedOut => pc.server = "ended"
         /\ tools.server \/ Len(net.server) = 0 \/ Len(net.server) = 1
         /\ tools.client \/ Len(net.client) = 0 \/ Len(net.client) = 1 \/ TimedOut
         /\ \A s \in Side : \A i \in 1 .. Len(net[s]) : ~net[s][i].whole => TimedOut
  <1>1. net \in Mail /\ net.server \in Seq(Packet) /\ net.client \in Seq(Packet)
    BY Sides DEF TypeOK, Mail
  <1>2. /\ pc.server \in {"key", "answer", "nick", "serving", "ended"}
        /\ pc.client \in {"key", "proof", "nick", "chatting", "ended"}
    BY DEF TypeOK
  <1>3. tools.client => tools.server
    BY DEF AgreementInv, Agreement
  <1>4. /\ pc.server = "ended" => net.server = <<>>
        /\ pc.client = "ended" => net.client = <<>>
        /\ TimedOut => pc.server = "ended"
    BY Sides DEF TalkInv, EndedInv, TimedOut
  <1>5. /\ tools.server \/ Len(net.server) = 0 \/ Len(net.server) = 1
        /\ tools.client \/ Len(net.client) = 0 \/ Len(net.client) = 1 \/ TimedOut
    <2>1. /\ ~tools.server => ~(Len(net.server) > 1)
          /\ ~tools.client /\ Len(net.client) > 1 => TimedOut
      BY Sides DEF TalkInv, TurnsAreKept
    <2>2. Len(net.server) \in Nat /\ Len(net.client) \in Nat
      BY <1>1
    <2>3. \A n \in Nat : ~(n > 1) => n = 0 \/ n = 1
      OBVIOUS
    <2> QED BY <2>1, <2>2, <2>3, Zenon
  <1>6. \A s \in Side : \A i \in 1 .. Len(net[s]) : ~net[s][i].whole => TimedOut
    BY DEF TalkInv, EndsAreExplained
  <1> QED BY <1>1, <1>2, <1>3, <1>4, <1>5, <1>6

\* Every packet of `queue` was there before or is written now; only a server
\* that timed out is an excuse for others.
Sound(queue, before) ==
  \A i \in 1 .. Len(queue) :
    \/ TimedOut
    \/ \E j \in 1 .. Len(before) : queue[i] = before[j]
    \/ \E w \in Side, body \in Body : queue[i] = Written(w, body)

LEMMA WholeStep ==
  ASSUME TypeOK, AgreementInv, TalkInv, UNCHANGED why, lost' \in {lost, lost + 1},
         Sound(net'.server, net.server), Sound(net'.client, net.client)
  PROVE  EndsAreExplained'
  <1>1. TimedOut' = TimedOut /\ why' = why
    BY DEF TimedOut
  <1>2. ASSUME NEW s \in Side, NEW i \in 1 .. Len(net'[s]), ~net'[s][i].whole
        PROVE  TimedOut
    <2>1. Sound(net'[s], net[s])
      BY Sides
    <2>2. CASE \E j \in 1 .. Len(net[s]) : net'[s][i] = net[s][j]
      <3>1. PICK j \in 1 .. Len(net[s]) : net'[s][i] = net[s][j]
        BY <2>2
      <3>2. ~net[s][j].whole
        BY <1>2, <3>1, Zenon
      <3> QED BY <3>2, Facts
    <2>3. CASE \E w \in Side, body \in Body : net'[s][i] = Written(w, body)
      <3>1. PICK w \in Side, body \in Body : net'[s][i] = Written(w, body)
        BY <2>3
      <3>2. Written(w, body).whole
        BY WrittenPacket
      <3> QED BY <1>2, <3>1, <3>2, Zenon
    <2> QED BY <2>1, <2>2, <2>3 DEF Sound
  <1>3. /\ why.client \notin {"misplaced", "hmac"}
        /\ why.server \in {"misplaced", "hmac"} => lost' > 0
    BY DEF TalkInv, EndsAreExplained, TypeOK
  <1>4. /\ why.client \in {"proof", "refused"} => TimedOut
    BY DEF TalkInv, EndsAreExplained
  <1> QED BY <1>1, <1>2, <1>3, <1>4 DEF EndsAreExplained

LEMMA TurnsStep ==
  ASSUME tools'.server \/ Len(net'.server) = 0 \/ Len(net'.server) = 1,
         tools'.client \/ Len(net'.client) = 0 \/ Len(net'.client) = 1 \/ TimedOut'
  PROVE  TurnsAreKept'
  <1>1. ~(0 > 1) /\ ~(1 > 1)
    OBVIOUS
  <1>2. \A s \in Side : s = "server" \/ s = "client"
    BY Sides
  <1>3. ASSUME NEW s \in Side, ~tools'[s], Len(net'[s]) > 1
        PROVE  s = "client" /\ TimedOut'
    BY <1>1, <1>2, <1>3, Zenon
  <1> QED BY <1>3 DEF TurnsAreKept

LEMMA NoPackets ==
  /\ Len(<<>>) = 0
  /\ \A queue \in Seq(Packet) : Len(queue) = 0 => queue = <<>>
  OBVIOUS

LEMMA TailElements ==
  ASSUME NEW queue \in Seq(Packet), queue # <<>>
  PROVE  /\ Tail(queue) \in Seq(Packet) /\ Len(Tail(queue)) = Len(queue) - 1
         /\ Len(queue) \in Nat /\ Len(queue) >= 1
         /\ \A i \in 1 .. Len(Tail(queue)) :
              i + 1 \in 1 .. Len(queue) /\ Tail(queue)[i] = queue[i + 1]
         /\ Len(queue) = 1 => Tail(queue) = <<>>
         /\ Sound(Tail(queue), queue)
  <1>1. /\ Tail(queue) \in Seq(Packet) /\ Len(Tail(queue)) = Len(queue) - 1
        /\ Len(queue) \in Nat /\ Len(queue) >= 1
    OBVIOUS
  <1>2. \A i \in 1 .. Len(Tail(queue)) :
          i + 1 \in 1 .. Len(queue) /\ Tail(queue)[i] = queue[i + 1]
    OBVIOUS
  <1>3. ASSUME Len(queue) = 1 PROVE Tail(queue) = <<>>
    <2>1. Len(Tail(queue)) = 0
      BY <1>1, <1>3
    <2> QED BY <1>1, <2>1, NoPackets, Zenon
  <1> QED BY <1>1, <1>2, <1>3 DEF Sound

LEMMA AddedElements ==
  ASSUME NEW queue \in Seq(Packet), NEW longer \in Seq(Packet),
         NEW w \in Side, NEW body \in Body, Added(longer, queue, Written(w, body))
  PROVE  /\ longer # <<>> /\ Len(longer) = Len(queue) + 1
         /\ queue = <<>> => longer[1] = Written(w, body) /\ Len(longer) = 1
         /\ queue # <<>> => longer[1] = queue[1]
         /\ \A before : Sound(queue, before) => Sound(longer, before)
  <1>1. Len(longer) = Len(queue) + 1 /\ Len(queue) \in Nat
    BY DEF Added
  <1>2. ASSUME NEW before, Sound(queue, before), NEW i \in 1 .. Len(longer)
        PROVE  \/ TimedOut
               \/ \E j \in 1 .. Len(before) : longer[i] = before[j]
               \/ \E v \in Side, some \in Body : longer[i] = Written(v, some)
    <2>1. CASE i = Len(queue) + 1
      BY <2>1 DEF Added
    <2>2. CASE i \in 1 .. Len(queue)
      <3>1. longer[i] = queue[i]
        BY <2>2 DEF Added
      <3> QED BY <1>2, <2>2, <3>1 DEF Sound
    <2> QED BY <1>1, <2>1, <2>2
  <1>3. /\ longer # <<>> /\ Len(longer) = Len(queue) + 1
        /\ queue = <<>> => longer[1] = Written(w, body) /\ Len(longer) = 1
        /\ queue # <<>> => longer[1] = queue[1]
    BY <1>1 DEF Added
  <1> QED BY <1>2, <1>3 DEF Sound

LEMMA SameSound ==
  ASSUME NEW queue
  PROVE  Sound(queue, queue) /\ (TimedOut => \A before : Sound(queue, before))
  BY DEF Sound

LEMMA SendKeyTalk ==
  ASSUME TypeOK, TypeOK', AgreementInv, TalkInv, SendKey
  PROVE  TalkInv'
  <1> USE DEF toolVars, lossVars
  <1>1. /\ pc' = [pc EXCEPT !["server"] = "answer"] /\ net' = With(net, "server", "key")
        /\ UNCHANGED <<first, lost, tools, writeSeq, readSeq, why>> /\ pc.server = "key"
    BY DEF SendKey, Goto
  <1>2. pc'.server = "answer" /\ pc'.client = pc.client /\ "key" \in Body
    BY <1>1, Sides DEF TypeOK, Body
  <1>3. GoOn
    BY <1>1, <1>2, Sides DEF GoOn
  <1>4. pc.client \in {"key", "ended"} /\ net.client = <<>> /\ net.server = <<>> /\ ~tools.server
    BY <1>1 DEF TalkInv, ServerStage
  <1>5. /\ net'.server = <<>>
        /\ pc.client = "ended" => net'.client = <<>>
        /\ pc.client # "ended" => Added(net'.client, net.client, Written("server", "key"))
    BY <1>1, <1>2, <1>4, Facts, WithLane, Sides
  <1>6. net'.client \in Seq(Packet) /\ net'.server \in Seq(Packet)
    BY Sides DEF TypeOK
  <1>7. pc.client # "ended" =>
          /\ net'.client # <<>> /\ Len(net'.client) = 1
          /\ net'.client[1] = Written("server", "key")
          /\ Sound(net'.client, net.client)
    <2> SUFFICES ASSUME pc.client # "ended"
                 PROVE  /\ net'.client # <<>> /\ Len(net'.client) = 1
                        /\ net'.client[1] = Written("server", "key")
                        /\ Sound(net'.client, net.client)
      OBVIOUS
    <2>1. net.client \in Seq(Packet) /\ Sound(net.client, net.client)
      BY Facts, SameSound
    <2>2. Added(net'.client, net.client, Written("server", "key"))
      BY <1>5
    <2>3. /\ net'.client # <<>>
          /\ net.client = <<>> =>
               net'.client[1] = Written("server", "key") /\ Len(net'.client) = 1
          /\ Sound(net'.client, net.client)
      BY <1>2, <1>6, <2>1, <2>2, AddedElements, Sides, Zenon
    <2> QED BY <1>4, <2>3
  <1>8. Written("server", "key").body = "key"
    BY <1>2, WrittenPacket, Sides
  <1>9. EndedInv' /\ ServerStage' /\ ClientStage'
    <2>1. EndedInv'
      BY <1>1, <1>2, <1>5, Sides DEF TalkInv, EndedInv
    <2>2. ServerStage'
      BY <1>1, <1>2, <1>4, <1>5, <1>7 DEF ServerStage
    <2>3. ClientStage'
      BY <1>1, <1>2, <1>4, <1>5, <1>7, <1>8 DEF ClientStage
    <2> QED BY <2>1, <2>2, <2>3
  <1>10. NumbersInv("server")' /\ PlainInv("server")'
    BY <1>1, <1>3, <1>4, <1>5, <1>6, LaneKept, SameLane, Sides
  <1>11. NumbersInv("client")' /\ PlainInv("client")'
    <2>1. Count("server")
      BY <1>1, <1>4 DEF Count
    <2> QED BY <1>1, <1>2, <1>3, <1>4, <2>1, LaneWritten, SameLane, Sides, Facts
  <1>12. TurnsAreKept'
    <2>1. Len(net'.server) = 0 /\ (Len(net'.client) = 0 \/ Len(net'.client) = 1)
      BY <1>5, <1>7, NoPackets, Zenon
    <2> QED BY <2>1, TurnsStep, Zenon
  <1>13. EndsAreExplained'
    <2>1. Sound(net'.server, net.server) /\ Sound(net'.client, net.client)
      BY <1>4, <1>5, <1>7, SameSound
    <2> QED BY <1>1, <2>1, WholeStep
  <1> QED BY <1>9, <1>10, <1>11, <1>12, <1>13, Sides DEF TalkInv

LEMMA TakeAnswerTalk ==
  ASSUME TypeOK, TypeOK', AgreementInv, TalkInv, LossInv, TakeAnswer
  PROVE  TalkInv'
  <1> USE DEF toolVars, lossVars
  <1>1. pc.server = "answer" /\ Arrived("server") /\ UNCHANGED <<first, lost>>
    BY DEF TakeAnswer
  <1>2. InPlace("server")
    BY <1>1, AlwaysInPlace, Sides DEF LossInv
  <1>3. PICK rest \in After("server") :
          \/ /\ \E reason \in {"secret", "number"} : End("server", rest, reason)
             /\ UNCHANGED toolVars
          \/ /\ net' = With(rest, "server", "proof") /\ Import("server")
             /\ Goto("server", "nick") /\ UNCHANGED why
    BY <1>2 DEF TakeAnswer
  <1>4. ~tools.server /\ ~tools.client
    BY <1>1, Facts DEF TalkInv, ServerStage
  <1>5. /\ rest \in Mail /\ rest.client = net.client /\ Len(net.server) >= 1
        /\ Len(net.server) = 1 => rest.server = Tail(net.server)
    BY <1>1, AfterLane, Sides
  <1>6. rest.server = <<>>
    <2>1. Len(net.server) = 1
      BY <1>4, <1>5, Facts
    <2>2. net.server \in Seq(Packet) /\ net.server # <<>>
      BY <1>1, Facts DEF Arrived
    <2> QED BY <1>5, <2>1, <2>2, TailElements
  <1>7. net.server # <<>>
    BY <1>1 DEF Arrived
  <1>8. CASE /\ \E reason \in {"secret", "number"} : End("server", rest, reason)
             /\ UNCHANGED toolVars
    <2>1. PICK reason \in {"secret", "number"} : End("server", rest, reason)
      BY <1>8
    <2>2. reason \in Reasons \ {"none"}
      BY DEF Reasons
    <2> QED BY <1>1, <1>5, <1>8, <2>1, <2>2, EndOfServer
  <1>9. CASE /\ net' = With(rest, "server", "proof") /\ Import("server")
             /\ Goto("server", "nick") /\ UNCHANGED why
    <2>1. /\ pc'.server = "nick" /\ pc'.client = pc.client /\ tools'.server /\ tools'.client = tools.client
          /\ writeSeq'.server = first /\ readSeq'.server = first /\ "proof" \in Body
          /\ why' = why
      BY <1>9, Sides DEF Goto, Import, TypeOK, Body
    <2>2. pc.client \in {"proof", "ended"} /\ net.client = <<>>
      <3>1. pc.client \in {"proof", "ended"}
        BY <1>1, <1>7, Facts DEF TalkInv, ClientStage
      <3> QED BY <1>1, <3>1, Facts DEF TalkInv, ServerStage
    <2>3. /\ net'.server = <<>>
          /\ pc.client = "ended" => net'.client = <<>>
          /\ pc.client # "ended" => Added(net'.client, net.client, Written("server", "proof"))
      BY <1>5, <1>6, <1>9, <2>1, <2>2, WithLane, Sides
    <2>4. net'.client \in Seq(Packet) /\ net'.server \in Seq(Packet)
      BY Sides DEF TypeOK
    <2>5. /\ Written("server", "proof").body = "proof"
          /\ Written("server", "proof").form = "plain"
      BY <1>4, <2>1, WrittenPacket, Sides
    <2>6. ASSUME pc.client # "ended"
          PROVE  /\ net'.client # <<>> /\ Len(net'.client) = 1
                 /\ net'.client[1] = Written("server", "proof")
                 /\ Sound(net'.client, net.client)
      <3>1. /\ Added(net'.client, net.client, Written("server", "proof"))
            /\ net.client \in Seq(Packet) /\ Sound(net.client, net.client)
        BY <2>3, <2>6, Facts, SameSound
      <3>2. /\ net'.client # <<>>
            /\ net.client = <<>> =>
                 net'.client[1] = Written("server", "proof") /\ Len(net'.client) = 1
            /\ Sound(net'.client, net.client)
        BY <2>1, <2>4, <3>1, AddedElements, Sides, Zenon
      <3> QED BY <2>2, <3>2
    <2>7. EndedInv' /\ ServerStage' /\ ClientStage'
      <3>1. EndedInv'
        BY <1>1, <2>1, <2>2, <2>3, Sides DEF TalkInv, EndedInv
      <3>2. ServerStage'
        BY <1>1, <2>1, <2>2, <2>3, <2>6 DEF ServerStage
      <3>3. ClientStage'
        BY <1>4, <2>1, <2>2, <2>3, <2>5, <2>6 DEF ClientStage
      <3> QED BY <3>1, <3>2, <3>3
    <2>8. NumbersInv("client")'
      <3> SUFFICES ASSUME pc.client # "ended"
                   PROVE  /\ Counted(net'.client, PlainAhead("client")', Base("client")')
                          /\ writeSeq'.server =
                               (Base("client")' + (Len(net'.client) - PlainAhead("client")')) % SeqModulus
        BY <2>1, Sides DEF NumbersInv
      <3>1. PlainAhead("client")' = 1 /\ Base("client")' = first
        <4>1. first \in Nat
          BY NumbersIn, Sides
        <4> QED BY <1>1, <1>4, <2>1, <2>6, <4>1 DEF PlainAhead, Base, Expected, Missing
      <3>2. Counted(net'.client, 1, first)
        <4>1. \A i \in 1 .. 1 : i = 1 /\ ~(i > 1)
          OBVIOUS
        <4> QED BY <2>5, <2>6, <4>1 DEF Counted
      <3>3. Len(net'.client) - 1 = 0 /\ (first + 0) % SeqModulus = first
        <4>1. Len(net'.client) = 1
          BY <2>6
        <4>2. (first + 0) % SeqModulus = first
          <5>1. first \in 0 .. (SeqModulus - 1) /\ 0 \in Nat
            BY NumbersIn, Sides
          <5> QED BY <5>1, CountingOn
        <4> QED BY <4>1, <4>2
      <3> QED BY <2>1, <3>1, <3>2, <3>3
    <2>9. NumbersInv("server")' /\ PlainInv("server")' /\ PlainInv("client")'
      <3>1. \A i \in 1 .. Len(net'.server) : FALSE
        BY <2>3
      <3> QED BY <1>4, <2>1, <3>1, Sides DEF NumbersInv, PlainInv
    <2>10. TurnsAreKept'
      <3>1. Len(net'.client) = 0 \/ Len(net'.client) = 1
        BY <2>3, <2>6, NoPackets, Zenon
      <3> QED BY <2>1, <3>1, TurnsStep, Zenon
    <2>11. EndsAreExplained'
      <3>1. Sound(net'.server, net.server)
        BY <2>3 DEF Sound
      <3>2. Sound(net'.client, net.client)
        BY <2>2, <2>3, <2>6, SameSound, Zenon
      <3> QED BY <1>1, <2>1, <3>1, <3>2, WholeStep
    <2> QED BY <2>7, <2>8, <2>9, <2>10, <2>11, Sides DEF TalkInv
  <1> QED BY <1>3, <1>8, <1>9

LEMMA TakeNickTalk ==
  ASSUME TypeOK, TypeOK', AgreementInv, TalkInv, LossInv, TakeNick
  PROVE  TalkInv'
  <1>1. /\ pc.server = "nick" /\ Arrived("server") /\ net.server # <<>>
        /\ UNCHANGED <<first, lost, tools>>
    BY DEF TakeNick, Arrived, lossVars
  <1>2. InPlace("server")
    BY <1>1, AlwaysInPlace, Sides DEF LossInv
  <1>3. PICK rest \in After("server") :
          LET nick == Head(net.server).body IN
          /\ Expect("server")
          /\ IF nick \in DOMAIN RefusalOf
             THEN End("server", Refuse(rest, RefusalOf[nick]), "nick") /\ Count("server")
             ELSE Goto("server", "serving") /\ net' = rest /\ UNCHANGED <<why, writeSeq>>
    BY <1>2 DEF TakeNick
  <1>4. tools.server /\ tools.client /\ pc.client \in {"chatting", "ended"}
    BY <1>1, Facts DEF TalkInv, ServerStage, ClientStage
  <1>5. rest \in Mail /\ rest.client = net.client /\ rest.server = Tail(net.server)
    BY <1>1, <1>4, AfterLane, Sides
  <1>6. readSeq'.server = NextNumber(readSeq.server) /\ readSeq'.client = readSeq.client
    BY <1>3, <1>4, Sides DEF Expect, TypeOK
  <1>7. \A nick \in DOMAIN RefusalOf : RefusalOf[nick] \in Body
    BY DEF RefusalOf, Body, Tokens
  <1>8. CASE \E token \in Body : End("server", Refuse(rest, token), "nick")
    <2>1. PICK token \in Body : End("server", With(rest, "server", token), "nick")
      BY <1>8 DEF Refuse
    <2> DEFINE packets == With(rest, "server", token)
    <2>2. /\ packets \in Mail
          /\ pc.client = "ended" => packets.client = net.client
          /\ pc.client # "ended" => Added(packets.client, net.client, Written("server", token))
      BY <1>5, WithLane, Sides
    <2> HIDE DEF packets
    <2>3. \/ packets.client = net.client
          \/ \E some \in Body :
               /\ pc.client # "ended" /\ pc.server # "key"
               /\ Added(packets.client, net.client, Written("server", some))
               /\ pc.client = "chatting" \/ "nick" = "timeout"
      BY <1>1, <1>4, <2>2
    <2>4. End("server", packets, "nick") /\ "nick" \in Reasons \ {"none"}
      BY <2>1 DEF packets, Reasons
    <2> QED BY <1>1, <1>6, <2>2, <2>3, <2>4, EndOfServer
  <1>9. CASE Goto("server", "serving") /\ net' = rest /\ UNCHANGED <<why, writeSeq>>
    <2>1. pc'.server = "serving" /\ pc'.client = pc.client /\ why' = why
      BY <1>9, Sides DEF Goto, TypeOK
    <2>2. GoOn
      BY <1>1, <2>1, Sides DEF GoOn
    <2>3. NumbersInv("server")' /\ PlainInv("server")'
      BY <1>1, <1>4, <1>5, <1>6, <1>9, <2>2, LaneRead, Sides
    <2>4. NumbersInv("client")' /\ PlainInv("client")'
      BY <1>5, <1>6, <1>9, <2>2, LaneKept, SameLane, Facts, Sides
    <2>5. EndedInv' /\ ServerStage' /\ ClientStage'
      BY <1>1, <1>4, <1>5, <1>9, <2>1, Facts, Sides DEF TalkInv, EndedInv, ServerStage, ClientStage
    <2>6. TurnsAreKept'
      BY <1>1, <1>4, TurnsStep
    <2>7. EndsAreExplained'
      <3>1. Sound(net'.server, net.server) /\ Sound(net'.client, net.client)
        BY <1>1, <1>5, <1>9, TailElements, SameSound, Facts
      <3> QED BY <1>1, <2>1, <3>1, WholeStep
    <2> QED BY <2>3, <2>4, <2>5, <2>6, <2>7, Sides DEF TalkInv
  <1> QED BY <1>3, <1>7, <1>8, <1>9

LEMMA TimeOutTalk ==
  ASSUME TypeOK, TypeOK', AgreementInv, TalkInv, TimeOut
  PROVE  TalkInv'
  <1> DEFINE packets == With(net, "server", "TIMEOUT")
  <1>1. /\ pc.server \in {"answer", "nick"} /\ End("server", packets, "timeout")
        /\ UNCHANGED <<first, lost, tools, readSeq>> /\ "TIMEOUT" \in Body
    BY DEF TimeOut, Body, Tokens, lossVars
  <1>2. /\ packets \in Mail
        /\ pc.client = "ended" => packets.client = net.client
        /\ pc.client # "ended" => Added(packets.client, net.client, Written("server", "TIMEOUT"))
    BY <1>1, Facts, WithLane, Sides
  <1> HIDE DEF packets
  <1>3. \/ packets.client = net.client
        \/ \E some \in Body :
             /\ pc.client # "ended" /\ pc.server # "key"
             /\ Added(packets.client, net.client, Written("server", some))
             /\ pc.client = "chatting" \/ "timeout" = "timeout"
    BY <1>1, <1>2
  <1>4. "timeout" \in Reasons \ {"none"} /\ pc.server # "ended"
    BY <1>1 DEF Reasons
  <1> QED BY <1>1, <1>2, <1>3, <1>4, EndOfServer

LEMMA TakeKeyTalk ==
  ASSUME TypeOK, TypeOK', AgreementInv, TalkInv, TakeKey
  PROVE  TalkInv'
  <1> USE DEF toolVars, lossVars
  <1>1. /\ pc.client = "key" /\ Arrived("client") /\ net.client # <<>>
        /\ UNCHANGED <<first, lost, tools, writeSeq, readSeq>>
    BY DEF TakeKey, Arrived
  <1>2. /\ ~tools.server /\ ~tools.client /\ net.server = <<>>
        /\ net.client[1].body = "key"
    BY <1>1, Facts DEF TalkInv, ClientStage
  <1>3. pc.server \in {"answer", "ended"}
    BY <1>1, Facts DEF TalkInv, ClientStage, ServerStage
  <1>4. InPlace("client")
    BY <1>1, AlwaysInPlace, Sides
  <1>5. PICK rest \in After("client") :
          net' = With(rest, "client", "answer") /\ Goto("client", "proof") /\ UNCHANGED why
    <2>1. Head(net.client).body = "key"
      BY <1>1, <1>2, Facts, AfterLane, Sides DEF TakeKey
    <2> QED BY <1>4, <2>1 DEF TakeKey
  <1>6. /\ rest \in Mail /\ rest.server = <<>> /\ Alike(rest.client, Tail(net.client))
        /\ Len(net.client) = 1 => rest.client = Tail(net.client)
    BY <1>1, <1>2, AfterLane, Sides
  <1>7. /\ pc'.client = "proof" /\ pc'.server = pc.server /\ why' = why
        /\ "answer" \in Body /\ TimedOut' = TimedOut
    BY <1>5, Sides DEF Goto, TypeOK, Body, TimedOut
  <1>8. /\ net'.client = rest.client
        /\ pc.server = "ended" => net'.server = <<>>
        /\ pc.server # "ended" => Added(net'.server, net.server, Written("client", "answer"))
    BY <1>2, <1>5, <1>6, <1>7, WithLane, Sides
  <1>9. net'.client = <<>> \/ TimedOut
    <2>1. Len(net.client) = 1 \/ TimedOut
      <3>1. Len(net.client) # 0
        BY <1>1, Facts, NoPackets, Zenon
      <3> QED BY <1>2, <3>1, Facts, Zenon
    <2> QED BY <1>1, <1>6, <1>8, <2>1, Facts, TailElements
  <1>10. net'.client \in Seq(Packet) /\ net'.server \in Seq(Packet)
    BY Sides DEF TypeOK
  <1>11. ASSUME pc.server # "ended"
         PROVE  Len(net'.server) = 1 /\ Sound(net'.server, net.server)
    <2>1. /\ Added(net'.server, net.server, Written("client", "answer"))
          /\ net.server \in Seq(Packet) /\ Sound(net.server, net.server)
      BY <1>8, <1>11, Facts, SameSound
    <2>2. /\ net.server = <<>> => Len(net'.server) = 1
          /\ Sound(net'.server, net.server)
      BY <1>7, <1>10, <2>1, AddedElements, Sides, Zenon
    <2> QED BY <1>2, <2>2
  <1>12. EndedInv' /\ ServerStage' /\ ClientStage'
    <2>1. EndedInv'
      BY <1>1, <1>7, <1>8, Sides DEF TalkInv, EndedInv
    <2>2. ServerStage'
      BY <1>1, <1>2, <1>3, <1>7, <1>9, Facts DEF ServerStage
    <2>3. ClientStage'
      BY <1>1, <1>2, <1>3, <1>7, <1>9 DEF ClientStage
    <2> QED BY <2>1, <2>2, <2>3
  <1>13. GoOn
    BY <1>1, <1>7, Sides DEF GoOn
  <1>14. NumbersInv("server")' /\ PlainInv("server")'
    <2>1. Count("client") /\ Alike(rest.server, net.server)
      BY <1>1, <1>2, <1>6, SameLane DEF Count
    <2> QED BY <1>1, <1>2, <1>5, <1>6, <1>7, <1>13, <2>1, LaneWritten, Sides
  <1>15. NumbersInv("client")' /\ PlainInv("client")'
    <2>1. NumbersInv("client")'
      BY <1>1, <1>2, Sides DEF NumbersInv
    <2>2. ASSUME NEW i \in 1 .. Len(net'.client) PROVE net'.client[i].form = "plain"
      <3>1. \A j \in 1 .. Len(net.client) : net.client[j].form = "plain"
        BY <1>2, Sides DEF TalkInv, PlainInv
      <3>2. /\ i \in 1 .. Len(Tail(net.client))
            /\ net'.client[i].form = Tail(net.client)[i].form
        BY <1>6, <1>8 DEF Alike
      <3>3. i + 1 \in 1 .. Len(net.client) /\ Tail(net.client)[i] = net.client[i + 1]
        BY <1>1, <3>2, TailElements, Facts
      <3> QED BY <3>1, <3>2, <3>3
    <2> QED BY <2>1, <2>2 DEF PlainInv
  <1>16. TurnsAreKept'
    <2>1. Len(net'.server) = 0 \/ Len(net'.server) = 1
      BY <1>8, <1>11, NoPackets, Zenon
    <2>2. Len(net'.client) = 0 \/ TimedOut'
      BY <1>7, <1>9, NoPackets, Zenon
    <2> QED BY <2>1, <2>2, TurnsStep, Zenon
  <1>17. EndsAreExplained'
    <2>1. Sound(net'.server, net.server)
      BY <1>2, <1>8, <1>11, SameSound, Zenon
    <2>2. Sound(net'.client, net.client)
      BY <1>9, SameSound DEF Sound
    <2> QED BY <1>1, <1>7, <2>1, <2>2, WholeStep
  <1> QED BY <1>12, <1>14, <1>15, <1>16, <1>17, Sides DEF TalkInv

LEMMA TakeProofTalk ==
  ASSUME TypeOK, TypeOK', AgreementInv, TalkInv, LossInv, TakeProof
  PROVE  TalkInv'
  <1> USE DEF toolVars, lossVars
  <1>1. /\ pc.client = "proof" /\ Arrived("client") /\ net.client # <<>>
        /\ UNCHANGED <<first, lost>>
    BY DEF TakeProof, Arrived
  <1>2. pc.server \in {"nick", "ended"} /\ ~tools.client /\ InPlace("client")
    BY <1>1, AlwaysInPlace, Sides, Facts DEF TalkInv, ClientStage, ServerStage
  <1>3. PICK rest \in After("client") :
          \/ /\ ~ProofVerifies(Head(net.client))
             /\ End("client", rest, "proof") /\ UNCHANGED toolVars
          \/ /\ ProofVerifies(Head(net.client))
             /\ net' = rest /\ Import("client") /\ Goto("client", "nick") /\ UNCHANGED why
    BY <1>2 DEF TakeProof
  <1>4. /\ rest \in Mail /\ rest.server = net.server /\ Alike(rest.client, Tail(net.client))
        /\ Len(net.client) = 1 => rest.client = Tail(net.client)
        /\ Len(rest.client) = Len(net.client) - 1
        /\ Head(net.client) = net.client[1] /\ 1 \in 1 .. Len(net.client)
    <2>1. Len(net.client) \in Nat
      BY Facts
    <2> QED BY <1>1, <2>1, AfterLane, Sides
  <1>5. net.client[1].body = "proof" => tools.server /\ secretsMatch
    BY <1>4, Sides DEF AgreementInv, Agreement, Trusted
  <1>6. CASE /\ ~ProofVerifies(Head(net.client))
             /\ End("client", rest, "proof") /\ UNCHANGED toolVars
    <2>1. TimedOut
      BY <1>1, <1>4, <1>5, <1>6 DEF TalkInv, ClientStage, ProofVerifies
    <2> QED BY <1>1, <1>4, <1>6, <2>1, EndOfClient DEF Reasons
  <1>7. CASE /\ ProofVerifies(Head(net.client))
             /\ net' = rest /\ Import("client") /\ Goto("client", "nick") /\ UNCHANGED why
    <2>0. first \in Nat /\ (pc.server = "nick" => lost' = 0)
      BY <1>1, NumbersIn, Sides DEF LossInv
    <2>1. tools.server
      BY <1>4, <1>5, <1>7 DEF ProofVerifies
    <2>2. /\ pc'.client = "nick" /\ pc'.server = pc.server
          /\ tools'.client /\ tools'.server = tools.server
          /\ writeSeq'.client = first /\ writeSeq'.server = writeSeq.server
          /\ readSeq'.client = first /\ readSeq'.server = readSeq.server
          /\ why' = why /\ TimedOut' = TimedOut
      BY <1>7, Sides DEF Goto, Import, TypeOK, TimedOut
    <2>3. /\ net'.server = <<>> /\ net'.client = rest.client
          /\ pc.server = "nick" => readSeq.server = first
      BY <1>2, <1>4, <1>7, Facts DEF TalkInv, ServerStage
    <2>4. net'.client = <<>> \/ TimedOut
      <3>1. Len(net.client) = 1 \/ TimedOut
        <4>1. Len(net.client) # 0
          BY <1>1, Facts, NoPackets, Zenon
        <4> QED BY <1>2, <4>1, Facts, Zenon
      <3> QED BY <1>1, <1>4, <2>3, <3>1, Facts, TailElements
    <2>5. net.client \in Seq(Packet) /\ net'.client \in Seq(Packet) /\ net'.server \in Seq(Packet)
      BY Facts, Sides DEF TypeOK
    <2>6. EndedInv' /\ ServerStage' /\ ClientStage'
      <3>1. EndedInv'
        BY <1>2, <2>2, <2>3, Sides DEF TalkInv, EndedInv
      <3>2. ServerStage'
        BY <1>2, <2>1, <2>2 DEF ServerStage
      <3>3. ClientStage'
        BY <1>2, <2>2, <2>3, <2>4 DEF ClientStage
      <3> QED BY <3>1, <3>2, <3>3
    <2>7. NumbersInv("client")'
      <3>1. /\ Counted(net.client, 1, first)
            /\ pc.server # "ended" =>
                 writeSeq.server = (first + (Len(net.client) - 1)) % SeqModulus
        <4>1. PlainAhead("client") = 1 /\ Base("client") = first
          BY <1>1, <1>2, <2>0 DEF PlainAhead, Base, Expected, Missing
        <4> QED BY <1>1, <2>1, <4>1, Sides DEF TalkInv, NumbersInv
      <3>2. Counted(net'.client, 0, first)
        <4>1. first \in Nat
          BY NumbersIn, Sides
        <4> QED BY <1>1, <1>4, <2>3, <2>5, <3>1, <4>1, CountedFirst
      <3>3. PlainAhead("client")' = 0 /\ Base("client")' = first
        BY <1>1, <2>0, <2>2 DEF PlainAhead, Base, Expected, Missing
      <3>4. Len(net'.client) - 0 = Len(net.client) - 1
        BY <1>4, <2>3, <2>5
      <3> QED BY <2>2, <3>1, <3>2, <3>3, <3>4, Sides DEF NumbersInv
    <2>8. NumbersInv("server")'
      <3> SUFFICES ASSUME pc.server = "nick"
                   PROVE  /\ Counted(net'.server, PlainAhead("server")', Base("server")')
                          /\ writeSeq'.client =
                               (Base("server")' + (Len(net'.server) - PlainAhead("server")')) % SeqModulus
        BY <1>2, <2>2, Sides DEF NumbersInv
      <3>1. PlainAhead("server")' = 0 /\ Base("server")' = first
        <4>1. tools'["server"] /\ readSeq'["server"] = first /\ lost' = 0
          BY <2>0, <2>1, <2>2, <2>3, Zenon
        <4>2. Base("server")' = first + 0
          BY <4>1, Zenon DEF Base, Expected, Missing
        <4>3. PlainAhead("server")' = 0
          BY <4>1, Zenon DEF PlainAhead
        <4> QED BY <2>0, <4>2, <4>3
      <3>2. Counted(net'.server, 0, first)
        BY <2>3 DEF Counted
      <3>3. Len(net'.server) - 0 = 0
        BY <2>3
      <3>4. (first + 0) % SeqModulus = first
        <4>1. first \in 0 .. (SeqModulus - 1) /\ 0 \in Nat
          BY NumbersIn, Sides
        <4> QED BY <4>1, CountingOn
      <3> QED BY <2>2, <3>1, <3>2, <3>3, <3>4
    <2>9. PlainInv("server")' /\ PlainInv("client")'
      BY <2>1, <2>2, Sides DEF PlainInv
    <2>10. TurnsAreKept'
      BY <2>1, <2>2, TurnsStep
    <2>11. EndsAreExplained'
      <3>1. Sound(net'.server, net.server)
        BY <2>3 DEF Sound
      <3>2. Sound(net'.client, net.client)
        BY <2>4, SameSound DEF Sound
      <3> QED BY <1>1, <2>2, <3>1, <3>2, WholeStep
    <2> QED BY <2>6, <2>7, <2>8, <2>9, <2>10, <2>11, Sides DEF TalkInv
  <1> QED BY <1>3, <1>6, <1>7

LEMMA TypeNickTalk ==
  ASSUME TypeOK, TypeOK', AgreementInv, TalkInv, NEW nick \in Nicks, TypeNick(nick)
  PROVE  TalkInv'
  <1>1. pc.client = "nick" /\ UNCHANGED <<first, lost, tools, readSeq>> /\ nick \in Body
    BY HandshakeConstants DEF TypeNick, Body, lossVars
  <1>2. /\ pc.server \in {"nick", "ended"} /\ tools.client /\ tools.server /\ net.server = <<>>
        /\ net.client # <<>> => TimedOut
    BY <1>1, Facts DEF TalkInv, ClientStage
  <1>3. PICK packets \in {net, [net EXCEPT !.client = HalfRead(@)]} :
          IF nick = "huge"
          THEN End("client", packets, "unwritable") /\ UNCHANGED writeSeq
          ELSE /\ net' = With(packets, "client", nick)
               /\ Count("client")
               /\ Goto("client", "chatting")
               /\ UNCHANGED why
    BY DEF TypeNick
  <1>4. /\ packets \in Mail /\ packets.server = net.server /\ Alike(packets.client, net.client)
        /\ net.client = <<>> => packets.client = <<>>
    BY <1>3, HalfReadLane
  <1>5. CASE End("client", packets, "unwritable")
    BY <1>1, <1>4, <1>5, EndOfClient DEF Reasons
  <1>6. CASE /\ net' = With(packets, "client", nick) /\ Count("client")
             /\ Goto("client", "chatting") /\ UNCHANGED why
    <2>1. pc'.client = "chatting" /\ pc'.server = pc.server /\ why' = why
      BY <1>6, Sides DEF Goto, TypeOK
    <2>2. GoOn
      BY <1>1, <2>1, Sides DEF GoOn
    <2>3. /\ net'.client = packets.client
          /\ pc.server = "ended" => net'.server = net.server
          /\ pc.server # "ended" => Added(net'.server, net.server, Written("client", nick))
      BY <1>1, <1>4, <1>6, WithLane, Sides
    <2>4. net'.client \in Seq(Packet) /\ net'.server \in Seq(Packet) /\ net.server \in Seq(Packet)
      BY Facts, Sides DEF TypeOK
    <2>5. NumbersInv("server")' /\ PlainInv("server")'
      <3>1. Alike(packets.server, net.server)
        BY <1>4, SameLane
      <3> QED BY <1>1, <1>2, <1>4, <1>6, <2>2, <3>1, LaneWritten, Sides
    <2>6. NumbersInv("client")' /\ PlainInv("client")'
      <3>1. writeSeq'.server = writeSeq.server
        BY <1>2, <1>6, Sides DEF Count, TypeOK
      <3> QED BY <1>1, <1>4, <2>2, <2>3, <2>4, <3>1, LaneKept, Sides
    <2>7. EndedInv' /\ ServerStage' /\ ClientStage'
      BY <1>1, <1>2, <2>1, <2>3, Sides DEF TalkInv, EndedInv, ServerStage, ClientStage
    <2>8. TurnsAreKept'
      BY <1>1, <1>2, TurnsStep
    <2>9. EndsAreExplained'
      <3>1. Sound(net'.client, net.client)
        <4>1. TimedOut \/ net'.client = net.client
          BY <1>2, <1>4, <2>3
        <4> QED BY <4>1, SameSound
      <3>2. Sound(net'.server, net.server)
        BY <1>1, <2>3, <2>4, AddedElements, SameSound, Sides, Zenon
      <3> QED BY <1>1, <2>1, <3>1, <3>2, WholeStep
    <2> QED BY <2>5, <2>6, <2>7, <2>8, <2>9, Sides DEF TalkInv
  <1> QED BY <1>3, <1>5, <1>6

LEMMA TakeResponseTalk ==
  ASSUME TypeOK, TypeOK', AgreementInv, TalkInv, TakeResponse
  PROVE  TalkInv'
  <1>1. /\ pc.client = "nick" /\ Arrived("client") /\ net.client # <<>>
        /\ UNCHANGED <<first, lost, tools, writeSeq>>
    BY DEF TakeResponse, Arrived, lossVars
  <1>2. tools.client /\ tools.server /\ TimedOut /\ pc.server = "ended" /\ InPlace("client")
    BY <1>1, Facts, AlwaysInPlace, Sides DEF TalkInv, ClientStage
  <1>3. PICK rest \in After("client") :
          /\ Expect("client")
          /\ \/ Goto("client", "chatting") /\ net' = rest /\ UNCHANGED why
             \/ End("client", rest, "refused")
    BY <1>2 DEF TakeResponse
  <1>4. rest \in Mail /\ rest.server = net.server /\ rest.client = Tail(net.client)
    BY <1>1, <1>2, AfterLane, Sides
  <1>5. readSeq'.client = NextNumber(readSeq.client) /\ readSeq'.server = readSeq.server
    BY <1>2, <1>3, Sides DEF Expect, TypeOK
  <1>6. CASE End("client", rest, "refused")
    BY <1>1, <1>2, <1>4, <1>5, <1>6, EndOfClient DEF Reasons
  <1>7. CASE Goto("client", "chatting") /\ net' = rest /\ UNCHANGED why
    <2>1. pc'.client = "chatting" /\ pc'.server = pc.server /\ why' = why
      BY <1>7, Sides DEF Goto, TypeOK
    <2>2. GoOn
      BY <1>1, <2>1, Sides DEF GoOn
    <2>3. NumbersInv("client")' /\ PlainInv("client")'
      BY <1>1, <1>2, <1>4, <1>5, <1>7, <2>2, LaneRead, Sides
    <2>4. NumbersInv("server")' /\ PlainInv("server")'
      BY <1>1, <1>4, <1>5, <1>7, <2>2, LaneKept, SameLane, Facts, Sides
    <2>5. EndedInv' /\ ServerStage' /\ ClientStage'
      BY <1>1, <1>2, <1>4, <1>7, <2>1, Facts, Sides
      DEF TalkInv, EndedInv, ServerStage, ClientStage
    <2>6. TurnsAreKept'
      BY <1>1, <1>2, TurnsStep
    <2>7. EndsAreExplained'
      <3>1. Sound(net'.server, net.server) /\ Sound(net'.client, net.client)
        BY <1>2, <1>4, <1>7, SameSound
      <3> QED BY <1>1, <2>1, <3>1, WholeStep
    <2> QED BY <2>3, <2>4, <2>5, <2>6, <2>7, Sides DEF TalkInv
  <1> QED BY <1>3, <1>6, <1>7

LEMMA OpenSides ==
  ASSUME TypeOK, AgreementInv, TalkInv, NEW s \in Side, Open(s)
  PROVE  /\ tools[s] /\ pc[s] # "ended" /\ (net[s] # <<>> => tools[Peer(s)])
         /\ pc[Peer(s)] # "ended" => tools[Peer(s)]
         /\ s = "server" => pc.client \in {"chatting", "ended"}
         /\ s = "client" => pc.server \in {"nick", "serving", "ended"} /\ tools.client /\ tools.server
  <1>1. CASE s = "server"
    <2>1. pc.server = "serving"
      BY <1>1 DEF Open
    <2>2. tools.server /\ tools.client /\ pc.client \in {"chatting", "ended"}
      BY <2>1 DEF TalkInv, ServerStage, AgreementInv, Agreement
    <2> QED BY <1>1, <2>1, <2>2, Sides
  <1>2. CASE s = "client"
    <2>1. pc.client = "chatting"
      BY <1>2, Sides DEF Open
    <2>2. tools.client /\ tools.server /\ pc.server \in {"nick", "serving", "ended"}
      BY <2>1, Facts DEF TalkInv, ClientStage
    <2> QED BY <1>2, <2>1, <2>2, Sides
  <1> QED BY <1>1, <1>2, Sides

\* Steps of an open side leave the stages as they are.
LEMMA OpenStages ==
  ASSUME TypeOK, AgreementInv, TalkInv, NEW s \in Side, Open(s),
         UNCHANGED <<pc, tools, first, why>>,
         net'[s] = net[s] \/ net[s] # <<>>,
         pc[Peer(s)] = "ended" => net'[Peer(s)] = <<>>,
         s = "client" => readSeq'.server = readSeq.server
  PROVE  EndedInv' /\ ServerStage' /\ ClientStage'
  <1>1. CASE s = "server"
    <2>1. /\ pc.server = "serving" /\ pc.client \in {"chatting", "ended"}
          /\ tools.server /\ tools.client
      BY <1>1 DEF Open, TalkInv, ServerStage, AgreementInv, Agreement
    <2>2. EndedInv'
      BY <1>1, <2>1, Sides DEF TalkInv, EndedInv
    <2> QED BY <2>1, <2>2 DEF TalkInv, ServerStage, ClientStage
  <1>2. CASE s = "client"
    <2>1. /\ pc.client = "chatting" /\ pc.server \in {"nick", "serving", "ended"}
          /\ tools.client /\ tools.server
      BY <1>2, OpenSides, Sides DEF Open
    <2>2. EndedInv'
      BY <1>2, <2>1, Sides DEF TalkInv, EndedInv
    <2> QED BY <2>1, <2>2 DEF TalkInv, ServerStage, ClientStage
  <1> QED BY <1>1, <1>2, Sides

LEMMA SayTalk ==
  ASSUME TypeOK, TypeOK', AgreementInv, TalkInv, NEW s \in Side, Say(s)
  PROVE  TalkInv'
  <1>1. /\ Open(s) /\ net' = With(net, s, "text") /\ Count(s)
        /\ UNCHANGED <<lost, pc, tools, first, why, readSeq>> /\ "text" \in Body
    BY DEF Say, Body, lossVars
  <1>2. /\ tools[s] /\ pc[s] # "ended" /\ Peer(s) \in Side /\ Peer(Peer(s)) = s /\ Peer(s) # s
        /\ pc[Peer(s)] # "ended" => tools[Peer(s)]
    BY <1>1, OpenSides, Sides
  <1>3. /\ net'[s] = net[s] /\ net \in Mail
        /\ pc[Peer(s)] = "ended" => net' = net
        /\ pc[Peer(s)] # "ended" => Added(net'[Peer(s)], net[Peer(s)], Written(s, "text"))
    BY <1>1, Facts, WithLane
  <1>4. /\ net'[s] \in Seq(Packet) /\ net'[Peer(s)] \in Seq(Packet)
        /\ net[Peer(s)] \in Seq(Packet)
    BY <1>2, Sides DEF TypeOK
  <1>5. GoOn
    BY <1>1 DEF GoOn
  <1>6. NumbersInv(s)' /\ PlainInv(s)'
    <2>1. writeSeq'[Peer(s)] = writeSeq[Peer(s)]
      BY <1>1, <1>2 DEF Count, TypeOK
    <2> QED BY <1>1, <1>3, <1>4, <1>5, <2>1, LaneKept, SameLane
  <1>7. NumbersInv(Peer(s))' /\ PlainInv(Peer(s))'
    <2>1. CASE pc[Peer(s)] # "ended"
      BY <1>1, <1>2, <1>3, <1>5, <2>1, LaneWritten, SameLane
    <2>2. CASE pc[Peer(s)] = "ended"
      <3>1. NumbersInv(Peer(s))'
        BY <1>1, <2>2 DEF NumbersInv
      <3>2. PlainInv(Peer(s))'
        BY <1>1, <1>2 DEF PlainInv
      <3> QED BY <3>1, <3>2
    <2> QED BY <2>1, <2>2
  <1>8. EndedInv' /\ ServerStage' /\ ClientStage'
    <2>1. pc[Peer(s)] = "ended" => net'[Peer(s)] = <<>>
      BY <1>2, <1>3 DEF TalkInv, EndedInv
    <2> QED BY <1>1, <1>3, <2>1, OpenStages
  <1>9. TurnsAreKept'
    <2>1. CASE s = "client"
      BY <1>1, <2>1, OpenSides, TurnsStep
    <2>2. CASE s = "server" /\ pc.client = "chatting"
      <3>1. tools.client /\ tools.server
        BY <2>2, Facts DEF TalkInv, ClientStage
      <3> QED BY <1>1, <3>1, TurnsStep
    <2>3. CASE s = "server" /\ pc.client = "ended"
      <3>1. tools.server /\ net'.client = <<>>
        BY <1>2, <1>3, <2>3, Facts, Sides
      <3> QED BY <1>1, <3>1, NoPackets, TurnsStep, Zenon
    <2> QED BY <1>1, <2>1, <2>2, <2>3, OpenSides, Sides
  <1>10. EndsAreExplained'
    <2>1. Sound(net'[s], net[s])
      BY <1>3, SameSound
    <2>2. Sound(net'[Peer(s)], net[Peer(s)])
      BY <1>1, <1>3, <1>4, AddedElements, SameSound, Zenon
    <2>3. Sound(net'.server, net.server) /\ Sound(net'.client, net.client)
      BY <2>1, <2>2, Sides
    <2> QED BY <1>1, <2>3, WholeStep
  <1>11. \A t \in Side : t = s \/ t = Peer(s)
    BY Sides
  <1> QED BY <1>6, <1>7, <1>8, <1>9, <1>10, <1>11 DEF TalkInv

LEMMA HearTalk ==
  ASSUME TypeOK, TypeOK', AgreementInv, TalkInv, LossInv, NEW s \in Side, Hear(s)
  PROVE  TalkInv'
  <1>1. /\ Open(s) /\ Arrived(s) /\ net[s] # <<>>
        /\ UNCHANGED <<lost, tools, first, writeSeq>>
    BY DEF Hear, Arrived, lossVars
  <1>2. /\ tools[s] /\ pc[s] # "ended" /\ tools[Peer(s)]
        /\ Peer(s) \in Side /\ Peer(Peer(s)) = s /\ Peer(s) # s
    BY <1>1, OpenSides, Sides
  <1>3. PICK rest \in After(s) :
          IF InPlace(s)
          THEN net' = rest /\ Expect(s) /\ UNCHANGED <<pc, why>>
          ELSE End(s, rest, Fault(s)) /\ UNCHANGED readSeq
    BY DEF Hear
  <1>a. /\ rest \in Mail /\ rest[s] = Tail(net[s]) /\ rest[Peer(s)] = net[Peer(s)]
        /\ net[Peer(s)] \in Seq(Packet)
    BY <1>1, <1>2, AfterLane DEF TypeOK
  <1>b. CASE ~InPlace(s)
    <2>1. s = "server" /\ lost # 0
      BY <1>1, <1>2, <1>b, AlwaysInPlace, Sides
    <2>2. lost > 0
      BY <2>1 DEF TypeOK
    <2>3. Fault(s) \in Reasons \ {"none"}
      BY FaultTyped
    <2>4. rest.client = net.client
      BY <1>a, <2>1, Sides
    <2>5. pc.server # "ended" /\ End("server", rest, Fault(s)) /\ readSeq'.client = readSeq.client
      BY <1>2, <1>3, <1>b, <2>1
    <2> QED BY <1>1, <1>a, <2>2, <2>3, <2>4, <2>5, EndOfServer
  <1>c. CASE InPlace(s)
    <2>4. net' = rest /\ Expect(s) /\ UNCHANGED <<pc, why>>
      BY <1>3, <1>c
    <2>5. net'[s] = Tail(net[s]) /\ net'[Peer(s)] = net[Peer(s)]
      BY <1>a, <2>4
    <2>6. GoOn
      BY <1>1, <2>4 DEF GoOn
    <2>7. readSeq'[s] = NextNumber(readSeq[s]) /\ readSeq'[Peer(s)] = readSeq[Peer(s)]
      BY <1>2, <2>4 DEF Expect, TypeOK
    <2>8. NumbersInv(s)' /\ PlainInv(s)'
      BY <1>1, <1>2, <2>5, <2>6, <2>7, LaneRead
    <2>9. NumbersInv(Peer(s))' /\ PlainInv(Peer(s))'
      BY <1>1, <1>2, <1>a, <2>5, <2>6, <2>7, LaneKept, SameLane
    <2>10. EndedInv' /\ ServerStage' /\ ClientStage'
      <3>1. pc[Peer(s)] = "ended" => net'[Peer(s)] = <<>>
        BY <1>2, <2>5 DEF TalkInv, EndedInv
      <3>2. s = "client" => readSeq'.server = readSeq.server
        BY <2>7, Sides
      <3> QED BY <1>1, <2>4, <3>1, <3>2, OpenStages
    <2>11. TurnsAreKept'
      <3>1. tools'.server /\ tools'.client
        BY <1>1, <1>2, Sides
      <3> QED BY <3>1, TurnsStep
    <2>12. EndsAreExplained'
      <3>1. Sound(net'[s], net[s]) /\ Sound(net'[Peer(s)], net[Peer(s)])
        <4>1. net[s] \in Seq(Packet)
          BY DEF TypeOK
        <4> QED BY <1>1, <2>5, <4>1, TailElements, SameSound
      <3>2. Sound(net'.server, net.server) /\ Sound(net'.client, net.client)
        BY <3>1, Sides
      <3> QED BY <1>1, <2>4, <3>2, WholeStep
    <2>13. \A t \in Side : t = s \/ t = Peer(s)
      BY Sides
    <2> QED BY <2>8, <2>9, <2>10, <2>11, <2>12, <2>13 DEF TalkInv
  <1> QED BY <1>b, <1>c

\* The start of a packet is dropped, or the rest of one: the numbers of what
\* follows are one further from what the server expects.
LEMMA OtherBranchTalk ==
  ASSUME TypeOK, TypeOK', AgreementInv, TalkInv, OtherBranch
  PROVE  TalkInv'
  <1> USE DEF toolVars
  <1>1. /\ Open("server") /\ UNCHANGED <<first, pc, tools, writeSeq, readSeq, why>>
        /\ \/ UNCHANGED <<net, lost>>
           \/ /\ net.server # <<>> /\ lost' = lost + 1
              /\ net' = [net EXCEPT !.server = Tail(@)]
    BY DEF OtherBranch
  <1>2. /\ pc.server = "serving" /\ tools.server /\ tools.client
        /\ pc.client \in {"chatting", "ended"}
    BY <1>1, OpenSides, Sides DEF Open, AgreementInv, Agreement
  <1>3. CASE UNCHANGED <<net, lost>>
    <2>1. GoOn
      BY <1>1, <1>3 DEF GoOn
    <2>2. ASSUME NEW s \in Side PROVE NumbersInv(s)' /\ PlainInv(s)'
      <3>1. net'[s] \in Seq(Packet) /\ Alike(net'[s], net[s])
        BY <1>3, SameLane DEF TypeOK
      <3> QED BY <1>1, <2>1, <3>1, LaneKept
    <2>3. EndedInv' /\ ServerStage' /\ ClientStage'
      BY <1>1, <1>3 DEF TalkInv, EndedInv, ServerStage, ClientStage, TimedOut
    <2>4. TurnsAreKept'
      BY <1>1, <1>2, TurnsStep
    <2>5. EndsAreExplained'
      BY <1>1, <1>3, WholeStep, SameSound
    <2> QED BY <2>2, <2>3, <2>4, <2>5 DEF TalkInv
  <1>4. CASE /\ net.server # <<>> /\ lost' = lost + 1
             /\ net' = [net EXCEPT !.server = Tail(@)]
    <2>1. /\ net'.server = Tail(net.server) /\ net'.client = net.client
          /\ net.server \in Seq(Packet)
      BY <1>4, Sides DEF TypeOK
    <2>2. NumbersInv("client")' /\ PlainInv("client")'
      <3>1. Base("client")' = Base("client") /\ PlainAhead("client")' = PlainAhead("client")
        BY <1>1, <2>1 DEF Base, Expected, Missing, PlainAhead
      <3> QED BY <1>1, <2>1, <3>1, Sides DEF TalkInv, NumbersInv, PlainInv
    <2>3. NumbersInv("server")'
      <3> DEFINE number == readSeq.server + lost
      <3>1. number \in Nat /\ Len(net.server) \in Nat /\ Len(net'.server) = Len(net.server) - 1
        <4>1. readSeq.server \in Nat /\ lost \in Nat
          BY NumbersIn, Sides DEF TypeOK
        <4> QED BY <1>4, <2>1, <4>1, TailElements
      <3>2. /\ Counted(net.server, 0, number)
            /\ pc.client # "ended" =>
                 writeSeq.client = (number + (Len(net.server) - 0)) % SeqModulus
        BY <1>2, Sides DEF TalkInv, NumbersInv, PlainAhead, Base, Expected, Missing
      <3> HIDE DEF number
      <3>3. Counted(net'.server, 0, number + 1)
        BY <1>4, <2>1, <3>1, <3>2, CountedDropped
      <3>4. number + (Len(net.server) - 0) = (number + 1) + (Len(net'.server) - 0)
        <4>1. \A n, m \in Nat : n + (m - 0) = (n + 1) + ((m - 1) - 0)
          OBVIOUS
        <4> QED BY <3>1, <4>1
      <3>5. Base("server")' = number + 1 /\ PlainAhead("server")' = 0
        BY <1>1, <1>2, <1>4, Sides DEF Base, Expected, Missing, PlainAhead, number, TypeOK
      <3> QED BY <1>1, <3>2, <3>3, <3>4, <3>5, Sides DEF NumbersInv
    <2>4. PlainInv("server")'
      BY <1>1, <1>2, Sides DEF PlainInv
    <2>5. EndedInv' /\ ServerStage' /\ ClientStage'
      <3>1. pc.client = "ended" => net'.client = <<>>
        BY <2>1, Facts
      <3> QED BY <1>1, <1>4, <3>1, OpenStages, Sides
    <2>6. TurnsAreKept'
      BY <1>1, <1>2, TurnsStep
    <2>7. EndsAreExplained'
      <3>1. Sound(net'.server, net.server) /\ Sound(net'.client, net.client)
        BY <1>4, <2>1, TailElements, SameSound
      <3> QED BY <1>1, <1>4, <3>1, WholeStep
    <2> QED BY <2>2, <2>3, <2>4, <2>5, <2>6, <2>7, Sides DEF TalkInv
  <1> QED BY <1>1, <1>3, <1>4

LEMMA ReadTornTalk ==
  ASSUME TypeOK, TypeOK', AgreementInv, TalkInv, LossInv, ReadTorn
  PROVE  TalkInv'
  <1>1. /\ pc.server # "ended" /\ scrap /\ End("server", net, "hmac")
        /\ UNCHANGED <<first, lost, tools, readSeq>>
    BY DEF ReadTorn, Open, toolVars, lossVars
  <1>2. lost > 0
    BY <1>1 DEF LossInv, TypeOK
  <1>3. "hmac" \in Reasons \ {"none"} /\ net \in Mail
    BY Facts DEF Reasons
  <1> QED BY <1>1, <1>2, <1>3, EndOfServer

\* A side that ends of its own accord, or because the other one has.
LEMMA LeaveTalk ==
  ASSUME TypeOK, TypeOK', AgreementInv, TalkInv, NEW s \in Side, ReadEnd(s) \/ GiveUp(s)
  PROVE  TalkInv'
  <1>1. pc[s] # "ended" /\ UNCHANGED <<first, lost, tools, readSeq>>
    BY DEF ReadEnd, GiveUp, toolVars, lossVars
  <1>2. PICK reason \in {"interrupted", "gave up"} : End(s, net, reason)
    BY DEF ReadEnd, GiveUp
  <1>3. reason \in Reasons \ {"misplaced", "hmac", "none", "proof", "refused"} /\ net \in Mail
    BY Facts DEF Reasons
  <1>4. CASE s = "server"
    BY <1>1, <1>2, <1>3, <1>4, EndOfServer
  <1>5. CASE s = "client"
    BY <1>1, <1>2, <1>3, <1>5, EndOfClient
  <1> QED BY <1>4, <1>5, Sides

LEMMA StepLoss == TypeOK /\ LossInv /\ [Next]_vars => LossInv'
  <1> SUFFICES ASSUME TypeOK, LossInv, [Next]_vars PROVE LossInv'
    OBVIOUS
  <1> USE DEF lossVars
  <1>a. ASSUME UNCHANGED <<scrap, lost>>,
               \/ pc.server \notin {"serving", "ended"}
               \/ pc' = pc \/ pc'.server \in {pc.server, "ended"}
        PROVE  LossInv'
    BY <1>a, Zenon DEF LossInv
  <1>b. ASSUME NEW s \in Side, NEW packets, NEW reason, End(s, packets, reason)
        PROVE  pc'.server \in {pc.server, "ended"}
    BY <1>b, Sides DEF End, Goto, TypeOK
  <1>c. ASSUME NEW state, Goto("client", state) PROVE pc'.server \in {pc.server, "ended"}
    BY <1>c, Sides DEF Goto, TypeOK
  <1>1. CASE SendKey \/ TakeAnswer \/ TakeNick
    <2>1. pc.server \notin {"serving", "ended"} /\ UNCHANGED <<scrap, lost>>
      BY <1>1 DEF SendKey, TakeAnswer, TakeNick
    <2> QED BY <1>a, <2>1
  <1>2. CASE TimeOut
    BY <1>2, <1>a DEF TimeOut
  <1>3. CASE TakeKey
    BY <1>3, <1>a, <1>b, <1>c, Sides DEF TakeKey
  <1>4. CASE TakeProof
    BY <1>4, <1>a, <1>b, <1>c, Sides DEF TakeProof
  <1>5. CASE TakeResponse
    BY <1>5, <1>a, <1>b, <1>c, Sides DEF TakeResponse
  <1>6. ASSUME NEW nick \in Nicks, TypeNick(nick) PROVE LossInv'
    BY <1>6, <1>a, <1>b, <1>c, Sides DEF TypeNick
  <1>7. ASSUME NEW s \in Side, Say(s) PROVE LossInv'
    BY <1>7, <1>a DEF Say
  <1>8. ASSUME NEW s \in Side, Hear(s) PROVE LossInv'
    BY <1>8, <1>a, <1>b DEF Hear
  <1>9. ASSUME NEW s \in Side, ReadEnd(s) \/ GiveUp(s) PROVE LossInv'
    BY <1>9, <1>a, <1>b DEF ReadEnd, GiveUp
  <1>10. CASE OtherBranch
    <2>1. pc'.server = "serving" /\ (lost' = lost + 1 \/ (scrap' = FALSE /\ lost' = lost))
      BY <1>10 DEF OtherBranch, Open
    <2>2. lost + 1 # 0
      BY DEF TypeOK
    <2> QED BY <2>1, <2>2, Zenon DEF LossInv
  <1>11. CASE ReadTorn
    BY <1>11, <1>a, <1>b, Sides DEF ReadTorn
  <1>12. CASE UNCHANGED vars
    BY <1>12, <1>a DEF vars
  <1> QED
    BY <1>1, <1>2, <1>3, <1>4, <1>5, <1>6, <1>7, <1>8, <1>9, <1>10, <1>11, <1>12, Sides
    DEF Next, ServerGoesOn, ClientGoesOn, ReadBranch, RecvMsg

LEMMA StepTalk ==
  TypeOK /\ TypeOK' /\ AgreementInv /\ TalkInv /\ LossInv /\ [Next]_vars => TalkInv'
  <1> SUFFICES ASSUME TypeOK, TypeOK', AgreementInv, TalkInv, LossInv, [Next]_vars
               PROVE  TalkInv'
    OBVIOUS
  <1>1. ASSUME SendKey PROVE TalkInv'
    BY <1>1, SendKeyTalk
  <1>2. ASSUME TakeAnswer PROVE TalkInv'
    BY <1>2, TakeAnswerTalk
  <1>3. ASSUME TakeNick PROVE TalkInv'
    BY <1>3, TakeNickTalk
  <1>4. ASSUME TimeOut PROVE TalkInv'
    BY <1>4, TimeOutTalk
  <1>5. ASSUME TakeKey PROVE TalkInv'
    BY <1>5, TakeKeyTalk
  <1>6. ASSUME TakeProof PROVE TalkInv'
    BY <1>6, TakeProofTalk
  <1>7. ASSUME TakeResponse PROVE TalkInv'
    BY <1>7, TakeResponseTalk
  <1>8. ASSUME NEW nick \in Nicks, TypeNick(nick) PROVE TalkInv'
    BY <1>8, TypeNickTalk
  <1>9. ASSUME NEW s \in Side, Say(s) PROVE TalkInv'
    BY <1>9, SayTalk
  <1>10. ASSUME NEW s \in Side, Hear(s) PROVE TalkInv'
    BY <1>10, HearTalk
  <1>11. ASSUME NEW s \in Side, ReadEnd(s) \/ GiveUp(s) PROVE TalkInv'
    BY <1>11, LeaveTalk
  <1>13. ASSUME OtherBranch PROVE TalkInv'
    BY <1>13, OtherBranchTalk
  <1>14. ASSUME ReadTorn PROVE TalkInv'
    BY <1>14, ReadTornTalk
  <1>12. CASE UNCHANGED vars
    <2>1. UNCHANGED <<first, pc, tools, writeSeq, readSeq, net, why, lost>>
      BY <1>12 DEF vars, toolVars, lossVars
    <2>2. EndedInv' /\ ServerStage' /\ ClientStage'
      BY <2>1 DEF TalkInv, EndedInv, ServerStage, ClientStage, TimedOut
    <2>3. ASSUME NEW s \in Side PROVE NumbersInv(s)' /\ PlainInv(s)'
      BY <2>1 DEF TalkInv, NumbersInv, PlainInv, PlainAhead, Base, Expected, Missing
    <2>4. TurnsAreKept'
      BY <2>1 DEF TalkInv, TurnsAreKept, TimedOut
    <2>5. EndsAreExplained'
      BY <2>1, WholeStep, SameSound
    <2> QED BY <2>2, <2>3, <2>4, <2>5 DEF TalkInv
  <1> QED
    BY <1>1, <1>2, <1>3, <1>4, <1>5, <1>6, <1>7, <1>8, <1>9, <1>10, <1>11, <1>12, <1>13,
       <1>14, Sides
    DEF Next, ServerGoesOn, ClientGoesOn, ReadBranch, RecvMsg

LEMMA InitTalk == Init => TalkInv /\ LossInv
  <1> SUFFICES ASSUME Init PROVE TalkInv /\ LossInv
    OBVIOUS
  <1>1. /\ \A s \in Side : pc[s] = "key" /\ ~tools[s] /\ net[s] = <<>> /\ why[s] = "none"
        /\ pc.server = "key" /\ pc.client = "key" /\ ~tools.server /\ ~tools.client
        /\ net.server = <<>> /\ net.client = <<>> /\ why.server = "none" /\ why.client = "none"
    BY Sides DEF Init
  <1>2. \A s \in Side : \A i \in 1 .. Len(net[s]) : FALSE
    BY <1>1
  <1>3. EndedInv /\ ServerStage /\ ClientStage
    BY <1>1, Sides DEF EndedInv, ServerStage, ClientStage
  <1>4. \A s \in Side : NumbersInv(s) /\ PlainInv(s)
    BY <1>1, <1>2, Sides DEF NumbersInv, PlainInv
  <1>5. TurnsAreKept
    <2>1. \A s \in Side : Len(net[s]) = 0
      BY <1>1
    <2> QED BY <2>1 DEF TurnsAreKept
  <1>6. EndsAreExplained
    BY <1>1, <1>2 DEF EndsAreExplained
  <1>7. LossInv
    BY Zenon DEF Init, LossInv
  <1> QED BY <1>3, <1>4, <1>5, <1>6, <1>7 DEF TalkInv

LEMMA TalkKept == Spec => [](TypeOK /\ AgreementInv /\ TalkInv)
  <1>1. Init => TypeOK /\ AgreementInv /\ TalkInv /\ LossInv
    BY InitTyped, InitAgreement, InitTalk
  <1>2. TypeOK /\ AgreementInv /\ TalkInv /\ LossInv /\ [Next]_vars
          => (TypeOK /\ AgreementInv /\ TalkInv /\ LossInv)'
    BY StepTyped, StepAgreement, StepTalk, StepLoss
  <1> QED BY <1>1, <1>2, PTL DEF Spec

LEMMA NumbersAgree == TypeOK /\ AgreementInv /\ TalkInv => SequencesAgree
  <1> SUFFICES ASSUME TypeOK, AgreementInv, TalkInv, NEW s \in Side, pc[s] # "ended", tools[Peer(s)]
               PROVE  \E plain \in 0 .. Len(net[s]) :
                        /\ \A i \in 1 .. plain : net[s][i].form = "plain"
                        /\ \A i \in (plain + 1) .. Len(net[s]) :
                             /\ net[s][i].form = "cipher"
                             /\ net[s][i].seq = (Expected(s) + Missing(s) + (i - plain - 1)) % SeqModulus
                        /\ pc[Peer(s)] # "ended" =>
                             writeSeq[Peer(s)] = (Expected(s) + Missing(s) + (Len(net[s]) - plain)) % SeqModulus
    BY DEF SequencesAgree
  <1> DEFINE k == PlainAhead(s)
  <1>1. k \in 0 .. Len(net[s]) /\ Len(net[s]) \in Nat
    BY NumbersIn
  <1>2. /\ Counted(net[s], k, Expected(s) + Missing(s))
        /\ pc[Peer(s)] # "ended" =>
             writeSeq[Peer(s)] = (Expected(s) + Missing(s) + (Len(net[s]) - k)) % SeqModulus
    BY DEF TalkInv, NumbersInv, Base
  <1> HIDE DEF k
  <1>3. /\ \A i \in 1 .. k : i \in 1 .. Len(net[s]) /\ i <= k
        /\ \A i \in (k + 1) .. Len(net[s]) : i \in 1 .. Len(net[s]) /\ i > k
    BY <1>1
  <1>4. /\ \A i \in 1 .. k : net[s][i].form = "plain"
        /\ \A i \in (k + 1) .. Len(net[s]) :
             /\ net[s][i].form = "cipher"
             /\ net[s][i].seq = (Expected(s) + Missing(s) + (i - k - 1)) % SeqModulus
    BY <1>2, <1>3 DEF Counted
  <1> QED BY <1>1, <1>2, <1>4

(* From the plain packets of the key exchange to the numbered ones behind  *)
(* it, over tokens, texts in both directions and the wrap of the number,   *)
(* what a reader expects and what it will be sent agree, but for exactly   *)
(* the packets that the select! of a serving server has dropped half read, *)
(* for every modulus and every number drawn (import_safety_tools,          *)
(* prepare_packet, validate_packet).                                       *)
THEOREM NumbersStayTogether == Spec => []SequencesAgree
  BY TalkKept, NumbersAgree, PTL

(* The sides take turns while packets are plain, so that a read never runs *)
(* into a packet behind, but for the token of a server that timed out      *)
(* (receive_packet, key_exchange).                                         *)
THEOREM PlainPacketsTakeTurns == Spec => []TurnsAreKept
  <1>1. TalkInv => TurnsAreKept
    BY DEF TalkInv
  <1> QED BY <1>1, TalkKept, PTL

(* The client never fails a packet, nor does the server before its select! *)
(* has dropped one half read; a proof fails, a response is taken for a     *)
(* refusal or a packet is torn only where the server timed out, whatever   *)
(* is dropped, refused or given up on either side (decipher_packet,        *)
(* validate_packet, verify_slice, handles_response).                       *)
THEOREM ConnectionsEndForAReason == Spec => []EndsAreExplained
  <1>1. TalkInv => EndsAreExplained
    BY DEF TalkInv
  <1> QED BY <1>1, TalkKept, PTL
=============================================================================
