----------------------------- MODULE Handshake ------------------------------
(***************************************************************************)
(* One connection, packet by packet: the key exchange, the nick and what   *)
(* comes after, with both sides (handshaking.rs of the server and of the   *)
(* client, `handshake_wrapper`).  Both run the programs of this repository *)
(* and may have been given different secrets.                              *)
(*                                                                         *)
(* Abstracted: keys and nonces are fresh, so that a hash verifies when it  *)
(* is of this exchange and both sides have the same secret; a packet of    *)
(* the handshake fits the buffers of the socket and is written at once;    *)
(* the record of nicks is that of id_record (ChatServer), here only its    *)
(* verdict.  Packets are read as a whole, but where the select! of         *)
(* connection_handler drops one (PacketStream has them byte by byte).      *)
(***************************************************************************)
EXTENDS Naturals, Sequences

CONSTANTS
  SeqModulus,  \* sequence numbers are u32 (2^32)
  FullWidth,   \* the least number that is written with SEQ_NUM_SIZE digits (10^9)
  SeqNumbers,  \* bound: what the client's generator may draw
  Nicks,       \* bound: what the user may type, a subset of NickKinds
  MaxTexts     \* bound: texts each side sends after the handshake

Side == {"server", "client"}
Peer(s) == IF s = "server" THEN "client" ELSE "server"

\* A nick of a legal length, one that somebody has, one of less than 3 or more
\* than MAX_LEN bytes, one that does not fit in a packet.
NickKinds == {"fine", "taken", "short", "long", "huge"}

ASSUME HandshakeConstants ==
  /\ {SeqModulus, FullWidth, MaxTexts} \subseteq Nat
  /\ FullWidth < SeqModulus
  /\ SeqNumbers \subseteq 0 .. (SeqModulus - 1) /\ SeqNumbers # {}
  /\ Nicks \subseteq NickKinds

\* The tokens of the protocol, and the nicks that are answered with one.
RefusalOf == [taken |-> "TAKEN", short |-> "TOO_SHORT", long |-> "TOO_LONG"]
Tokens == {"OK", "TIMEOUT", "MALFORMED_PACKET", "TAKEN", "TOO_SHORT", "TOO_LONG"}

Body == {"key", "answer", "proof", "text"} \cup Tokens \cup NickKinds

Packet == [form : {"plain", "cipher"}, seq : 0 .. (SeqModulus - 1), body : Body,
           whole : BOOLEAN]

VARIABLES
  secretsMatch, \* both programs were given the same ASYNC_CHAT_SECRET
  first,        \* the sequence number in the client's answer
  pc,           \* [Side -> what it awaits]
  tools,        \* [Side -> it has imported the safety tools, into both handlers]
  writeSeq,     \* [Side -> the number its WriteHandler uses next]
  readSeq,      \* [Side -> the number its RecvHandler expects next]
  net,          \* [Side -> packets on their way to it]
  why,          \* [Side -> what ended it, or "none"]
  told,         \* the tokens the client has received
  texts,        \* [Side -> texts it has sent]
  scrap,        \* the server has dropped the start of a packet, the rest is to come
  lost          \* how many packets of the client it has dropped so (history)

toolVars == <<tools, writeSeq, readSeq>>
lossVars == <<scrap, lost>>
vars == <<secretsMatch, first, pc, toolVars, net, why, told, texts, lossVars>>

Reasons == {"none", "secret", "number", "proof", "misplaced", "hmac", "refused",
            "timeout", "nick", "unwritable", "interrupted", "gave up"}

State == {"key", "answer", "proof", "nick", "serving", "chatting", "ended"}

TypeOK ==
  /\ secretsMatch \in BOOLEAN
  /\ first \in SeqNumbers
  /\ pc \in [Side -> State]
  /\ pc.server \in {"key", "answer", "nick", "serving", "ended"}
  /\ pc.client \in {"key", "proof", "nick", "chatting", "ended"}
  /\ tools \in [Side -> BOOLEAN]
  /\ writeSeq \in [Side -> 0 .. (SeqModulus - 1)]
  /\ readSeq \in [Side -> 0 .. (SeqModulus - 1)]
  /\ net \in [Side -> Seq(Packet)]
  /\ why \in [Side -> Reasons]
  /\ told \subseteq Tokens
  /\ texts \in [Side -> 0 .. MaxTexts]
  /\ scrap \in BOOLEAN /\ lost \in Nat

Init ==
  /\ secretsMatch \in BOOLEAN /\ first \in SeqNumbers
  /\ pc = [s \in Side |-> "key"]
  /\ tools = [s \in Side |-> FALSE]
  /\ writeSeq = [s \in Side |-> 0] /\ readSeq = [s \in Side |-> 0]
  /\ net = [s \in Side |-> <<>>]
  /\ why = [s \in Side |-> "none"]
  /\ told = {}
  /\ texts = [s \in Side |-> 0]
  /\ scrap = FALSE /\ lost = 0

-----------------------------------------------------------------------------
(* Packets.                                                                *)

\* Mutant: the number is not wrapped.
NoWrap(number) == number + 1

NextNumber(number) == (number + 1) % SeqModulus

Goto(s, state) == pc' = [pc EXCEPT ![s] = state]

\* The packets under way when s writes one more; nobody reads them at an end
\* that is closed.
With(packets, s, body) ==
  IF pc[Peer(s)] = "ended" THEN packets
  ELSE [packets EXCEPT ![Peer(s)] = Append(@,
          [form  |-> IF tools[s] THEN "cipher" ELSE "plain",
           seq   |-> IF tools[s] THEN writeSeq[s] ELSE 0,
           body  |-> body,
           whole |-> TRUE])]

\* Mutant: the number in a packet is the same for all packets.
CountsNothing(s) == UNCHANGED writeSeq

\* `prepare_packet`: an encrypted packet takes the next number.
Count(s) ==
  writeSeq' = IF tools[s] THEN [writeSeq EXCEPT ![s] = NextNumber(@)] ELSE writeSeq

\* What can be left of the packets under way to the peer when s closes its end:
\* all, unless s leaves something unread, which resets the connection.
Survivors(s, packets) ==
  {[packets EXCEPT ![s] = <<>>, ![Peer(s)] = SubSeq(@, 1, n)] :
     n \in (IF packets[s] = <<>> /\ ~(s = "server" /\ scrap)
            THEN {Len(packets[Peer(s)])}
            ELSE 0 .. Len(packets[Peer(s)]))}

\* Both halves of the socket are dropped, and the task with them.
End(s, packets, reason) ==
  /\ Goto(s, "ended")
  /\ why' = [why EXCEPT ![s] = reason]
  /\ net' \in Survivors(s, packets)

\* A packet that lacks some of its bytes never completes.
Arrived(s) == net[s] # <<>> /\ Head(net[s]).whole

Torn(packet) == [packet EXCEPT !.whole = FALSE]

\* `receive_packet`: the packets left after a read.  While plain packets are
\* expected, the buffer has room for the start of the one behind.
After(s) ==
  {[net EXCEPT ![s] = rest] : rest \in
     {Tail(net[s])} \cup
     (IF tools[s] \/ Len(net[s]) = 1 THEN {}
      ELSE {<<Torn(net[s][2])>> \o SubSeq(net[s], 3, Len(net[s]))})}

\* `recv_str`: the packet is of the form and has the number that the reader
\* expects.
InPlace(s) ==
  /\ Head(net[s]).form = (IF tools[s] THEN "cipher" ELSE "plain")
  /\ tools[s] => Head(net[s]).seq = readSeq[s]

\* What is wrong with a packet that is not in its place: its hmac
\* (`decipher_packet`), which is looked at first, or its number or size
\* (`validate_packet`).
Fault(s) == IF tools[s] /\ Head(net[s]).form = "plain" THEN "hmac" ELSE "misplaced"

\* Mutant: the number expected stays what it was.
ExpectsTheSame(s) == UNCHANGED readSeq

\* The number expected after a packet that was in its place.
Expect(s) ==
  readSeq' = IF tools[s] THEN [readSeq EXCEPT ![s] = NextNumber(@)] ELSE readSeq

\* `import_safety_tools`, on both handlers of a side.
Import(s) ==
  /\ tools' = [tools EXCEPT ![s] = TRUE]
  /\ writeSeq' = [writeSeq EXCEPT ![s] = first]
  /\ readSeq' = [readSeq EXCEPT ![s] = first]

-----------------------------------------------------------------------------
(* The server.                                                             *)

\* `key_exchange`: nonce and public key.
SendKey ==
  /\ pc.server = "key"
  /\ net' = With(net, "server", "key")
  /\ Goto("server", "answer")
  /\ UNCHANGED <<secretsMatch, first, toolVars, why, told, texts, lossVars>>

\* The answer has the length and the hash that it should have.
AnswerVerifies(packet) == packet.body = "answer" /\ secretsMatch

\* The client writes the number behind NULs, which parse::<u32> refuses.
NumberParses == first >= FullWidth

\* `key_exchange`: the answer is verified and the proof written; the tools are
\* imported without an await in between.
TakeAnswer ==
  /\ pc.server = "answer" /\ Arrived("server")
  /\ \E rest \in After("server") :
       IF ~InPlace("server")
       THEN End("server", rest, "misplaced") /\ UNCHANGED toolVars
       ELSE IF ~AnswerVerifies(Head(net.server))
       THEN End("server", rest, "secret") /\ UNCHANGED toolVars
       ELSE IF ~NumberParses
       THEN End("server", rest, "number") /\ UNCHANGED toolVars
       ELSE /\ net' = With(rest, "server", "proof")
            /\ Import("server")
            /\ Goto("server", "nick")
            /\ UNCHANGED why
  /\ UNCHANGED <<secretsMatch, first, told, texts, lossVars>>

\* Mutant: a refusal closes the connection and says nothing.
RefusesInSilence(packets, token) == packets

\* The packets under way once the server has refused a nick.
Refuse(packets, token) == With(packets, "server", token)

\* `handshake`: the nick is refused with a token or admitted without one; a
\* malformed packet is answered with a token too, a wrong hmac is not.
TakeNick ==
  /\ pc.server = "nick" /\ Arrived("server")
  /\ \E rest \in After("server") :
       LET nick == Head(net.server).body IN
       IF ~InPlace("server")
       THEN /\ UNCHANGED readSeq
            /\ IF Fault("server") = "misplaced"
               THEN End("server", Refuse(rest, "MALFORMED_PACKET"), "misplaced") /\ Count("server")
               ELSE End("server", rest, "hmac") /\ UNCHANGED writeSeq
       ELSE /\ Expect("server")
            /\ IF nick \in DOMAIN RefusalOf
               THEN End("server", Refuse(rest, RefusalOf[nick]), "nick") /\ Count("server")
               ELSE Goto("server", "serving") /\ net' = rest /\ UNCHANGED <<why, writeSeq>>
  /\ UNCHANGED <<secretsMatch, first, tools, told, texts, lossVars>>

\* Mutant: the handshake has no timer.
NoTimer == FALSE

\* `handshake_wrapper`: 20 seconds after its start the handshake is dropped,
\* and the client told, plainly or not, whatever it expects.
TimeOut ==
  /\ pc.server \in {"answer", "nick"}
  /\ End("server", With(net, "server", "TIMEOUT"), "timeout")
  /\ Count("server")
  /\ UNCHANGED <<secretsMatch, first, tools, readSeq, told, texts, lossVars>>

-----------------------------------------------------------------------------
(* The client.                                                             *)

\* The packets that are left when recv_str is dropped with a part of the first.
HalfRead(packets) ==
  IF packets = <<>> THEN <<>> ELSE <<Torn(Head(packets))>> \o Tail(packets)

\* Mutant: the client sends a text behind its answer, and awaits the proof after.
SpeaksOutOfTurn ==
  /\ pc.client = "key" /\ Arrived("client")
  /\ \E rest \in After("client") :
       net' = With(With(rest, "client", "answer"), "client", "text")
  /\ Goto("client", "proof")
  /\ UNCHANGED <<secretsMatch, first, toolVars, why, told, texts, lossVars>>

\* `key_exchange`: the key is answered with a nonce, the hash and the keys.
TakeKey ==
  /\ pc.client = "key" /\ Arrived("client")
  /\ \E rest \in After("client") :
       IF InPlace("client") /\ Head(net.client).body = "key"
       THEN /\ net' = With(rest, "client", "answer")
            /\ Goto("client", "proof")
            /\ UNCHANGED why
       ELSE End("client", rest, "misplaced")
  /\ UNCHANGED <<secretsMatch, first, toolVars, told, texts, lossVars>>

\* Mutant: any packet passes for the proof.
AnyProof(packet) == TRUE

\* `verify_slice`: only the server's proof verifies.
ProofVerifies(packet) == packet.body = "proof" /\ secretsMatch

\* `key_exchange`: the proof; then the user is asked for the nick.
TakeProof ==
  /\ pc.client = "proof" /\ Arrived("client")
  /\ \E rest \in After("client") :
       IF ~InPlace("client")
       THEN End("client", rest, "misplaced") /\ UNCHANGED toolVars
       ELSE IF ~ProofVerifies(Head(net.client))
       THEN End("client", rest, "proof") /\ UNCHANGED toolVars
       ELSE /\ net' = rest
            /\ Import("client")
            /\ Goto("client", "nick")
            /\ UNCHANGED why
  /\ UNCHANGED <<secretsMatch, first, told, texts, lossVars>>

\* `handshake`: the nick is at hand, and is sent; no answer is awaited.  The
\* recv_str that is dropped with it may have read a part of a packet.
TypeNick(nick) ==
  /\ pc.client = "nick"
  /\ \E packets \in {net, [net EXCEPT !.client = HalfRead(@)]} :
       IF nick = "huge"
       THEN End("client", packets, "unwritable") /\ UNCHANGED writeSeq
       ELSE /\ net' = With(packets, "client", nick)
            /\ Count("client")
            /\ Goto("client", "chatting")
            /\ UNCHANGED why
  /\ UNCHANGED <<secretsMatch, first, tools, readSeq, told, texts, lossVars>>

\* `handles_response`: what comes before the nick was typed; anything but the
\* token of acceptance is a refusal.
TakeResponse ==
  /\ pc.client = "nick" /\ Arrived("client")
  /\ \E rest \in After("client") :
       LET response == Head(net.client).body IN
       IF ~InPlace("client")
       THEN End("client", rest, Fault("client")) /\ UNCHANGED <<readSeq, told>>
       ELSE /\ Expect("client")
            /\ told' = told \cup ({response} \cap Tokens)
            /\ IF response = "OK"
               THEN Goto("client", "chatting") /\ net' = rest /\ UNCHANGED why
               ELSE End("client", rest, "refused")
  /\ UNCHANGED <<secretsMatch, first, tools, writeSeq, texts, lossVars>>

-----------------------------------------------------------------------------
(* Either side.                                                            *)

Open(s) == pc[s] = (IF s = "server" THEN "serving" ELSE "chatting")

\* A text of the user, or of another client.
Say(s) ==
  /\ Open(s) /\ texts[s] < MaxTexts
  /\ texts' = [texts EXCEPT ![s] = @ + 1]
  /\ net' = With(net, s, "text")
  /\ Count(s)
  /\ UNCHANGED <<secretsMatch, first, pc, tools, readSeq, why, told, lossVars>>

\* `recv_str` of the packet that is there; of what the client receives, tokens
\* included, it displays everything.
Hear(s) ==
  /\ Open(s) /\ Arrived(s)
  /\ \E rest \in After(s) :
       IF ~InPlace(s)
       THEN End(s, rest, Fault(s)) /\ UNCHANGED <<readSeq, told>>
       ELSE /\ net' = rest
            /\ Expect(s)
            /\ told' = IF s = "client" THEN told \cup ({Head(net[s]).body} \cap Tokens)
                       ELSE told
            /\ UNCHANGED <<pc, why>>
  /\ UNCHANGED <<secretsMatch, first, tools, writeSeq, texts, lossVars>>

\* `recv_msg`: nothing interrupts it but the end.
RecvMsg == Hear("client")

\* `connection_handler`: the select! takes another branch and drops recv_str,
\* with the start of a packet or with the rest of one.
OtherBranch ==
  /\ Open("server")
  /\ \/ scrap /\ scrap' = FALSE /\ UNCHANGED <<net, lost>>
     \/ /\ net.server # <<>>
        /\ net' = [net EXCEPT !.server = Tail(@)]
        /\ scrap' = TRUE /\ lost' = lost + 1
  /\ UNCHANGED <<secretsMatch, first, pc, toolVars, why, told, texts>>

\* `receive_packet`: the buffer is filled with the rest of one packet and the
\* start of the next.
ReadTorn ==
  /\ Open("server") /\ scrap /\ net.server # <<>>
  /\ End("server", net, "hmac")
  /\ UNCHANGED <<secretsMatch, first, toolVars, told, texts, lossVars>>

\* `connection_handler`: recv_str completes; any error ends the handler.
ReadBranch == (~scrap /\ Hear("server")) \/ ReadTorn

\* Mutant: the end of the stream is not looked at while the user types.
EndUnseen(s) ==
  /\ pc[s] \notin {"ended", "nick"}
  /\ pc[Peer(s)] = "ended" /\ net[s] = <<>>
  /\ End(s, net, "interrupted")
  /\ UNCHANGED <<secretsMatch, first, toolVars, told, texts, lossVars>>

\* `receive_packet`: a read of nothing.
ReadEnd(s) ==
  /\ pc[s] # "ended" /\ <<s, pc[s]>> # <<"server", "key">>
  /\ pc[Peer(s)] = "ended" /\ ~Arrived(s)
  /\ End(s, net, "interrupted")
  /\ UNCHANGED <<secretsMatch, first, toolVars, told, texts, lossVars>>

\* The program is shut down, or its end of the socket fails.
GiveUp(s) ==
  /\ pc[s] # "ended"
  /\ End(s, net, "gave up")
  /\ UNCHANGED <<secretsMatch, first, toolVars, told, texts, lossVars>>

-----------------------------------------------------------------------------
ServerGoesOn == SendKey \/ TakeAnswer \/ TakeNick \/ ReadBranch \/ ReadEnd("server")
ClientGoesOn == TakeKey \/ TakeProof \/ TakeResponse \/ RecvMsg \/ ReadEnd("client")

Next ==
  \/ ServerGoesOn \/ TimeOut \/ OtherBranch \/ ClientGoesOn
  \/ \E nick \in Nicks : TypeNick(nick)
  \/ \E s \in Side : Say(s) \/ GiveUp(s)

Spec == Init /\ [][Next]_vars

\* A task is polled when something has arrived, and the timer fires.  Neither
\* the users nor the programs that give up are under any obligation.
FairSpec == Spec /\ WF_vars(ServerGoesOn) /\ WF_vars(ClientGoesOn) /\ WF_vars(TimeOut)

-----------------------------------------------------------------------------
TimedOut == why.server = "timeout"

\* The number that s expects of the first encrypted packet under way to it.
Expected(s) == IF tools[s] THEN readSeq[s] ELSE first

\* What the select! of the server has dropped of the packets to s.
Missing(s) == IF s = "server" THEN lost ELSE 0

(* Across the change from plain packets to numbered ones, tokens, texts in *)
(* both directions and the wrap of the number: of the packets under way to *)
(* a reader the plain ones come first, the others bear the numbers that it *)
(* will expect, and the next one written will too; a serving server is     *)
(* behind by exactly the packets whose start its select! has dropped       *)
(* (import_safety_tools, prepare_packet, validate_packet).                 *)
SequencesAgree ==
  \A s \in Side : pc[s] # "ended" /\ tools[Peer(s)] =>
    \E plain \in 0 .. Len(net[s]) :
      /\ \A i \in 1 .. plain : net[s][i].form = "plain"
      /\ \A i \in (plain + 1) .. Len(net[s]) :
           /\ net[s][i].form = "cipher"
           /\ net[s][i].seq = (Expected(s) + Missing(s) + (i - plain - 1)) % SeqModulus
      /\ pc[Peer(s)] # "ended" =>
           writeSeq[Peer(s)] = (Expected(s) + Missing(s) + (Len(net[s]) - plain)) % SeqModulus

(* A read of a plain packet never runs into another packet: the sides take *)
(* turns, as PacketStream assumes.  Only the token of a server that timed  *)
(* out comes out of turn (receive_packet, key_exchange).                   *)
TurnsAreKept ==
  \A s \in Side : ~tools[s] /\ Len(net[s]) > 1 => s = "client" /\ TimedOut

(* Agreement: keys are used only between holders of one secret, the client *)
(* has them only if the server has, and the server admits nobody who has   *)
(* not verified it in turn (key_exchange of both sides).                   *)
Agreement ==
  /\ \A s \in Side : tools[s] => secretsMatch
  /\ tools.client => tools.server
  /\ pc.server = "serving" => tools.client

(* Nobody loses the thread but a serving server: the client never receives *)
(* a packet that is out of its place, nor does the server before it has    *)
(* dropped a packet half read in its select!; a proof fails, or a response *)
(* is taken for a refusal, only if it is the token of a server that timed  *)
(* out, and only then a packet is left torn (decipher_packet,              *)
(* validate_packet, verify_slice, handles_response).                       *)
EndsAreExplained ==
  /\ why.client \notin {"misplaced", "hmac"}
  /\ why.server \in {"misplaced", "hmac"} => lost > 0
  /\ why.client \in {"proof", "refused"} => TimedOut
  /\ \A s \in Side : \A i \in 1 .. Len(net[s]) : ~net[s][i].whole => TimedOut

(* The handshake ends on both sides, whoever is silent: the server has a   *)
(* timer, and the client, which has none, is woken by the server's         *)
(* (handshake_wrapper; the select! of the client's handshake).             *)
HandshakesEnd == \A s \in Side : <>(Open(s) \/ pc[s] = "ended")

(* A connection does not stay half open: when one side is gone the other   *)
(* ends as well, in whatever step of the handshake it is (receive_packet). *)
NoHalfOpenConnection == \A s \in Side : pc[s] = "ended" ~> pc[Peer(s)] = "ended"

(* A client whose nick is refused receives the token that says why, though *)
(* the server closes behind it and the client no longer awaits an answer;  *)
(* only a client that goes on typing may miss it: a text that the server   *)
(* leaves unread resets the connection (handshake, recv_msg).              *)
RefusalIsTold ==
  why.server = "nick" ~>
    \/ told \cap {"TAKEN", "TOO_SHORT", "TOO_LONG"} # {}
    \/ why.client = "gave up" \/ texts.client > 0

-----------------------------------------------------------------------------
(* What the documentation says, and the code does not do.                  *)

(* server handshaking.rs:31-35, all that is needed is exchanged, and the   *)
(* endpoints are authenticated: two programs with the same secret succeed. *)
SameSecretSuffices == secretsMatch => why.server # "number"
=============================================================================
