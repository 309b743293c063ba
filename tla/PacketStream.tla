---------------------------- MODULE PacketStream ----------------------------
(***************************************************************************)
(* One direction of a connection, from the `WriteHandler` of one side to   *)
(* the `RecvHandler` of the other (shared_lib/socket_handling.rs).  The    *)
(* socket carries bytes: a packet arrives in pieces, and a read may bring  *)
(* the end of one packet and the start of the next.  Packets are plain     *)
(* until the key exchange is over and encrypted, signed and numbered from  *)
(* then on; the buffer of the receiver has the size of the latter.         *)
(*                                                                         *)
(* Abstracted: a byte is its position in the stream, so that a buffer that *)
(* verifies is one that holds the bytes of one packet, each at its place;  *)
(* encryption, and the parsing of prefixes, which never fail on these.     *)
(* What is too long for a packet is refused before a byte of it is written *)
(* and makes both programs give up the connection: Close stands for it.    *)
(***************************************************************************)
EXTENDS Naturals, Sequences

CONSTANTS
  PlainSize,   \* PLAIN_PACKET_SIZE (1024)
  CipherSize,  \* CIPTEXT_W_NONCE_SIZE_AND_HASH (1084)
  SeqModulus,  \* the sequence number is a u32 (2^32)
  FirstSeq,    \* the number agreed on in the key exchange
  MaxPackets   \* bound: packets written

ASSUME StreamConstants ==
  /\ {PlainSize, CipherSize, SeqModulus, MaxPackets} \subseteq Nat \ {0}
  /\ PlainSize < CipherSize
  /\ FirstSeq \in 0 .. (SeqModulus - 1)
  /\ MaxPackets < SeqModulus

VARIABLES
  fromServer, \* the direction: TRUE, the client receives; FALSE, the server does
  packets,    \* what was written, in order: [kind, seq, start]
  length,     \* length of the stream so far
  closed,     \* the writing side has closed the connection
  nickTyped,  \* the user of the client that receives has typed a nick
  taken,      \* how much of the stream was read from the socket
  buffer,     \* RecvHandler.buffer: positions of the stream, or 0
  cursor,     \* RecvHandler.cursor
  seqNumber,  \* SafetyTools.seq_number of the receiver
  delivered,  \* numbers of the packets that recv_str returned
  outcome     \* the error that ended the receiver, or "none"

writerVars == <<packets, length, closed>>
readerVars == <<nickTyped, taken, buffer, cursor, seqNumber, delivered, outcome>>
vars == <<fromServer, writerVars, readerVars>>

\* The positions of the stream start at 1; 0 is a byte of the initial buffer.
Offsets == 0 .. (CipherSize - 1)

\* The server's key and proof, or the client's answer to the former, are plain.
PlainPackets == IF fromServer THEN 2 ELSE 1

TypeOK ==
  /\ fromServer \in BOOLEAN
  /\ packets \in Seq([kind : {"plain", "cipher"}, seq : 0 .. (SeqModulus - 1), start : Nat])
  /\ Len(packets) <= MaxPackets + 1
  /\ length \in Nat /\ closed \in BOOLEAN /\ nickTyped \in BOOLEAN
  /\ taken \in 0 .. length
  /\ buffer \in [Offsets -> Nat]
  /\ cursor \in 0 .. CipherSize
  /\ seqNumber \in 0 .. (SeqModulus - 1)
  /\ delivered \in Seq(1 .. Len(packets))
  /\ outcome \in {"none", "interrupted", "io", "hmac", "malformed"}

Init ==
  /\ fromServer \in BOOLEAN
  /\ packets = <<>> /\ length = 0 /\ closed = FALSE /\ nickTyped = FALSE
  /\ taken = 0 /\ buffer = [i \in Offsets |-> 0] /\ cursor = 0
  /\ seqNumber = FirstSeq /\ delivered = <<>> /\ outcome = "none"

SizeOf(kind) == IF kind = "plain" THEN PlainSize ELSE CipherSize

-----------------------------------------------------------------------------
(* The writing side.                                                       *)

\* `prepare_packet` and `send_packet`: a packet is written as a whole, since
\* it fits the BufWriter; only encrypted packets take a number.
WritePacket ==
  LET kind == IF Len(packets) < PlainPackets THEN "plain" ELSE "cipher"
      seq  == IF kind = "plain" THEN 0
              ELSE (FirstSeq + (Len(packets) - PlainPackets)) % SeqModulus
  IN  /\ packets' = Append(packets, [kind |-> kind, seq |-> seq, start |-> length])
      /\ length' = length + SizeOf(kind)

\* Mutant: the sides do not wait for each other.
NoTurns == TRUE

\* The handshake is a dialogue: until it is over, each side writes only when
\* it has been answered, and so when its last packet was received; the last
\* answer the server waits for is the nick.
ItsTurn ==
  /\ Len(packets) <= PlainPackets => Len(delivered) = Len(packets)
  /\ fromServer /\ Len(packets) = PlainPackets => nickTyped

Write ==
  /\ ~closed /\ Len(packets) < MaxPackets /\ ItsTurn
  /\ WritePacket
  /\ UNCHANGED <<fromServer, closed, readerVars>>

\* `handshake_wrapper`: the server does not wait any more; it says so out of
\* turn, and drops the connection.
TimeOut ==
  /\ fromServer /\ ~closed /\ Len(packets) <= PlainPackets
  /\ WritePacket
  /\ closed' = TRUE
  /\ UNCHANGED <<fromServer, readerVars>>

Close ==
  /\ ~closed
  /\ closed' = TRUE
  /\ UNCHANGED <<fromServer, packets, length, readerVars>>

-----------------------------------------------------------------------------
(* The receiving side: `recv_str`, `recv_bytes`.                           *)

\* The safety tools are imported when the key exchange is over.
Tools == Len(delivered) >= PlainPackets

\* Mutant: the size of an encrypted packet is waited for in any case.
AlwaysCipherSize == CipherSize

\* `recv_str`: how much makes a packet.
BufferSize == IF Tools THEN CipherSize ELSE PlainSize

\* All the bytes of packet n are in their places.
Holds(buf, n) ==
  \A i \in 0 .. (SizeOf(packets[n].kind) - 1) : buf[i] = packets[n].start + i + 1

\* Mutant: the number in the packet is not compared.
AnyNumber(n) == TRUE

\* `validate_packet`: the number in the packet is the one expected.
Expected(n) == Tools => packets[n].seq = seqNumber

\* Mutant: the number is not wrapped.
NoWrap(number) == number + 1

NextNumber(number) == (number + 1) % SeqModulus

\* `decipher_packet` and `validate_packet`: a buffer that holds no packet fails
\* to verify, one that holds an unexpected packet is malformed.
Decipher(buf) ==
  LET kind == IF Tools THEN "cipher" ELSE "plain"
      held == {n \in 1 .. Len(packets) : packets[n].kind = kind /\ Holds(buf, n)}
  IN  IF held = {}
      THEN /\ outcome' = (IF Tools THEN "hmac" ELSE "malformed")
           /\ UNCHANGED <<seqNumber, delivered>>
      ELSE LET n == CHOOSE m \in held : TRUE IN
           IF Expected(n)
           THEN /\ delivered' = Append(delivered, n)
                /\ seqNumber' = IF Tools THEN NextNumber(seqNumber) ELSE seqNumber
                /\ UNCHANGED outcome
           ELSE outcome' = "malformed" /\ UNCHANGED <<seqNumber, delivered>>

\* `receive_packet`: one read brings any part of what has arrived, as much as
\* the buffer has room for, even past the end of a plain packet.
Read(count) ==
  /\ outcome = "none"
  /\ count <= length - taken /\ cursor + count <= CipherSize
  /\ taken' = taken + count
  /\ LET buf == [i \in Offsets |-> IF i \in cursor .. (cursor + count - 1)
                                   THEN taken + (i - cursor) + 1 ELSE buffer[i]]
     IN  /\ buffer' = buf
         /\ IF cursor + count < BufferSize
            THEN cursor' = cursor + count /\ UNCHANGED <<seqNumber, delivered, outcome>>
            ELSE cursor' = 0 /\ Decipher(buf)
  /\ UNCHANGED <<fromServer, writerVars, nickTyped>>

\* A read of nothing.
ReadEnd ==
  /\ outcome = "none" /\ closed /\ taken = length
  /\ outcome' = "interrupted"
  /\ UNCHANGED <<fromServer, writerVars, nickTyped, taken, buffer, cursor, seqNumber, delivered>>

\* A read that fails: the socket is at fault.
ReadFails ==
  /\ outcome = "none"
  /\ outcome' = "io"
  /\ UNCHANGED <<fromServer, writerVars, nickTyped, taken, buffer, cursor, seqNumber, delivered>>

\* A branch of a select! is taken and the future of recv_str dropped: what it
\* has read is gone, the next call starts over.
DropRead ==
  /\ cursor' = 0
  /\ UNCHANGED <<fromServer, writerVars, taken, buffer, seqNumber, delivered, outcome>>

\* In the loop of connection_handler: a command, or a message to be written.
OtherBranch ==
  /\ ~fromServer /\ outcome = "none" /\ cursor # 0
  /\ Len(delivered) > PlainPackets
  /\ DropRead
  /\ UNCHANGED nickTyped

\* In the handshake of the client: the nick is at hand, and is sent.
TypeNick ==
  /\ fromServer /\ outcome = "none" /\ ~nickTyped
  /\ Len(delivered) = PlainPackets
  /\ nickTyped' = TRUE
  /\ DropRead

-----------------------------------------------------------------------------
Receive == (\E count \in 1 .. CipherSize : Read(count)) \/ ReadEnd

Next == Write \/ TimeOut \/ Close \/ Receive \/ ReadFails \/ OtherBranch \/ TypeNick

Spec == Init /\ [][Next]_vars

\* The receiving task is polled when something has arrived.
FairSpec == Spec /\ WF_vars(Receive)

-----------------------------------------------------------------------------
Queue == INSTANCE PacketQueue WITH
  written <- Len(packets), stopped <- outcome # "none"

(* Whatever the pieces in which the stream arrives, and although the       *)
(* server's loop loses what a dropped recv_str has read, packets are       *)
(* delivered in order, none doubled and none skipped: the hmac and the     *)
(* sequence number turn every loss into an error (recv_str).               *)
QueueSpec == Queue!Spec

(* The client never loses its place in the stream: its only errors are     *)
(* those of a connection that was closed or a socket that failed           *)
(* (recv_msg, client handshake).                                           *)
ClientKeepsItsPlace == fromServer => outcome \in {"none", "interrupted", "io"}

\* Where packet n ends in the stream.
EndOf(n) == IF n = 0 THEN 0 ELSE packets[n].start + SizeOf(packets[n].kind)

(* Although receive_packet offers a read more room than a plain packet     *)
(* takes, nothing of the next packet is read with it and thrown away: the  *)
(* sides of the handshake take turns.  It holds for the client until the   *)
(* server closes (a server that timed out writes out of turn), and for the *)
(* server until its select! loop begins.                                   *)
NothingThrownAway ==
  /\ outcome = "none"
  /\ IF fromServer THEN ~closed ELSE Len(delivered) <= PlainPackets
  => taken = EndOf(Len(delivered)) + cursor

(* What was written to the client is delivered, in whatever pieces it      *)
(* arrives, unless the connection is closed or the socket fails; a server  *)
(* that has dropped a half of a packet may wait for the rest for ever      *)
(* (recv_str).                                                             *)
EveryPacketArrives ==
  \A n \in 1 .. MaxPackets :
    fromServer /\ Len(packets) >= n ~> (Len(delivered) >= n \/ closed \/ outcome = "io")

(* connection_handling/utils.rs:156, a packet that fails to verify         *)
(* "shouldn't have happended".                                             *)
HmacAlwaysVerifies == outcome # "hmac"
=============================================================================
