------------------------- MODULE PacketStreamProofs -------------------------
(* The invariants of PacketStream, and that it implements the abstract     *)
(* connection, for every size of packets and every first number.           *)
EXTENDS PacketStream, TLAPS

(* Where the packets lie in the stream: one after the other.               *)
LayoutInv ==
  /\ \A n \in 1 .. Len(packets) :
       /\ packets[n].kind = IF n <= PlainPackets THEN "plain" ELSE "cipher"
       /\ n > PlainPackets =>
            packets[n].seq = (FirstSeq + ((n - 1) - PlainPackets)) % SeqModulus
       /\ packets[n].start = EndOf(n - 1)
       /\ EndOf(n) <= length
  /\ \A m, n \in 1 .. Len(packets) : m < n => EndOf(m) <= packets[n].start
  /\ length = EndOf(Len(packets))

(* The handshake is a dialogue, but for the last word of a server that     *)
(* does not wait any more.                                                 *)
OutOfTurn == IF fromServer /\ closed THEN 1 ELSE 0

TurnsInv ==
  /\ Len(delivered) <= Len(packets)
  /\ Len(delivered) < PlainPackets => Len(packets) <= Len(delivered) + 1 + OutOfTurn
  /\ Len(delivered) = PlainPackets /\ fromServer /\ ~nickTyped =>
       Len(packets) <= PlainPackets + OutOfTurn
  /\ nickTyped => Len(delivered) >= PlainPackets
  /\ Len(packets) <= MaxPackets + OutOfTurn

(* The receiver counts what it has received.                               *)
CountInv ==
  seqNumber = IF Tools THEN (FirstSeq + (Len(delivered) - PlainPackets)) % SeqModulus
                       ELSE FirstSeq

(* The buffer holds what was read since the last packet, or the last call, *)
(* from this place of the stream on.                                       *)
Base == taken - cursor

BufferInv ==
  /\ cursor <= taken
  /\ \A i \in 0 .. (cursor - 1) : buffer[i] = Base + i + 1

(* The receiver is at the start of the next packet; or in the middle of    *)
(* the last one there will ever be; or it is a server that may have lost   *)
(* its place in its select! loop.                                          *)
Aligned == Base = EndOf(Len(delivered))

CutOff ==
  /\ fromServer /\ closed
  /\ Len(packets) = Len(delivered) + 1
  /\ Base > EndOf(Len(delivered))

PlaceInv ==
  outcome = "none" =>
    Aligned \/ CutOff \/ (~fromServer /\ Len(delivered) > PlainPackets)

StreamInv ==
  /\ TypeOK /\ LayoutInv /\ TurnsInv /\ CountInv /\ BufferInv /\ PlaceInv
  /\ ClientKeepsItsPlace

-----------------------------------------------------------------------------
LEMMA Caps ==
  /\ PlainSize \in Nat /\ CipherSize \in Nat /\ SeqModulus \in Nat /\ MaxPackets \in Nat
  /\ PlainSize > 0 /\ SeqModulus > 0 /\ MaxPackets > 0
  /\ PlainSize < CipherSize /\ FirstSeq \in Nat /\ FirstSeq < SeqModulus
  /\ MaxPackets < SeqModulus
  BY StreamConstants

(* The sequence number goes round.                                         *)
LEMMA Mod ==
  ASSUME NEW m \in Nat \ {0}, NEW a \in Nat, a < 2 * m
  PROVE  a % m \in 0 .. (m - 1) /\ a % m = IF a < m THEN a ELSE a - m
  OBVIOUS

LEMMA SeqRange == \A k \in Nat : k < SeqModulus => (FirstSeq + k) % SeqModulus \in 0 .. (SeqModulus - 1)
  BY Caps, Mod

(* It is not repeated within the packets of a run.                         *)
LEMMA SeqUnique ==
  ASSUME NEW j \in Nat, NEW k \in Nat, j < SeqModulus, k < SeqModulus,
         (FirstSeq + j) % SeqModulus = (FirstSeq + k) % SeqModulus
  PROVE  j = k
<1>1. ASSUME NEW i \in Nat, i < SeqModulus
      PROVE  /\ FirstSeq + i < SeqModulus => (FirstSeq + i) % SeqModulus = FirstSeq + i
             /\ FirstSeq + i >= SeqModulus =>
                  (FirstSeq + i) % SeqModulus = FirstSeq + i - SeqModulus
  BY <1>1, Caps, Mod
<1> QED
  BY <1>1, Caps

LEMMA SeqNext ==
  ASSUME NEW k \in Nat, k + 1 < SeqModulus
  PROVE  NextNumber((FirstSeq + k) % SeqModulus) = (FirstSeq + (k + 1)) % SeqModulus
<1>1. CASE FirstSeq + k < SeqModulus
  <2>1. (FirstSeq + k) % SeqModulus = FirstSeq + k
    BY <1>1, Caps, Mod
  <2> QED
    BY <2>1, Caps DEF NextNumber
<1>2. CASE FirstSeq + k >= SeqModulus
  <2>1. (FirstSeq + k) % SeqModulus = FirstSeq + k - SeqModulus
    BY <1>2, Caps, Mod
  <2>2. (FirstSeq + k - SeqModulus) + 1 < SeqModulus
    BY <1>2, Caps
  <2>3. ((FirstSeq + k - SeqModulus) + 1) % SeqModulus = (FirstSeq + k - SeqModulus) + 1
    BY <1>2, <2>2, Caps, Mod
  <2>4. (FirstSeq + (k + 1)) % SeqModulus = FirstSeq + (k + 1) - SeqModulus
    BY <1>2, <2>2, Caps, Mod
  <2> QED
    BY <2>1, <2>3, <2>4, Caps DEF NextNumber
<1> QED
  BY <1>1, <1>2, Caps

LEMMA Plain == PlainPackets \in {1, 2}
  BY DEF PlainPackets

LEMMA InitStream == Init => StreamInv
<1> SUFFICES ASSUME Init PROVE StreamInv
  OBVIOUS
<1> USE DEF Init
<1>1. TypeOK
  <2>1. /\ packets \in Seq([kind : {"plain", "cipher"}, seq : 0 .. (SeqModulus - 1), start : Nat])
        /\ Len(packets) = 0 /\ delivered \in Seq(1 .. Len(packets))
    OBVIOUS
  <2>2. buffer \in [Offsets -> Nat]
    OBVIOUS
  <2>4. fromServer \in BOOLEAN /\ closed \in BOOLEAN /\ nickTyped \in BOOLEAN
    BY Zenon
  <2>3. /\ length \in Nat /\ taken \in 0 .. length /\ cursor \in 0 .. CipherSize
        /\ seqNumber \in 0 .. (SeqModulus - 1) /\ Len(packets) <= MaxPackets + 1
        /\ outcome = "none"
    BY Caps
  <2> HIDE DEF Init
  <2> QED
    BY <2>1, <2>2, <2>3, <2>4, Zenon DEF TypeOK
<1>2. LayoutInv /\ TurnsInv /\ BufferInv
  BY Plain, Caps DEF LayoutInv, EndOf, TurnsInv, OutOfTurn, BufferInv, Base
<1>3. CountInv /\ PlaceInv /\ ClientKeepsItsPlace
  BY Plain DEF CountInv, Tools, PlaceInv, Aligned, Base, EndOf, ClientKeepsItsPlace
<1> QED
  BY <1>1, <1>2, <1>3 DEF StreamInv

-----------------------------------------------------------------------------
(* What a packet is, and how the stream grows.                             *)
Packet == [kind : {"plain", "cipher"}, seq : 0 .. (SeqModulus - 1), start : Nat]

LEMMA Shape ==
  ASSUME TypeOK
  PROVE  /\ packets \in Seq(Packet) /\ Len(packets) \in Nat /\ length \in Nat
         /\ \A n \in 1 .. Len(packets) :
              /\ packets[n] \in Packet /\ packets[n].start \in Nat
              /\ packets[n].kind \in {"plain", "cipher"} /\ packets[n].seq \in Nat
         /\ taken \in Nat /\ taken <= length /\ cursor \in Nat /\ Len(delivered) \in Nat
         /\ \A n \in 0 .. Len(packets) : EndOf(n) \in Nat
<1>1. packets \in Seq(Packet) /\ Len(packets) \in Nat /\ length \in Nat
  BY DEF TypeOK, Packet
<1>2. ASSUME NEW n \in 1 .. Len(packets)
      PROVE  /\ packets[n] \in Packet /\ packets[n].start \in Nat
             /\ packets[n].kind \in {"plain", "cipher"} /\ packets[n].seq \in Nat
  <2>1. packets[n] \in Packet
    BY <1>1
  <2> QED
    BY <2>1, Caps DEF Packet
<1>3. taken \in Nat /\ taken <= length /\ cursor \in Nat /\ Len(delivered) \in Nat
  BY Caps DEF TypeOK
<1>4. \A n \in 0 .. Len(packets) : EndOf(n) \in Nat
  BY <1>1, <1>2, Caps DEF EndOf, SizeOf
<1> QED
  BY <1>1, <1>2, <1>3, <1>4

LEMMA Written ==
  ASSUME TypeOK, LayoutInv, Len(packets) <= MaxPackets, WritePacket, UNCHANGED fromServer
  PROVE  /\ packets' \in Seq(Packet) /\ Len(packets') = Len(packets) + 1
         /\ length' \in Nat /\ length' > length
         /\ \A n \in 0 .. Len(packets) : EndOf(n)' = EndOf(n)
         /\ LayoutInv'
<1> DEFINE kind == IF Len(packets) < PlainPackets THEN "plain" ELSE "cipher"
           seq  == IF kind = "plain" THEN 0
                   ELSE (FirstSeq + (Len(packets) - PlainPackets)) % SeqModulus
           last == [kind |-> kind, seq |-> seq, start |-> length]
<1>1. packets' = Append(packets, last) /\ length' = length + SizeOf(kind)
  BY DEF WritePacket
<1>2. kind \in {"plain", "cipher"} /\ SizeOf(kind) \in Nat /\ SizeOf(kind) > 0
  BY Caps DEF SizeOf
<1>3. seq \in 0 .. (SeqModulus - 1)
  <2>1. CASE kind = "plain"
    BY <2>1, Caps
  <2>2. CASE kind # "plain"
    <3>1. Len(packets) - PlainPackets \in Nat /\ Len(packets) - PlainPackets < SeqModulus
      BY <2>2, Caps, Plain, Shape
    <3> QED
      BY <2>2, <3>1, SeqRange
  <2> QED
    BY <2>1, <2>2
<1>4. last \in Packet
  BY <1>2, <1>3, Shape DEF Packet
<1>5. /\ last.kind = kind /\ last.start = length
      /\ Len(packets) >= PlainPackets => last.seq = (FirstSeq + (Len(packets) - PlainPackets)) % SeqModulus
  BY Plain, Shape
<1> HIDE DEF kind, seq, last
<1>6. /\ packets' \in Seq(Packet) /\ Len(packets') = Len(packets) + 1
      /\ \A n \in 1 .. Len(packets) : packets'[n] = packets[n]
      /\ packets'[Len(packets) + 1] = last
  BY <1>1, <1>4, Shape
<1>7. \A n \in 0 .. Len(packets) : EndOf(n)' = EndOf(n)
  BY <1>6, Shape DEF EndOf
<1>8. length' \in Nat /\ length' > length /\ length' = EndOf(Len(packets))'
  BY <1>1, <1>2, <1>5, <1>6, Shape DEF EndOf
<1>9. LayoutInv'
  <2>0. PlainPackets' = PlainPackets
    BY DEF PlainPackets
  <2>1. ASSUME NEW n \in 1 .. Len(packets')
        PROVE  /\ packets'[n].kind = IF n <= PlainPackets THEN "plain" ELSE "cipher"
               /\ n > PlainPackets =>
                    packets'[n].seq = (FirstSeq + ((n - 1) - PlainPackets)) % SeqModulus
               /\ packets'[n].start = EndOf(n - 1)'
               /\ EndOf(n)' <= length'
    <3>1. CASE n \in 1 .. Len(packets)
      <4>1. packets'[n] = packets[n] /\ EndOf(n)' = EndOf(n) /\ EndOf(n - 1)' = EndOf(n - 1)
        BY <1>6, <1>7, <3>1, Shape
      <4>2. EndOf(n) <= length /\ EndOf(n) \in Nat
        BY <3>1, Shape DEF LayoutInv
      <4>3. EndOf(n)' <= length'
        BY <1>8, <4>1, <4>2, Shape
      <4> QED
        BY <3>1, <4>1, <4>3 DEF LayoutInv
    <3>2. CASE n = Len(packets) + 1
      <4>1. packets'[n].kind = IF n <= PlainPackets THEN "plain" ELSE "cipher"
        BY <1>5, <1>6, <3>2, Shape, Plain DEF kind
      <4>2. n > PlainPackets => packets'[n].seq = (FirstSeq + ((n - 1) - PlainPackets)) % SeqModulus
        BY <1>5, <1>6, <3>2, Shape, Plain
      <4>3. packets'[n].start = EndOf(n - 1)'
        BY <1>5, <1>6, <1>7, <3>2, Shape DEF LayoutInv
      <4> QED
        BY <1>6, <1>8, <3>2, <4>1, <4>2, <4>3
    <3> QED
      BY <1>6, <3>1, <3>2, Shape
  <2>2. ASSUME NEW m \in 1 .. Len(packets'), NEW n \in 1 .. Len(packets'), m < n
        PROVE  EndOf(m)' <= packets'[n].start
    <3>1. m \in 1 .. Len(packets) /\ EndOf(m)' = EndOf(m)
      BY <1>6, <1>7, <2>2, Shape
    <3>2. CASE n \in 1 .. Len(packets)
      BY <1>6, <2>2, <3>1, <3>2 DEF LayoutInv
    <3>3. CASE n = Len(packets) + 1
      BY <1>5, <1>6, <3>1, <3>3 DEF LayoutInv
    <3> QED
      BY <1>6, <3>2, <3>3, Shape
  <2> QED
    BY <1>8, <2>0, <2>1, <2>2 DEF LayoutInv
<1> QED
  BY <1>6, <1>7, <1>8, <1>9

-----------------------------------------------------------------------------
(* The writing side.                                                       *)
LEMMA DeliveredGrows ==
  ASSUME NEW m \in Nat, NEW n \in Nat, m <= n, NEW q \in Seq(1 .. m)
  PROVE  q \in Seq(1 .. n)
  OBVIOUS

(* What a written packet does to the invariants, whoever writes it.        *)
LEMMA PacketStep ==
  ASSUME StreamInv, ~closed, WritePacket, UNCHANGED <<fromServer, readerVars>>,
         closed' \in BOOLEAN
  PROVE  /\ TypeOK' /\ LayoutInv' /\ CountInv' /\ BufferInv' /\ PlaceInv'
         /\ ClientKeepsItsPlace' /\ Len(packets') = Len(packets) + 1
         /\ PlainPackets' = PlainPackets
<1> USE DEF StreamInv, readerVars
<1>1. Len(packets) <= MaxPackets
  BY Shape, Caps DEF TurnsInv, OutOfTurn
<1>2. /\ packets' \in Seq(Packet) /\ Len(packets') = Len(packets) + 1
      /\ length' \in Nat /\ length' > length
      /\ \A n \in 0 .. Len(packets) : EndOf(n)' = EndOf(n)
      /\ LayoutInv'
  BY <1>1, Written
<1>3. TypeOK'
  <2>1. delivered' \in Seq(1 .. Len(packets'))
    BY <1>2, Shape, DeliveredGrows DEF TypeOK
  <2>2. taken' \in 0 .. length'
    BY <1>2, Shape
  <2>3. Len(packets') <= MaxPackets + 1
    BY <1>1, <1>2, Shape, Caps
  <2> QED
    BY <1>2, <2>1, <2>2, <2>3, Zenon DEF TypeOK, Packet
<1>4. CountInv' /\ BufferInv' /\ PlainPackets' = PlainPackets
  BY DEF CountInv, Tools, PlainPackets, BufferInv, Base
<1>5. PlaceInv'
  <2>1. SUFFICES ASSUME outcome = "none"
                 PROVE  Aligned' \/ (~fromServer /\ Len(delivered) > PlainPackets)
    BY <1>4 DEF PlaceInv
  <2>2. Aligned \/ (~fromServer /\ Len(delivered) > PlainPackets)
    BY <2>1 DEF PlaceInv, CutOff
  <2>3. EndOf(Len(delivered))' = EndOf(Len(delivered))
    <3>1. Len(delivered) \in 0 .. Len(packets) /\ delivered' = delivered
      BY Shape DEF TurnsInv
    <3> QED
      BY <1>2, <3>1
  <2> QED
    BY <2>2, <2>3 DEF Aligned, Base
<1>6. ClientKeepsItsPlace'
  BY DEF ClientKeepsItsPlace
<1> QED
  BY <1>2, <1>3, <1>4, <1>5, <1>6

LEMMA WriteStep == StreamInv /\ Write => StreamInv'
<1> SUFFICES ASSUME StreamInv, Write PROVE StreamInv'
  OBVIOUS
<1>1. /\ ~closed /\ WritePacket /\ ItsTurn /\ UNCHANGED <<fromServer, closed, readerVars>>
      /\ Len(packets) < MaxPackets
  BY DEF Write
<1>2. closed' \in BOOLEAN
  BY <1>1, Zenon DEF StreamInv, TypeOK
<1>3. /\ TypeOK' /\ LayoutInv' /\ CountInv' /\ BufferInv' /\ PlaceInv'
      /\ ClientKeepsItsPlace' /\ Len(packets') = Len(packets) + 1
      /\ PlainPackets' = PlainPackets
  BY <1>1, <1>2, PacketStep
<1>4. TurnsInv'
  <2>1. Len(packets) \in Nat /\ Len(delivered) \in Nat
    BY Shape DEF StreamInv
  <2>2. OutOfTurn = 0 /\ OutOfTurn' = 0 /\ delivered' = delivered /\ nickTyped' = nickTyped
    BY <1>1 DEF OutOfTurn, readerVars
  <2> QED
    BY <1>1, <1>3, <2>1, <2>2, Plain, Caps DEF StreamInv, TurnsInv, ItsTurn
<1> QED
  BY <1>3, <1>4 DEF StreamInv

LEMMA TimeOutStep == StreamInv /\ TimeOut => StreamInv'
<1> SUFFICES ASSUME StreamInv, TimeOut PROVE StreamInv'
  OBVIOUS
<1>1. /\ fromServer /\ ~closed /\ WritePacket /\ closed' = TRUE
      /\ UNCHANGED <<fromServer, readerVars>>
  BY DEF TimeOut
<1>2. closed' \in BOOLEAN
  BY <1>1, Zenon
<1>3. /\ TypeOK' /\ LayoutInv' /\ CountInv' /\ BufferInv' /\ PlaceInv'
      /\ ClientKeepsItsPlace' /\ Len(packets') = Len(packets) + 1
      /\ PlainPackets' = PlainPackets
  BY <1>1, <1>2, PacketStep
<1>4. TurnsInv'
  <2>1. Len(packets) \in Nat /\ Len(delivered) \in Nat
    BY Shape DEF StreamInv
  <2>2. OutOfTurn = 0 /\ OutOfTurn' = 1 /\ delivered' = delivered /\ nickTyped' = nickTyped
        /\ fromServer' = fromServer
    BY <1>1 DEF OutOfTurn, readerVars
  <2> QED
    BY <1>3, <2>1, <2>2, Plain, Caps DEF StreamInv, TurnsInv
<1> QED
  BY <1>3, <1>4 DEF StreamInv

LEMMA CloseStep == StreamInv /\ Close => StreamInv'
<1> SUFFICES ASSUME StreamInv, Close PROVE StreamInv'
  OBVIOUS
<1> USE DEF StreamInv, Close, readerVars
<1>1. TypeOK'
  <2>1. closed' \in BOOLEAN
    BY Zenon
  <2> QED
    BY <2>1, Zenon DEF TypeOK
<1>2. LayoutInv' /\ CountInv' /\ BufferInv' /\ ClientKeepsItsPlace' /\ PlainPackets' = PlainPackets
  BY DEF LayoutInv, EndOf, PlainPackets, CountInv, Tools, BufferInv, Base, ClientKeepsItsPlace
<1>3. TurnsInv'
  <2>1. Len(packets) \in Nat /\ Len(delivered) \in Nat
    BY Shape
  <2>2. OutOfTurn = 0 /\ OutOfTurn' \in {0, 1}
    BY DEF OutOfTurn
  <2> QED
    BY <1>2, <2>1, <2>2, Plain, Caps DEF TurnsInv
<1>4. PlaceInv'
  BY <1>2 DEF PlaceInv, Aligned, CutOff, Base, EndOf
<1> QED
  BY <1>1, <1>2, <1>3, <1>4

-----------------------------------------------------------------------------
(* The receiving side.                                                     *)

(* No two packets start at the same place.                                 *)
LEMMA StartsDiffer ==
  ASSUME TypeOK, LayoutInv, NEW m \in 1 .. Len(packets), NEW n \in 1 .. Len(packets),
         packets[m].start = packets[n].start
  PROVE  m = n
<1>1. \A k \in 1 .. Len(packets) : EndOf(k) > packets[k].start
  <2>1. SUFFICES ASSUME NEW k \in 1 .. Len(packets) PROVE EndOf(k) > packets[k].start
    OBVIOUS
  <2>2. k # 0
    BY Shape
  <2>3. packets[k].start \in Nat
    BY Shape
  <2>4. SizeOf(packets[k].kind) \in Nat \ {0}
    BY Caps DEF SizeOf
  <2>5. EndOf(k) = packets[k].start + SizeOf(packets[k].kind)
    BY <2>2 DEF EndOf
  <2> QED
    BY <2>3, <2>4, <2>5
<1>2. \A j, k \in 1 .. Len(packets) : j < k => packets[k].start >= EndOf(j)
  BY DEF LayoutInv
<1>3. ~(m < n) /\ ~(n < m)
  BY <1>1, <1>2, Shape
<1> QED
  BY <1>3, Shape

(* What the buffer holds once a read is over.                              *)
Filled(count) ==
  [i \in Offsets |-> IF i \in cursor .. (cursor + count - 1)
                      THEN taken + (i - cursor) + 1 ELSE buffer[i]]

LEMMA FilledBuffer ==
  ASSUME TypeOK, BufferInv, NEW count \in 1 .. CipherSize, cursor + count <= CipherSize
  PROVE  /\ Filled(count) \in [Offsets -> Nat]
         /\ \A i \in 0 .. (cursor + count - 1) : Filled(count)[i] = Base + i + 1
         /\ Base \in Nat /\ cursor \in Nat /\ taken = Base + cursor
<1>1. cursor \in Nat /\ taken \in Nat /\ cursor <= taken
  BY Shape DEF BufferInv
<1>2. ASSUME NEW i \in Offsets PROVE buffer[i] \in Nat
  BY DEF TypeOK
<1>3. Filled(count) \in [Offsets -> Nat]
  BY <1>1, <1>2, Caps DEF Filled, Offsets
<1>4. ASSUME NEW i \in 0 .. (cursor + count - 1)
      PROVE  Filled(count)[i] = Base + i + 1
  <2>1. i \in Offsets /\ i \in Nat
    BY <1>1, Caps DEF Offsets
  <2>2. Filled(count)[i] = IF i \in cursor .. (cursor + count - 1)
                           THEN taken + (i - cursor) + 1 ELSE buffer[i]
    BY <2>1 DEF Filled
  <2>3. CASE i \in cursor .. (cursor + count - 1)
    BY <1>1, <2>1, <2>2, <2>3 DEF Base
  <2>4. CASE i < cursor
    BY <1>1, <2>1, <2>2, <2>4 DEF BufferInv
  <2> QED
    BY <1>1, <2>1, <2>3, <2>4
<1> QED
  BY <1>1, <1>3, <1>4 DEF Base

(* The packets that a full buffer may be: at most the one that starts      *)
(* where the buffer does.                                                  *)
HeldIn(buf) ==
  {n \in 1 .. Len(packets) :
     packets[n].kind = (IF Tools THEN "cipher" ELSE "plain") /\ Holds(buf, n)}

LEMMA OnePacketHeld ==
  ASSUME TypeOK, LayoutInv, NEW buf, NEW base \in Nat, NEW last \in Nat, BufferSize <= last,
         \A i \in 0 .. (last - 1) : buf[i] = base + i + 1
  PROVE  /\ \A n \in HeldIn(buf) : n \in 1 .. Len(packets) /\ packets[n].start = base
         /\ \A m, n \in HeldIn(buf) : m = n
         /\ \A n \in 1 .. Len(packets) :
              /\ packets[n].start = base
              /\ packets[n].kind = (IF Tools THEN "cipher" ELSE "plain")
              => n \in HeldIn(buf)
<1>1. \A n \in 1 .. Len(packets) :
        packets[n].kind = (IF Tools THEN "cipher" ELSE "plain")
          => SizeOf(packets[n].kind) = BufferSize
  BY DEF SizeOf, BufferSize
<1>2. BufferSize \in Nat /\ BufferSize > 0
  BY Caps DEF BufferSize
<1>3. ASSUME NEW n \in HeldIn(buf)
      PROVE  n \in 1 .. Len(packets) /\ packets[n].start = base
  <2>1. /\ n \in 1 .. Len(packets) /\ Holds(buf, n)
        /\ packets[n].kind = (IF Tools THEN "cipher" ELSE "plain")
    BY <1>3 DEF HeldIn
  <2>2. buf[0] = packets[n].start + 0 + 1
    BY <1>1, <1>2, <2>1 DEF Holds
  <2>3. buf[0] = base + 0 + 1
    BY <1>2
  <2> QED
    BY <2>1, <2>2, <2>3, Shape
<1>4. ASSUME NEW n \in 1 .. Len(packets), packets[n].start = base,
             packets[n].kind = (IF Tools THEN "cipher" ELSE "plain")
      PROVE  n \in HeldIn(buf)
  <2>1. SizeOf(packets[n].kind) = BufferSize
    BY <1>1, <1>4
  <2>2. Holds(buf, n)
    BY <1>2, <1>4, <2>1 DEF Holds
  <2> QED
    BY <1>4, <2>2 DEF HeldIn
<1>5. \A m, n \in HeldIn(buf) : m = n
  BY <1>3, StartsDiffer
<1> QED
  BY <1>3, <1>4, <1>5

(* A receiver that knows its place is handed the next packet, as soon as   *)
(* it is there as a whole.                                                 *)
LEMMA NextPacketHeld ==
  ASSUME StreamInv, Aligned, NEW buf, NEW last \in Nat, BufferSize <= last,
         Base + last <= length, Base \in Nat,
         \A i \in 0 .. (last - 1) : buf[i] = Base + i + 1
  PROVE  /\ Len(delivered) + 1 \in 1 .. Len(packets)
         /\ HeldIn(buf) = {Len(delivered) + 1}
         /\ Expected(Len(delivered) + 1)
         /\ EndOf(Len(delivered) + 1) = Base + BufferSize
<1> USE DEF StreamInv
<1> DEFINE n == Len(delivered) + 1
<1>1. BufferSize \in Nat /\ BufferSize > 0
  BY Caps DEF BufferSize
<1>2. n \in 1 .. Len(packets)
  <2>1. Len(delivered) # Len(packets)
    BY <1>1, Shape DEF Aligned, LayoutInv
  <2> QED
    BY <2>1, Shape DEF TurnsInv
<1>3. packets[n].start = Base
  <2>1. packets[n].start = EndOf(n - 1)
    BY <1>2 DEF LayoutInv
  <2> QED
    BY <2>1, Shape DEF Aligned
<1>4. packets[n].kind = IF Tools THEN "cipher" ELSE "plain"
  <2>1. packets[n].kind = IF n <= PlainPackets THEN "plain" ELSE "cipher"
    BY <1>2 DEF LayoutInv
  <2> QED
    BY <2>1, Shape, Plain DEF Tools
<1>5. HeldIn(buf) = {n}
  <2> HIDE DEF n
  <2>0. /\ \A l, m \in HeldIn(buf) : l = m
        /\ \A m \in 1 .. Len(packets) :
             /\ packets[m].start = Base
             /\ packets[m].kind = (IF Tools THEN "cipher" ELSE "plain")
             => m \in HeldIn(buf)
    BY OnePacketHeld
  <2>1. n \in HeldIn(buf)
    BY <1>2, <1>3, <1>4, <2>0, Zenon
  <2>2. \A m \in HeldIn(buf) : m = n
    BY <2>0, <2>1, Zenon
  <2> QED
    BY <2>1, <2>2
<1>6. Expected(n)
  <2>1. SUFFICES ASSUME Tools PROVE packets[n].seq = seqNumber
    BY DEF Expected
  <2>2. n > PlainPackets /\ (n - 1) - PlainPackets = Len(delivered) - PlainPackets
    BY <2>1, Shape, Plain DEF Tools
  <2>3. packets[n].seq = (FirstSeq + ((n - 1) - PlainPackets)) % SeqModulus
    BY <1>2, <2>2 DEF LayoutInv
  <2> QED
    BY <2>1, <2>2, <2>3 DEF CountInv
<1>7. EndOf(n) = Base + BufferSize
  BY <1>2, <1>3, <1>4, Shape DEF EndOf, SizeOf, BufferSize
<1> QED
  BY <1>2, <1>5, <1>6, <1>7

(* One that has lost its place takes no packet for the next one that is    *)
(* not.                                                                    *)
LEMMA NoOtherPacketExpected ==
  ASSUME StreamInv, Len(delivered) > PlainPackets, NEW n \in 1 .. Len(packets),
         packets[n].kind = "cipher", Expected(n)
  PROVE  n = Len(delivered) + 1
<1> USE DEF StreamInv
<1>1. Tools
  BY Shape, Plain DEF Tools
<1>2. packets[n].seq = seqNumber
  BY <1>1 DEF Expected
<1>3. n > PlainPackets
  BY Shape, Plain DEF LayoutInv
<1> DEFINE j == (n - 1) - PlainPackets
           k == Len(delivered) - PlainPackets
<1>4. packets[n].seq = (FirstSeq + j) % SeqModulus
  BY <1>3 DEF LayoutInv
<1>5. seqNumber = (FirstSeq + k) % SeqModulus
  BY <1>1 DEF CountInv
<1>6. j \in Nat /\ k \in Nat /\ j < SeqModulus /\ k < SeqModulus
  BY <1>3, Shape, Plain, Caps DEF TurnsInv, OutOfTurn
<1> HIDE DEF j, k
<1>7. j = k
  BY <1>2, <1>4, <1>5, <1>6, SeqUnique
<1> QED
  BY <1>7, Shape, Plain DEF j, k

(* How `decipher_packet` and `validate_packet` end.                        *)
LEMMA DecipherCases ==
  ASSUME NEW buf, Decipher(buf)
  PROVE  \/ /\ HeldIn(buf) = {} \/ \E n \in HeldIn(buf) : ~Expected(n)
            /\ outcome' = (IF HeldIn(buf) = {} /\ Tools THEN "hmac" ELSE "malformed")
            /\ UNCHANGED <<seqNumber, delivered>>
         \/ \E n \in HeldIn(buf) :
              /\ Expected(n) /\ delivered' = Append(delivered, n)
              /\ seqNumber' = (IF Tools THEN NextNumber(seqNumber) ELSE seqNumber)
              /\ UNCHANGED outcome
<1> DEFINE held == HeldIn(buf)
           n == CHOOSE m \in held : TRUE
<1>1. IF held = {}
      THEN /\ outcome' = (IF Tools THEN "hmac" ELSE "malformed")
           /\ UNCHANGED <<seqNumber, delivered>>
      ELSE IF Expected(n)
           THEN /\ delivered' = Append(delivered, n)
                /\ seqNumber' = IF Tools THEN NextNumber(seqNumber) ELSE seqNumber
                /\ UNCHANGED outcome
           ELSE outcome' = "malformed" /\ UNCHANGED <<seqNumber, delivered>>
  BY Zenon DEF Decipher, HeldIn
<1>2. held # {} => n \in held
  BY Zenon
<1> HIDE DEF n
<1> QED
  BY <1>1, <1>2

(* What a read that fills the buffer leads to: the next packet, or, for a  *)
(* server that has lost its place, an error.                               *)
Full(count) == cursor + count >= BufferSize

LEMMA FullRead ==
  ASSUME StreamInv, NEW count \in 1 .. CipherSize, Read(count), Full(count)
  PROVE  /\ cursor' = 0 /\ taken' = taken + count
         /\ \/ /\ Len(delivered) < Len(packets)
               /\ delivered' = Append(delivered, Len(delivered) + 1)
               /\ seqNumber' = (IF Tools THEN NextNumber(seqNumber) ELSE seqNumber)
               /\ outcome' = "none"
               /\ \/ ~fromServer /\ Len(delivered) > PlainPackets
                  \/ /\ Aligned
                     /\ EndOf(Len(delivered) + 1) = Base + BufferSize
            \/ /\ ~fromServer /\ outcome' \in {"hmac", "malformed"}
               /\ UNCHANGED <<seqNumber, delivered>>
<1> USE DEF StreamInv
<1> DEFINE buf == Filled(count)
           last == cursor + count
<1>1. /\ outcome = "none" /\ count <= length - taken /\ last <= CipherSize
      /\ taken' = taken + count /\ buffer' = buf /\ cursor' = 0 /\ Decipher(buf)
  <2>1. ~(cursor + count < BufferSize)
    BY Shape, Caps DEF Full, BufferSize
  <2> QED
    BY <2>1 DEF Read, Filled
<1>2. /\ \A i \in 0 .. (last - 1) : buf[i] = Base + i + 1
      /\ Base \in Nat /\ cursor \in Nat /\ taken = Base + cursor
  BY <1>1, FilledBuffer
<1>3. /\ BufferSize \in Nat /\ BufferSize <= last /\ last \in Nat /\ Base + last <= length
  BY <1>1, <1>2, Shape, Caps DEF Full, BufferSize
<1> HIDE DEF buf, last
<1>4. \/ /\ HeldIn(buf) = {} \/ \E n \in HeldIn(buf) : ~Expected(n)
         /\ outcome' = (IF HeldIn(buf) = {} /\ Tools THEN "hmac" ELSE "malformed")
         /\ UNCHANGED <<seqNumber, delivered>>
      \/ \E n \in HeldIn(buf) :
           /\ Expected(n) /\ delivered' = Append(delivered, n)
           /\ seqNumber' = (IF Tools THEN NextNumber(seqNumber) ELSE seqNumber)
           /\ UNCHANGED outcome
  BY <1>1, DecipherCases
<1>5. ASSUME Aligned
      PROVE  /\ Len(delivered) < Len(packets)
             /\ delivered' = Append(delivered, Len(delivered) + 1)
             /\ seqNumber' = (IF Tools THEN NextNumber(seqNumber) ELSE seqNumber)
             /\ outcome' = "none"
             /\ EndOf(Len(delivered) + 1) = Base + BufferSize
  <2>1. /\ Len(delivered) + 1 \in 1 .. Len(packets)
        /\ HeldIn(buf) = {Len(delivered) + 1} /\ Expected(Len(delivered) + 1)
        /\ EndOf(Len(delivered) + 1) = Base + BufferSize
    BY <1>2, <1>3, <1>5, NextPacketHeld
  <2> QED
    BY <1>1, <1>4, <2>1, Shape
<1>6. ~CutOff
  <2>1. SUFFICES ASSUME CutOff PROVE FALSE
    OBVIOUS
  <2> DEFINE n == Len(packets)
  <2>2. n \in 1 .. n /\ n = Len(delivered) + 1 /\ n \in Nat
    BY <2>1, Shape DEF CutOff
  <2>3. packets[n].start = EndOf(n - 1) /\ EndOf(n) = length
    BY <2>2 DEF LayoutInv
  <2>4. packets[n].kind = IF Tools THEN "cipher" ELSE "plain"
    <3>1. packets[n].kind = IF n <= PlainPackets THEN "plain" ELSE "cipher"
      BY <2>2 DEF LayoutInv
    <3> QED
      BY <2>2, <3>1, Shape, Plain DEF Tools
  <2>5. length = EndOf(Len(delivered)) + BufferSize
    BY <2>2, <2>3, <2>4, Shape DEF EndOf, SizeOf, BufferSize
  <2> QED
    BY <1>2, <1>3, <2>1, <2>2, <2>5, Shape DEF CutOff
<1>7. ASSUME ~fromServer, Len(delivered) > PlainPackets
      PROVE  \/ /\ Len(delivered) < Len(packets)
                /\ delivered' = Append(delivered, Len(delivered) + 1)
                /\ seqNumber' = (IF Tools THEN NextNumber(seqNumber) ELSE seqNumber)
                /\ outcome' = "none"
             \/ /\ outcome' \in {"hmac", "malformed"}
                /\ UNCHANGED <<seqNumber, delivered>>
  <2>1. CASE \E n \in HeldIn(buf) :
               /\ Expected(n) /\ delivered' = Append(delivered, n)
               /\ seqNumber' = (IF Tools THEN NextNumber(seqNumber) ELSE seqNumber)
               /\ UNCHANGED outcome
    <3>1. PICK n \in HeldIn(buf) :
            /\ Expected(n) /\ delivered' = Append(delivered, n)
            /\ seqNumber' = (IF Tools THEN NextNumber(seqNumber) ELSE seqNumber)
            /\ UNCHANGED outcome
      BY <2>1
    <3>2. n \in 1 .. Len(packets) /\ packets[n].kind = "cipher"
      BY <1>7, Shape, Plain DEF HeldIn, Tools
    <3>3. n = Len(delivered) + 1
      BY <1>7, <3>1, <3>2, NoOtherPacketExpected
    <3> QED
      BY <1>1, <3>1, <3>2, <3>3, Shape
  <2> QED
    BY <1>4, <2>1
<1>8. Aligned \/ (~fromServer /\ Len(delivered) > PlainPackets)
  BY <1>1, <1>6 DEF PlaceInv
<1> QED
  BY <1>1, <1>5, <1>7, <1>8

(* A read that does not fill it changes the buffer only.                   *)
LEMMA PartRead ==
  ASSUME StreamInv, NEW count \in 1 .. CipherSize, Read(count), ~Full(count)
  PROVE  /\ cursor' = cursor + count /\ taken' = taken + count
         /\ UNCHANGED <<seqNumber, delivered, outcome>> /\ Base' = Base
<1>1. cursor' = cursor + count /\ taken' = taken + count
      /\ UNCHANGED <<seqNumber, delivered, outcome>>
  <2>1. cursor + count < BufferSize
    BY Shape, Caps DEF StreamInv, Full, BufferSize
  <2> QED
    BY <2>1 DEF Read
<1> QED
  BY <1>1, Shape DEF StreamInv, Base

LEMMA ReadTyped ==
  ASSUME StreamInv, NEW count \in 1 .. CipherSize, Read(count)
  PROVE  TypeOK'
<1> USE DEF StreamInv
<1>1. /\ UNCHANGED <<fromServer, packets, length, closed, nickTyped>>
      /\ buffer' = Filled(count) /\ taken' = taken + count
      /\ count <= length - taken /\ cursor + count <= CipherSize
  BY DEF Read, Filled, writerVars
<1>2. buffer' \in [Offsets -> Nat]
  BY <1>1, FilledBuffer
<1>3. taken' \in 0 .. length'
  BY <1>1, Shape
<1>4. CASE Full(count)
  <2>1. cursor' \in 0 .. CipherSize
    BY <1>4, FullRead, Caps
  <2>2. delivered' \in Seq(1 .. Len(packets'))
    <3>1. CASE delivered' = delivered
      BY <1>1, <3>1 DEF TypeOK
    <3>2. CASE Len(delivered) < Len(packets) /\ delivered' = Append(delivered, Len(delivered) + 1)
      <4>1. delivered \in Seq(1 .. Len(packets)) /\ Len(delivered) + 1 \in 1 .. Len(packets)
        BY <3>2, Shape DEF TypeOK
      <4> QED
        BY <1>1, <3>2, <4>1
    <3> QED
      BY <1>4, <3>1, <3>2, FullRead
  <2>3. seqNumber' \in 0 .. (SeqModulus - 1)
    <3>1. NextNumber(seqNumber) \in 0 .. (SeqModulus - 1)
      BY Caps, Mod DEF TypeOK, NextNumber
    <3> QED
      BY <1>4, <3>1, FullRead DEF TypeOK
  <2>4. outcome' \in {"none", "interrupted", "io", "hmac", "malformed"}
    BY <1>4, FullRead
  <2> QED
    BY <1>1, <1>2, <1>3, <2>1, <2>2, <2>3, <2>4, Zenon DEF TypeOK
<1>5. CASE ~Full(count)
  <2>1. cursor' \in 0 .. CipherSize
    BY <1>1, <1>5, PartRead, Shape, Caps
  <2>2. UNCHANGED <<seqNumber, delivered, outcome>>
    BY <1>5, PartRead
  <2> QED
    BY <1>1, <1>2, <1>3, <2>1, <2>2, Zenon DEF TypeOK
<1> QED
  BY <1>4, <1>5

(* What a delivery does to the counts.                                     *)
LEMMA DeliveryCounts ==
  ASSUME StreamInv, Len(delivered) < Len(packets),
         delivered' = Append(delivered, Len(delivered) + 1),
         seqNumber' = (IF Tools THEN NextNumber(seqNumber) ELSE seqNumber),
         UNCHANGED <<fromServer, packets, closed, nickTyped>>
  PROVE  TurnsInv' /\ CountInv' /\ Len(delivered') = Len(delivered) + 1
<1> USE DEF StreamInv
<1> DEFINE n == Len(delivered)
<1>1. n \in Nat /\ Len(delivered') = n + 1
  BY Shape DEF TypeOK
<1>2. PlainPackets' = PlainPackets /\ OutOfTurn' = OutOfTurn /\ OutOfTurn \in {0, 1}
  BY DEF PlainPackets, OutOfTurn
<1>3. TurnsInv'
  BY <1>1, <1>2, Shape, Plain, Caps DEF TurnsInv
<1>4. CountInv'
  <2>1. CASE n >= PlainPackets
    <3>1. n - PlainPackets \in Nat /\ (n - PlainPackets) + 1 < SeqModulus
      BY <1>1, <1>2, <2>1, Shape, Plain, Caps DEF TurnsInv
    <3>2. seqNumber = (FirstSeq + (n - PlainPackets)) % SeqModulus
      BY <2>1 DEF CountInv, Tools
    <3>3. seqNumber' = (FirstSeq + ((n - PlainPackets) + 1)) % SeqModulus
      BY <2>1, <3>1, <3>2, SeqNext DEF Tools
    <3>4. (n - PlainPackets) + 1 = (n + 1) - PlainPackets /\ n + 1 >= PlainPackets
      BY <1>1, <2>1, Plain
    <3> HIDE DEF n
    <3> QED
      BY <1>1, <1>2, <3>3, <3>4 DEF CountInv, Tools
  <2>2. CASE n < PlainPackets
    <3>1. seqNumber' = FirstSeq
      BY <1>1, <2>2, Plain DEF CountInv, Tools
    <3>2. CASE n + 1 = PlainPackets
      <4>1. (FirstSeq + 0) % SeqModulus = FirstSeq
        <5>1. FirstSeq + 0 = FirstSeq
          BY Caps
        <5>2. FirstSeq % SeqModulus = FirstSeq
          BY Caps
        <5> QED
          BY <5>1, <5>2, Zenon
      <4>2. (n + 1) - PlainPackets = 0
        BY <1>1, <3>2, Plain
      <4> HIDE DEF n
      <4> QED
        BY <1>1, <1>2, <3>1, <4>1, <4>2 DEF CountInv
    <3>3. CASE n + 1 < PlainPackets
      BY <1>1, <1>2, <3>1, <3>3, Plain DEF CountInv, Tools
    <3> QED
      BY <1>1, <2>2, <3>2, <3>3, Plain
  <2> QED
    BY <1>1, <2>1, <2>2, Plain
<1> QED
  BY <1>1, <1>3, <1>4

LEMMA ReadStep ==
  ASSUME StreamInv, NEW count \in 1 .. CipherSize, Read(count)
  PROVE  StreamInv'
<1> USE DEF StreamInv
<1>1. /\ UNCHANGED <<fromServer, packets, length, closed, nickTyped>>
      /\ buffer' = Filled(count) /\ taken' = taken + count /\ outcome = "none"
      /\ count <= length - taken /\ cursor + count <= CipherSize
  BY DEF Read, Filled, writerVars
<1>2. TypeOK'
  BY ReadTyped
<1>3. LayoutInv' /\ PlainPackets' = PlainPackets /\ \A n \in Nat : EndOf(n)' = EndOf(n)
  BY <1>1 DEF LayoutInv, PlainPackets, EndOf
<1>4. /\ Base \in Nat /\ cursor \in Nat /\ taken = Base + cursor
      /\ \A i \in 0 .. (cursor + count - 1) : Filled(count)[i] = Base + i + 1
  BY <1>1, FilledBuffer
<1>5. CASE ~Full(count)
  <2>1. /\ cursor' = cursor + count /\ UNCHANGED <<seqNumber, delivered, outcome>>
        /\ Base' = Base
    BY <1>5, PartRead
  <2>2. BufferInv'
    BY <1>1, <1>4, <2>1 DEF BufferInv
  <2>3. TurnsInv' /\ CountInv' /\ ClientKeepsItsPlace'
    BY <1>1, <1>3, <2>1 DEF TurnsInv, OutOfTurn, CountInv, Tools, ClientKeepsItsPlace
  <2>4. PlaceInv'
    BY <1>1, <1>3, <2>1, Shape DEF PlaceInv, Aligned, CutOff
  <2> QED
    BY <1>2, <1>3, <2>2, <2>3, <2>4
<1>6. CASE Full(count)
  <2> DEFINE n == Len(delivered)
  <2>1. cursor' = 0 /\ Base' = taken + count /\ BufferInv'
    BY <1>1, <1>4, <1>6, FullRead DEF BufferInv, Base
  <2>2. CASE ~fromServer /\ outcome' \in {"hmac", "malformed"} /\ UNCHANGED <<seqNumber, delivered>>
    BY <1>1, <1>2, <1>3, <2>1, <2>2
       DEF TurnsInv, OutOfTurn, CountInv, Tools, ClientKeepsItsPlace, PlaceInv
  <2>3. CASE /\ n < Len(packets) /\ delivered' = Append(delivered, n + 1)
             /\ seqNumber' = (IF Tools THEN NextNumber(seqNumber) ELSE seqNumber)
             /\ outcome' = "none"
             /\ \/ ~fromServer /\ n > PlainPackets
                \/ Aligned /\ EndOf(n + 1) = Base + BufferSize
    <3>1. TurnsInv' /\ CountInv' /\ Len(delivered') = n + 1
      BY <1>1, <2>3, DeliveryCounts
    <3>2. ClientKeepsItsPlace'
      BY <2>3 DEF ClientKeepsItsPlace
    <3>3. PlaceInv'
      <4>1. CASE ~fromServer /\ n > PlainPackets
        BY <1>1, <1>3, <3>1, <4>1, Shape, Plain DEF PlaceInv
      <4>2. CASE Aligned /\ EndOf(n + 1) = Base + BufferSize
        <5>1. /\ n \in Nat /\ Len(packets) \in Nat /\ length \in Nat
              /\ BufferSize \in Nat /\ Base' = Base + cursor + count
              /\ cursor + count >= BufferSize /\ Base' <= length
          BY <1>1, <1>4, <1>6, <2>1, Shape, Caps DEF Full, BufferSize
        <5>0. EndOf(Len(delivered))' = EndOf(n + 1)
          BY <1>1, <3>1 DEF EndOf
        <5>2. CASE cursor + count = BufferSize
          <6>1. Base' = EndOf(Len(delivered))'
            BY <1>4, <4>2, <5>0, <5>1, <5>2
          <6>2. Aligned'
            BY <6>1, Zenon DEF Aligned
          <6> QED
            BY <6>2 DEF PlaceInv
        <5>3. CASE cursor + count > BufferSize
          <6>1. Base' > EndOf(n + 1)
            BY <1>4, <4>2, <5>1, <5>3
          <6>2. Len(packets) # n + 1
            <7>1. length = EndOf(Len(packets))
              BY DEF LayoutInv
            <7> HIDE DEF n
            <7> QED
              BY <1>4, <4>2, <5>1, <6>1, <7>1
          <6>3. ~Tools
            BY <1>1, <1>4, <5>3, Caps DEF BufferSize
          <6>4. Len(packets) <= n + 1 + OutOfTurn
            BY <5>1, <6>3, Plain DEF Tools, TurnsInv
          <6>5. fromServer /\ closed /\ Len(packets) = n + 2
            BY <2>3, <5>1, <6>2, <6>4 DEF OutOfTurn
          <6> QED
            BY <1>1, <3>1, <5>0, <5>1, <6>1, <6>5 DEF PlaceInv, CutOff
        <5> QED
          BY <1>4, <5>1, <5>2, <5>3
      <4> QED
        BY <2>3, <4>1, <4>2
    <3> QED
      BY <1>2, <1>3, <2>1, <3>1, <3>2, <3>3
  <2> QED
    BY <1>6, <2>2, <2>3, FullRead
<1> QED
  BY <1>5, <1>6

LEMMA ReadStopsStep == StreamInv /\ (ReadEnd \/ ReadFails) => StreamInv'
<1> SUFFICES ASSUME StreamInv, ReadEnd \/ ReadFails PROVE StreamInv'
  OBVIOUS
<1> USE DEF StreamInv
<1>1. /\ outcome' \in {"interrupted", "io"}
      /\ UNCHANGED <<fromServer, packets, length, closed, nickTyped, taken, buffer, cursor,
                     seqNumber, delivered>>
  BY DEF ReadEnd, ReadFails, writerVars
<1>2. TypeOK'
  <2>1. outcome' \in {"none", "interrupted", "io", "hmac", "malformed"}
    BY <1>1
  <2> QED
    BY <1>1, <2>1, Zenon DEF TypeOK
<1>3. LayoutInv' /\ TurnsInv' /\ CountInv' /\ BufferInv'
  BY <1>1 DEF LayoutInv, EndOf, PlainPackets, TurnsInv, OutOfTurn, CountInv, Tools, BufferInv,
              Base
<1>4. PlaceInv' /\ ClientKeepsItsPlace'
  BY <1>1 DEF PlaceInv, ClientKeepsItsPlace
<1> QED
  BY <1>2, <1>3, <1>4

(* A dropped read loses the server's place in its loop only, and the       *)
(* client's at most when there is but a part of a packet left.             *)
LEMMA DropStep ==
  ASSUME StreamInv, OtherBranch \/ TypeNick
  PROVE  StreamInv'
<1> USE DEF StreamInv
<1>1. /\ cursor' = 0 /\ outcome = "none"
      /\ UNCHANGED <<fromServer, packets, length, closed, taken, buffer, seqNumber, delivered, outcome>>
  BY DEF OtherBranch, TypeNick, DropRead, writerVars
<1>2. TypeOK'
  <2>1. nickTyped' \in BOOLEAN
    BY Zenon DEF OtherBranch, TypeNick, TypeOK
  <2>2. cursor' \in 0 .. CipherSize
    BY <1>1, Caps
  <2> QED
    BY <1>1, <2>1, <2>2, Zenon DEF TypeOK
<1>3. /\ LayoutInv' /\ CountInv' /\ ClientKeepsItsPlace' /\ PlainPackets' = PlainPackets
      /\ \A n \in Nat : EndOf(n)' = EndOf(n)
  BY <1>1 DEF LayoutInv, EndOf, PlainPackets, CountInv, Tools, ClientKeepsItsPlace
<1>4. BufferInv' /\ Base' = taken
  BY <1>1, Shape DEF BufferInv, Base
<1>5. TurnsInv'
  BY <1>1, <1>3, Shape, Plain DEF TurnsInv, OutOfTurn, OtherBranch, TypeNick
<1>6. PlaceInv'
  <2>1. CASE OtherBranch
    BY <1>1, <1>3, <2>1 DEF PlaceInv, OtherBranch
  <2>2. CASE TypeNick
    <3>1. fromServer /\ ~nickTyped /\ Len(delivered) = PlainPackets
      BY <2>2 DEF TypeNick
    <3>2. EndOf(Len(delivered))' = EndOf(Len(delivered)) /\ EndOf(Len(delivered)) \in Nat
      BY <1>1, <1>3, Shape DEF TurnsInv
    <3>3. Base \in Nat /\ taken = Base + cursor /\ cursor \in Nat
      BY Shape DEF BufferInv, Base
    <3>4. CASE CutOff
      BY <1>1, <1>4, <3>2, <3>3, <3>4 DEF PlaceInv, CutOff
    <3>5. CASE Aligned /\ cursor = 0
      BY <1>1, <1>4, <3>2, <3>3, <3>5 DEF PlaceInv, Aligned
    <3>6. CASE Aligned /\ cursor > 0
      <4>1. taken > EndOf(Len(delivered)) /\ taken <= EndOf(Len(packets))
        BY <3>2, <3>3, <3>6, Shape DEF Aligned, LayoutInv
      <4>2. Len(packets) # Len(delivered)
        BY <3>2, <4>1, Shape
      <4>3. Len(packets) <= PlainPackets + OutOfTurn
        BY <3>1 DEF TurnsInv
      <4>4. closed /\ Len(packets) = Len(delivered) + 1
        BY <3>1, <4>2, <4>3, Shape, Plain DEF OutOfTurn, TurnsInv
      <4> QED
        BY <1>1, <1>4, <3>1, <3>2, <4>1, <4>4 DEF PlaceInv, CutOff
    <3>7. Aligned \/ CutOff
      BY <1>1, <3>1 DEF PlaceInv
    <3> QED
      BY <3>3, <3>4, <3>5, <3>6, <3>7
  <2> QED
    BY <2>1, <2>2
<1> QED
  BY <1>2, <1>3, <1>4, <1>5, <1>6

LEMMA StreamStep == StreamInv /\ [Next]_vars => StreamInv'
<1> SUFFICES ASSUME StreamInv, [Next]_vars PROVE StreamInv'
  OBVIOUS
<1>1. CASE UNCHANGED vars
  BY <1>1 DEF vars, writerVars, readerVars, StreamInv, TypeOK, LayoutInv, EndOf, PlainPackets,
              TurnsInv, OutOfTurn, CountInv, Tools, BufferInv, Base, PlaceInv, Aligned, CutOff,
              ClientKeepsItsPlace
<1>2. CASE \E count \in 1 .. CipherSize : Read(count)
  BY <1>2, ReadStep
<1> QED
  BY <1>1, <1>2, WriteStep, TimeOutStep, CloseStep, ReadStopsStep, DropStep DEF Next, Receive

LEMMA StreamInvariant == Spec => []StreamInv
  BY InitStream, StreamStep, PTL DEF Spec

-----------------------------------------------------------------------------
(* The state has its types.                                                *)
THEOREM StreamTyped == Spec => []TypeOK
<1>1. StreamInv => TypeOK
  BY DEF StreamInv
<1> QED
  BY <1>1, StreamInvariant, PTL

(* The client never loses its place: what it receives verifies and is what *)
(* it expects, in whatever pieces it comes (recv_msg).                     *)
THEOREM ClientNeverLosesItsPlace == Spec => []ClientKeepsItsPlace
<1>1. StreamInv => ClientKeepsItsPlace
  BY DEF StreamInv
<1> QED
  BY <1>1, StreamInvariant, PTL

(* A read that offers more room than a plain packet takes costs nothing of *)
(* the next packet while the sides take turns (receive_packet).            *)
THEOREM NothingIsThrownAway == Spec => []NothingThrownAway
<1>1. StreamInv => NothingThrownAway
  <2> SUFFICES ASSUME StreamInv, outcome = "none",
                      IF fromServer THEN ~closed ELSE Len(delivered) <= PlainPackets
               PROVE  taken = EndOf(Len(delivered)) + cursor
    BY DEF NothingThrownAway
  <2>1. Aligned
    BY Shape, Plain DEF StreamInv, PlaceInv, CutOff
  <2> QED
    BY <2>1, Shape DEF StreamInv, Aligned, Base, BufferInv
<1> QED
  BY <1>1, StreamInvariant, PTL

-----------------------------------------------------------------------------
(* Each step is one of the abstract connection, or none of it.             *)
LEMMA QueueRefined == StreamInv /\ [Next]_vars => [Queue!Next]_Queue!vars
<1> SUFFICES ASSUME StreamInv, [Next]_vars PROVE [Queue!Next]_Queue!vars
  OBVIOUS
<1> USE DEF StreamInv
<1>1. CASE Write \/ TimeOut
  <2>1. WritePacket /\ UNCHANGED <<delivered, outcome>>
    BY <1>1 DEF Write, TimeOut, readerVars
  <2>2. Len(packets') = Len(packets) + 1
    BY <2>1, Shape DEF WritePacket
  <2> QED
    BY <2>1, <2>2 DEF Queue!Next, Queue!Write
<1>2. CASE Close \/ OtherBranch \/ TypeNick \/ UNCHANGED vars
  BY <1>2 DEF Close, OtherBranch, TypeNick, DropRead, vars, writerVars, readerVars, Queue!vars
<1>3. CASE ReadEnd \/ ReadFails
  BY <1>3 DEF ReadEnd, ReadFails, writerVars, Queue!Next, Queue!Stop
<1>4. ASSUME NEW count \in 1 .. CipherSize, Read(count) PROVE [Queue!Next]_Queue!vars
  <2>1. outcome = "none" /\ UNCHANGED packets
    BY <1>4 DEF Read, writerVars
  <2>2. CASE ~Full(count)
    BY <1>4, <2>1, <2>2, PartRead DEF Queue!vars
  <2>3. CASE Full(count)
    BY <1>4, <2>1, <2>3, FullRead DEF Queue!Next, Queue!Deliver, Queue!Stop
  <2> QED
    BY <2>2, <2>3
<1> QED
  BY <1>1, <1>2, <1>3, <1>4 DEF Next, Receive

(* Packets are delivered in the order in which they were written, none     *)
(* twice and none skipped, whatever a dropped recv_str has lost.           *)
THEOREM StreamImplementsQueue == Spec => QueueSpec
<1>1. Init => Queue!Init
  BY DEF Init, Queue!Init
<1> QED
  BY <1>1, QueueRefined, StreamInvariant, PTL DEF Spec, QueueSpec, Queue!Spec
=============================================================================
