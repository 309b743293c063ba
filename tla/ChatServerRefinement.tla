------------------------ MODULE ChatServerRefinement ------------------------
(* The server implements the abstract chat room, and so inherits its       *)
(* theorem, for every value of the constants.                              *)
EXTENDS ChatServerInvariants

(* What a step of the server is in the chat room.                          *)
LEMMA GotoStatus ==
  ASSUME TypeOK, NEW c \in Conns, NEW s, Goto(c, s)
  PROVE  /\ Status' = [Status EXCEPT ![c] = StatusOf(s)]
         /\ StatusOf(s) = Status[c] => Status' = Status
<1>1. handler \in [Conns -> HandlerStates]
  BY DEF TypeOK, HandlersTypeOK
<1>2. Status' = [d \in Conns |-> IF d = c THEN StatusOf(s) ELSE StatusOf(handler[d])]
  BY <1>1 DEF Status, Goto, StatusOf
<1> QED
  BY <1>2 DEF Status

LEMMA Statuses ==
  /\ \A s \in {"absent", "accepted", "queued", "dropped"} : StatusOf(s) = "out"
  /\ StatusOf("handshake") = "entering"
  /\ \A s \in Serving : StatusOf(s) = "in"
  /\ \A s \in Leaving \cup {"refused", "fatal", "done"} : StatusOf(s) = "gone"
  BY DEF StatusOf, Serving, Leaving

LEMMA DropChannelsStatus == TypeOK /\ DropChannels => Status' = Status
<1> SUFFICES ASSUME TypeOK, DropChannels PROVE Status' = Status
  OBVIOUS
<1>1. \A c \in Conns : StatusOf(handler'[c]) = StatusOf(handler[c])
  BY Statuses DEF DropChannels
<1> QED
  BY <1>1 DEF Status, StatusOf

RoomStep == Room!Next \/ UNCHANGED Room!vars

\* The part of the state that the room is made of, but for the handlers.
Cursors == <<since, rx, written>>

LEMMA StutterStep ==
  ASSUME UNCHANGED <<log, Cursors>>, UNCHANGED Status
  PROVE  RoomStep
  BY DEF RoomStep, Room!vars, Cursors

(* A handler that leaves the status "in" leaves the room.                  *)
LEMMA LeaveStep ==
  ASSUME TypeOK, NEW c \in Conns, NEW s, Goto(c, s), StatusOf(s) = "gone",
         UNCHANGED <<log, since, written>>,
         \/ UNCHANGED rx
         \/ Status[c] = "in" /\ rx[c] < Len(log) /\ rx' = [rx EXCEPT ![c] = @ + 1]
  PROVE  RoomStep
<1>1. Status' = [Status EXCEPT ![c] = "gone"]
  BY GotoStatus
<1>2. CASE Status[c] = "gone"
  BY <1>1, <1>2, GotoStatus, StutterStep DEF Cursors
<1>3. CASE Status[c] # "gone"
  BY <1>1, <1>3 DEF RoomStep, Room!Next, Room!Leave
<1> QED
  BY <1>2, <1>3

(* What is posted is posted by the master or by one who is in.             *)
LEMMA PostStep ==
  ASSUME UNCHANGED <<Cursors, Status>>, NEW m \in Message, log' = Append(log, m),
         m.address = Master => m.kind = "Broadcast",
         m.address # Master => Status[m.address] = "in"
  PROVE  RoomStep
  BY DEF RoomStep, Room!Next, Room!Post, Cursors, Message, Room!Message

(* id_record enters and admits, or refuses.                                *)
LEMMA TakeConnectionStep ==
  TypeOK /\ PathInv /\ TakeConnection => RoomStep
<1> SUFFICES ASSUME TypeOK, PathInv, TakeConnection PROVE RoomStep
  OBVIOUS
<1> DEFINE c == Head(runIdCom)
<1>1. c \in Conns /\ handler[c] = "queued" /\ Status[c] = "out"
  <2>1. runIdCom \in Seq(Conns) /\ runIdCom # <<>>
    BY DEF TypeOK, QueuesTypeOK, TakeConnection
  <2> QED
    BY <2>1, Statuses DEF PathInv, QueueInv, Status
<1>2. CASE Goto(c, "refused") /\ UNCHANGED <<since, rx>>
  BY <1>1, <1>2, LeaveStep, Statuses DEF TakeConnection
<1>3. CASE /\ Goto(c, "handshake")
           /\ since' = [since EXCEPT ![c] = Len(log)] /\ rx' = [rx EXCEPT ![c] = Len(log)]
  <2>1. Status' = [Status EXCEPT ![c] = "entering"]
    BY <1>1, <1>3, GotoStatus, Statuses
  <2>2. Room!Enter(c)
    BY <1>1, <1>3, <2>1 DEF Room!Enter, TakeConnection
  <2> QED
    BY <1>1, <2>2 DEF RoomStep, Room!Next
<1> QED
  BY <1>2, <1>3 DEF TakeConnection

LEMMA HandshakeStep ==
  ASSUME TypeOK, PathInv, NEW kind,
         HandshakeSucceeds \/ HandshakeFails(kind) \/ HandshakeTimesOut
  PROVE  RoomStep
<1>1. idConn \in Conns /\ Status[idConn] = "entering"
  BY Statuses DEF PathInv, PlaceInv, Status, TypeOK, TasksTypeOK, HandshakeSucceeds,
     HandshakeFails, HandshakeTimesOut
<1>2. UNCHANGED <<log, Cursors>> /\ (Goto(idConn, "refused") \/ Goto(idConn, "select"))
  BY DEF HandshakeSucceeds, HandshakeFails, HandshakeTimesOut, roomVars, Cursors
<1>3. CASE Goto(idConn, "refused")
  BY <1>1, <1>2, <1>3, LeaveStep, Statuses DEF Cursors
<1>4. CASE Goto(idConn, "select")
  <2>1. Status' = [Status EXCEPT ![idConn] = "in"]
    BY <1>1, <1>4, GotoStatus, Statuses DEF Serving
  <2>2. Room!Admit(idConn)
    BY <1>1, <1>2, <2>1 DEF Room!Admit, Cursors
  <2> QED
    BY <1>1, <2>2 DEF RoomStep, Room!Next
<1> QED
  BY <1>2, <1>3, <1>4

(* Of the messages id_record handles, only the admin's text is posted.     *)
LEMMA ReceiveStep ==
  TypeOK /\ RecordIsEmpty /\ ReceiveFromHand => RoomStep
<1> SUFFICES ASSUME TypeOK, RecordIsEmpty, ReceiveFromHand PROVE RoomStep
  OBVIOUS
<1>1. Listed = {}
  BY NobodyListed DEF RecordIsEmpty
<1>2. UNCHANGED <<handler, Cursors>> /\ (UNCHANGED log \/ \E fits \in BOOLEAN : log' = Append(log, Broadcast(Master, fits)))
  BY <1>1 DEF ReceiveFromHand, ReceiveClientLeft, ReceiveList, ReceiveServerCommand,
     SendOrFail, roomVars, Cursors
<1>3. UNCHANGED Status
  BY <1>2 DEF Status, StatusOf
<1>4. CASE UNCHANGED log
  BY <1>2, <1>3, <1>4, StutterStep
<1>5. ASSUME NEW fits \in BOOLEAN, log' = Append(log, Broadcast(Master, fits)) PROVE RoomStep
  <2>1. /\ Broadcast(Master, fits) \in Message /\ Broadcast(Master, fits).kind = "Broadcast"
        /\ Broadcast(Master, fits).address = Master
    BY DEF Broadcast, Message
  <2> QED
    BY <1>2, <1>3, <1>5, <2>1, PostStep
<1> QED
  BY <1>2, <1>4, <1>5

(* What a handler does outside its select! posts only while it serves.     *)
LEMMA HandlerOutsideStep ==
  ASSUME TypeOK, RecordIsEmpty, NEW c \in Conns, HandlerGoesOn(c)
  PROVE  RoomStep
<1>1. CASE FatalEnds(c)
  BY <1>1, LeaveStep, Statuses DEF FatalEnds, roomVars
<1>2. CASE ReportLeft(c)
  <2>1. handler[c] # "kicked" /\ UNCHANGED <<log, Cursors>>
    BY <1>2 DEF RecordIsEmpty, ReportLeft, Cursors
  <2>2. PICK s \in {"fatal", "done"} : Goto(c, s)
    BY <1>2 DEF ReportLeft, AfterReport
  <2> QED
    BY <2>1, <2>2, LeaveStep, Statuses DEF Cursors
<1>3. CASE SendList(c)
  <2>1. UNCHANGED <<log, Cursors>> /\ Status[c] = "in"
    BY <1>3, Statuses DEF SendList, roomVars, Cursors, Status, Serving
  <2>2. CASE Goto(c, "fatal")
    BY <2>1, <2>2, LeaveStep, Statuses DEF Cursors
  <2>3. CASE Goto(c, "listwait")
    BY <2>1, <2>3, GotoStatus, StutterStep, Statuses DEF Serving
  <2> QED
    BY <1>3, <2>2, <2>3 DEF SendList
<1>4. CASE ListReply(c)
  <2>1. UNCHANGED Cursors /\ Status[c] = "in"
    BY <1>4, Statuses DEF ListReply, Cursors, Status, Serving
  <2>2. CASE Goto(c, "fatal") /\ UNCHANGED log
    BY <2>1, <2>2, LeaveStep, Statuses DEF Cursors
  <2>3. CASE Goto(c, "select") /\ log' = Append(log, Personal(c))
    <3>1. UNCHANGED Status
      BY <2>1, <2>3, GotoStatus, Statuses DEF Serving
    <3>2. Personal(c) \in Message /\ Personal(c).address = c /\ c # Master
      BY MasterIsNoConn DEF Personal, Message
    <3> QED
      BY <2>1, <2>3, <3>1, <3>2, PostStep
  <2> QED
    BY <1>4, <2>2, <2>3 DEF ListReply
<1> QED
  BY <1>1, <1>2, <1>3, <1>4 DEF HandlerGoesOn

(* What a handler does in its select! and what it writes.                  *)
LEMMA HandlerInsideStep ==
  ASSUME TypeOK, PathInv, NEW c \in Conns, HandlerNext(c), ~HandlerGoesOn(c)
  PROVE  RoomStep
<1>0. /\ handler \in [Conns -> HandlerStates] /\ rx \in [Conns -> Nat]
      /\ written \in [Conns -> SUBSET Nat] /\ log \in Seq(Message) /\ c # Master
  BY MasterIsNoConn DEF TypeOK, HandlersTypeOK, QueuesTypeOK
<1>1. CASE ObeyCommand(c) \/ (\E error \in {"broken", "hmac"} : ReadFails(c, error))
             \/ FallBehind(c) \/ DisplayErrorFails(c) \/ HandlerCancelled(c)
  <2>1. UNCHANGED <<log, since, rx, written>>
    BY <1>1 DEF ObeyCommand, ReadFails, FallBehind, DisplayErrorFails, HandlerCancelled, roomVars
  <2>2. PICK s \in Leaving \cup {"fatal", "done"} : Goto(c, s)
    BY <1>1 DEF ObeyCommand, ReadFails, FallBehind, DisplayErrorFails, HandlerCancelled, Leaving
  <2> QED
    BY <2>1, <2>2, LeaveStep, Statuses
<1>2. ASSUME NEW fits \in Sizes, ReadText(c, fits) PROVE RoomStep
  <2>1. UNCHANGED Cursors /\ Status[c] = "in"
    BY <1>2, Statuses DEF ReadText, Cursors, Status, Serving
  <2>2. CASE Goto(c, "fatal") /\ UNCHANGED log
    BY <2>1, <2>2, LeaveStep, Statuses DEF Cursors
  <2>3. CASE UNCHANGED handler /\ log' = Append(log, Broadcast(c, fits))
    <3>1. UNCHANGED Status
      BY <2>3 DEF Status, StatusOf
    <3>2. Broadcast(c, fits) \in Message /\ Broadcast(c, fits).address = c
      BY Caps DEF Broadcast, Message
    <3> QED
      BY <1>0, <2>1, <2>3, <3>1, <3>2, PostStep
  <2> QED
    BY <1>2, <2>2, <2>3 DEF ReadText
<1>3. CASE ReadList(c)
  <2>1. UNCHANGED <<log, Cursors>> /\ Status[c] = "in" /\ Goto(c, "list")
    BY <1>3, Statuses DEF ReadList, roomVars, Cursors, Status, Serving
  <2> QED
    BY <2>1, GotoStatus, StutterStep, Statuses DEF Serving
<1>4. CASE TakeNext(c)
  <2>1. UNCHANGED <<log, since, written>> /\ Status[c] = "in" /\ rx[c] < Len(log)
    BY <1>4, Statuses DEF TakeNext, Status, Serving
  <2>2. CASE Goto(c, "writing") /\ UNCHANGED rx
    BY <2>1, <2>2, GotoStatus, StutterStep, Statuses DEF Serving, Cursors
  <2>3. CASE /\ ~MeantFor(c, log[rx[c] + 1])
             /\ rx' = [rx EXCEPT ![c] = @ + 1] /\ UNCHANGED handler
    <3>1. UNCHANGED Status
      BY <2>3 DEF Status, StatusOf
    <3>2. written = [written EXCEPT ![c] = @]
      BY <1>0
    <3>3. Room!Hear(c)
      BY <2>1, <2>3, <3>1, <3>2 DEF Room!Hear, Room!MeantFor, MeantFor
    <3> QED
      BY <3>3 DEF RoomStep, Room!Next
  <2> QED
    BY <1>4, <2>2, <2>3 DEF TakeNext
<1>5. CASE WriteDone(c)
  <2>1. Status[c] = "in" /\ rx[c] < Len(log) /\ MeantFor(c, log[rx[c] + 1])
    BY <1>5, Statuses DEF WriteDone, Status, Serving, PathInv, WriteInv
  <2>2. UNCHANGED Status
    BY <1>5, <2>1, GotoStatus, Statuses DEF WriteDone, Serving
  <2>3. Room!Hear(c)
    BY <1>5, <2>1, <2>2 DEF Room!Hear, Room!MeantFor, MeantFor, WriteDone
  <2> QED
    BY <2>3 DEF RoomStep, Room!Next
<1>6. CASE WriteFails(c)
  <2>1. Status[c] = "in" /\ rx[c] < Len(log)
    BY <1>6, Statuses DEF WriteFails, Status, Serving, PathInv, WriteInv
  <2> QED
    BY <1>6, <2>1, LeaveStep, Statuses DEF WriteFails, Leaving
<1> QED
  BY <1>1, <1>2, <1>3, <1>4, <1>5, <1>6 DEF HandlerNext

(* Everybody else's steps stutter, but for the end of the runtime.         *)
LEMMA ElsewhereStep ==
  ASSUME TypeOK, PathInv, RecordIsEmpty,
         \/ RunNext \/ AdminNext \/ UNCHANGED vars \/ RunIsGone
         \/ IdRecordGoesOn /\ ~HandshakeTimesOut
  PROVE  RoomStep
<1>1. CASE RuntimeDrop
  <2>1. Status' = [c \in Conns |-> "gone"]
    BY <1>1, Statuses DEF RuntimeDrop, DropTasks, Status, StatusOf
  <2> QED
    BY <1>1, <2>1 DEF RoomStep, Room!Next, Room!Close, RuntimeDrop, DropTasks, roomVars
<1>2. CASE ~RuntimeDrop
  <2>1. UNCHANGED <<log, Cursors>>
    BY <1>2 DEF RunNext, AdminNext, vars, RunIsGone, IdRecordGoesOn, BindListener, Accept,
       SendNewConnection, RunCancelled, Sigint, DisplayEnds, TypeLine, PickRequest,
       SendCommand, StdinFails, AdminCancelled, IdRecordStarts, DropNewClient, AskAdmin,
       AnswerArrives, AnswerLost, IdRecordEnds, roomVars, Cursors
  <2>2. UNCHANGED handler => UNCHANGED Status
    BY DEF Status, StatusOf
  <2>3. DropChannels => UNCHANGED Status
    BY DropChannelsStatus
  <2>4. ASSUME NEW c \in Conns, Accept(c) PROVE UNCHANGED Status
    <3>1. Status[c] = "out"
      BY <2>4, Statuses DEF Accept, Status
    <3> QED
      BY <2>4, <3>1, GotoStatus, Statuses DEF Accept
  <2>5. ASSUME SendNewConnection, Goto(runConn, "queued") PROVE UNCHANGED Status
    <3>1. runConn \in Conns /\ Status[runConn] = "out"
      BY <2>5, Statuses DEF SendNewConnection, Status, PathInv, PlaceInv, TypeOK, TasksTypeOK
    <3> QED
      BY <2>5, <3>1, GotoStatus, Statuses
  <2>6. UNCHANGED Status
    BY <1>2, <2>2, <2>3, <2>4, <2>5 DEF RunNext, AdminNext, vars, RunIsGone, IdRecordGoesOn,
       BindListener, SendNewConnection, RunCancelled, Sigint, DisplayEnds, TypeLine,
       PickRequest, SendCommand, StdinFails, AdminCancelled, IdRecordStarts, DropNewClient,
       AskAdmin, AnswerArrives, AnswerLost, IdRecordEnds
  <2> QED
    BY <2>1, <2>6, StutterStep
<1> QED
  BY <1>1, <1>2

LEMMA InitRoom == Init => Room!Init
  BY Statuses DEF Init, Room!Init, Status, StatusOf

LEMMA Simulation ==
  TypeOK /\ PathInv /\ RecordIsEmpty /\ [Next]_vars => [Room!Next]_(Room!vars)
<1> SUFFICES ASSUME TypeOK, PathInv, RecordIsEmpty, [Next]_vars PROVE RoomStep
  BY DEF RoomStep
<1>1. ASSUME NEW c \in Conns, HandlerNext(c) PROVE RoomStep
  BY <1>1, HandlerOutsideStep, HandlerInsideStep
<1>2. CASE IdRecordNext
  BY <1>2, TakeConnectionStep, HandshakeStep, ReceiveStep, ElsewhereStep DEF IdRecordNext
<1> QED
  BY <1>1, <1>2, ElsewhereStep DEF Next

(* The server implements the chat room.                                    *)
THEOREM ServerImplementsRoom == Spec => RoomSpec
<1>1. Spec => [](TypeOK /\ PathInv /\ RecordIsEmpty)
  BY InitPath, PathStep, InitRecord, RecordStep, TypeCorrect, PTL DEF Spec
<1> QED
  BY <1>1, InitRoom, Simulation, PTL DEF Spec, RoomSpec, Room!Spec

RoomProofs == INSTANCE ChatRoomProofs WITH
  status <- Status, from <- since, upto <- rx, heard <- written

(* What each client was written is what was meant for it, without a gap.   *)
THEOREM DeliveryIsGapFree == Spec => []GapFree
<1>1. RoomSpec => RoomProofs!Spec
  BY DEF RoomSpec, Room!Spec, RoomProofs!Spec, Room!Init, RoomProofs!Init, Room!Next,
     RoomProofs!Next, Room!vars, RoomProofs!vars, Room!Enter, RoomProofs!Enter,
     Room!Admit, RoomProofs!Admit, Room!Hear, RoomProofs!Hear, Room!Leave,
     RoomProofs!Leave, Room!Post, RoomProofs!Post, Room!Close, RoomProofs!Close,
     Room!MeantFor, RoomProofs!MeantFor, Room!Message, RoomProofs!Message
<1>2. RoomProofs!Spec => []RoomProofs!GapFree
  BY RoomProofs!RoomIsGapFree, MasterIsNoConn
<1>3. RoomProofs!GapFree <=> GapFree
  BY DEF GapFree, Room!GapFree, RoomProofs!GapFree, Room!Due, RoomProofs!Due,
     Room!MeantFor, RoomProofs!MeantFor
<1> QED
  BY ServerImplementsRoom, <1>1, <1>2, <1>3, PTL
=============================================================================
