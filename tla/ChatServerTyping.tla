-------------------------- MODULE ChatServerTyping --------------------------
(* Type correctness of ChatServer for every value of its constants, and    *)
(* the frame lemmas that all its proofs use: which actions change what.    *)
EXTENDS ChatServer, TLAPS

(* The token and the display.                                              *)
LEMMA FlagsFrame ==
  [Next]_vars =>
    UNCHANGED <<token, displaying>> \/ BindListener \/ SendNewConnection
      \/ Sigint \/ DisplayEnds \/ IdRecordEnds \/ SendCommand \/
      StdinFails \/ (\E c \in Conns : FatalEnds(c))
  BY DEF Next, RunNext, IdRecordNext, IdRecordGoesOn, ReceiveFromHand,
     AdminNext, HandlerNext, HandlerGoesOn, vars, runVars, idVars, roomVars,
     chanVars, adminVars, askVars, Accept, RunCancelled, RuntimeDrop,
     IdRecordStarts, TakeConnection, RunIsGone, HandshakeSucceeds,
     HandshakeFails, HandshakeTimesOut, DropNewClient, ReceiveClientLeft,
     ReceiveList, ReceiveServerCommand, AskAdmin, AnswerArrives, AnswerLost,
     TypeLine, PickRequest, AdminCancelled, ObeyCommand, ReadText, ReadList,
     SendList, ListReply, ReadFails, TakeNext, WriteDone, WriteFails,
     FallBehind, DisplayErrorFails, ReportLeft, HandlerCancelled, DropTasks

(* Where `run` is.                                                         *)
LEMMA RunFrame ==
  [Next]_vars =>
    UNCHANGED <<runPc, runConn>> \/ BindListener \/ (\E c \in Conns :
      Accept(c)) \/ SendNewConnection \/ RunCancelled
  BY DEF Next, RunNext, IdRecordNext, IdRecordGoesOn, ReceiveFromHand,
     AdminNext, HandlerNext, HandlerGoesOn, vars, runVars, idVars, roomVars,
     chanVars, adminVars, askVars, RuntimeDrop, Sigint, DisplayEnds,
     IdRecordStarts, TakeConnection, RunIsGone, HandshakeSucceeds,
     HandshakeFails, HandshakeTimesOut, DropNewClient, ReceiveClientLeft,
     ReceiveList, ReceiveServerCommand, AskAdmin, AnswerArrives, AnswerLost,
     IdRecordEnds, TypeLine, PickRequest, SendCommand, StdinFails,
     AdminCancelled, ObeyCommand, ReadText, ReadList, SendList, ListReply,
     ReadFails, TakeNext, WriteDone, WriteFails, FallBehind,
     DisplayErrorFails, ReportLeft, FatalEnds, HandlerCancelled, DropTasks

(* Where id_record is.                                                     *)
LEMMA IdFrame ==
  [Next]_vars =>
    UNCHANGED <<idPc, idConn, cause>> \/ RuntimeDrop \/ IdRecordStarts \/
      TakeConnection \/ RunIsGone \/ HandshakeSucceeds \/ (\E kind \in
      {"Fatal", "NonFatal"} : HandshakeFails(kind)) \/ HandshakeTimesOut
      \/ DropNewClient \/ ReceiveClientLeft \/ ReceiveList \/
      ReceiveServerCommand \/ AskAdmin \/ AnswerArrives \/ AnswerLost \/
      IdRecordEnds
  BY DEF Next, RunNext, IdRecordNext, IdRecordGoesOn, ReceiveFromHand,
     AdminNext, HandlerNext, HandlerGoesOn, vars, runVars, idVars, roomVars,
     chanVars, adminVars, askVars, BindListener, Accept, SendNewConnection,
     RunCancelled, Sigint, DisplayEnds, TypeLine, PickRequest,
     SendCommand, StdinFails, AdminCancelled, ObeyCommand, ReadText, ReadList,
     SendList, ListReply, ReadFails, TakeNext, WriteDone, WriteFails,
     FallBehind, DisplayErrorFails, ReportLeft, FatalEnds, HandlerCancelled

(* Where server_commands is.                                               *)
LEMMA AdminFrame ==
  [Next]_vars =>
    UNCHANGED <<adminPc, line>> \/ RuntimeDrop \/ (\E l \in Typed :
      TypeLine(l)) \/ SendCommand \/ StdinFails \/ AdminCancelled
  BY DEF Next, RunNext, IdRecordNext, IdRecordGoesOn, ReceiveFromHand,
     AdminNext, HandlerNext, HandlerGoesOn, vars, runVars, idVars, roomVars,
     chanVars, adminVars, askVars, BindListener, Accept, SendNewConnection,
     RunCancelled, Sigint, DisplayEnds, IdRecordStarts, TakeConnection,
     RunIsGone, HandshakeSucceeds, HandshakeFails, HandshakeTimesOut,
     DropNewClient, ReceiveClientLeft, ReceiveList, ReceiveServerCommand,
     AskAdmin, AnswerArrives, AnswerLost, IdRecordEnds, PickRequest,
     ObeyCommand, ReadText, ReadList, SendList, ListReply, ReadFails,
     TakeNext, WriteDone, WriteFails, FallBehind, DisplayErrorFails,
     ReportLeft, FatalEnds, HandlerCancelled

(* The handlers.                                                           *)
LEMMA HandlerFrame ==
  [Next]_vars =>
    UNCHANGED handler \/ (\E c \in Conns : Accept(c)) \/ SendNewConnection
      \/ RuntimeDrop \/ IdRecordStarts \/ TakeConnection \/
      HandshakeSucceeds \/ (\E kind \in {"Fatal", "NonFatal"} :
      HandshakeFails(kind)) \/ HandshakeTimesOut \/ ReceiveClientLeft \/
      IdRecordEnds \/ (\E c \in Conns : ObeyCommand(c)) \/ (\E c \in
      Conns, fits \in Sizes : ReadText(c, fits)) \/ (\E c \in Conns :
      ReadList(c)) \/ (\E c \in Conns : SendList(c)) \/ (\E c \in Conns :
      ListReply(c)) \/ (\E c \in Conns, error \in {"broken", "hmac"} :
      ReadFails(c, error)) \/ (\E c \in Conns : TakeNext(c)) \/ (\E c \in
      Conns : WriteDone(c)) \/ (\E c \in Conns : WriteFails(c)) \/ (\E c
      \in Conns : FallBehind(c)) \/ (\E c \in Conns :
      DisplayErrorFails(c)) \/ (\E c \in Conns : ReportLeft(c)) \/ (\E c
      \in Conns : FatalEnds(c)) \/ (\E c \in Conns : HandlerCancelled(c))
  BY DEF Next, RunNext, IdRecordNext, IdRecordGoesOn, ReceiveFromHand,
     AdminNext, HandlerNext, HandlerGoesOn, vars, runVars, idVars, roomVars,
     chanVars, adminVars, askVars, BindListener, RunCancelled, Sigint,
     DisplayEnds, RunIsGone, DropNewClient, ReceiveList, ReceiveServerCommand,
     AskAdmin, AnswerArrives, AnswerLost, TypeLine, PickRequest, SendCommand,
     StdinFails, AdminCancelled

(* The channel from `run` to id_record.                                    *)
LEMMA RunQueueFrame ==
  [Next]_vars =>
    UNCHANGED runIdCom \/ SendNewConnection \/ TakeConnection \/
      IdRecordStarts \/ IdRecordEnds \/ RuntimeDrop \/ ReceiveClientLeft
  BY DEF Next, RunNext, IdRecordNext, IdRecordGoesOn, ReceiveFromHand,
     AdminNext, HandlerNext, HandlerGoesOn, vars, runVars, idVars, roomVars,
     chanVars, adminVars, askVars, BindListener, Accept, RunCancelled, Sigint,
     DisplayEnds, RunIsGone, HandshakeSucceeds, HandshakeFails,
     HandshakeTimesOut, DropNewClient, ReceiveList, ReceiveServerCommand,
     AskAdmin, AnswerArrives, AnswerLost, TypeLine, PickRequest, SendCommand,
     StdinFails, AdminCancelled, ObeyCommand, ReadText, ReadList, SendList,
     ListReply, ReadFails, TakeNext, WriteDone, WriteFails, FallBehind,
     DisplayErrorFails, ReportLeft, FatalEnds, HandlerCancelled

(* The channel from the handlers and the admin to id_record.               *)
LEMMA HandQueueFrame ==
  [Next]_vars =>
    UNCHANGED conHandId \/ SendCommand \/ IdRecordStarts \/ IdRecordEnds
      \/ RuntimeDrop \/ ReceiveClientLeft \/ ReceiveList \/
      ReceiveServerCommand \/ (\E c \in Conns : SendList(c)) \/ (\E c \in
      Conns : ReportLeft(c))
  BY DEF Next, RunNext, IdRecordNext, IdRecordGoesOn, ReceiveFromHand,
     AdminNext, HandlerNext, HandlerGoesOn, vars, runVars, idVars, roomVars,
     chanVars, adminVars, askVars, BindListener, Accept, SendNewConnection,
     RunCancelled, Sigint, DisplayEnds, TakeConnection, RunIsGone,
     HandshakeSucceeds, HandshakeFails, HandshakeTimesOut, DropNewClient,
     AskAdmin, AnswerArrives, AnswerLost, TypeLine, PickRequest, StdinFails,
     AdminCancelled, ObeyCommand, ReadText, ReadList, ListReply, ReadFails,
     TakeNext, WriteDone, WriteFails, FallBehind, DisplayErrorFails,
     FatalEnds, HandlerCancelled

(* The record of clients: nothing adds to it.                              *)
LEMMA RecordFrame ==
  [Next]_vars =>
    UNCHANGED clients \/ ReceiveClientLeft \/ IdRecordEnds
  BY DEF Next, RunNext, IdRecordNext, IdRecordGoesOn, ReceiveFromHand,
     AdminNext, HandlerNext, HandlerGoesOn, vars, runVars, idVars, roomVars,
     chanVars, adminVars, askVars, BindListener, Accept, SendNewConnection,
     RunCancelled, RuntimeDrop, Sigint, DisplayEnds, IdRecordStarts,
     TakeConnection, RunIsGone, HandshakeSucceeds, HandshakeFails,
     HandshakeTimesOut, DropNewClient, ReceiveList, ReceiveServerCommand,
     AskAdmin, AnswerArrives, AnswerLost, TypeLine, PickRequest, SendCommand,
     StdinFails, AdminCancelled, ObeyCommand, ReadText, ReadList, SendList,
     ListReply, ReadFails, TakeNext, WriteDone, WriteFails, FallBehind,
     DisplayErrorFails, ReportLeft, FatalEnds, HandlerCancelled, DropTasks

(* The log of the broadcast channel.                                       *)
LEMMA LogFrame ==
  [Next]_vars =>
    UNCHANGED log \/ ReceiveClientLeft \/ ReceiveServerCommand \/ (\E c
      \in Conns, fits \in Sizes : ReadText(c, fits)) \/ (\E c \in Conns :
      ListReply(c)) \/ (\E c \in Conns : ReportLeft(c))
  BY DEF Next, RunNext, IdRecordNext, IdRecordGoesOn, ReceiveFromHand,
     AdminNext, HandlerNext, HandlerGoesOn, vars, runVars, idVars, roomVars,
     chanVars, adminVars, askVars, BindListener, Accept, SendNewConnection,
     RunCancelled, RuntimeDrop, Sigint, DisplayEnds, IdRecordStarts,
     TakeConnection, RunIsGone, HandshakeSucceeds, HandshakeFails,
     HandshakeTimesOut, DropNewClient, ReceiveList, AskAdmin, AnswerArrives,
     AnswerLost, IdRecordEnds, TypeLine, PickRequest, SendCommand, StdinFails,
     AdminCancelled, ObeyCommand, ReadList, SendList, ReadFails, TakeNext,
     WriteDone, WriteFails, FallBehind, DisplayErrorFails, FatalEnds,
     HandlerCancelled, DropTasks

(* The requests for a line of stdin and the answer.                        *)
LEMMA PromptFrame ==
  [Next]_vars =>
    UNCHANGED <<stdinReq, requests, asked, answer>> \/ AskAdmin \/
      AnswerArrives \/ (\E l \in Typed : TypeLine(l)) \/ PickRequest
  BY DEF Next, RunNext, IdRecordNext, IdRecordGoesOn, ReceiveFromHand,
     AdminNext, HandlerNext, HandlerGoesOn, vars, runVars, idVars, roomVars,
     chanVars, adminVars, askVars, BindListener, Accept, SendNewConnection,
     RunCancelled, RuntimeDrop, Sigint, DisplayEnds, IdRecordStarts,
     TakeConnection, RunIsGone, HandshakeSucceeds, HandshakeFails,
     HandshakeTimesOut, DropNewClient, ReceiveClientLeft, ReceiveList,
     ReceiveServerCommand, AnswerLost, IdRecordEnds, SendCommand, StdinFails,
     AdminCancelled, ObeyCommand, ReadText, ReadList, SendList, ListReply,
     ReadFails, TakeNext, WriteDone, WriteFails, FallBehind,
     DisplayErrorFails, ReportLeft, FatalEnds, HandlerCancelled, DropTasks

(* The channels from id_record to the handlers.                            *)
LEMMA ClientChannelsFrame ==
  [Next]_vars =>
    UNCHANGED <<command, idHand>> \/ DropNewClient \/ ReceiveClientLeft \/
      ReceiveList \/ AnswerArrives \/ IdRecordEnds \/ (\E c \in Conns :
      ListReply(c))
  BY DEF Next, RunNext, IdRecordNext, IdRecordGoesOn, ReceiveFromHand,
     AdminNext, HandlerNext, HandlerGoesOn, vars, runVars, idVars, roomVars,
     chanVars, adminVars, askVars, BindListener, Accept, SendNewConnection,
     RunCancelled, RuntimeDrop, Sigint, DisplayEnds, IdRecordStarts,
     TakeConnection, RunIsGone, HandshakeSucceeds, HandshakeFails,
     HandshakeTimesOut, ReceiveServerCommand, AskAdmin, AnswerLost, TypeLine,
     PickRequest, SendCommand, StdinFails, AdminCancelled, ObeyCommand,
     ReadText, ReadList, SendList, ReadFails, TakeNext, WriteDone, WriteFails,
     FallBehind, DisplayErrorFails, ReportLeft, FatalEnds, HandlerCancelled,
     DropTasks

(* The receivers of the broadcast channel.                                 *)
LEMMA CursorFrame ==
  [Next]_vars =>
    UNCHANGED <<since, rx, written>> \/ TakeConnection \/ (\E c \in Conns
      : TakeNext(c)) \/ (\E c \in Conns : WriteDone(c)) \/ (\E c \in Conns
      : WriteFails(c))
  BY DEF Next, RunNext, IdRecordNext, IdRecordGoesOn, ReceiveFromHand,
     AdminNext, HandlerNext, HandlerGoesOn, vars, runVars, idVars, roomVars,
     chanVars, adminVars, askVars, BindListener, Accept, SendNewConnection,
     RunCancelled, RuntimeDrop, Sigint, DisplayEnds, IdRecordStarts,
     RunIsGone, HandshakeSucceeds, HandshakeFails, HandshakeTimesOut,
     DropNewClient, ReceiveClientLeft, ReceiveList, ReceiveServerCommand,
     AskAdmin, AnswerArrives, AnswerLost, IdRecordEnds, TypeLine, PickRequest,
     SendCommand, StdinFails, AdminCancelled, ObeyCommand, ReadText, ReadList,
     SendList, ListReply, ReadFails, FallBehind, DisplayErrorFails,
     ReportLeft, FatalEnds, HandlerCancelled, DropTasks

-----------------------------------------------------------------------------
(* How each queue changes, whoever changes it.                             *)
LEMMA RunQueueSteps ==
  [Next]_vars =>
    \/ UNCHANGED runIdCom
    \/ runIdCom' = <<>>
    \/ runIdCom # <<>> /\ runIdCom' = Tail(runIdCom)
    \/ /\ runPc = "send" /\ Len(runIdCom) < RunCap
       /\ runIdCom' = Append(runIdCom, runConn)
  BY RunQueueFrame DEF SendNewConnection, TakeConnection, IdRecordStarts, IdRecordEnds,
     RuntimeDrop, DropTasks, ReceiveClientLeft, DropChannels, HasRoom

LEMMA HandQueueSteps ==
  [Next]_vars =>
    \/ UNCHANGED conHandId
    \/ conHandId' = <<>>
    \/ conHandId # <<>> /\ conHandId' = Tail(conHandId)
    \/ /\ Len(conHandId) < HandCap
       /\ \/ /\ adminPc = "send"
             /\ conHandId' = Append(conHandId, [type |-> "ServerCommand", line |-> line])
          \/ \E c \in Conns, type \in {"ClientLeft", "List"} :
               conHandId' = Append(conHandId, [type |-> type, addr |-> c])
  BY HandQueueFrame DEF SendCommand, IdRecordStarts, IdRecordEnds, RuntimeDrop, DropTasks,
     ReceiveClientLeft, ReceiveList, ReceiveServerCommand, SendList, ReportLeft,
     DropChannels, HasRoom, NextHandMsg

LEMMA LogSteps ==
  [Next]_vars =>
    \/ UNCHANGED log
    \/ \E a \in Listed, fits \in BOOLEAN : log' = Append(log, Broadcast(a, fits))
    \/ \E c \in Conns : log' = Append(log, Personal(c))
    \/ \E c \in Conns, fits \in Sizes : log' = Append(log, Broadcast(c, fits))
    \/ \E fits \in BOOLEAN : log' = Append(log, Broadcast(Master, fits))
  BY LogFrame DEF ReceiveClientLeft, ReceiveServerCommand, ReadText, ListReply, ReportLeft,
     SendOrFail

LEMMA PromptSteps ==
  [Next]_vars =>
    /\ \/ UNCHANGED stdinReq
       \/ Len(stdinReq) < ReqCap /\ stdinReq' = Append(stdinReq, asked + 1)
       \/ stdinReq # <<>> /\ stdinReq' = Tail(stdinReq)
    /\ \/ UNCHANGED requests
       \/ requests' = <<>>
       \/ \E i \in 1 .. Len(requests) : requests' = Unanswered(i)
       \/ stdinReq # <<>> /\ requests' = Append(requests, Head(stdinReq))
  BY PromptFrame DEF AskAdmin, AnswerArrives, TypeLine, PickRequest, HasRoom, adminVars

-----------------------------------------------------------------------------
LEMMA Caps == {HandCap, RunCap, ReqCap} \subseteq Nat \ {0} /\ Typed \subseteq Lines
                /\ Sizes \subseteq BOOLEAN
  BY CapsArePositive

LEMMA States ==
  HandlerStates =
    {"absent", "accepted", "queued", "dropped", "handshake", "refused", "fatal",
     "done", "select", "writing", "list", "listwait", "lagged", "broken", "hmac",
     "kicked"}
  BY DEF HandlerStates, Alive, Serving, Leaving

LEMMA InitType == Init => TypeOK
<1> SUFFICES ASSUME Init PROVE TypeOK
  OBVIOUS
<1>1. FlagsTypeOK
  BY DEF Init, FlagsTypeOK
<1>2. TasksTypeOK
  BY DEF Init, TasksTypeOK
<1>3. QueuesTypeOK
  BY Caps DEF Init, QueuesTypeOK
<1>4. HandlersTypeOK
  BY States DEF Init, HandlersTypeOK
<1> QED
  BY <1>1, <1>2, <1>3, <1>4 DEF TypeOK

LEMMA FlagsType == FlagsTypeOK /\ [Next]_vars => FlagsTypeOK'
<1> SUFFICES ASSUME FlagsTypeOK, [Next]_vars PROVE FlagsTypeOK'
  OBVIOUS
<1>1. (token' = token \/ token' = TRUE) /\ (displaying' = displaying \/ displaying' = FALSE)
  BY FlagsFrame DEF BindListener, SendNewConnection, Sigint, DisplayEnds, IdRecordEnds,
     SendCommand, StdinFails, FatalEnds, runVars
<1> QED
  BY <1>1 DEF FlagsTypeOK

(* A bounded queue stays one when it is emptied, popped, or pushed onto    *)
(* while there is room.                                                    *)
LEMMA QueueStep ==
  ASSUME NEW S, NEW q \in Seq(S), NEW cap \in Nat, Len(q) <= cap, NEW next,
         \/ next = q
         \/ next = <<>>
         \/ q # <<>> /\ next = Tail(q)
         \/ Len(q) < cap /\ \E e \in S : next = Append(q, e)
  PROVE  next \in Seq(S) /\ Len(next) <= cap
<1>1. CASE next = q
  BY <1>1
<1>2. CASE next = <<>>
  BY <1>2
<1>3. CASE q # <<>> /\ next = Tail(q)
  BY <1>3
<1>4. CASE Len(q) < cap /\ \E e \in S : next = Append(q, e)
  BY <1>4
<1> QED
  BY <1>1, <1>2, <1>3, <1>4

LEMMA RunQueueType ==
  TypeOK /\ [Next]_vars => runIdCom' \in Seq(Conns) /\ Len(runIdCom') <= RunCap
<1> SUFFICES ASSUME TypeOK, [Next]_vars
             PROVE  runIdCom' \in Seq(Conns) /\ Len(runIdCom') <= RunCap
  OBVIOUS
<1>1. runIdCom \in Seq(Conns) /\ Len(runIdCom) <= RunCap /\ RunCap \in Nat
  BY Caps DEF TypeOK, QueuesTypeOK
<1>2. runPc = "send" => runConn \in Conns
  BY DEF TypeOK, TasksTypeOK
<1>3. \/ runIdCom' = runIdCom \/ runIdCom' = <<>>
      \/ runIdCom # <<>> /\ runIdCom' = Tail(runIdCom)
      \/ Len(runIdCom) < RunCap /\ \E e \in Conns : runIdCom' = Append(runIdCom, e)
  BY <1>2, RunQueueSteps
<1> QED
  BY <1>1, <1>3, QueueStep

LEMMA HandQueueType ==
  TypeOK /\ [Next]_vars => conHandId' \in Seq(HandMsg) /\ Len(conHandId') <= HandCap
<1> SUFFICES ASSUME TypeOK, [Next]_vars
             PROVE  conHandId' \in Seq(HandMsg) /\ Len(conHandId') <= HandCap
  OBVIOUS
<1>1. conHandId \in Seq(HandMsg) /\ Len(conHandId) <= HandCap /\ HandCap \in Nat
  BY Caps DEF TypeOK, QueuesTypeOK
<1>2. adminPc = "send" => [type |-> "ServerCommand", line |-> line] \in HandMsg
  BY DEF TypeOK, TasksTypeOK, HandMsg
<1>3. \A c \in Conns, type \in {"ClientLeft", "List"} : [type |-> type, addr |-> c] \in HandMsg
  BY DEF HandMsg
<1>4. \/ conHandId' = conHandId \/ conHandId' = <<>>
      \/ conHandId # <<>> /\ conHandId' = Tail(conHandId)
      \/ Len(conHandId) < HandCap /\ \E e \in HandMsg : conHandId' = Append(conHandId, e)
  BY <1>2, <1>3, HandQueueSteps
<1> QED
  BY <1>1, <1>4, QueueStep

LEMMA RecordType == TypeOK /\ [Next]_vars => clients' \in Seq(Conns)
<1> SUFFICES ASSUME TypeOK, [Next]_vars PROVE clients' \in Seq(Conns)
  OBVIOUS
<1>1. clients \in Seq(Conns)
  BY DEF TypeOK, QueuesTypeOK
<1>2. \/ clients' = clients \/ clients' = <<>>
      \/ PositionOf(Head(conHandId).addr) # Len(clients) /\ Listed # {}
         /\ clients' = Without(PositionOf(Head(conHandId).addr))
  BY RecordFrame DEF ReceiveClientLeft, IdRecordEnds
<1>3. ASSUME NEW i, Listed # {} PROVE Without(i) \in Seq(Conns)
  <2>1. Len(clients) - 1 \in Nat
    BY <1>1, <1>3 DEF Listed
  <2>2. \A j \in 1 .. (Len(clients) - 1) : clients[j] \in Conns /\ clients[j + 1] \in Conns
    BY <1>1
  <2>3. Without(i) \in [1 .. (Len(clients) - 1) -> Conns]
    BY <2>2 DEF Without
  <2> QED
    BY <2>1, <2>3
<1>4. CASE clients' = <<>>
  BY <1>4
<1> QED
  BY <1>1, <1>2, <1>3, <1>4

LEMMA LogType == TypeOK /\ [Next]_vars => log' \in Seq(Message)
<1> SUFFICES ASSUME TypeOK, [Next]_vars PROVE log' \in Seq(Message)
  OBVIOUS
<1>1. log \in Seq(Message) /\ Listed \subseteq Conns
  BY DEF TypeOK, QueuesTypeOK, Listed
<1>2. \A c \in Conns \cup {Master}, fits \in BOOLEAN : Broadcast(c, fits) \in Message
  BY DEF Broadcast, Message
<1>3. \A c \in Conns : Personal(c) \in Message
  BY DEF Personal, Message
<1>4. log' = log \/ \E m \in Message : log' = Append(log, m)
  BY <1>1, <1>2, <1>3, Caps, LogSteps
<1> QED
  BY <1>1, <1>4

LEMMA PromptType ==
  TypeOK /\ [Next]_vars =>
    stdinReq' \in Seq(Nat) /\ Len(stdinReq') <= ReqCap /\ requests' \in Seq(Nat)
<1> SUFFICES ASSUME TypeOK, [Next]_vars
             PROVE  /\ stdinReq' \in Seq(Nat) /\ Len(stdinReq') <= ReqCap
                    /\ requests' \in Seq(Nat)
  OBVIOUS
<1>1. /\ stdinReq \in Seq(Nat) /\ Len(stdinReq) <= ReqCap /\ ReqCap \in Nat
      /\ requests \in Seq(Nat) /\ asked \in Nat
  BY Caps DEF TypeOK, QueuesTypeOK, TasksTypeOK
<1>2. stdinReq' \in Seq(Nat) /\ Len(stdinReq') <= ReqCap
  <2>1. \/ stdinReq' = stdinReq
        \/ stdinReq # <<>> /\ stdinReq' = Tail(stdinReq)
        \/ Len(stdinReq) < ReqCap /\ \E e \in Nat : stdinReq' = Append(stdinReq, e)
    BY <1>1, PromptSteps
  <2> QED
    BY <1>1, <2>1, QueueStep
<1>3. \A i \in 1 .. Len(requests) : Unanswered(i) \in Seq(Nat)
  BY <1>1 DEF Unanswered
<1>4. stdinReq # <<>> => Head(stdinReq) \in Nat
  BY <1>1
<1>5. requests' \in Seq(Nat)
  <2>1. CASE requests' = Append(requests, Head(stdinReq)) /\ stdinReq # <<>>
    BY <1>1, <1>4, <2>1
  <2>2. CASE requests' = <<>>
    BY <2>2
  <2> QED
    BY <1>1, <1>3, <2>1, <2>2, PromptSteps
<1> QED
  BY <1>2, <1>5

LEMMA QueuesType == TypeOK /\ [Next]_vars => QueuesTypeOK'
  BY RunQueueType, HandQueueType, RecordType, LogType, PromptType DEF QueuesTypeOK

LEMMA TasksType == TypeOK /\ [Next]_vars => TasksTypeOK'
<1> SUFFICES ASSUME TypeOK, [Next]_vars PROVE TasksTypeOK'
  OBVIOUS
<1> USE DEF TypeOK, TasksTypeOK
<1>1. /\ runPc' \in {"bind", "accept", "send", "ended"}
      /\ runConn' \in Conns \cup {Master}
      /\ runPc' = "send" => runConn' \in Conns
  BY RunFrame DEF BindListener, Accept, SendNewConnection, RunCancelled
<1>2. runIdCom # <<>> => Head(runIdCom) \in Conns
  BY DEF QueuesTypeOK
<1>3. /\ idPc' \in {"start", "select", "handshake", "spawned", "ask", "await",
                     "failing", "ended", "panicked"}
      /\ idConn' \in Conns \cup {Master}
      /\ idPc' \in {"handshake", "spawned"} => idConn' \in Conns
      /\ cause' \in {"none", "Fatal", "NonFatal", "NoReceiver", "Channel"}
  BY <1>2, IdFrame DEF RuntimeDrop, DropTasks, IdRecordStarts, TakeConnection, RunIsGone,
     HandshakeSucceeds, HandshakeFails, HandshakeTimesOut, DropNewClient,
     ReceiveClientLeft, ReceiveList, ReceiveServerCommand, AskAdmin, AnswerArrives, AnswerLost,
     IdRecordEnds, Fail, SendOrFail, idVars
<1>4. /\ adminPc' \in {"select", "send", "ended"}
      /\ line' \in Lines \cup {"none"}
      /\ adminPc' = "send" => line' \in Lines
  BY Caps, AdminFrame DEF RuntimeDrop, DropTasks, TypeLine, SendCommand, StdinFails,
     AdminCancelled
<1>5. asked' \in Nat /\ answer' \in Lines \cup {"none"}
  BY Caps, PromptFrame DEF AskAdmin, AnswerArrives, TypeLine, PickRequest
<1> QED
  BY <1>1, <1>3, <1>4, <1>5

LEMMA HandlerType == HandlersTypeOK /\ [Next]_vars => handler' \in [Conns -> HandlerStates]
<1> SUFFICES ASSUME HandlersTypeOK, [Next]_vars PROVE handler' \in [Conns -> HandlerStates]
  OBVIOUS
<1>1. \A c, state : state \in HandlerStates /\ Goto(c, state) => handler' \in [Conns -> HandlerStates]
  BY DEF HandlersTypeOK, Goto
<1>2. DropChannels => handler' \in [Conns -> HandlerStates]
  BY States DEF HandlersTypeOK, DropChannels
<1>3. DropTasks => handler' \in [Conns -> HandlerStates]
  BY States DEF DropTasks
<1>4. \/ UNCHANGED handler \/ DropTasks \/ DropChannels
      \/ \E c, state : state \in HandlerStates /\ Goto(c, state)
  BY States, HandlerFrame DEF Accept, SendNewConnection, RuntimeDrop, IdRecordStarts,
     TakeConnection, HandshakeSucceeds, HandshakeFails, HandshakeTimesOut,
     ReceiveClientLeft, IdRecordEnds, ObeyCommand, ReadText, ReadList, SendList,
     ListReply, ReadFails, TakeNext, WriteDone, WriteFails, FallBehind,
     DisplayErrorFails, ReportLeft, FatalEnds, HandlerCancelled, AfterReport, chanVars
<1> QED
  BY <1>1, <1>2, <1>3, <1>4 DEF HandlersTypeOK

LEMMA CursorType ==
  TypeOK /\ [Next]_vars =>
    /\ since' \in [Conns -> Nat] /\ rx' \in [Conns -> Nat]
    /\ written' \in [Conns -> SUBSET Nat]
<1> SUFFICES ASSUME TypeOK, [Next]_vars
             PROVE  /\ since' \in [Conns -> Nat] /\ rx' \in [Conns -> Nat]
                    /\ written' \in [Conns -> SUBSET Nat]
  OBVIOUS
<1>1. /\ since \in [Conns -> Nat] /\ rx \in [Conns -> Nat]
      /\ written \in [Conns -> SUBSET Nat] /\ Len(log) \in Nat
  BY DEF TypeOK, HandlersTypeOK, QueuesTypeOK
<1>2. CASE TakeConnection
  BY <1>1, <1>2 DEF TakeConnection
<1>3. ASSUME NEW c \in Conns, TakeNext(c) PROVE rx' \in [Conns -> Nat] /\ UNCHANGED <<since, written>>
  BY <1>1, <1>3 DEF TakeNext
<1>4. ASSUME NEW c \in Conns, WriteDone(c)
      PROVE  rx' \in [Conns -> Nat] /\ written' \in [Conns -> SUBSET Nat] /\ UNCHANGED since
  BY <1>1, <1>4 DEF WriteDone
<1>5. ASSUME NEW c \in Conns, WriteFails(c) PROVE rx' \in [Conns -> Nat] /\ UNCHANGED <<since, written>>
  BY <1>1, <1>5 DEF WriteFails
<1> QED
  BY <1>1, <1>2, <1>3, <1>4, <1>5, CursorFrame

LEMMA ClientChannelsType ==
  HandlersTypeOK /\ [Next]_vars =>
    /\ command' \in [Conns -> {"open", "kick", "closed"}]
    /\ idHand' \in [Conns -> {"open", "list", "closed"}]
<1> SUFFICES ASSUME HandlersTypeOK, [Next]_vars
             PROVE  /\ command' \in [Conns -> {"open", "kick", "closed"}]
                    /\ idHand' \in [Conns -> {"open", "list", "closed"}]
  OBVIOUS
<1>1. /\ command \in [Conns -> {"open", "kick", "closed"}]
      /\ idHand \in [Conns -> {"open", "list", "closed"}]
  BY DEF HandlersTypeOK
<1>2. \/ UNCHANGED <<command, idHand>>
      \/ \E S : DropClients(S)
      \/ \E c : command' = [command EXCEPT ![c] = "kick"] /\ UNCHANGED idHand
      \/ UNCHANGED command /\ \E c : idHand' = [idHand EXCEPT ![c] = "open"]
      \/ UNCHANGED command /\ \E c : idHand' = [idHand EXCEPT ![c] = "list"]
  <2>1. CASE DropNewClient \/ IdRecordEnds
    BY <2>1 DEF DropNewClient, IdRecordEnds
  <2>2. CASE ReceiveClientLeft
    BY <2>2 DEF ReceiveClientLeft, chanVars
  <2>3. ASSUME ReceiveList
        PROVE  /\ UNCHANGED command
               /\ \/ UNCHANGED idHand
                  \/ idHand' = [idHand EXCEPT ![Head(conHandId).addr] = "list"]
    BY <2>3 DEF ReceiveList
  <2>4. CASE AnswerArrives
    BY <2>4 DEF AnswerArrives
  <2>5. ASSUME NEW c \in Conns, ListReply(c)
        PROVE  UNCHANGED command /\ (UNCHANGED idHand \/ idHand' = [idHand EXCEPT ![c] = "open"])
    BY <2>5 DEF ListReply
  <2> QED
    BY <2>1, <2>2, <2>3, <2>4, <2>5, ClientChannelsFrame
<1>3. ASSUME NEW S, DropClients(S)
      PROVE  /\ command' \in [Conns -> {"open", "kick", "closed"}]
             /\ idHand' \in [Conns -> {"open", "list", "closed"}]
  BY <1>1, <1>3 DEF DropClients
<1> QED
  BY <1>1, <1>2, <1>3

(* Every variable of the server stays in its range: in particular no       *)
(* bounded channel ever holds more than its capacity, and a connection is  *)
(* at hand wherever `run` and id_record use one.                           *)
THEOREM TypeCorrect == Spec => []TypeOK
<1>1. TypeOK /\ [Next]_vars => TypeOK'
  BY FlagsType, TasksType, QueuesType, HandlerType, CursorType, ClientChannelsType
     DEF TypeOK, HandlersTypeOK
<1> QED
  BY InitType, <1>1, PTL DEF Spec
=============================================================================
