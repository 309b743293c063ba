------------------------ MODULE ChatServerInvariants ------------------------
(* The safety invariants of ChatServer, for every value of its constants.  *)
EXTENDS ChatServerTyping

(* The record of clients is never filled: receiving_from_run drops the     *)
(* Client that it built.  So no kick is ever sent and no list answered.    *)
RecordIsEmpty ==
  /\ clients = <<>>
  /\ idPc # "panicked"
  /\ \A c \in Conns : command[c] # "kick" /\ idHand[c] # "list" /\ handler[c] # "kicked"

LEMMA NobodyListed == clients = <<>> => Listed = {}
  BY DEF Listed

LEMMA InitRecord == Init => RecordIsEmpty
  BY DEF Init, RecordIsEmpty

LEMMA RecordStep == TypeOK /\ RecordIsEmpty /\ [Next]_vars => RecordIsEmpty'
<1> SUFFICES ASSUME TypeOK, RecordIsEmpty, [Next]_vars PROVE RecordIsEmpty'
  OBVIOUS
<1>1. clients = <<>> /\ Listed = {}
  BY NobodyListed DEF RecordIsEmpty
<1>2. clients' = <<>>
  BY <1>1, RecordFrame DEF ReceiveClientLeft, IdRecordEnds
<1>3. idPc' # "panicked"
  BY <1>1, IdFrame DEF RecordIsEmpty, RuntimeDrop, DropTasks, IdRecordStarts, TakeConnection,
     RunIsGone, HandshakeSucceeds, HandshakeFails, HandshakeTimesOut, DropNewClient,
     ReceiveClientLeft, ReceiveList, ReceiveServerCommand, AskAdmin, AnswerArrives, AnswerLost,
     IdRecordEnds, Fail, SendOrFail, idVars
<1>4. ASSUME NEW c \in Conns PROVE command'[c] # "kick" /\ idHand'[c] # "list"
  <2> USE DEF TypeOK, HandlersTypeOK, RecordIsEmpty
  <2>1. CASE DropNewClient \/ IdRecordEnds
    BY <2>1 DEF DropNewClient, IdRecordEnds, DropClients
  <2>2. CASE ReceiveClientLeft
    BY <1>1, <2>2 DEF ReceiveClientLeft, chanVars
  <2>3. CASE ReceiveList
    BY <1>1, <2>3 DEF ReceiveList
  <2>4. CASE AnswerArrives
    BY <1>1, <2>4 DEF AnswerArrives
  <2>5. ASSUME NEW d \in Conns, ListReply(d) PROVE command' = command /\ idHand' = idHand
    BY <2>5 DEF ListReply
  <2> QED
    BY <2>1, <2>2, <2>3, <2>4, <2>5, ClientChannelsFrame
<1>5. ASSUME NEW c \in Conns PROVE handler'[c] # "kicked"
  <2> USE DEF TypeOK, HandlersTypeOK, RecordIsEmpty
  <2>1. \A d, state : state # "kicked" /\ Goto(d, state) => handler'[c] # "kicked"
    BY DEF Goto
  <2>2. DropChannels \/ DropTasks => handler'[c] # "kicked"
    BY DEF DropChannels, DropTasks
  <2>3. \/ UNCHANGED handler \/ DropTasks \/ DropChannels
        \/ \E d, state : state # "kicked" /\ Goto(d, state)
    BY HandlerFrame DEF Accept, SendNewConnection, RuntimeDrop, IdRecordStarts,
       TakeConnection, HandshakeSucceeds, HandshakeFails, HandshakeTimesOut,
       ReceiveClientLeft, IdRecordEnds, ObeyCommand, ReadText, ReadList, SendList,
       ListReply, ReadFails, TakeNext, WriteDone, WriteFails, FallBehind,
       DisplayErrorFails, ReportLeft, FatalEnds, HandlerCancelled, AfterReport
  <2> QED
    BY <2>1, <2>2, <2>3
<1> QED
  BY <1>2, <1>3, <1>4, <1>5 DEF RecordIsEmpty

(* id_record never panics on the index of a client that left.              *)
THEOREM IndexPanicIsOutOfReach == Spec => []NoIndexPanic
<1>1. RecordIsEmpty => NoIndexPanic
  BY DEF RecordIsEmpty, NoIndexPanic
<1> QED
  BY InitRecord, RecordStep, TypeCorrect, <1>1, PTL DEF Spec

-----------------------------------------------------------------------------
(* An answer is at hand only while id_record awaits it.                    *)
PromptInv ==
  /\ PromptAccounting
  /\ adminPc # "ended" /\ idPc # "await" => answer = "none"

(* A concatenation of at most one element lies in one of its parts.        *)
LEMMA ConcatIsShort ==
  ASSUME NEW q \in Seq(Nat), NEW r \in Seq(Nat), NEW e \in Nat
  PROVE  /\ q \o r = <<e>> => (q = <<e>> /\ r = <<>>) \/ (q = <<>> /\ r = <<e>>)
         /\ q \o r = <<>> => q = <<>> /\ r = <<>>
<1>1. ASSUME q \o r = <<e>> PROVE (q = <<e>> /\ r = <<>>) \/ (q = <<>> /\ r = <<e>>)
  <2>1. Len(q) + Len(r) = 1
    <3>1. Len(q \o r) = Len(q) + Len(r)
      OBVIOUS
    <3>2. Len(<<e>>) = 1
      OBVIOUS
    <3> QED
      BY <1>1, <3>1, <3>2
  <2>2. CASE Len(q) = 1
    <3>1. r = <<>>
      BY <2>1, <2>2
    <3>2. q \o r = q
      BY <3>1
    <3> QED
      BY <1>1, <3>1, <3>2
  <2>3. CASE Len(q) = 0
    BY <1>1, <2>1, <2>3
  <2> QED
    BY <2>1, <2>2, <2>3
<1>2. ASSUME q \o r = <<>> PROVE q = <<>> /\ r = <<>>
  BY <1>2
<1> QED
  BY <1>1, <1>2

LEMMA ConcatNothing ==
  ASSUME NEW e \in Nat
  PROVE  <<>> \o <<>> = <<>> /\ <<e>> \o <<>> = <<e>> /\ <<>> \o <<e>> = <<e>>
  OBVIOUS

LEMMA InitPrompt == Init => PromptInv
  BY DEF Init, PromptInv, PromptAccounting

LEMMA PromptStep == TypeOK /\ PromptInv /\ [Next]_vars => PromptInv'
<1> SUFFICES ASSUME TypeOK, PromptInv, [Next]_vars, adminPc' # "ended" PROVE PromptInv'
  BY DEF PromptInv, PromptAccounting
<1>1. adminPc # "ended"
  BY AdminFrame DEF RuntimeDrop, DropTasks, TypeLine, SendCommand, StdinFails, AdminCancelled
<1>2. /\ stdinReq \o requests = (IF idPc = "await" /\ answer = "none" THEN <<asked>> ELSE <<>>)
      /\ idPc # "await" => answer = "none"
      /\ stdinReq \in Seq(Nat) /\ requests \in Seq(Nat) /\ asked \in Nat
  BY <1>1 DEF PromptInv, PromptAccounting, TypeOK, QueuesTypeOK, TasksTypeOK
<1>3. \/ stdinReq = <<asked>> /\ requests = <<>> /\ idPc = "await" /\ answer = "none"
      \/ stdinReq = <<>> /\ requests = <<asked>> /\ idPc = "await" /\ answer = "none"
      \/ stdinReq = <<>> /\ requests = <<>> /\ ~(idPc = "await" /\ answer = "none")
  BY <1>2, ConcatIsShort
<1>4. CASE AskAdmin
  <2>1. stdinReq = <<>> /\ requests = <<>> /\ answer = "none"
    BY <1>2, <1>3, <1>4 DEF AskAdmin
  <2>2. /\ stdinReq' = <<asked + 1>> /\ asked' = asked + 1 /\ idPc' = "await"
        /\ requests' = <<>> /\ answer' = "none"
    BY <1>1, <1>4, <2>1 DEF AskAdmin, adminVars
  <2> QED
    BY <1>2, <2>2, ConcatNothing DEF PromptInv, PromptAccounting
<1>5. CASE AnswerArrives
  <2>1. stdinReq' = <<>> /\ requests' = <<>> /\ answer' = "none" /\ idPc' # "await"
    BY <1>3, <1>5 DEF AnswerArrives, adminVars, Fail
  <2> QED
    BY <2>1, ConcatNothing DEF PromptInv, PromptAccounting
<1>6. CASE PickRequest
  <2>1. stdinReq = <<asked>> /\ requests = <<>> /\ idPc = "await" /\ answer = "none"
    BY <1>3, <1>6 DEF PickRequest
  <2>2. UNCHANGED <<idPc, answer, asked>>
    BY <1>6 DEF PickRequest, idVars
  <2>3. stdinReq' = <<>> /\ requests' = <<asked>>
    BY <1>2, <1>6, <2>1 DEF PickRequest
  <2> QED
    BY <1>2, <2>1, <2>2, <2>3, ConcatNothing DEF PromptInv, PromptAccounting
<1>7. ASSUME NEW l \in Typed, TypeLine(l) PROVE PromptInv'
  <2>1. UNCHANGED <<idPc, stdinReq, asked>>
    BY <1>7 DEF TypeLine, idVars
  <2>2. CASE requests = <<>>
    <3>1. requests' = <<>> /\ answer' = answer
      BY <1>7, <2>2 DEF TypeLine
    <3> QED
      BY <1>2, <1>3, <2>1, <2>2, <3>1, ConcatNothing DEF PromptInv, PromptAccounting
  <2>3. CASE requests = <<asked>> /\ idPc = "await" /\ answer = "none"
    <3>1. {i \in 1 .. Len(requests) : Live(requests[i])} = {1}
      BY <2>3 DEF Live
    <3>2. answer' = l /\ requests' = Unanswered(1)
      BY <1>7, <3>1 DEF TypeLine
    <3>3. l # "none"
      BY Caps DEF Lines
    <3>4. requests' = <<>>
      BY <1>2, <2>3, <3>2 DEF Unanswered
    <3> QED
      BY <1>3, <2>1, <2>3, <3>2, <3>3, <3>4, ConcatNothing DEF PromptInv, PromptAccounting
  <2> QED
    BY <1>3, <2>2, <2>3
<1>8. CASE UNCHANGED <<stdinReq, requests, asked, answer>> /\ ~AskAdmin /\ ~AnswerArrives
  <2>1. idPc' = "await" <=> idPc = "await"
    BY <1>1, <1>8, IdFrame DEF RuntimeDrop, DropTasks, IdRecordStarts, TakeConnection, RunIsGone,
       HandshakeSucceeds, HandshakeFails, HandshakeTimesOut, DropNewClient,
       ReceiveClientLeft, NextHandMsg, ReceiveList, ReceiveServerCommand, AnswerLost,
       IdRecordEnds, Fail, SendOrFail, idVars
  <2> QED
    BY <1>2, <1>8, <2>1 DEF PromptInv, PromptAccounting
<1> QED
  BY <1>4, <1>5, <1>6, <1>7, <1>8, PromptFrame

(* The prompt of kick_user is neither lost, nor doubled, nor outlived.     *)
THEOREM PromptsAreAccountedFor == Spec => []PromptAccounting
<1>1. PromptInv => PromptAccounting
  BY DEF PromptInv
<1> QED
  BY InitPrompt, PromptStep, TypeCorrect, <1>1, PTL DEF Spec

-----------------------------------------------------------------------------
(* Who moves the handler of c.                                             *)
LEMMA HandlerMoves ==
  ASSUME TypeOK, [Next]_vars, NEW c \in Conns, handler'[c] # handler[c]
  PROVE  \/ Accept(c)
         \/ SendNewConnection /\ c = runConn /\ runPc = "send" /\ handler'[c] = "queued"
         \/ TakeConnection /\ runIdCom # <<>> /\ c = Head(runIdCom)
         \/ DropChannels /\ handler[c] = "queued" /\ handler'[c] = "dropped"
         \/ RuntimeDrop
         \/ /\ idPc = "handshake" /\ c = idConn
            /\ HandshakeSucceeds \/ (idPc' = "failing" /\ handler'[c] = "refused")
         \/ HandlerNext(c)
<1> USE DEF TypeOK, HandlersTypeOK
<1>1. \A d, state : Goto(d, state) => d = c /\ handler'[c] = state
  BY DEF Goto
<1>2. DropChannels => handler[c] = "queued" /\ handler'[c] = "dropped"
  BY DEF DropChannels
<1>3. ASSUME NEW d \in Conns, HandlerNext(d) PROVE d = c
  <2>1. UNCHANGED handler \/ \E state : Goto(d, state)
    BY <1>3 DEF HandlerNext, HandlerGoesOn, ObeyCommand, ReadText, ReadList, SendList,
       ListReply, ReadFails, TakeNext, WriteDone, WriteFails, FallBehind,
       DisplayErrorFails, ReportLeft, FatalEnds, HandlerCancelled
  <2> QED
    BY <1>1, <2>1
<1>4. CASE SendNewConnection
  BY <1>1, <1>4 DEF SendNewConnection
<1>5. CASE TakeConnection
  BY <1>1, <1>5 DEF TakeConnection
<1>6. CASE IdRecordStarts \/ IdRecordEnds \/ ReceiveClientLeft
  BY <1>2, <1>6 DEF IdRecordStarts, IdRecordEnds, ReceiveClientLeft
<1>7. ASSUME NEW kind, HandshakeFails(kind) \/ HandshakeTimesOut \/ HandshakeSucceeds
      PROVE  /\ idPc = "handshake" /\ c = idConn
             /\ HandshakeSucceeds \/ (idPc' = "failing" /\ handler'[c] = "refused")
  BY <1>1, <1>7 DEF HandshakeFails, HandshakeTimesOut, HandshakeSucceeds, Fail
<1>8. ASSUME NEW d \in Conns, Accept(d) PROVE d = c
  BY <1>1, <1>8 DEF Accept
<1> QED
  BY <1>3, <1>4, <1>5, <1>6, <1>7, <1>8, HandlerFrame DEF HandlerNext, HandlerGoesOn

(* What a handler does by itself.                                          *)
LEMMA HandlerOwnMoves ==
  ASSUME TypeOK, NEW c \in Conns, HandlerNext(c)
  PROVE  /\ handler[c] \in Alive \cup {"fatal"}
         /\ handler'[c] \in Alive \cup {"fatal", "done"}
         /\ handler'[c] \in Alive => handler[c] \in Alive
         /\ handler[c] \notin Serving => handler'[c] \in {"fatal", "done"}
         /\ UNCHANGED <<runPc, runConn, runIdCom, idPc, idConn>>
  BY DEF HandlerNext, HandlerGoesOn, ObeyCommand, ReadText, ReadList, SendList,
     ListReply, ReadFails, TakeNext, WriteDone, WriteFails, FallBehind,
     DisplayErrorFails, ReportLeft, FatalEnds, HandlerCancelled, Goto, AfterReport,
     runVars, idVars, Alive, Serving, Leaving, TypeOK, HandlersTypeOK

-----------------------------------------------------------------------------
(* A connection is in one place at a time on its way to a handler, and a   *)
(* handler writes the message its cursor stands at.                        *)
QueueInv ==
  /\ \A i \in 1 .. Len(runIdCom) : handler[runIdCom[i]] = "queued"
  /\ \A i, j \in 1 .. Len(runIdCom) : runIdCom[i] = runIdCom[j] => i = j

PlaceInv ==
  /\ runPc = "send" => handler[runConn] = "accepted"
  /\ idPc = "handshake" => handler[idConn] = "handshake"

WriteInv ==
  \A c \in Conns : handler[c] = "writing" =>
    rx[c] < Len(log) /\ MeantFor(c, log[rx[c] + 1])

PathInv == QueueInv /\ PlaceInv /\ WriteInv

LEMMA InitPath == Init => PathInv
  BY DEF Init, PathInv, QueueInv, PlaceInv, WriteInv

LEMMA QueueInvStep == TypeOK /\ PathInv /\ [Next]_vars => QueueInv'
<1> SUFFICES ASSUME TypeOK, PathInv, [Next]_vars PROVE QueueInv'
  OBVIOUS
<1> USE DEF PathInv, QueueInv, PlaceInv
<1>1. runIdCom \in Seq(Conns) /\ handler \in [Conns -> HandlerStates]
  BY DEF TypeOK, QueuesTypeOK, HandlersTypeOK
<1>2. CASE runIdCom' = <<>>
  BY <1>2
<1>3. CASE TakeConnection
  <2>1. PICK s : Goto(Head(runIdCom), s)
    BY <1>3 DEF TakeConnection
  <2>2. /\ runIdCom # <<>> /\ runIdCom' = Tail(runIdCom)
        /\ Head(runIdCom) = runIdCom[1] /\ Len(runIdCom') = Len(runIdCom) - 1
        /\ \A i \in 1 .. Len(runIdCom') : runIdCom'[i] = runIdCom[i + 1]
    BY <1>1, <1>3 DEF TakeConnection
  <2>3. \A i \in 1 .. Len(runIdCom') : runIdCom'[i] # Head(runIdCom)
    BY <1>1, <2>2
  <2>4. \A d \in Conns : d # Head(runIdCom) => handler'[d] = handler[d]
    BY <1>1, <2>1 DEF Goto
  <2> QED
    BY <1>1, <2>2, <2>3, <2>4
<1>4. CASE SendNewConnection /\ runIdCom' = Append(runIdCom, runConn) /\ runPc = "send"
            /\ Goto(runConn, "queued")
  <2>1. runConn \in Conns /\ handler[runConn] = "accepted"
    BY <1>4 DEF TypeOK, TasksTypeOK
  <2>2. \A i \in 1 .. Len(runIdCom) : runIdCom[i] # runConn
    BY <2>1
  <2>3. /\ handler'[runConn] = "queued"
        /\ \A d \in Conns : d # runConn => handler'[d] = handler[d]
    BY <1>1, <1>4, <2>1 DEF Goto
  <2>4. /\ Len(runIdCom') = Len(runIdCom) + 1 /\ runIdCom'[Len(runIdCom) + 1] = runConn
        /\ \A i \in 1 .. Len(runIdCom) : runIdCom'[i] = runIdCom[i]
    BY <1>1, <1>4, <2>1
  <2> QED
    BY <1>1, <2>2, <2>3, <2>4
<1>5. CASE UNCHANGED runIdCom /\ ~TakeConnection
  <2>1. ASSUME NEW c \in Conns, handler[c] = "queued", runIdCom' # <<>>
        PROVE  handler'[c] = "queued"
    <3>1. ~DropChannels /\ ~RuntimeDrop
      BY <2>1 DEF DropChannels, RuntimeDrop, DropTasks
    <3>2. HandlerNext(c) => handler[c] # "queued"
      BY HandlerOwnMoves DEF Alive, Serving, Leaving
    <3>3. Accept(c) => handler[c] # "queued"
      BY DEF Accept
    <3> QED
      BY <1>5, <2>1, <3>1, <3>2, <3>3, HandlerMoves
  <2> QED
    BY <1>1, <1>5, <2>1
<1> QED
  BY <1>2, <1>3, <1>4, <1>5, RunQueueFrame DEF SendNewConnection, IdRecordStarts,
     IdRecordEnds, RuntimeDrop, DropTasks, ReceiveClientLeft, DropChannels

LEMMA PlaceInvStep == TypeOK /\ PathInv /\ [Next]_vars => PlaceInv'
<1> SUFFICES ASSUME TypeOK, PathInv, [Next]_vars PROVE PlaceInv'
  OBVIOUS
<1> USE DEF PathInv, QueueInv, PlaceInv
<1>1. /\ runIdCom \in Seq(Conns) /\ handler \in [Conns -> HandlerStates]
      /\ runPc = "send" => runConn \in Conns
      /\ idPc \in {"handshake", "spawned"} => idConn \in Conns
  BY DEF TypeOK, QueuesTypeOK, TasksTypeOK, HandlersTypeOK
<1>2. ASSUME runPc' = "send" PROVE handler'[runConn'] = "accepted"
  <2>1. CASE \E c \in Conns : Accept(c)
    BY <1>1, <2>1 DEF Accept, Goto
  <2>2. CASE runPc = "send" /\ runConn' = runConn /\ ~SendNewConnection
    <3>1. HandlerNext(runConn) => handler[runConn] # "accepted"
      BY <1>1, <2>2, HandlerOwnMoves DEF Alive, Serving, Leaving
    <3>2. runIdCom # <<>> => handler[Head(runIdCom)] # "accepted"
      BY <1>1
    <3>3. ~RuntimeDrop /\ (Accept(runConn) => handler[runConn] # "accepted")
      BY <2>2 DEF RuntimeDrop, Accept
    <3> QED
      BY <1>1, <2>2, <3>1, <3>2, <3>3, HandlerMoves
  <2> QED
    BY <1>2, <2>1, <2>2, RunFrame DEF BindListener, SendNewConnection, RunCancelled
<1>3. ASSUME idPc' = "handshake" PROVE handler'[idConn'] = "handshake"
  <2>1. CASE TakeConnection
    BY <1>1, <1>3, <2>1 DEF TakeConnection, Goto, Fail
  <2>2. CASE idPc = "handshake" /\ idConn' = idConn /\ ~HandshakeSucceeds /\ ~TakeConnection
    <3>1. HandlerNext(idConn) => handler[idConn] # "handshake"
      BY <1>1, <2>2, HandlerOwnMoves DEF Alive, Serving, Leaving
    <3>2. ~RuntimeDrop /\ (Accept(idConn) => handler[idConn] # "handshake")
      BY <1>3 DEF RuntimeDrop, DropTasks, Accept
    <3>3. runPc = "send" => runConn # idConn
      BY <2>2
    <3> QED
      BY <1>1, <1>3, <2>2, <3>1, <3>2, <3>3, HandlerMoves
  <2>3. HandshakeSucceeds => idPc' # "handshake"
    BY DEF HandshakeSucceeds, Fail
  <2> QED
    BY <1>3, <2>1, <2>2, <2>3, IdFrame DEF RuntimeDrop, DropTasks, IdRecordStarts,
       RunIsGone, HandshakeFails, HandshakeTimesOut, DropNewClient, ReceiveClientLeft,
       ReceiveList, ReceiveServerCommand, AskAdmin, AnswerArrives, AnswerLost, IdRecordEnds,
       Fail, SendOrFail, idVars
<1> QED
  BY <1>2, <1>3

(* The log only grows.                                                     *)
LEMMA LogGrows ==
  TypeOK /\ [Next]_vars =>
    /\ Len(log) <= Len(log')
    /\ \A i \in 1 .. Len(log) : log'[i] = log[i]
<1> SUFFICES ASSUME TypeOK, [Next]_vars
             PROVE  Len(log) <= Len(log') /\ \A i \in 1 .. Len(log) : log'[i] = log[i]
  OBVIOUS
<1>1. log \in Seq(Message)
  BY DEF TypeOK, QueuesTypeOK
<1>2. log' = log \/ \E m : log' = Append(log, m)
  BY LogSteps
<1> QED
  BY <1>1, <1>2

LEMMA WriteInvStep == TypeOK /\ PathInv /\ [Next]_vars => WriteInv'
<1> SUFFICES ASSUME TypeOK, PathInv, [Next]_vars, NEW c \in Conns, handler'[c] = "writing"
             PROVE  rx'[c] < Len(log') /\ MeantFor(c, log'[rx'[c] + 1])
  BY DEF WriteInv, MeantFor
<1>1. /\ handler \in [Conns -> HandlerStates] /\ rx \in [Conns -> Nat]
      /\ log \in Seq(Message) /\ runIdCom \in Seq(Conns)
  BY DEF TypeOK, HandlersTypeOK, QueuesTypeOK
<1>2. CASE handler[c] = "writing"
  <2>1. rx[c] < Len(log) /\ MeantFor(c, log[rx[c] + 1])
    BY <1>2 DEF PathInv, WriteInv
  <2>2. rx'[c] = rx[c]
    <3>1. TakeConnection => c # Head(runIdCom)
      BY <1>1, <1>2 DEF PathInv, QueueInv, TakeConnection
    <3>2. ASSUME TakeConnection PROVE rx'[c] = rx[c]
      BY <1>1, <3>1, <3>2 DEF TakeConnection
    <3>3. ASSUME NEW d \in Conns, TakeNext(d) PROVE rx'[c] = rx[c]
      BY <1>1, <1>2, <3>3 DEF TakeNext
    <3>4. ASSUME NEW d \in Conns, WriteDone(d) \/ WriteFails(d) PROVE rx'[c] = rx[c]
      BY <1>1, <1>2, <3>4 DEF WriteDone, WriteFails, Goto
    <3> QED
      BY <3>2, <3>3, <3>4, CursorFrame
  <2>3. Len(log) \in Nat /\ Len(log') \in Nat /\ rx[c] \in Nat
    BY <1>1, LogType
  <2>4. Len(log) <= Len(log') /\ \A i \in 1 .. Len(log) : log'[i] = log[i]
    BY LogGrows
  <2>5. rx[c] + 1 \in 1 .. Len(log) /\ rx[c] < Len(log')
    BY <2>1, <2>3, <2>4
  <2>6. log'[rx[c] + 1] = log[rx[c] + 1]
    BY <2>4, <2>5
  <2> QED
    BY <2>1, <2>2, <2>5, <2>6 DEF MeantFor
<1>3. CASE handler[c] # "writing"
  <2>1. TakeNext(c)
    <3>1. \A d, s : Goto(d, s) => s = "writing" \/ handler'[c] = handler[c]
      BY <1>1, <1>3 DEF Goto
    <3>2. ~DropChannels /\ ~DropTasks
      BY <1>3 DEF DropChannels, DropTasks
    <3>3. \A d \in Conns : TakeNext(d) => d = c
      BY <1>1, <1>3 DEF TakeNext, Goto
    <3> QED
      BY <1>3, <3>1, <3>2, <3>3, HandlerFrame DEF Accept, SendNewConnection, RuntimeDrop,
         IdRecordStarts, TakeConnection, HandshakeSucceeds, HandshakeFails,
         HandshakeTimesOut, ReceiveClientLeft, IdRecordEnds, ObeyCommand, ReadText,
         ReadList, SendList, ListReply, ReadFails, WriteDone, WriteFails, FallBehind,
         DisplayErrorFails, ReportLeft, FatalEnds, HandlerCancelled, AfterReport
  <2> QED
    BY <1>1, <1>3, <2>1 DEF TakeNext, Goto
<1> QED
  BY <1>2, <1>3

LEMMA PathStep == TypeOK /\ PathInv /\ [Next]_vars => PathInv'
  BY QueueInvStep, PlaceInvStep, WriteInvStep DEF PathInv

-----------------------------------------------------------------------------
(* What the handlers and id_record tell each other.                        *)

(* Who touches the queue to id_record, and when.                           *)
LEMMA HandQueueMoves ==
  [Next]_vars =>
    \/ UNCHANGED conHandId
    \/ conHandId' = <<>> /\ (RuntimeDrop \/ idPc \in {"start", "select", "failing"})
    \/ idPc = "select" /\ conHandId # <<>> /\ conHandId' = Tail(conHandId)
    \/ conHandId' = Append(conHandId, [type |-> "ServerCommand", line |-> line])
         /\ adminPc = "send" /\ UNCHANGED handler
    \/ \E c \in Conns :
         /\ handler[c] = "list" /\ Goto(c, "listwait")
         /\ conHandId' = Append(conHandId, [type |-> "List", addr |-> c])
    \/ \E c \in Conns :
         /\ handler[c] \in Leaving /\ Goto(c, AfterReport(handler[c]))
         /\ conHandId' = Append(conHandId, [type |-> "ClientLeft", addr |-> c])
<1>1. CASE SendCommand
  BY <1>1 DEF SendCommand
<1>2. CASE IdRecordStarts \/ IdRecordEnds \/ ReceiveClientLeft \/ ReceiveList \/ ReceiveServerCommand
  BY <1>2 DEF IdRecordStarts, IdRecordEnds, ReceiveClientLeft, ReceiveList, ReceiveServerCommand,
              DropChannels, NextHandMsg
<1>3. RuntimeDrop => conHandId' = <<>>
  BY DEF RuntimeDrop, DropTasks
<1>4. ASSUME NEW c \in Conns, SendList(c)
      PROVE  \/ UNCHANGED conHandId
             \/ /\ handler[c] = "list" /\ Goto(c, "listwait")
                /\ conHandId' = Append(conHandId, [type |-> "List", addr |-> c])
  BY <1>4 DEF SendList
<1>5. ASSUME NEW c \in Conns, ReportLeft(c)
      PROVE  \/ UNCHANGED conHandId
             \/ /\ handler[c] \in Leaving /\ Goto(c, AfterReport(handler[c]))
                /\ conHandId' = Append(conHandId, [type |-> "ClientLeft", addr |-> c])
  BY <1>5 DEF ReportLeft
<1> QED
  BY <1>1, <1>2, <1>3, <1>4, <1>5, HandQueueFrame

(* A reply channel that was closed stays closed.                           *)
LEMMA ReplyChannelsClose ==
  ASSUME TypeOK, RecordIsEmpty, [Next]_vars, NEW c \in Conns, idHand'[c] = "open"
  PROVE  idHand[c] = "open"
<1> USE DEF TypeOK, HandlersTypeOK, RecordIsEmpty
<1>1. Listed = {}
  BY NobodyListed
<1>2. CASE DropNewClient \/ IdRecordEnds
  BY <1>2 DEF DropNewClient, IdRecordEnds, DropClients
<1>3. CASE ReceiveClientLeft \/ ReceiveList \/ AnswerArrives
  BY <1>1, <1>3 DEF ReceiveClientLeft, ReceiveList, AnswerArrives, chanVars
<1>4. ASSUME NEW d \in Conns, ListReply(d) PROVE idHand' = idHand
  BY <1>4 DEF ListReply
<1> QED
  BY <1>2, <1>3, <1>4, ClientChannelsFrame

(* A handler whose reply channel is open has just been spawned: id_record  *)
(* drops the Client it built before it takes another message.              *)
AwaitInv ==
  \A c \in Conns :
    handler[c] \in Alive /\ idHand[c] = "open" => idPc = "spawned" /\ idConn = c

LEMMA AwaitStep ==
  TypeOK /\ RecordIsEmpty /\ PathInv /\ AwaitInv /\ [Next]_vars => AwaitInv'
<1> SUFFICES ASSUME TypeOK, RecordIsEmpty, PathInv, AwaitInv, [Next]_vars, NEW c \in Conns,
                    handler'[c] \in Alive, idHand'[c] = "open"
             PROVE  idPc' = "spawned" /\ idConn' = c
  BY DEF AwaitInv
<1>1. idHand[c] = "open"
  BY ReplyChannelsClose
<1>2. ~RuntimeDrop
  BY DEF RuntimeDrop, DropTasks, Alive, Serving, Leaving
<1>3. CASE handler[c] \in Alive
  <2>1. idPc = "spawned" /\ idConn = c
    BY <1>1, <1>3 DEF AwaitInv
  <2>2. ~DropNewClient
    BY <2>1 DEF DropNewClient, DropClients, TypeOK, HandlersTypeOK
  <2> QED
    BY <1>2, <2>1, <2>2, IdFrame DEF IdRecordStarts, TakeConnection, RunIsGone,
       HandshakeSucceeds, HandshakeFails, HandshakeTimesOut, ReceiveClientLeft,
       ReceiveList, ReceiveServerCommand, NextHandMsg, AskAdmin, AnswerArrives,
       AnswerLost, IdRecordEnds
<1>4. CASE handler[c] \notin Alive
  <2>1. ~HandlerNext(c)
    BY <1>4, HandlerOwnMoves
  <2>2. /\ ~Accept(c) /\ ~(TakeConnection /\ runIdCom # <<>> /\ c = Head(runIdCom))
        /\ handler'[c] \notin {"queued", "dropped", "refused"}
    BY DEF Accept, TakeConnection, Goto, TypeOK, HandlersTypeOK, Alive, Serving, Leaving
  <2>3. HandshakeSucceeds /\ c = idConn
    BY <1>2, <1>4, <2>1, <2>2, HandlerMoves
  <2> QED
    BY <2>2, <2>3 DEF HandshakeSucceeds, Goto, TypeOK, HandlersTypeOK
<1> QED
  BY <1>3, <1>4

(* A queue keeps what it had when it grows, and it ends with what is new.  *)
LEMMA QueueGrows ==
  ASSUME NEW S, NEW q \in Seq(S), NEW e \in S
  PROVE  /\ Len(q) \in Nat /\ Len(Append(q, e)) = Len(q) + 1 /\ Append(q, e)[Len(q) + 1] = e
         /\ \A i \in 1 .. Len(q) : Append(q, e)[i] = q[i]
  OBVIOUS

LEMMA HandMessages ==
  TypeOK =>
    /\ \A c \in Conns, type \in {"ClientLeft", "List"} : [type |-> type, addr |-> c] \in HandMsg
    /\ adminPc = "send" => [type |-> "ServerCommand", line |-> line] \in HandMsg
    /\ conHandId \in Seq(HandMsg)
  BY DEF HandMsg, TypeOK, QueuesTypeOK, TasksTypeOK

ListQueued(c) ==
  \E i \in 1 .. Len(conHandId) : conHandId[i] = [type |-> "List", addr |-> c]

LEMMA WaitStep ==
  TypeOK /\ RecordIsEmpty /\ PathInv /\ AwaitInv /\ NoOrphanedWait /\ [Next]_vars
    => NoOrphanedWait'
<1> SUFFICES ASSUME TypeOK, RecordIsEmpty, PathInv, AwaitInv, NoOrphanedWait, [Next]_vars,
                    NEW c \in Conns, handler'[c] = "listwait", idHand'[c] = "open"
             PROVE  ListQueued(c)'
  BY DEF NoOrphanedWait, ListQueued
<1>1. idHand[c] = "open" /\ ~RuntimeDrop /\ conHandId \in Seq(HandMsg)
  BY ReplyChannelsClose, HandMessages DEF RuntimeDrop, DropTasks
<1>2. ASSUME NEW e \in HandMsg, ListQueued(c), conHandId' = Append(conHandId, e)
      PROVE  ListQueued(c)'
  BY <1>1, <1>2, QueueGrows DEF ListQueued
<1>3. CASE handler[c] = "listwait"
  <2>1. ListQueued(c) /\ idPc = "spawned"
    BY <1>1, <1>3 DEF NoOrphanedWait, ListQueued, AwaitInv, Alive, Serving
  <2>2. CASE UNCHANGED conHandId
    BY <2>1, <2>2 DEF ListQueued
  <2>3. CASE \E e \in HandMsg : conHandId' = Append(conHandId, e)
    BY <1>2, <2>1, <2>3
  <2>4. UNCHANGED conHandId \/ \E e \in HandMsg : conHandId' = Append(conHandId, e)
    BY <1>1, <2>1, HandMessages, HandQueueMoves
  <2> QED
    BY <2>2, <2>3, <2>4
<1>4. CASE handler[c] # "listwait"
  <2>1. HandlerNext(c)
    <3>1. ~(TakeConnection /\ runIdCom # <<>> /\ c = Head(runIdCom)) /\ ~Accept(c)
          /\ ~HandshakeSucceeds
      BY <1>4 DEF Accept, TakeConnection, HandshakeSucceeds, Goto, TypeOK, HandlersTypeOK
    <3> QED
      BY <1>1, <1>4, <3>1, HandlerMoves
  <2>2. SendList(c)
    <3>1. \A s : Goto(c, s) => s = "listwait"
      BY DEF Goto, TypeOK, HandlersTypeOK
    <3> QED
      BY <1>4, <2>1, <3>1 DEF HandlerNext, HandlerGoesOn, ObeyCommand, ReadText, ReadList,
         ListReply, ReadFails, TakeNext, WriteDone, WriteFails, FallBehind,
         DisplayErrorFails, ReportLeft, FatalEnds, HandlerCancelled, AfterReport
  <2>3. conHandId' = Append(conHandId, [type |-> "List", addr |-> c])
    BY <1>4, <2>2 DEF SendList, Goto, TypeOK, HandlersTypeOK
  <2>4. Len(conHandId) + 1 \in 1 .. Len(conHandId')
        /\ conHandId'[Len(conHandId) + 1] = [type |-> "List", addr |-> c]
    BY <1>1, <2>3, HandMessages, QueueGrows
  <2> QED
    BY <2>4 DEF ListQueued
<1> QED
  BY <1>3, <1>4

(* A handler that awaits the reply to &LIST is not forgotten.              *)
THEOREM WaitsAreNotOrphaned == Spec => []NoOrphanedWait
<1> DEFINE I == RecordIsEmpty /\ PathInv /\ AwaitInv /\ NoOrphanedWait
<1>1. Init => I
  <2>1. Init => AwaitInv /\ NoOrphanedWait
    BY DEF Init, AwaitInv, NoOrphanedWait, Alive, Serving, Leaving
  <2> QED
    BY <2>1, InitRecord, InitPath
<1>2. TypeOK /\ I /\ [Next]_vars => I'
  BY RecordStep, PathStep, AwaitStep, WaitStep
<1> QED
  BY <1>1, <1>2, TypeCorrect, PTL DEF Spec

-----------------------------------------------------------------------------
(* A handler that is gone does not come back.                              *)
LEMMA GoneForGood ==
  ASSUME TypeOK, PathInv, [Next]_vars, NEW c \in Conns, handler[c] \in {"fatal", "done"}
  PROVE  handler'[c] \in {"fatal", "done"}
<1> SUFFICES ASSUME handler'[c] # handler[c] PROVE handler'[c] \in {"fatal", "done"}
  OBVIOUS
<1> USE DEF PathInv, QueueInv, PlaceInv
<1>1. CASE HandlerNext(c)
  BY <1>1, HandlerOwnMoves DEF Serving
<1>2. CASE RuntimeDrop
  BY <1>2 DEF RuntimeDrop, DropTasks
<1>3. ~(TakeConnection /\ runIdCom # <<>> /\ c = Head(runIdCom))
  <2>1. runIdCom \in Seq(Conns)
    BY DEF TypeOK, QueuesTypeOK
  <2> QED
    BY <2>1
<1>4. ~Accept(c)
  BY DEF Accept
<1> QED
  BY <1>1, <1>2, <1>3, <1>4, HandlerMoves

LEMMA ReportStep ==
  TypeOK /\ RecordIsEmpty /\ PathInv /\ ReportedHandlersAreGone /\ [Next]_vars
    => ReportedHandlersAreGone'
<1> SUFFICES ASSUME TypeOK, RecordIsEmpty, PathInv, ReportedHandlersAreGone, [Next]_vars
             PROVE  ReportedHandlersAreGone'
  OBVIOUS
<1>1. conHandId \in Seq(HandMsg) /\ Len(conHandId) \in Nat
  BY HandMessages
<1>2. \A i \in 1 .. Len(conHandId) : conHandId[i].type = "ClientLeft" =>
        /\ handler[conHandId[i].addr] \in {"fatal", "done"}
        /\ handler'[conHandId[i].addr] \in {"fatal", "done"}
        /\ \A j \in (i + 1) .. Len(conHandId) :
             conHandId[j].type # "ServerCommand" => conHandId[j].addr # conHandId[i].addr
  <2>1. \A i \in 1 .. Len(conHandId) :
          conHandId[i].type = "ClientLeft" => conHandId[i].addr \in Conns
    BY <1>1 DEF HandMsg
  <2> QED
    BY <2>1, GoneForGood DEF ReportedHandlersAreGone
<1>3. CASE UNCHANGED conHandId
  BY <1>2, <1>3 DEF ReportedHandlersAreGone
<1>4. CASE conHandId' = <<>>
  BY <1>4 DEF ReportedHandlersAreGone
<1>5. CASE conHandId # <<>> /\ conHandId' = Tail(conHandId)
  <2>1. Len(conHandId') = Len(conHandId) - 1
        /\ \A i \in 1 .. Len(conHandId') : conHandId'[i] = conHandId[i + 1]
    BY <1>1, <1>5
  <2> QED
    BY <1>1, <1>2, <2>1 DEF ReportedHandlersAreGone
<1>6. ASSUME NEW e \in HandMsg, conHandId' = Append(conHandId, e),
             \/ e.type = "ServerCommand"
             \/ /\ handler[e.addr] \notin {"fatal", "done"}
                /\ e.type = "ClientLeft" => handler'[e.addr] \in {"fatal", "done"}
      PROVE  ReportedHandlersAreGone'
  <2>1. /\ Len(conHandId') = Len(conHandId) + 1 /\ conHandId'[Len(conHandId) + 1] = e
        /\ \A i \in 1 .. Len(conHandId) : conHandId'[i] = conHandId[i]
    BY <1>1, <1>6, QueueGrows
  <2>2. ASSUME NEW i \in 1 .. Len(conHandId'), conHandId'[i].type = "ClientLeft"
        PROVE  handler'[conHandId'[i].addr] \in {"fatal", "done"}
    BY <1>1, <1>2, <1>6, <2>1, <2>2
  <2>3. ASSUME NEW i \in 1 .. Len(conHandId'), conHandId'[i].type = "ClientLeft",
               NEW j \in (i + 1) .. Len(conHandId'), conHandId'[j].type # "ServerCommand"
        PROVE  conHandId'[j].addr # conHandId'[i].addr
    <3>1. i \in 1 .. Len(conHandId)
      BY <1>1, <2>1, <2>3
    <3>2. CASE j \in (i + 1) .. Len(conHandId)
      BY <1>1, <1>2, <2>1, <2>3, <3>1, <3>2
    <3>3. CASE j = Len(conHandId) + 1
      BY <1>2, <1>6, <2>1, <2>3, <3>1, <3>3
    <3> QED
      BY <1>1, <2>1, <2>3, <3>1, <3>2, <3>3
  <2> QED
    BY <2>2, <2>3 DEF ReportedHandlersAreGone
<1>7. ASSUME NEW c \in Conns, handler[c] = "list",
             conHandId' = Append(conHandId, [type |-> "List", addr |-> c])
      PROVE  ReportedHandlersAreGone'
  BY <1>6, <1>7, HandMessages
<1>8. ASSUME NEW c \in Conns, handler[c] \in Leaving, Goto(c, AfterReport(handler[c])),
             conHandId' = Append(conHandId, [type |-> "ClientLeft", addr |-> c])
      PROVE  ReportedHandlersAreGone'
  <2>1. handler'[c] \in {"fatal", "done"} /\ handler[c] \notin {"fatal", "done"}
    BY <1>8 DEF Goto, AfterReport, Leaving, TypeOK, HandlersTypeOK
  <2> QED
    BY <1>6, <1>8, <2>1, HandMessages
<1>9. ASSUME conHandId' = Append(conHandId, [type |-> "ServerCommand", line |-> line]),
             adminPc = "send"
      PROVE  ReportedHandlersAreGone'
  BY <1>6, <1>9, HandMessages
<1> QED
  BY <1>3, <1>4, <1>5, <1>7, <1>8, <1>9, HandQueueMoves

(* Nothing follows the report that a client has left from the same client. *)
THEOREM ReportsAreFinal == Spec => []ReportedHandlersAreGone
<1> DEFINE I == RecordIsEmpty /\ PathInv /\ ReportedHandlersAreGone
<1>1. Init => I
  BY InitRecord, InitPath DEF Init, ReportedHandlersAreGone
<1>2. TypeOK /\ I /\ [Next]_vars => I'
  BY RecordStep, PathStep, ReportStep
<1> QED
  BY <1>1, <1>2, TypeCorrect, PTL DEF Spec
=============================================================================
