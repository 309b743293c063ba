--------------------------- MODULE ClientAppProofs ---------------------------
(* The invariants of ClientApp, and that it implements the two queues it   *)
(* is a part of, for every value of its constants.                         *)
EXTENDS ClientApp, TLAPS

-----------------------------------------------------------------------------
(* Who changes what.                                                       *)

(* Where `run` is.                                                         *)
LEMMA RunFrame ==
  [Next]_vars =>
    UNCHANGED runPc \/ Connect \/ Exchange \/ Welcome \/ SendNick \/ PromptLost
      \/ TakeResponse \/ Refused \/ RunFails \/ Joined \/ RunCancelled
  BY DEF Next, DisplayNext, CommandsNext, CommandsGoOn, RunGoesOn, InputNext, ReceiveNext,
     ServerNext, vars, outVars, runVars, inVars, stdinVars, ccVars, askVars, srvVars,
     Show, DisplayEnds, Sigint, TypePiece, TypeLine, TakeRequest, StdinFails, Notice,
     SendLine, CommandsReturn, CommandsCancel, CommandsCancelled, RuntimeDrop, TakeLine,
     WriteLine, WriteFails, InputReturns, InputCancelled, Receive, ShowReceived,
     ReceiveFails, ReceiveReturns, ReceiveCancelled, ServerDecides, ServerPosts,
     ServerCloses

(* What handling_stdin_input does.                                         *)
LEMMA InputFrame ==
  [Next]_vars =>
    UNCHANGED <<inPc, sending, wire>> \/ SendNick \/ PromptLost \/ RuntimeDrop \/ TakeLine
      \/ WriteLine \/ WriteFails \/ InputReturns \/ InputCancelled
  BY DEF Next, DisplayNext, CommandsNext, CommandsGoOn, RunGoesOn, InputNext, ReceiveNext,
     ServerNext, vars, outVars, runVars, inVars, stdinVars, ccVars, askVars, srvVars,
     Show, DisplayEnds, Sigint, TypePiece, TypeLine, TakeRequest, StdinFails, Notice,
     SendLine, CommandsReturn, CommandsCancel, CommandsCancelled, Connect, Exchange,
     Welcome, TakeResponse, Refused, RunFails, Joined, RunCancelled, Receive,
     ShowReceived, ReceiveFails, ReceiveReturns, ReceiveCancelled, ServerDecides,
     ServerPosts, ServerCloses

(* The input channel.                                                      *)
LEMMA ChannelFrame ==
  [Next]_vars => UNCHANGED input \/ SendLine \/ TakeLine
  BY DEF Next, DisplayNext, CommandsNext, CommandsGoOn, RunGoesOn, InputNext, ReceiveNext,
     ServerNext, vars, outVars, runVars, inVars, stdinVars, ccVars, askVars, srvVars,
     Show, DisplayEnds, Sigint, TypePiece, TypeLine, TakeRequest, StdinFails, Notice,
     CommandsReturn, CommandsCancel, CommandsCancelled, Connect, Exchange, Welcome,
     SendNick, PromptLost, TakeResponse, Refused, RunFails, Joined, RunCancelled,
     RuntimeDrop, WriteLine, WriteFails, InputReturns, InputCancelled, Receive,
     ShowReceived, ReceiveFails, ReceiveReturns, ReceiveCancelled, ServerDecides,
     ServerPosts, ServerCloses

(* What client_commands does.                                              *)
LEMMA CommandsFrame ==
  [Next]_vars =>
    UNCHANGED <<ccPc, line>> \/ (\E kind \in Typed : TypeLine(kind)) \/ StdinFails \/ Notice
      \/ SendLine \/ CommandsReturn \/ CommandsCancel \/ CommandsCancelled \/ RuntimeDrop
  BY DEF Next, DisplayNext, CommandsNext, CommandsGoOn, RunGoesOn, InputNext, ReceiveNext,
     ServerNext, vars, outVars, runVars, inVars, stdinVars, ccVars, askVars, srvVars,
     Show, DisplayEnds, Sigint, TypePiece, TakeRequest, Connect, Exchange, Welcome,
     SendNick, PromptLost, TakeResponse, Refused, RunFails, Joined, RunCancelled,
     TakeLine, WriteLine, WriteFails, InputReturns, InputCancelled, Receive,
     ShowReceived, ReceiveFails, ReceiveReturns, ReceiveCancelled, ServerDecides,
     ServerPosts, ServerCloses

(* The lines typed.                                                        *)
LEMMA StdinFrame ==
  [Next]_vars =>
    UNCHANGED <<typed, meant, part, torn>> \/ TypePiece \/ TakeRequest
      \/ (\E kind \in Typed : TypeLine(kind))
  BY DEF Next, DisplayNext, CommandsNext, CommandsGoOn, RunGoesOn, InputNext, ReceiveNext,
     ServerNext, vars, outVars, runVars, inVars, stdinVars, ccVars, askVars, srvVars,
     Show, DisplayEnds, Sigint, StdinFails, Notice, SendLine, CommandsReturn,
     CommandsCancel, CommandsCancelled, Connect, Exchange, Welcome, SendNick, PromptLost,
     TakeResponse, Refused, RunFails, Joined, RunCancelled, RuntimeDrop, TakeLine,
     WriteLine, WriteFails, InputReturns, InputCancelled, Receive, ShowReceived,
     ReceiveFails, ReceiveReturns, ReceiveCancelled, ServerDecides, ServerPosts,
     ServerCloses

(* The request for the nick and its answer.                                *)
LEMMA RequestFrame ==
  [Next]_vars =>
    UNCHANGED <<prompt, answer>> \/ (\E kind \in Typed : TypeLine(kind)) \/ TakeRequest
      \/ Welcome \/ CommandsReturn \/ CommandsCancelled \/ RuntimeDrop
  BY DEF Next, DisplayNext, CommandsNext, CommandsGoOn, RunGoesOn, InputNext, ReceiveNext,
     ServerNext, vars, outVars, runVars, inVars, stdinVars, ccVars, askVars, srvVars,
     Show, DisplayEnds, Sigint, TypePiece, StdinFails, Notice, SendLine, CommandsCancel,
     Connect, Exchange, SendNick, PromptLost, TakeResponse, Refused, RunFails, Joined,
     RunCancelled, TakeLine, WriteLine, WriteFails, InputReturns, InputCancelled,
     Receive, ShowReceived, ReceiveFails, ReceiveReturns, ReceiveCancelled,
     ServerDecides, ServerPosts, ServerCloses

(* What recv_msg does.                                                     *)
LEMMA ReceiveFrame ==
  [Next]_vars =>
    UNCHANGED <<recvPc, got>> \/ SendNick \/ PromptLost \/ TakeResponse \/ RuntimeDrop
      \/ Receive \/ ShowReceived \/ ReceiveFails \/ ReceiveReturns \/ ReceiveCancelled
  BY DEF Next, DisplayNext, CommandsNext, CommandsGoOn, RunGoesOn, InputNext, ReceiveNext,
     ServerNext, vars, outVars, runVars, inVars, stdinVars, ccVars, askVars, srvVars,
     Show, DisplayEnds, Sigint, TypePiece, TypeLine, TakeRequest, StdinFails, Notice,
     SendLine, CommandsReturn, CommandsCancel, CommandsCancelled, Connect, Exchange,
     Welcome, Refused, RunFails, Joined, RunCancelled, TakeLine, WriteLine, WriteFails,
     InputReturns, InputCancelled, ServerDecides, ServerPosts, ServerCloses

(* The server.                                                             *)
LEMMA ServerFrame ==
  [Next]_vars => UNCHANGED <<serverPc, posted>> \/ ServerDecides \/ ServerPosts \/ ServerCloses
  BY DEF Next, DisplayNext, CommandsNext, CommandsGoOn, RunGoesOn, InputNext, ReceiveNext,
     ServerNext, vars, outVars, runVars, inVars, stdinVars, ccVars, askVars, srvVars,
     Show, DisplayEnds, Sigint, TypePiece, TypeLine, TakeRequest, StdinFails, Notice,
     SendLine, CommandsReturn, CommandsCancel, CommandsCancelled, Connect, Exchange,
     Welcome, SendNick, PromptLost, TakeResponse, Refused, RunFails, Joined,
     RunCancelled, RuntimeDrop, TakeLine, WriteLine, WriteFails, InputReturns,
     InputCancelled, Receive, ShowReceived, ReceiveFails, ReceiveReturns,
     ReceiveCancelled

(* The display and its channel.                                            *)
LEMMA DisplayFrame ==
  [Next]_vars =>
    UNCHANGED <<displaying, output, shown>> \/ Show \/ DisplayEnds \/ RuntimeDrop \/ ShowReceived
      \/ (Display(0) /\ UNCHANGED <<displaying, shown>>)
  BY DEF Next, DisplayNext, CommandsNext, CommandsGoOn, RunGoesOn, InputNext, ReceiveNext,
     ServerNext, vars, outVars, runVars, inVars, stdinVars, ccVars, askVars, srvVars,
     Sigint, TypePiece, TypeLine, TakeRequest, StdinFails, Notice, SendLine,
     CommandsReturn, CommandsCancel, CommandsCancelled, Connect, Exchange, Welcome,
     SendNick, PromptLost, TakeResponse, Refused, RunFails, Joined, RunCancelled,
     TakeLine, WriteLine, WriteFails, InputReturns, InputCancelled, Receive,
     ReceiveFails, ReceiveReturns, ReceiveCancelled, ServerDecides, ServerPosts,
     ServerCloses

(* The token, which is never taken back.                                   *)
LEMMA TokenStep == [Next]_vars => token' = token \/ token' = TRUE
  BY DEF Next, DisplayNext, CommandsNext, CommandsGoOn, RunGoesOn, InputNext, ReceiveNext,
     ServerNext, vars, outVars, runVars, inVars, stdinVars, ccVars, askVars, srvVars,
     Show, DisplayEnds, Sigint, TypePiece, TypeLine, TakeRequest, StdinFails, Notice,
     SendLine, CommandsReturn, CommandsCancel, CommandsCancelled, Connect, Exchange,
     Welcome, SendNick, PromptLost, TakeResponse, Refused, RunFails, Joined,
     RunCancelled, RuntimeDrop, TakeLine, WriteLine, WriteFails, InputReturns,
     InputCancelled, Receive, ShowReceived, ReceiveFails, ReceiveReturns,
     ReceiveCancelled, ServerDecides, ServerPosts, ServerCloses

-----------------------------------------------------------------------------
(* What the types rest on: where `run` has not begun the chat there is no  *)
(* task of it, and once it has there are both.                             *)
Early == {"connect", "exchange", "welcome", "asking"}

TasksInv ==
  /\ runPc \notin {"join", "ended"} => inPc = "none" /\ recvPc = "none"
  /\ runPc = "join" => inPc # "none" /\ recvPc # "none"
  /\ runPc \in Early => got = 0

(* The request for the nick.                                               *)
PromptInv ==
  /\ runPc \in {"connect", "exchange", "welcome"} => prompt = "none"
  /\ prompt = "none" => runPc \in {"connect", "exchange", "welcome", "failing", "ended"}
  /\ runPc = "join" \/ inPc \notin {"none", "ended"} => prompt = "gone"
  /\ answer # "none" => prompt = "gone"
  /\ runPc \in {"asking", "join"} /\ prompt = "gone" /\ answer = "none" =>
       ccPc \in {"returned", "ended"}
  /\ torn => prompt = "held" \/ ccPc \in {"returned", "ended"}

(* The lines on their way are numbered without a gap, from the last one    *)
(* written to the last one meant for the server, as long as                *)
(* handling_stdin_input writes them.                                       *)
Writing == inPc \notin {"failing", "ended"}

Taken == Len(wire) + (IF inPc = "writing" THEN 1 ELSE 0)

Queued == Taken + Len(input)

LinesInv ==
  /\ inPc = "writing" => sending.n = Taken
  /\ Len(wire) <= meant
  /\ Writing =>
       /\ \A i \in 1 .. Len(input) : input[i].n = Taken + i
       /\ ccPc = "send" => line.n = Queued + 1
       /\ ccPc \in {"select", "notice", "send"} =>
            meant = Queued + (IF ccPc = "send" THEN 1 ELSE 0)
       /\ Queued <= meant

(* A line that lost its start is never in the way of one that is written.  *)
NeverWritten == inPc = "ended" \/ (inPc = "none" /\ runPc \in {"refused", "failing", "ended"})

WholeInv ==
  /\ inPc = "writing" => sending.whole
  /\ ccPc = "send" /\ ~line.whole => NeverWritten
  /\ \A i \in 1 .. Len(input) : ~input[i].whole => NeverWritten

(* The packets of the server that wait in the output channel.              *)
Arrived == IF recvPc = "show" THEN got - 1 ELSE got

Waits(n) == \E i \in 1 .. Len(output) : output[i] = n

ScreenInv ==
  /\ Len(shown) <= Arrived
  /\ recvPc = "show" => got > 0
  /\ recvPc = "none" => shown = <<>> /\ \A i \in 1 .. Len(output) : output[i] = 0
  /\ displaying =>
       /\ \A i, j \in 1 .. Len(output) :
            i < j /\ output[i] # 0 /\ output[j] # 0 => output[i] < output[j]
       /\ \A i \in 1 .. Len(output) : output[i] # 0 =>
            /\ output[i] > Len(shown) /\ output[i] <= Arrived
            /\ \A n \in (Len(shown) + 1) .. output[i] : Waits(n)
       /\ recvPc \in {"recv", "show"} =>
            \A n \in (Len(shown) + 1) .. Arrived : Waits(n)

ClientInv == TypeOK /\ TasksInv /\ PromptInv /\ LinesInv /\ WholeInv /\ ScreenInv

-----------------------------------------------------------------------------
LEMMA Caps ==
  /\ InputCap \in Nat /\ OutputCap \in Nat /\ InputCap > 0 /\ OutputCap > 0
  /\ MaxTyped \in Nat /\ MaxPosts \in Nat /\ Typed \subseteq Lines
  BY ClientConstants

LEMMA RecordsAreNotEmpty == <<>> \notin InputMsg
<1> SUFFICES ASSUME <<>> \in InputMsg PROVE FALSE
  OBVIOUS
<1>1. DOMAIN <<>> = {"n", "fits", "whole"}
  BY DEF InputMsg
<1>2. DOMAIN <<>> = {}
  OBVIOUS
<1> QED
  BY <1>1, <1>2

LEMMA InitClient == Init => ClientInv
<1> SUFFICES ASSUME Init PROVE ClientInv
  OBVIOUS
<1> USE DEF Init
<1>1. TypeOK
  <2>1. /\ output \in Seq(0 .. MaxPosts) /\ Len(output) <= OutputCap
        /\ shown \in Seq(1 .. MaxPosts) /\ wire \in Seq(1 .. MaxTyped)
        /\ input \in Seq(InputMsg) /\ Len(input) <= InputCap
    BY Caps
  <2>2. typed \in 0 .. MaxTyped /\ meant \in 0 .. typed /\ posted \in 0 .. MaxPosts /\ got \in 0 .. posted
    BY Caps
  <2>3. {token, displaying, part, torn} \subseteq BOOLEAN /\ {sending, line} \subseteq InputMsg \cup {<<>>}
    OBVIOUS
  <2> QED
    BY <2>1, <2>2, <2>3 DEF TypeOK
<1>2. TasksInv /\ PromptInv /\ WholeInv
  BY DEF TasksInv, PromptInv, WholeInv, Early
<1>3. LinesInv
  BY DEF LinesInv, Writing, Taken, Queued
<1>4. ScreenInv
  BY DEF ScreenInv, Arrived
<1> QED
  BY <1>1, <1>2, <1>3, <1>4 DEF ClientInv

(* The three tasks that come and go.                                       *)
LEMMA TasksStep == TypeOK /\ TasksInv /\ [Next]_vars => TasksInv'
<1> SUFFICES ASSUME TypeOK, TasksInv, [Next]_vars PROVE TasksInv'
  OBVIOUS
<1>1. /\ got \in Nat /\ runPc \in {"connect", "exchange", "welcome", "asking", "refused",
           "join", "failing", "ended"}
      /\ inPc \in {"none", "recv", "writing", "failing", "ended"}
      /\ recvPc \in {"none", "recv", "show", "failing", "ended"}
  BY DEF TypeOK
<1>2. CASE SendNick \/ PromptLost
  BY <1>1, <1>2 DEF TasksInv, Early, SendNick, PromptLost, Asking, Spawn, RunGoto
<1>3. CASE RuntimeDrop
  BY <1>1, <1>3 DEF TasksInv, Early, RuntimeDrop, runVars
<1>4. CASE TakeResponse
  BY <1>1, <1>4 DEF TasksInv, Early, TakeResponse, RunGoto, inVars
<1>5. CASE Connect \/ Exchange \/ Welcome \/ Refused \/ RunFails \/ Joined \/ RunCancelled
  BY <1>1, <1>5 DEF TasksInv, Early, Connect, Exchange, Welcome, Refused, RunFails, Joined,
     RunCancelled, RunGoto, inVars
<1>6. CASE TakeLine \/ WriteLine \/ WriteFails \/ InputReturns \/ InputCancelled
  BY <1>1, <1>6 DEF TasksInv, Early, TakeLine, WriteLine, WriteFails, InputReturns,
     InputCancelled, runVars
<1>7. CASE Receive \/ ShowReceived \/ ReceiveFails \/ ReceiveReturns \/ ReceiveCancelled
  BY <1>1, <1>7 DEF TasksInv, Early, Receive, ShowReceived, ReceiveFails, ReceiveReturns,
     ReceiveCancelled, runVars, inVars
<1>8. CASE UNCHANGED <<runPc, inPc, recvPc, got>>
  BY <1>8 DEF TasksInv, Early
<1> QED
  BY <1>2, <1>3, <1>4, <1>5, <1>6, <1>7, <1>8, RunFrame, InputFrame, ReceiveFrame

(* The request for the nick has one owner at a time.                       *)
LEMMA PromptStep == TypeOK /\ TasksInv /\ PromptInv /\ [Next]_vars => PromptInv'
<1> SUFFICES ASSUME TypeOK, TasksInv, PromptInv, [Next]_vars PROVE PromptInv'
  OBVIOUS
<1>1. /\ runPc \in {"connect", "exchange", "welcome", "asking", "refused", "join",
                    "failing", "ended"}
      /\ inPc \in {"none", "recv", "writing", "failing", "ended"}
      /\ ccPc \in {"select", "notice", "send", "failing", "returned", "ended"}
      /\ prompt \in {"none", "queue", "held", "gone"}
      /\ answer \in {"none", "fits", "huge"}
      /\ runPc \notin {"join", "ended"} => inPc = "none"
  BY DEF TypeOK, TasksInv
<1> USE DEF PromptInv
<1>2. ASSUME NEW kind \in Typed, TypeLine(kind) PROVE PromptInv'
  BY <1>1, <1>2 DEF TypeLine, PopsRequest, Answers, Asking, runVars, inVars
<1>3. CASE TakeRequest
  BY <1>1, <1>3 DEF TakeRequest, ccVars, runVars, inVars
<1>4. CASE Welcome
  BY <1>1, <1>4 DEF Welcome, RunGoto, inVars, stdinVars, ccVars
<1>5. CASE CommandsReturn \/ CommandsCancelled
  BY <1>1, <1>5 DEF CommandsReturn, CommandsCancelled, DropRequests, runVars, inVars, stdinVars
<1>6. CASE RuntimeDrop
  BY <1>1, <1>6 DEF RuntimeDrop, DropRequests, runVars, stdinVars
<1>7. CASE /\ UNCHANGED <<prompt, answer>>
           /\ Connect \/ Exchange \/ SendNick \/ PromptLost \/ TakeResponse \/ Refused
                \/ RunFails \/ Joined \/ RunCancelled
  BY <1>1, <1>7 DEF Connect, Exchange, SendNick, PromptLost, TakeResponse, Refused, RunFails,
     Joined, RunCancelled, RunGoto, Spawn, Asking, inVars, stdinVars, ccVars
<1>8. CASE UNCHANGED <<prompt, answer, runPc>> /\ ~RuntimeDrop
  <2>1. inPc' \notin {"none", "ended"} => inPc \notin {"none", "ended"}
    BY <1>1, <1>8, InputFrame DEF SendNick, PromptLost, Asking, RunGoto, Spawn, TakeLine,
       WriteLine, WriteFails, InputReturns, InputCancelled, PromptInv
  <2>2. ccPc \in {"returned", "ended"} => ccPc' \in {"returned", "ended"}
    BY <1>1, <1>8, CommandsFrame DEF TypeLine, StdinFails, Notice, SendLine, CommandsReturn,
       CommandsCancel, CommandsCancelled
  <2>3. CASE torn' = torn
    BY <1>8, <2>1, <2>2, <2>3
  <2>4. CASE torn' # torn
    BY <1>2, <1>3, <2>4, StdinFrame DEF TypePiece
  <2> QED
    BY <2>3, <2>4
<1> QED
  BY <1>2, <1>3, <1>4, <1>5, <1>6, <1>7, <1>8, RunFrame, RequestFrame

-----------------------------------------------------------------------------
(* The types, group by group.                                              *)
(* A bounded queue stays one when it is popped, or pushed onto while there *)
(* is room.                                                                *)
LEMMA QueueStep ==
  ASSUME NEW S, NEW q \in Seq(S), NEW cap \in Nat, Len(q) <= cap, NEW next,
         \/ next = q
         \/ next = <<>>
         \/ q # <<>> /\ next = Tail(q)
         \/ Len(q) < cap /\ \E e \in S : next = Append(q, e)
  PROVE  next \in Seq(S) /\ Len(next) <= cap
<1>1. CASE next = q
  BY <1>1
<1>2. CASE next = <<>>
  BY <1>2
<1>3. CASE q # <<>> /\ next = Tail(q)
  BY <1>3
<1>4. CASE Len(q) < cap /\ \E e \in S : next = Append(q, e)
  BY <1>4
<1> QED
  BY <1>1, <1>2, <1>3, <1>4

LEMMA HeadIn == ASSUME NEW S, NEW q \in Seq(S), q # <<>> PROVE Head(q) \in S
  OBVIOUS

LEMMA PcsType ==
  TypeOK /\ [Next]_vars =>
    /\ runPc' \in {"connect", "exchange", "welcome", "asking", "refused", "join",
                   "failing", "ended"}
    /\ inPc' \in {"none", "recv", "writing", "failing", "ended"}
    /\ recvPc' \in {"none", "recv", "show", "failing", "ended"}
    /\ ccPc' \in {"select", "notice", "send", "failing", "returned", "ended"}
    /\ prompt' \in {"none", "queue", "held", "gone"}
    /\ answer' \in {"none", "fits", "huge"}
    /\ serverPc' \in {"handshake", "serving", "closed"}
<1> SUFFICES ASSUME TypeOK, [Next]_vars
             PROVE  /\ runPc' \in {"connect", "exchange", "welcome", "asking", "refused",
                                   "join", "failing", "ended"}
                    /\ inPc' \in {"none", "recv", "writing", "failing", "ended"}
                    /\ recvPc' \in {"none", "recv", "show", "failing", "ended"}
                    /\ ccPc' \in {"select", "notice", "send", "failing", "returned", "ended"}
                    /\ prompt' \in {"none", "queue", "held", "gone"}
                    /\ answer' \in {"none", "fits", "huge"}
                    /\ serverPc' \in {"handshake", "serving", "closed"}
  OBVIOUS
<1> USE DEF TypeOK
<1>1. runPc' \in {"connect", "exchange", "welcome", "asking", "refused", "join",
                 "failing", "ended"}
  BY RunFrame DEF Connect, Exchange, Welcome, SendNick, PromptLost, TakeResponse, Refused,
     RunFails, Joined, RunCancelled, RunGoto, Spawn
<1>2. inPc' \in {"none", "recv", "writing", "failing", "ended"}
  BY InputFrame DEF SendNick, PromptLost, RuntimeDrop, TakeLine, WriteLine, WriteFails,
     InputReturns, InputCancelled, Spawn
<1>3. recvPc' \in {"none", "recv", "show", "failing", "ended"}
  BY ReceiveFrame DEF SendNick, PromptLost, TakeResponse, RuntimeDrop, Receive, ShowReceived,
     ReceiveFails, ReceiveReturns, ReceiveCancelled, Spawn
<1>4. ccPc' \in {"select", "notice", "send", "failing", "returned", "ended"}
  BY CommandsFrame DEF TypeLine, StdinFails, Notice, SendLine, CommandsReturn, CommandsCancel,
     CommandsCancelled, RuntimeDrop, ccVars
<1>5. prompt' \in {"none", "queue", "held", "gone"} /\ answer' \in {"none", "fits", "huge"}
  BY RequestFrame DEF TypeLine, TakeRequest, Welcome, CommandsReturn, CommandsCancelled,
     RuntimeDrop, DropRequests
<1>6. serverPc' \in {"handshake", "serving", "closed"}
  BY ServerFrame DEF ServerDecides, ServerPosts, ServerCloses
<1> QED
  BY <1>1, <1>2, <1>3, <1>4, <1>5, <1>6

LEMMA FlagsType ==
  TypeOK /\ [Next]_vars => {token, displaying, part, torn}' \subseteq BOOLEAN
<1> SUFFICES ASSUME TypeOK, [Next]_vars PROVE {token, displaying, part, torn}' \subseteq BOOLEAN
  OBVIOUS
<1>0. token \in BOOLEAN /\ displaying \in BOOLEAN /\ part \in BOOLEAN /\ torn \in BOOLEAN
  BY DEF TypeOK
<1>1. token' \in BOOLEAN
  BY <1>0, TokenStep
<1>2. displaying' = displaying \/ displaying' = FALSE
  BY DisplayFrame DEF Show, DisplayEnds, RuntimeDrop, ShowReceived
<1>3. /\ part' = part \/ part' = TRUE \/ part' = FALSE
      /\ torn' = torn \/ torn' = FALSE \/ torn' = (torn \/ part)
  BY StdinFrame DEF TypePiece, TakeRequest, TypeLine
<1> QED
  BY <1>0, <1>1, <1>2, <1>3

LEMMA CountsType ==
  TypeOK /\ [Next]_vars =>
    /\ typed' \in 0 .. MaxTyped /\ meant' \in 0 .. typed'
    /\ posted' \in 0 .. MaxPosts /\ got' \in 0 .. posted'
<1> SUFFICES ASSUME TypeOK, [Next]_vars
             PROVE  /\ typed' \in 0 .. MaxTyped /\ meant' \in 0 .. typed'
                    /\ posted' \in 0 .. MaxPosts /\ got' \in 0 .. posted'
  OBVIOUS
<1>0. /\ typed \in 0 .. MaxTyped /\ meant \in 0 .. typed
      /\ posted \in 0 .. MaxPosts /\ got \in 0 .. posted
  BY DEF TypeOK
<1>1. typed' \in 0 .. MaxTyped /\ meant' \in 0 .. typed'
  BY <1>0, Caps, StdinFrame DEF TypePiece, TakeRequest, TypeLine
<1>2. /\ posted' = posted \/ (posted' = posted + 1 /\ posted' <= MaxPosts)
      /\ posted' # posted => got' = got
  BY <1>0, Caps, ServerFrame DEF ServerDecides, ServerPosts, ServerCloses
<1>3. got' = got \/ (got' = got + 1 /\ got < posted)
  BY ReceiveFrame DEF SendNick, PromptLost, TakeResponse, RuntimeDrop, Receive, ShowReceived,
     ReceiveFails, ReceiveReturns, ReceiveCancelled
<1> QED
  BY <1>0, <1>1, <1>2, <1>3, Caps

(* The output channel takes the client's own messages and the packet in    *)
(* hand, gives the oldest, and is dropped with its reader.                 *)
LEMMA OutputSteps ==
  [Next]_vars =>
    \/ UNCHANGED <<output, shown, displaying>>
    \/ /\ UNCHANGED <<shown, got>> /\ output' = <<>> /\ displaying' = FALSE
       /\ recvPc' \in {recvPc, "ended"}
    \/ /\ UNCHANGED <<shown, displaying>> /\ displaying /\ Len(output) < OutputCap
       /\ output' = Append(output, 0)
    \/ /\ UNCHANGED <<shown, displaying>> /\ displaying /\ Len(output) < OutputCap
       /\ output' = Append(output, got) /\ ShowReceived
    \/ Show
  BY DisplayFrame DEF Show, DisplayEnds, RuntimeDrop, ShowReceived, Display

LEMMA OutputType ==
  TypeOK /\ [Next]_vars =>
    output' \in Seq(0 .. MaxPosts) /\ Len(output') <= OutputCap /\ shown' \in Seq(1 .. MaxPosts)
<1> SUFFICES ASSUME TypeOK, [Next]_vars
             PROVE  /\ output' \in Seq(0 .. MaxPosts) /\ Len(output') <= OutputCap
                    /\ shown' \in Seq(1 .. MaxPosts)
  OBVIOUS
<1>0. /\ output \in Seq(0 .. MaxPosts) /\ Len(output) <= OutputCap /\ OutputCap \in Nat
      /\ shown \in Seq(1 .. MaxPosts) /\ got \in 0 .. MaxPosts /\ 0 \in 0 .. MaxPosts
  BY Caps DEF TypeOK
<1>1. CASE Show
  <2>1. output # <<>> /\ output' = Tail(output) /\ Head(output) \in 0 .. MaxPosts
    <3>1. output # <<>> /\ output' = Tail(output)
      BY <1>1 DEF Show
    <3> QED
      BY <1>0, <3>1, HeadIn
  <2>2. output' \in Seq(0 .. MaxPosts) /\ Len(output') <= OutputCap
    <3>1. output' = output \/ (output # <<>> /\ output' = Tail(output))
      BY <2>1
    <3> QED
      BY <1>0, <3>1, QueueStep
  <2>3. shown' \in Seq(1 .. MaxPosts)
    <3>1. CASE Head(output) = 0
      BY <1>0, <1>1, <3>1 DEF Show
    <3>2. CASE Head(output) # 0
      <4>1. Head(output) \in 1 .. MaxPosts /\ shown' = Append(shown, Head(output))
        BY <1>1, <2>1, <3>2, Caps DEF Show
      <4> QED
        BY <1>0, <4>1
    <3> QED
      BY <3>1, <3>2
  <2> QED
    BY <2>2, <2>3
<1>2. CASE UNCHANGED shown /\ output' = <<>>
  BY <1>0, <1>2, QueueStep
<1>3. CASE /\ UNCHANGED shown /\ Len(output) < OutputCap
           /\ output' = Append(output, 0) \/ output' = Append(output, got)
  <2>1. \E e \in 0 .. MaxPosts : output' = Append(output, e)
    BY <1>0, <1>3
  <2> QED
    BY <1>0, <1>3, <2>1, QueueStep
<1>4. CASE UNCHANGED <<output, shown>>
  BY <1>0, <1>4
<1> QED
  BY <1>1, <1>2, <1>3, <1>4, OutputSteps

LEMMA LinesType ==
  TypeOK /\ LinesInv /\ [Next]_vars =>
    /\ wire' \in Seq(1 .. MaxTyped)
    /\ {sending, line}' \subseteq InputMsg \cup {<<>>}
    /\ inPc' = "writing" => sending' # <<>>
    /\ ccPc' = "send" => line' # <<>>
    /\ input' \in Seq(InputMsg) /\ Len(input') <= InputCap
<1> SUFFICES ASSUME TypeOK, LinesInv, [Next]_vars
             PROVE  /\ wire' \in Seq(1 .. MaxTyped)
                    /\ {sending, line}' \subseteq InputMsg \cup {<<>>}
                    /\ inPc' = "writing" => sending' # <<>>
                    /\ ccPc' = "send" => line' # <<>>
                    /\ input' \in Seq(InputMsg) /\ Len(input') <= InputCap
  OBVIOUS
<1>0. /\ wire \in Seq(1 .. MaxTyped) /\ sending \in InputMsg \cup {<<>>} /\ line \in InputMsg \cup {<<>>}
      /\ inPc = "writing" => sending \in InputMsg
      /\ ccPc = "send" => line \in InputMsg
      /\ input \in Seq(InputMsg) /\ Len(input) <= InputCap /\ InputCap \in Nat
      /\ typed \in 0 .. MaxTyped /\ meant \in 0 .. typed /\ MaxTyped \in Nat
  BY Caps DEF TypeOK
<1>1. wire' \in Seq(1 .. MaxTyped)
  <2>1. CASE WriteLine
    <3>1. inPc = "writing" /\ wire' = Append(wire, sending.n)
      BY <2>1 DEF WriteLine
    <3>2. sending.n = Len(wire) + 1 /\ Len(wire) + 1 + Len(input) <= meant
      BY <3>1 DEF LinesInv, Writing, Taken, Queued
    <3>3. sending.n \in 1 .. MaxTyped
      <4>1. Len(wire) \in Nat /\ Len(input) \in Nat
        BY <1>0
      <4> QED
        BY <1>0, <3>2, <4>1
    <3> QED
      BY <1>0, <3>1, <3>3
  <2>2. CASE UNCHANGED wire
    BY <1>0, <2>2
  <2> QED
    BY <2>1, <2>2, InputFrame DEF SendNick, PromptLost, RuntimeDrop, TakeLine, WriteFails,
       InputReturns, InputCancelled
<1>2. sending' \in InputMsg \cup {<<>>} /\ (inPc' = "writing" => sending' # <<>>)
  <2>1. CASE TakeLine
    <3>1. sending' = Head(input) /\ Head(input) \in InputMsg
      BY <1>0, <2>1 DEF TakeLine
    <3> QED
      BY <3>1, RecordsAreNotEmpty
  <2>2. CASE UNCHANGED sending /\ (inPc' = "writing" => inPc = "writing")
    BY <1>0, <2>2, RecordsAreNotEmpty
  <2> QED
    BY <2>1, <2>2, InputFrame DEF SendNick, PromptLost, RuntimeDrop, WriteLine, WriteFails,
       InputReturns, InputCancelled, Spawn
<1>3. line' \in InputMsg \cup {<<>>} /\ (ccPc' = "send" => line' # <<>>)
  <2>1. ASSUME NEW kind \in Typed, TypeLine(kind)
        PROVE  \/ UNCHANGED ccVars \/ (UNCHANGED line /\ ccPc' = "notice")
               \/ line' \in InputMsg
    <3>1. meant + 1 \in Nat \ {0} /\ (kind # "huge") \in BOOLEAN /\ (~torn) \in BOOLEAN
      BY <1>0
    <3>2. [n |-> meant + 1, fits |-> kind # "huge", whole |-> ~torn] \in InputMsg
      BY <3>1 DEF InputMsg
    <3>3. \/ UNCHANGED ccVars \/ (UNCHANGED line /\ ccPc' = "notice")
          \/ line' = [n |-> meant + 1, fits |-> kind # "huge", whole |-> ~torn]
      BY <2>1 DEF TypeLine
    <3> QED
      BY <3>2, <3>3
  <2>2. CASE UNCHANGED line /\ (ccPc' = "send" => ccPc = "send")
    BY <1>0, <2>2, RecordsAreNotEmpty
  <2>3. CASE line' \in InputMsg
    BY <2>3, RecordsAreNotEmpty
  <2> QED
    BY <2>1, <2>2, <2>3, CommandsFrame DEF StdinFails, Notice, SendLine, CommandsReturn,
       CommandsCancel, CommandsCancelled, RuntimeDrop, ccVars
<1>4. input' \in Seq(InputMsg) /\ Len(input') <= InputCap
  <2>1. \/ UNCHANGED input
        \/ input # <<>> /\ input' = Tail(input)
        \/ ccPc = "send" /\ Len(input) < InputCap /\ input' = Append(input, line)
    BY ChannelFrame DEF SendLine, TakeLine, Enqueue
  <2>2. \/ input' = input
        \/ input # <<>> /\ input' = Tail(input)
        \/ Len(input) < InputCap /\ \E e \in InputMsg : input' = Append(input, e)
    BY <1>0, <2>1
  <2> QED
    BY <1>0, <2>2, QueueStep
<1> QED
  BY <1>1, <1>2, <1>3, <1>4

LEMMA TypeStep == TypeOK /\ LinesInv /\ [Next]_vars => TypeOK'
  BY PcsType, FlagsType, CountsType, OutputType, LinesType DEF TypeOK

-----------------------------------------------------------------------------
(* The numbers of the lines on their way.                                  *)
LEMMA TailIndex ==
  ASSUME NEW S, NEW q \in Seq(S), q # <<>>
  PROVE  /\ Len(Tail(q)) = Len(q) - 1 /\ Head(q) = q[1] /\ Len(q) \in Nat /\ Len(q) > 0
         /\ \A i \in 1 .. Len(Tail(q)) : i + 1 \in 1 .. Len(q) /\ Tail(q)[i] = q[i + 1]
  OBVIOUS

LEMMA AppendIndex ==
  ASSUME NEW S, NEW q \in Seq(S), NEW e \in S
  PROVE  /\ Len(Append(q, e)) = Len(q) + 1 /\ Len(q) \in Nat
         /\ \A i \in 1 .. Len(q) : Append(q, e)[i] = q[i]
         /\ Append(q, e)[Len(q) + 1] = e
  OBVIOUS

LEMMA LinesStep == TypeOK /\ TasksInv /\ LinesInv /\ [Next]_vars => LinesInv'
<1> SUFFICES ASSUME TypeOK, TasksInv, LinesInv, [Next]_vars PROVE LinesInv'
  OBVIOUS
<1>0. /\ Len(wire) \in Nat /\ Len(input) \in Nat /\ meant \in Nat
      /\ wire \in Seq(1 .. MaxTyped) /\ input \in Seq(InputMsg)
      /\ inPc \in {"none", "recv", "writing", "failing", "ended"}
      /\ ccPc \in {"select", "notice", "send", "failing", "returned", "ended"}
      /\ ccPc = "send" => line \in InputMsg
  BY Caps DEF TypeOK
<1> DEFINE Way == /\ \A i \in 1 .. Len(input) : input[i].n = Taken + i
                  /\ ccPc = "send" => line.n = Queued + 1
                  /\ ccPc \in {"select", "notice", "send"} =>
                       meant = Queued + (IF ccPc = "send" THEN 1 ELSE 0)
                  /\ Queued <= meant
<1>1. Writing => Way
  BY DEF LinesInv
<1>2. /\ inPc = "writing" => sending.n = Taken
      /\ Len(wire) <= meant
  BY DEF LinesInv
<1> HIDE DEF Way
<1>3. CASE TakeLine
  <2>1. /\ inPc = "recv" /\ inPc' = "writing" /\ input # <<>>
        /\ sending' = Head(input) /\ input' = Tail(input)
        /\ UNCHANGED <<wire, ccPc, line, meant>>
    BY <1>3 DEF TakeLine, ccVars, stdinVars
  <2>2. Taken = Len(wire) /\ Taken' = Len(wire) + 1
    BY <1>0, <2>1 DEF Taken
  <2>3. Len(input') = Len(input) - 1 /\ Queued' = Queued
    BY <1>0, <2>1, <2>2, TailIndex DEF Queued
  <2>4. sending'.n = Taken'
    BY <1>0, <1>1, <2>1, <2>2, TailIndex DEF Way, Writing
  <2>5. ASSUME NEW i \in 1 .. Len(input') PROVE input'[i].n = Taken' + i
    <3>1. i + 1 \in 1 .. Len(input) /\ input'[i] = input[i + 1]
      BY <1>0, <2>1, TailIndex
    <3>2. input[i + 1].n = Taken + (i + 1)
      BY <1>1, <2>1, <3>1 DEF Way, Writing
    <3> QED
      BY <1>0, <2>2, <3>1, <3>2
  <2> QED
    BY <1>1, <1>2, <2>1, <2>3, <2>4, <2>5 DEF LinesInv, Way, Writing
<1>4. CASE WriteLine
  <2>1. /\ inPc = "writing" /\ inPc' = "recv" /\ wire' = Append(wire, sending.n)
        /\ UNCHANGED <<input, ccPc, line, meant>>
    BY <1>4 DEF WriteLine, ccVars, stdinVars
  <2>2. Len(wire') = Len(wire) + 1
    BY <1>0, <2>1
  <2>3. Taken' = Taken /\ Queued' = Queued /\ Taken = Len(wire) + 1
    BY <1>0, <2>1, <2>2 DEF Taken, Queued
  <2>4. Len(wire') <= meant'
    BY <1>0, <1>1, <2>1, <2>2, <2>3 DEF Way, Writing, Queued
  <2> QED
    BY <1>1, <2>1, <2>3, <2>4 DEF LinesInv, Way, Writing
<1>5. CASE SendLine
  <2>1. /\ ccPc = "send" /\ UNCHANGED <<inPc, sending, wire, line, meant>>
        /\ \/ ccPc' = "failing" /\ UNCHANGED input
           \/ ccPc' = "select" /\ input' = Append(input, line)
    BY <1>5 DEF SendLine, Enqueue, inVars, stdinVars
  <2>2. Taken' = Taken /\ Taken \in Nat
    BY <1>0, <2>1 DEF Taken
  <2>3. CASE UNCHANGED input /\ ccPc' = "failing"
    BY <1>1, <1>2, <2>1, <2>2, <2>3 DEF LinesInv, Way, Writing, Queued
  <2>4. CASE ccPc' = "select" /\ input' = Append(input, line)
    <3>1. Len(input') = Len(input) + 1 /\ Queued' = Queued + 1
      BY <1>0, <2>1, <2>2, <2>4, AppendIndex DEF Queued
    <3>2. ASSUME Writing, NEW i \in 1 .. Len(input') PROVE input'[i].n = Taken' + i
      <4>1. CASE i \in 1 .. Len(input)
        BY <1>0, <1>1, <2>1, <2>2, <2>4, <3>2, <4>1, AppendIndex DEF Way
      <4>2. CASE i = Len(input) + 1
        <5>1. input'[i] = line /\ line.n = Queued + 1
          BY <1>0, <1>1, <2>1, <2>4, <3>2, <4>2, AppendIndex DEF Way
        <5> QED
          BY <1>0, <2>2, <4>2, <5>1 DEF Queued
      <4> QED
        BY <1>0, <3>1, <4>1, <4>2
    <3>3. Writing => meant = Queued + 1
      BY <1>1, <2>1 DEF Way
    <3>4. Writing' = Writing /\ Queued \in Nat
      BY <1>0, <2>1, <2>2 DEF Writing, Queued
    <3> QED
      BY <1>0, <1>2, <2>1, <2>2, <2>4, <3>1, <3>2, <3>3, <3>4 DEF LinesInv
  <2> QED
    BY <2>1, <2>3, <2>4
<1>6. ASSUME NEW kind \in Typed, TypeLine(kind) PROVE LinesInv'
  <2>1. /\ ccPc = "select" /\ UNCHANGED <<inPc, sending, wire, input>>
        /\ \/ ccPc' \in {"select", "notice"} /\ UNCHANGED <<line, meant>>
           \/ ccPc' = "send" /\ meant' = meant + 1 /\ line'.n = meant + 1
    BY <1>6 DEF TypeLine, ccVars, inVars
  <2>2. Taken' = Taken /\ Queued' = Queued /\ Taken \in Nat /\ Queued \in Nat
    BY <1>0, <2>1 DEF Taken, Queued
  <2>3. Writing' = Writing /\ (Writing => meant = Queued)
    BY <1>0, <1>1, <2>1, <2>2 DEF Writing, Way
  <2> QED
    BY <1>0, <1>1, <1>2, <2>1, <2>2, <2>3 DEF LinesInv, Way
<1>7. CASE UNCHANGED <<input, wire, sending, meant>> /\ inPc' \in {"failing", "ended"}
  BY <1>0, <1>2, <1>7 DEF LinesInv, Writing
<1>8. CASE /\ UNCHANGED <<input, wire, sending, meant, line>>
           /\ inPc' = inPc \/ (inPc = "none" /\ inPc' = "recv")
           /\ ccPc' = ccPc \/ ccPc' \in {"failing", "returned", "ended"}
                \/ (ccPc = "notice" /\ ccPc' = "select")
  <2>1. Taken' = Taken /\ Queued' = Queued /\ (Writing' => Writing)
    BY <1>0, <1>8 DEF Taken, Queued, Writing
  <2> QED
    BY <1>0, <1>1, <1>2, <1>8, <2>1 DEF LinesInv, Way
<1> QED
  <2>1. \/ TakeLine \/ WriteLine
        \/ (UNCHANGED <<wire, sending>> /\ (inPc' = inPc \/ inPc' \in {"failing", "ended"}))
        \/ (UNCHANGED <<wire, sending>> /\ inPc = "none" /\ inPc' = "recv")
    BY InputFrame DEF SendNick, PromptLost, RuntimeDrop, WriteFails, InputReturns,
       InputCancelled, Spawn, RunGoto, Asking, TasksInv, inVars
  <2>2. \/ SendLine \/ \E kind \in Typed : TypeLine(kind)
        \/ /\ UNCHANGED line
           /\ ccPc' = ccPc \/ ccPc' \in {"failing", "returned", "ended"}
                \/ (ccPc = "notice" /\ ccPc' = "select")
    BY CommandsFrame DEF StdinFails, Notice, CommandsReturn, CommandsCancel,
       CommandsCancelled, RuntimeDrop
  <2>3. UNCHANGED meant \/ \E kind \in Typed : TypeLine(kind)
    BY StdinFrame DEF TypePiece, TakeRequest
  <2> QED
    BY <1>3, <1>4, <1>5, <1>6, <1>7, <1>8, <2>1, <2>2, <2>3, ChannelFrame

-----------------------------------------------------------------------------
(* What is never written stays so.                                         *)
LEMMA NeverWrittenStays == TypeOK /\ TasksInv /\ [Next]_vars /\ NeverWritten => NeverWritten'
<1> SUFFICES ASSUME TypeOK, TasksInv, [Next]_vars, NeverWritten PROVE NeverWritten'
  OBVIOUS
<1>1. inPc = "ended" \/ (inPc = "none" /\ runPc \in {"refused", "failing", "ended"})
  BY DEF NeverWritten
<1>2. inPc' = inPc \/ inPc' = "ended"
  BY <1>1, InputFrame DEF SendNick, PromptLost, RuntimeDrop, TakeLine, WriteLine, WriteFails,
     InputReturns, InputCancelled, Asking, TasksInv
<1>3. runPc \in {"refused", "failing", "ended"} => runPc' \in {"refused", "failing", "ended"}
  BY RunFrame DEF Connect, Exchange, Welcome, SendNick, PromptLost, TakeResponse, Refused,
     RunFails, Joined, RunCancelled, RunGoto, Asking
<1> QED
  BY <1>1, <1>2, <1>3 DEF NeverWritten

LEMMA WholeStep ==
  TypeOK /\ TasksInv /\ PromptInv /\ WholeInv /\ [Next]_vars => WholeInv'
<1> SUFFICES ASSUME TypeOK, TasksInv, PromptInv, WholeInv, [Next]_vars PROVE WholeInv'
  OBVIOUS
<1>0. /\ input \in Seq(InputMsg)
      /\ inPc \in {"none", "recv", "writing", "failing", "ended"}
      /\ ccPc = "send" => line \in InputMsg
  BY DEF TypeOK
<1>1. inPc' = "writing" => sending'.whole
  <2>1. CASE TakeLine
    <3>1. inPc = "recv" /\ input # <<>> /\ sending' = Head(input)
      BY <2>1 DEF TakeLine
    <3>2. Head(input) = input[1] /\ 1 \in 1 .. Len(input)
      BY <1>0, <3>1, TailIndex
    <3> QED
      BY <3>1, <3>2 DEF WholeInv, NeverWritten
  <2>2. CASE UNCHANGED sending /\ (inPc' = "writing" => inPc = "writing")
    BY <2>2 DEF WholeInv
  <2> QED
    BY <2>1, <2>2, InputFrame DEF SendNick, PromptLost, RuntimeDrop, WriteLine, WriteFails,
       InputReturns, InputCancelled, Spawn
<1>2. ASSUME ccPc' = "send", ~line'.whole PROVE NeverWritten'
  <2>1. ASSUME NEW kind \in Typed, TypeLine(kind) PROVE NeverWritten
    <3>1. /\ ccPc = "select" /\ ~Answers(kind) /\ kind # "comm"
          /\ line' = [n |-> meant + 1, fits |-> kind # "huge", whole |-> ~torn]
      BY <1>2, <2>1 DEF TypeLine, ccVars
    <3>5. line'.whole = ~torn
      BY <3>1
    <3>6. torn
      BY <1>2, <3>5, Zenon
    <3>2. prompt = "held" /\ ~Asking
      BY <3>1, <3>6 DEF PromptInv, Answers
    <3>3. /\ answer = "none" /\ runPc \notin {"connect", "exchange", "welcome", "asking", "join"}
          /\ inPc \in {"none", "ended"}
      BY <3>2 DEF PromptInv, Asking
    <3>4. runPc \in {"refused", "failing", "ended"}
      BY <3>3 DEF TypeOK
    <3> QED
      BY <3>3, <3>4 DEF NeverWritten
  <2>2. ASSUME UNCHANGED line, ccPc = "send" PROVE NeverWritten
    <3>1. ~line.whole
      BY <1>2, <2>2, Zenon
    <3> QED
      BY <2>2, <3>1 DEF WholeInv
  <2>3. (UNCHANGED line /\ ccPc = "send") \/ \E kind \in Typed : TypeLine(kind)
    BY <1>2, CommandsFrame DEF StdinFails, Notice, SendLine, CommandsReturn,
       CommandsCancel, CommandsCancelled, RuntimeDrop
  <2>4. NeverWritten
    BY <2>1, <2>2, <2>3
  <2> QED
    BY <2>4, NeverWrittenStays
<1>3. ASSUME NEW i \in 1 .. Len(input'), ~input'[i].whole PROVE NeverWritten'
  <2>1. CASE UNCHANGED input
    BY <1>3, <2>1, NeverWrittenStays DEF WholeInv
  <2>2. CASE TakeLine
    <3>1. input # <<>> /\ input' = Tail(input)
      BY <2>2 DEF TakeLine
    <3>2. i + 1 \in 1 .. Len(input) /\ input'[i] = input[i + 1]
      BY <1>0, <1>3, <3>1, TailIndex
    <3> QED
      BY <1>3, <3>2, NeverWrittenStays DEF WholeInv
  <2>3. CASE SendLine /\ input' # input
    <3>1. ccPc = "send" /\ input' = Append(input, line)
      BY <2>3 DEF SendLine, Enqueue
    <3>2. \/ (i \in 1 .. Len(input) /\ input'[i] = input[i])
          \/ input'[i] = line
      BY <1>0, <1>3, <3>1, AppendIndex
    <3> QED
      BY <1>3, <3>1, <3>2, NeverWrittenStays DEF WholeInv
  <2> QED
    BY <2>1, <2>2, <2>3, ChannelFrame
<1> QED
  BY <1>1, <1>2, <1>3 DEF WholeInv

-----------------------------------------------------------------------------
(* The packets on their way to the screen: the oldest is the next.         *)
LEMMA NextIsOldest ==
  ASSUME TypeOK, ScreenInv, displaying, output # <<>>, output[1] # 0
  PROVE  output[1] = Len(shown) + 1 /\ output[1] <= Arrived
<1>1. /\ 1 \in 1 .. Len(output) /\ Len(shown) \in Nat
      /\ \A i \in 1 .. Len(output) : output[i] \in Nat
  BY Caps DEF TypeOK
<1>2. /\ output[1] > Len(shown) /\ output[1] <= Arrived
      /\ \A n \in (Len(shown) + 1) .. output[1] : Waits(n)
  BY <1>1 DEF ScreenInv
<1>3. Waits(Len(shown) + 1)
  BY <1>1, <1>2
<1>4. PICK i \in 1 .. Len(output) : output[i] = Len(shown) + 1
  BY <1>3 DEF Waits
<1>5. i = 1 \/ output[1] < output[i]
  BY <1>1, <1>4 DEF ScreenInv
<1> QED
  BY <1>1, <1>2, <1>4, <1>5

LEMMA ScreenStep ==
  TypeOK /\ TasksInv /\ ScreenInv /\ [Next]_vars => ScreenInv'
<1> SUFFICES ASSUME TypeOK, TasksInv, ScreenInv, [Next]_vars PROVE ScreenInv'
  OBVIOUS
<1>0. /\ output \in Seq(0 .. MaxPosts) /\ shown \in Seq(1 .. MaxPosts)
      /\ got \in Nat /\ Len(shown) \in Nat /\ Len(output) \in Nat
      /\ \A i \in 1 .. Len(output) : output[i] \in Nat
      /\ recvPc \in {"none", "recv", "show", "failing", "ended"}
  BY Caps DEF TypeOK
<1> DEFINE Sorted == \A i, j \in 1 .. Len(output) :
                       i < j /\ output[i] # 0 /\ output[j] # 0 => output[i] < output[j]
           Dense == \A i \in 1 .. Len(output) : output[i] # 0 =>
                      /\ output[i] > Len(shown) /\ output[i] <= Arrived
                      /\ \A n \in (Len(shown) + 1) .. output[i] : Waits(n)
           Full == recvPc \in {"recv", "show"} =>
                     \A n \in (Len(shown) + 1) .. Arrived : Waits(n)
<1>1. /\ Len(shown) <= Arrived /\ (recvPc = "show" => got > 0)
      /\ recvPc = "none" => shown = <<>> /\ \A i \in 1 .. Len(output) : output[i] = 0
      /\ displaying => Sorted /\ Dense /\ Full
  BY DEF ScreenInv
<1> SUFFICES /\ Len(shown') <= Arrived' /\ (recvPc' = "show" => got' > 0)
             /\ recvPc' = "none" => shown' = <<>> /\ \A i \in 1 .. Len(output') : output'[i] = 0
             /\ displaying' => Sorted' /\ Dense' /\ Full'
  BY DEF ScreenInv
<1> HIDE DEF Sorted, Dense, Full
<1>2. Arrived \in Nat /\ Arrived <= got
  BY <1>0, <1>1 DEF Arrived
(* The display takes the oldest message.                                   *)
<1>3. CASE Show
  <2>1. /\ displaying /\ displaying' /\ output # <<>> /\ output' = Tail(output)
        /\ shown' = (IF Head(output) = 0 THEN shown ELSE Append(shown, Head(output)))
        /\ UNCHANGED <<recvPc, got>>
    BY <1>3 DEF Show
  <2>2. /\ Len(output') = Len(output) - 1 /\ Head(output) = output[1] /\ 1 \in 1 .. Len(output)
        /\ \A i \in 1 .. Len(output') : i + 1 \in 1 .. Len(output) /\ output'[i] = output[i + 1]
    BY <1>0, <2>1, TailIndex
  <2>3. Arrived' = Arrived
    BY <2>1 DEF Arrived
  <2>4. Sorted'
    BY <1>0, <1>1, <2>1, <2>2 DEF Sorted
  <2>5. \A n \in Nat : Waits(n) /\ output[1] # n => Waits(n)'
    <3> SUFFICES ASSUME NEW n \in Nat, NEW i \in 1 .. Len(output), output[i] = n, output[1] # n
                 PROVE  Waits(n)'
      BY DEF Waits
    <3>1. i # 1 /\ i - 1 \in 1 .. Len(output')
      BY <1>0, <2>2
    <3>2. output'[i - 1] = output[(i - 1) + 1]
      BY <2>2, <3>1
    <3> QED
      BY <1>0, <3>1, <3>2 DEF Waits
  <2>6. CASE output[1] = 0
    <3>1. shown' = shown
      BY <2>1, <2>2, <2>6
    <3>2. Dense'
      <4> SUFFICES ASSUME NEW i \in 1 .. Len(output'), output'[i] # 0
                   PROVE  /\ output'[i] > Len(shown') /\ output'[i] <= Arrived'
                          /\ \A n \in (Len(shown') + 1) .. output'[i] : Waits(n)'
        BY DEF Dense
      <4>1. /\ output'[i] > Len(shown) /\ output'[i] <= Arrived
            /\ \A n \in (Len(shown) + 1) .. output'[i] : Waits(n)
        BY <1>1, <2>1, <2>2 DEF Dense
      <4> QED
        BY <1>0, <2>3, <2>5, <2>6, <3>1, <4>1
    <3>3. Full'
      BY <1>0, <1>1, <2>1, <2>3, <2>5, <2>6, <3>1 DEF Full
    <3> QED
      BY <1>1, <2>1, <2>2, <2>3, <2>4, <3>1, <3>2, <3>3
  <2>7. CASE output[1] # 0
    <3>1. output[1] = Len(shown) + 1 /\ output[1] <= Arrived
      BY <2>1, <2>2, <2>7, NextIsOldest
    <3>2. Len(shown') = Len(shown) + 1
      <4>1. shown' = Append(shown, output[1]) /\ output[1] \in 1 .. MaxPosts
        <5>1. output[1] \in 0 .. MaxPosts
          BY <1>0, <2>1, <2>2, HeadIn
        <5>2. output[1] \in 1 .. MaxPosts
          BY <2>7, <5>1, Caps
        <5>3. Head(output) # 0 /\ Head(output) = output[1]
          BY <2>2, <2>7
        <5> QED
          BY <2>1, <5>2, <5>3
      <4> QED
        BY <1>0, <4>1, AppendIndex
    <3>3. ASSUME NEW i \in 1 .. Len(output'), output'[i] # 0
          PROVE  /\ output'[i] > Len(shown') /\ output'[i] <= Arrived'
                 /\ \A n \in (Len(shown') + 1) .. output'[i] : Waits(n)'
      <4>1. i + 1 \in 1 .. Len(output) /\ output'[i] = output[i + 1] /\ output'[i] \in Nat
        BY <1>0, <2>2
      <4>2. /\ output'[i] <= Arrived
            /\ \A n \in (Len(shown) + 1) .. output'[i] : Waits(n)
        BY <1>1, <2>1, <3>3, <4>1 DEF Dense
      <4>3. output[1] < output'[i]
        BY <1>1, <2>1, <2>2, <2>7, <3>3, <4>1 DEF Sorted
      <4>4. ASSUME NEW n \in (Len(shown') + 1) .. output'[i] PROVE Waits(n)'
        BY <1>0, <2>5, <3>1, <3>2, <4>1, <4>2, <4>4
      <4> QED
        BY <1>0, <2>3, <3>1, <3>2, <4>1, <4>2, <4>3, <4>4
    <3>4. Dense'
      BY <3>3 DEF Dense
    <3>5. Full'
      BY <1>0, <1>1, <1>2, <2>1, <2>3, <2>5, <3>1, <3>2 DEF Full
    <3>6. Len(shown') <= Arrived'
      BY <1>0, <2>3, <3>1, <3>2
    <3> QED
      BY <1>1, <2>1, <2>2, <2>4, <2>7, <3>4, <3>5, <3>6
  <2> QED
    BY <2>6, <2>7
(* The channel is dropped with its reader.                                 *)
<1>4. CASE /\ UNCHANGED <<shown, got>> /\ output' = <<>> /\ displaying' = FALSE
           /\ recvPc' \in {recvPc, "ended"}
  <2>1. \A i \in 1 .. Len(output') : output'[i] = 0
    BY <1>4
  <2>2. Arrived' >= Arrived /\ Arrived' \in Nat
    BY <1>0, <1>1, <1>4 DEF Arrived
  <2> QED
    BY <1>0, <1>1, <1>2, <1>4, <2>1, <2>2
(* recv_msg puts the packet in hand behind the others.                     *)
<1>5. CASE ShowReceived /\ displaying /\ UNCHANGED <<shown, displaying>> /\ output' = Append(output, got)
  <2>1. recvPc = "show" /\ recvPc' = "recv" /\ got' = got
    BY <1>5 DEF ShowReceived
  <2>2. Arrived = got - 1 /\ Arrived' = got /\ got > 0
    BY <1>1, <2>1 DEF Arrived
  <2>3. got \in 0 .. MaxPosts
    BY Caps DEF TypeOK
  <2>4. /\ Len(output') = Len(output) + 1 /\ output'[Len(output) + 1] = got
        /\ \A i \in 1 .. Len(output) : output'[i] = output[i]
    BY <1>0, <1>5, <2>3, AppendIndex
  <2>5. \A n : Waits(n) \/ n = got => Waits(n)'
    BY <1>0, <2>4 DEF Waits
  <2>6. \A i \in 1 .. Len(output) : output[i] < got
    BY <1>0, <1>1, <1>5, <2>2 DEF Dense
  <2>7. Sorted'
    <3> SUFFICES ASSUME NEW i \in 1 .. Len(output'), NEW j \in 1 .. Len(output'), i < j,
                        output'[i] # 0, output'[j] # 0
                 PROVE  output'[i] < output'[j]
      BY DEF Sorted
    <3>1. i \in 1 .. Len(output) /\ output'[i] = output[i]
      BY <1>0, <2>4
    <3>2. CASE j \in 1 .. Len(output)
      BY <1>0, <1>1, <1>5, <2>4, <3>1, <3>2 DEF Sorted
    <3>3. CASE j = Len(output) + 1
      BY <1>0, <2>4, <2>6, <3>1, <3>3
    <3> QED
      BY <1>0, <2>4, <3>2, <3>3
  <2>8. \A n \in (Len(shown) + 1) .. got : Waits(n)'
    BY <1>0, <1>1, <1>5, <2>1, <2>2, <2>5 DEF Full
  <2>9. Dense'
    BY <1>0, <1>1, <1>5, <2>2, <2>4, <2>5, <2>6, <2>8 DEF Dense
  <2>10. Full'
    BY <1>5, <2>1, <2>2, <2>8 DEF Full
  <2> QED
    BY <1>0, <1>1, <1>5, <2>1, <2>2, <2>7, <2>9, <2>10
(* Anything else puts a message of the client there, or nothing.           *)
<1>6. CASE /\ UNCHANGED <<shown, displaying>> /\ ~(ShowReceived /\ displaying)
           /\ output' = output \/ output' = Append(output, 0)
  <2>1. /\ Len(output') >= Len(output) /\ Len(output') \in Nat
        /\ \A i \in 1 .. Len(output) : output'[i] = output[i]
        /\ \A i \in 1 .. Len(output') : i \in 1 .. Len(output) \/ output'[i] = 0
    <3>1. CASE output' = output
      BY <1>0, <3>1
    <3>2. CASE output' = Append(output, 0)
      <4>1. 0 \in 0 .. MaxPosts
        BY Caps
      <4> QED
        BY <1>0, <3>2, <4>1, AppendIndex
    <3> QED
      BY <1>6, <3>1, <3>2
  <2>2. \A n : Waits(n) => Waits(n)'
    BY <1>0, <2>1 DEF Waits
  <2>3. /\ Arrived' >= Arrived /\ Arrived' \in Nat
        /\ recvPc' = "show" => got' > 0
        /\ recvPc' = "none" => recvPc = "none"
        /\ displaying /\ recvPc' \in {"recv", "show"} =>
             (recvPc \in {"recv", "show"} /\ Arrived' = Arrived) \/ Arrived' = 0
    BY <1>0, <1>1, <1>6, ReceiveFrame DEF SendNick, PromptLost, Spawn, TakeResponse, RuntimeDrop,
       Receive, ShowReceived, ReceiveFails, ReceiveReturns, ReceiveCancelled, Arrived,
       TasksInv, Early, Asking
  <2>4. displaying => Sorted'
    BY <1>0, <1>1, <2>1 DEF Sorted
  <2>5. displaying => Dense'
    BY <1>0, <1>1, <1>2, <1>6, <2>1, <2>2, <2>3 DEF Dense
  <2>6. displaying => Full'
    BY <1>0, <1>1, <1>2, <1>6, <2>2, <2>3 DEF Full
  <2> QED
    BY <1>0, <1>1, <1>2, <1>6, <2>1, <2>3, <2>4, <2>5, <2>6
<1> QED
  <2>1. ShowReceived /\ displaying => output' = Append(output, got) /\ UNCHANGED <<shown, displaying>>
    BY DEF ShowReceived, Display
  <2> QED
    BY <1>3, <1>4, <1>5, <1>6, <2>1, OutputSteps

-----------------------------------------------------------------------------
(* The inductive invariant.                                                *)
LEMMA ClientInvariant == Spec => []ClientInv
<1>1. ClientInv /\ [Next]_vars => ClientInv'
  BY TypeStep, TasksStep, PromptStep, LinesStep, WholeStep, ScreenStep DEF ClientInv
<1> QED
  BY InitClient, <1>1, PTL DEF Spec

(* Every variable of the client stays in its range: no channel holds more  *)
(* than its capacity, and a line is at hand wherever one is written.       *)
THEOREM ClientTyped == Spec => []TypeOK
<1>1. ClientInv => TypeOK
  BY DEF ClientInv
<1> QED
  BY ClientInvariant, <1>1, PTL

(* The request for the nick is neither lost nor outlived: whoever awaits   *)
(* it, client_commands has it or will get it; no request is left to        *)
(* swallow a line of the chat; and after a lost prompt nothing more is     *)
(* typed.  What was queued before the prompt was lost is still written     *)
(* (handshake, client_commands).                                           *)
THEOREM NickPromptIsAccountedFor == Spec => []NickPromptAccounting
<1>1. ClientInv => NickPromptAccounting
  BY DEF ClientInv, PromptInv, TypeOK, NickPromptAccounting, Asking
<1> QED
  BY ClientInvariant, <1>1, PTL

(* No line that lost its start is ever written as a text of the chat.      *)
THEOREM OnlyWholeLinesAreWritten == Spec => []WireIsWhole
<1>1. ClientInv => WireIsWhole
  BY DEF ClientInv, WholeInv, WireIsWhole
<1> QED
  BY ClientInvariant, <1>1, PTL

-----------------------------------------------------------------------------
(* The way to the server is a queue: a line leaves it only by being        *)
(* written, in its turn.                                                   *)
LEMMA ToServerStep == ClientInv /\ [Next]_vars => [ToServer!Next]_(ToServer!vars)
<1> SUFFICES ASSUME ClientInv, [Next]_vars PROVE [ToServer!Next]_(ToServer!vars)
  OBVIOUS
<1> USE DEF ToServer!Next, ToServer!vars, ToServer!Write, ToServer!Deliver, ToServer!Stop
<1>0. TypeOK /\ TasksInv /\ LinesInv
  BY DEF ClientInv
<1>1. ASSUME NEW kind \in Typed, TypeLine(kind) PROVE [ToServer!Next]_(ToServer!vars)
  <2>1. UNCHANGED <<inPc, wire>> /\ (meant' = meant \/ meant' = meant + 1)
    BY <1>1 DEF TypeLine, inVars
  <2> QED
    BY <2>1
<1>2. CASE WriteLine
  <2>1. /\ inPc = "writing" /\ inPc' = "recv" /\ wire' = Append(wire, sending.n)
        /\ meant' = meant
    BY <1>2 DEF WriteLine, stdinVars
  <2>2. sending.n = Len(wire) + 1 /\ Len(wire) + 1 + Len(input) <= meant
    BY <1>0, <2>1 DEF LinesInv, Writing, Taken, Queued
  <2>3. Len(wire) < meant
    BY <1>0, <2>2 DEF TypeOK
  <2> QED
    BY <2>1, <2>2, <2>3
<1>3. CASE UNCHANGED <<wire, meant>>
  <2>1. inPc = "ended" => inPc' = "ended"
    BY <1>0, InputFrame DEF SendNick, PromptLost, RuntimeDrop, TakeLine, WriteLine, WriteFails,
       InputReturns, InputCancelled, Asking, TasksInv
  <2>2. (inPc = "ended") = (inPc' = "ended") \/ (inPc' = "ended") = TRUE
    BY <2>1
  <2> QED
    BY <1>3, <2>2
<1> QED
  <2>1. UNCHANGED wire \/ WriteLine
    BY InputFrame DEF SendNick, PromptLost, RuntimeDrop, TakeLine, WriteFails, InputReturns,
       InputCancelled
  <2>2. UNCHANGED meant \/ \E kind \in Typed : TypeLine(kind)
    BY StdinFrame DEF TypePiece, TakeRequest
  <2>3. WriteLine => UNCHANGED meant
    BY DEF WriteLine, stdinVars
  <2> QED
    BY <1>1, <1>2, <1>3, <2>1, <2>2, <2>3

(* The client implements the queue from the keyboard to the server: lines  *)
(* arrive in the order in which they were typed, each once, none skipped.  *)
THEOREM LinesGoInOrder == Spec => LinesInOrder
<1>1. Init => ToServer!Init
  BY DEF Init, ToServer!Init
<1> QED
  BY <1>1, ClientInvariant, ToServerStep, PTL DEF Spec, LinesInOrder, ToServer!Spec

(* The way to the screen is a queue as well.                               *)
LEMMA ToDisplayStep == ClientInv /\ [Next]_vars => [ToDisplay!Next]_(ToDisplay!vars)
<1> SUFFICES ASSUME ClientInv, [Next]_vars PROVE [ToDisplay!Next]_(ToDisplay!vars)
  OBVIOUS
<1> USE DEF ToDisplay!Next, ToDisplay!vars, ToDisplay!Write, ToDisplay!Deliver, ToDisplay!Stop
<1>0. /\ TypeOK /\ ScreenInv
      /\ output \in Seq(0 .. MaxPosts) /\ shown \in Seq(1 .. MaxPosts)
      /\ got \in 0 .. posted /\ posted \in Nat /\ Len(shown) \in Nat
  BY Caps DEF ClientInv, TypeOK
<1>1. CASE Show
  <2>1. /\ displaying /\ displaying' = displaying /\ posted' = posted /\ output # <<>>
        /\ shown' = (IF Head(output) = 0 THEN shown ELSE Append(shown, Head(output)))
    BY <1>1 DEF Show, srvVars
  <2>2. Head(output) = output[1] /\ output[1] \in Nat
    <3>1. Head(output) \in 0 .. MaxPosts
      BY <1>0, <2>1, HeadIn
    <3> QED
      BY <1>0, <2>1, <3>1, TailIndex
  <2>3. CASE output[1] = 0
    BY <2>1, <2>2, <2>3
  <2>4. CASE output[1] # 0
    <3>1. output[1] = Len(shown) + 1 /\ output[1] <= Arrived
      BY <1>0, <2>1, <2>2, <2>4, NextIsOldest
    <3>2. Len(shown) < posted
      BY <1>0, <3>1 DEF Arrived
    <3> QED
      BY <2>1, <2>2, <2>4, <3>1, <3>2
  <2> QED
    BY <2>3, <2>4
<1>2. CASE UNCHANGED shown
  <2>1. UNCHANGED displaying \/ displaying' = FALSE
    BY DisplayFrame DEF Show, DisplayEnds, RuntimeDrop, ShowReceived
  <2>2. UNCHANGED posted \/ (posted' = posted + 1 /\ UNCHANGED displaying)
    BY <1>0, ServerFrame DEF ServerDecides, ServerPosts, ServerCloses, outVars
  <2> QED
    BY <1>2, <2>1, <2>2
<1> QED
  BY <1>1, <1>2, OutputSteps

(* The client implements the queue from the socket to the screen: what the *)
(* server posts is displayed in its order, none doubled and none left out. *)
THEOREM PacketsAreShownInOrder == Spec => ShownInOrder
<1>1. Init => ToDisplay!Init
  BY DEF Init, ToDisplay!Init
<1> QED
  BY <1>1, ClientInvariant, ToDisplayStep, PTL DEF Spec, ShownInOrder, ToDisplay!Spec
=============================================================================
