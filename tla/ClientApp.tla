----------------------------- MODULE ClientApp ------------------------------
(***************************************************************************)
(* The client process of async-chat: the tasks `run`, `client_commands`,   *)
(* `display_output`, `handling_sigint` and, after the handshake,           *)
(* `handling_stdin_input` and `recv_msg`, with the channels and the        *)
(* cancellation token that join them (client_lib.rs, bin/client.rs).  One  *)
(* action is what a task does between two points at which it awaits.       *)
(*                                                                         *)
(* Abstracted: the packets of the key exchange, which succeeds or fails    *)
(* (Handshake), and the bytes of the stream (PacketStream).  The server is *)
(* what the client sees of it.  What the client itself has to say is 0 in  *)
(* the output channel, a packet of the server is its number there.         *)
(***************************************************************************)
EXTENDS Naturals, Sequences

CONSTANTS
  InputCap,   \* capacity of the input channel (10)
  OutputCap,  \* capacity of the output channel (10)
  Typed,      \* bound: the kinds of lines the user types, a subset of Lines
  MaxTyped,   \* bound: lines typed
  MaxPosts    \* bound: packets of the server

\* A text, one too long for a packet, &LIST, &COMM, an unknown command; lines
\* of blanks are dropped by client_commands and left out.
Lines == {"text", "huge", "list", "comm", "bad"}

ASSUME ClientConstants ==
  /\ {InputCap, OutputCap} \subseteq Nat \ {0}
  /\ {MaxTyped, MaxPosts} \subseteq Nat
  /\ Typed \subseteq Lines

\* A line meant for the server, numbered in the order in which it was typed;
\* it is whole unless its start was lost.
InputMsg == [n : Nat \ {0}, fits : BOOLEAN, whole : BOOLEAN]

VARIABLES
  token,      \* the CancellationToken has been cancelled
  displaying, \* `display_output` runs: the output channel has its reader
  output,     \* the output channel
  shown,      \* the packets of the server that were displayed
  runPc,      \* `run`: where it is (see TypeOK)
  inPc,       \* `handling_stdin_input`: "none" | "recv" | "writing" | "failing" | "ended"
  sending,    \* the line it is writing to the socket
  wire,       \* numbers of the lines written to the server
  recvPc,     \* `recv_msg`: "none" | "recv" | "show" | "failing" | "ended"
  ccPc,       \* `client_commands`: "select" | "notice" | "send" | "failing" | "returned" | "ended"
  line,       \* the line it is sending to the input channel
  input,      \* the input channel
  prompt,     \* the request for the nick: "none" | "queue" | "held" | "gone"
  answer,     \* its oneshot: "none", or whether the line sent "fits" or is "huge"
  typed,      \* number of lines typed
  meant,      \* number of those that were meant for the server
  part,       \* read_line has read a piece of the line that is being typed
  torn,       \* a piece of the line that is being typed was lost
  serverPc,   \* the server: "handshake" | "serving" | "closed"
  posted,     \* packets it has sent since the key exchange
  got         \* how many of them the client has received

outVars   == <<displaying, output, shown>>
runVars   == <<runPc>>
inVars    == <<inPc, sending, wire>>
stdinVars == <<typed, meant, part, torn>>
ccVars    == <<ccPc, line>>
askVars   == <<prompt, answer>>
srvVars   == <<serverPc, posted>>
vars == <<token, outVars, runVars, inVars, recvPc, ccVars, input, askVars, stdinVars,
          srvVars, got>>

TypeOK ==
  /\ {token, displaying, part, torn} \subseteq BOOLEAN
  /\ output \in Seq(0 .. MaxPosts) /\ Len(output) <= OutputCap
  /\ shown \in Seq(1 .. MaxPosts) /\ wire \in Seq(1 .. MaxTyped)
  /\ runPc \in {"connect", "exchange", "welcome", "asking", "refused", "join",
                "failing", "ended"}
  /\ inPc \in {"none", "recv", "writing", "failing", "ended"}
  /\ recvPc \in {"none", "recv", "show", "failing", "ended"}
  /\ ccPc \in {"select", "notice", "send", "failing", "returned", "ended"}
  /\ {sending, line} \subseteq InputMsg \cup {<<>>}
  /\ inPc = "writing" => sending # <<>>
  /\ ccPc = "send" => line # <<>>
  /\ input \in Seq(InputMsg) /\ Len(input) <= InputCap
  /\ prompt \in {"none", "queue", "held", "gone"}
  /\ answer \in {"none", "fits", "huge"}
  /\ typed \in 0 .. MaxTyped /\ meant \in 0 .. typed
  /\ serverPc \in {"handshake", "serving", "closed"}
  /\ posted \in 0 .. MaxPosts /\ got \in 0 .. posted

Init ==
  /\ token = FALSE
  /\ displaying = TRUE /\ output = <<>> /\ shown = <<>>
  /\ runPc = "connect"
  /\ inPc = "none" /\ sending = <<>> /\ wire = <<>>
  /\ recvPc = "none"
  /\ ccPc = "select" /\ line = <<>> /\ input = <<>>
  /\ prompt = "none" /\ answer = "none"
  /\ typed = 0 /\ meant = 0 /\ part = FALSE /\ torn = FALSE
  /\ serverPc = "handshake" /\ posted = 0 /\ got = 0

-----------------------------------------------------------------------------
(* The display.                                                            *)

\* Mutant: a message that finds the channel full is dropped (try_send).
DropsWhenFull(item) ==
  output' = IF displaying /\ Len(output) < OutputCap THEN Append(output, item) ELSE output

\* A send to the output channel waits for room; it fails at once, and nothing
\* is queued, when the display has ended.
Display(item) ==
  /\ displaying => Len(output) < OutputCap
  /\ output' = IF displaying THEN Append(output, item) ELSE output

\* `display_output`.
Show ==
  /\ displaying /\ output # <<>>
  /\ output' = Tail(output)
  /\ shown' = IF Head(output) = 0 THEN shown ELSE Append(shown, Head(output))
  /\ UNCHANGED <<token, displaying, runVars, inVars, recvPc, ccVars, input, askVars,
                 stdinVars, srvVars, got>>

\* It leaves its loop with the token, whatever is still in the channel.
DisplayEnds ==
  /\ displaying /\ token
  /\ displaying' = FALSE /\ output' = <<>>
  /\ UNCHANGED <<token, shown, runVars, inVars, recvPc, ccVars, input, askVars, stdinVars,
                 srvVars, got>>

\* `handling_sigint`.
Sigint ==
  /\ ~token /\ runPc # "ended"
  /\ token' = TRUE
  /\ UNCHANGED <<outVars, runVars, inVars, recvPc, ccVars, input, askVars, stdinVars,
                 srvVars, got>>

-----------------------------------------------------------------------------
(* `client_commands`.                                                      *)

\* The requester awaits the oneshot.
Asking == runPc = "asking" /\ answer = "none"

\* The input channel has lost its reader.
InputGone == inPc = "ended" \/ (inPc = "none" /\ runPc = "ended")

\* A part of a line arrives, as it does from a pipe.
TypePiece ==
  /\ ccPc = "select" /\ ~part
  /\ part' = TRUE
  /\ UNCHANGED <<token, outVars, runVars, inVars, recvPc, ccVars, input, askVars, typed,
                 meant, torn, srvVars, got>>

\* Mutant: &COMM uses up the request, if there is one.
CommTakesTheRequest(kind) == prompt = "held"

\* The request in hand is popped by any line but &COMM.
PopsRequest(kind) == kind # "comm" /\ prompt = "held"

\* Mutant: a request that is pending is popped, and not answered.
AnswersNothing(kind) == FALSE

\* The line is what a live request has waited for.
Answers(kind) == kind # "comm" /\ prompt = "held" /\ Asking

\* A line is complete: it answers the request in hand; if there is none, or
\* only one whose requester is gone, it is for the server.
TypeLine(kind) ==
  /\ ccPc = "select" /\ typed < MaxTyped
  /\ typed' = typed + 1 /\ part' = FALSE /\ torn' = FALSE
  /\ prompt' = IF PopsRequest(kind) THEN "gone" ELSE prompt
  /\ IF Answers(kind)
     THEN /\ answer' = (IF kind = "huge" THEN "huge" ELSE "fits")
          /\ UNCHANGED <<ccVars, meant>>
     ELSE IF kind \in {"comm", "bad"}
     THEN ccPc' = "notice" /\ UNCHANGED <<line, meant, answer>>
     ELSE /\ ccPc' = "send"
          /\ meant' = meant + 1
          /\ line' = [n |-> meant + 1, fits |-> kind # "huge", whole |-> ~torn]
          /\ UNCHANGED answer
  /\ UNCHANGED <<token, outVars, runVars, inVars, recvPc, input, srvVars, got>>

\* The future of read_line is dropped, with the piece of a line it has read.
TakeRequest ==
  /\ ccPc = "select" /\ prompt = "queue"
  /\ prompt' = "held"
  /\ torn' = (torn \/ part) /\ part' = FALSE
  /\ UNCHANGED <<token, outVars, runVars, inVars, recvPc, ccVars, input, answer, typed,
                 meant, srvVars, got>>

\* The list of commands, or the error of InputMsg::build.
Notice ==
  /\ ccPc = "notice"
  /\ Display(0)
  /\ ccPc' = IF displaying THEN "select" ELSE "failing"
  /\ UNCHANGED <<token, displaying, shown, runVars, inVars, recvPc, line, input, askVars,
                 stdinVars, srvVars, got>>

\* Mutant: the channel takes one line more than its capacity.
OneTooMany == Len(input) <= InputCap /\ input' = Append(input, line)

\* A send waits for room in the channel.
Enqueue == Len(input) < InputCap /\ input' = Append(input, line)

SendLine ==
  /\ ccPc = "send"
  /\ IF InputGone THEN ccPc' = "failing" /\ UNCHANGED input
                  ELSE ccPc' = "select" /\ Enqueue
  /\ UNCHANGED <<token, outVars, runVars, inVars, recvPc, line, askVars, stdinVars,
                 srvVars, got>>

\* read_line fails, or all senders of requests are gone.
StdinFails ==
  /\ ccPc = "select"
  /\ ccPc' = "failing"
  /\ UNCHANGED <<token, outVars, runVars, inVars, recvPc, line, input, askVars, stdinVars,
                 srvVars, got>>

\* The requests, and the channel they come by, are dropped with the task.
DropRequests == prompt' = IF prompt \in {"queue", "held"} THEN "gone" ELSE prompt

\* The error is displayed; all that client_commands holds is dropped before its
\* wrapper cancels the token.
CommandsReturn ==
  /\ ccPc = "failing"
  /\ Display(0)
  /\ ccPc' = "returned" /\ DropRequests
  /\ UNCHANGED <<token, displaying, shown, runVars, inVars, recvPc, line, input, answer,
                 stdinVars, srvVars, got>>

CommandsCancel ==
  /\ ccPc = "returned"
  /\ ccPc' = "ended" /\ token' = TRUE
  /\ UNCHANGED <<outVars, runVars, inVars, recvPc, line, input, askVars, stdinVars,
                 srvVars, got>>

CommandsCancelled ==
  /\ token /\ ccPc \notin {"returned", "ended"}
  /\ ccPc' = "ended" /\ DropRequests
  /\ UNCHANGED <<token, outVars, runVars, inVars, recvPc, line, input, answer, stdinVars,
                 srvVars, got>>

-----------------------------------------------------------------------------
(* `run`, with the client's part of the handshake.                         *)

RunGoto(state) == runPc' = state

Connect ==
  /\ runPc = "connect"
  /\ RunGoto("exchange") \/ RunGoto("failing")
  /\ UNCHANGED <<token, outVars, inVars, recvPc, ccVars, input, askVars, stdinVars,
                 srvVars, got>>

\* `key_exchange`.
Exchange ==
  /\ runPc = "exchange"
  /\ RunGoto("welcome") \/ RunGoto("failing")
  /\ UNCHANGED <<token, outVars, inVars, recvPc, ccVars, input, askVars, stdinVars,
                 srvVars, got>>

\* The prompt is displayed, then the request sent; the channel of requests has
\* room for the only one there is.
Welcome ==
  /\ runPc = "welcome"
  /\ Display(0)
  /\ IF displaying /\ ccPc \notin {"returned", "ended"}
     THEN RunGoto("asking") /\ prompt' = "queue"
     ELSE RunGoto("failing") /\ UNCHANGED prompt
  /\ UNCHANGED <<token, displaying, shown, inVars, recvPc, ccVars, input, answer,
                 stdinVars, srvVars, got>>

\* The two tasks of the chat are spawned.
Spawn == RunGoto("join") /\ inPc' = "recv" /\ recvPc' = "recv"

\* The nick is at hand and is written; one too long for a packet fails, and so
\* does the write if the socket is at fault.
SendNick ==
  /\ runPc = "asking" /\ answer # "none"
  /\ \/ answer = "fits" /\ Spawn
     \/ RunGoto("failing") /\ UNCHANGED <<inPc, recvPc>>
  /\ UNCHANGED <<token, outVars, sending, wire, ccVars, input, askVars, stdinVars,
                 srvVars, got>>

\* The oneshot was dropped: the error is displayed, and the handshake is over.
PromptLost ==
  /\ Asking /\ prompt = "gone"
  /\ Display(0)
  /\ IF displaying THEN Spawn ELSE RunGoto("failing") /\ UNCHANGED <<inPc, recvPc>>
  /\ UNCHANGED <<token, displaying, shown, sending, wire, ccVars, input, askVars,
                 stdinVars, srvVars, got>>

\* Mutant: the nick is awaited, and nothing else.
AwaitsTheNick == FALSE

\* A response comes before the nick, or the end of the stream does.
TakeResponse ==
  /\ runPc = "asking"
  /\ IF got < posted THEN RunGoto("refused") /\ got' = got + 1
     ELSE serverPc = "closed" /\ RunGoto("failing") /\ UNCHANGED got
  /\ UNCHANGED <<token, outVars, inVars, recvPc, ccVars, input, askVars, stdinVars,
                 srvVars>>

\* `handles_response`: whatever it is, it is no acceptance.
Refused ==
  /\ runPc = "refused"
  /\ Display(0)
  /\ RunGoto("failing")
  /\ UNCHANGED <<token, displaying, shown, inVars, recvPc, ccVars, input, askVars,
                 stdinVars, srvVars, got>>

\* The error is displayed, `run` returns and `run_wrapper` cancels the token.
RunFails ==
  /\ runPc = "failing"
  /\ Display(0)
  /\ RunGoto("ended") /\ token' = TRUE
  /\ UNCHANGED <<displaying, shown, inVars, recvPc, ccVars, input, askVars, stdinVars,
                 srvVars, got>>

Joined ==
  /\ runPc = "join" /\ inPc = "ended" /\ recvPc = "ended"
  /\ RunGoto("ended") /\ token' = TRUE
  /\ UNCHANGED <<outVars, inVars, recvPc, ccVars, input, askVars, stdinVars, srvVars, got>>

\* Mutant: `run` joins its tasks even when the token is cancelled.
JoinsAnyway ==
  /\ token /\ runPc \notin {"join", "ended"}
  /\ RunGoto("ended")
  /\ UNCHANGED <<token, outVars, inVars, recvPc, ccVars, input, askVars, stdinVars,
                 srvVars, got>>

\* `run_wrapper` returns as soon as the token is cancelled, wherever `run` is.
RunCancelled ==
  /\ token /\ runPc # "ended"
  /\ RunGoto("ended")
  /\ UNCHANGED <<token, outVars, inVars, recvPc, ccVars, input, askVars, stdinVars,
                 srvVars, got>>

\* `main` has returned: the runtime drops the tasks that are left.
RuntimeDrop ==
  /\ runPc = "ended"
  /\ ccPc # "ended" \/ displaying \/ inPc # "ended" \/ recvPc # "ended"
  /\ ccPc' = "ended" /\ inPc' = "ended" /\ recvPc' = "ended"
  /\ displaying' = FALSE /\ output' = <<>>
  /\ DropRequests
  /\ UNCHANGED <<token, shown, runVars, sending, wire, line, input, answer, stdinVars,
                 srvVars, got>>

-----------------------------------------------------------------------------
(* `handling_stdin_input`.                                                 *)

TakeLine ==
  /\ inPc = "recv" /\ input # <<>>
  /\ inPc' = "writing" /\ sending' = Head(input) /\ input' = Tail(input)
  /\ UNCHANGED <<token, outVars, runVars, wire, recvPc, ccVars, askVars, stdinVars,
                 srvVars, got>>

\* `InputMsg::action`.  The write lasts as long as the server does not read.
WriteLine ==
  /\ inPc = "writing" /\ sending.fits
  /\ inPc' = "recv" /\ wire' = Append(wire, sending.n)
  /\ UNCHANGED <<token, outVars, runVars, sending, recvPc, ccVars, input, askVars,
                 stdinVars, srvVars, got>>

\* Mutant: a line that cannot be written is displayed as an error and skipped.
SkipsTheLine ==
  /\ inPc = "writing"
  /\ Display(0)
  /\ inPc' = "recv"
  /\ UNCHANGED <<token, displaying, shown, runVars, sending, wire, recvPc, ccVars, input,
                 askVars, stdinVars, srvVars, got>>

\* Too long for a packet, or the socket fails.
WriteFails ==
  /\ inPc = "writing"
  /\ inPc' = "failing"
  /\ UNCHANGED <<token, outVars, runVars, sending, wire, recvPc, ccVars, input, askVars,
                 stdinVars, srvVars, got>>

InputReturns ==
  /\ inPc = "failing"
  /\ Display(0)
  /\ inPc' = "ended" /\ token' = TRUE
  /\ UNCHANGED <<displaying, shown, runVars, sending, wire, recvPc, ccVars, input, askVars,
                 stdinVars, srvVars, got>>

InputCancelled ==
  /\ token /\ inPc \in {"recv", "writing", "failing"}
  /\ inPc' = "ended"
  /\ UNCHANGED <<token, outVars, runVars, sending, wire, recvPc, ccVars, input, askVars,
                 stdinVars, srvVars, got>>

-----------------------------------------------------------------------------
(* `recv_msg`.                                                             *)

Receive ==
  /\ recvPc = "recv" /\ got < posted
  /\ got' = got + 1 /\ recvPc' = "show"
  /\ UNCHANGED <<token, outVars, runVars, inVars, ccVars, input, askVars, stdinVars,
                 srvVars>>

ShowReceived ==
  /\ recvPc = "show"
  /\ Display(got)
  /\ IF displaying THEN recvPc' = "recv" /\ UNCHANGED token
                   ELSE recvPc' = "ended" /\ token' = TRUE
  /\ UNCHANGED <<displaying, shown, runVars, inVars, ccVars, input, askVars, stdinVars,
                 srvVars, got>>

\* The end of the stream; a reset may come before the last packets are read.
ReceiveFails ==
  /\ recvPc = "recv" /\ serverPc = "closed"
  /\ recvPc' = "failing"
  /\ UNCHANGED <<token, outVars, runVars, inVars, ccVars, input, askVars, stdinVars,
                 srvVars, got>>

\* Mutant: the error is displayed, and the loop goes on.
RetriesForEver ==
  /\ recvPc = "failing"
  /\ Display(0)
  /\ recvPc' = "recv"
  /\ UNCHANGED <<token, displaying, shown, runVars, inVars, ccVars, input, askVars,
                 stdinVars, srvVars, got>>

ReceiveReturns ==
  /\ recvPc = "failing"
  /\ Display(0)
  /\ recvPc' = "ended" /\ token' = TRUE
  /\ UNCHANGED <<displaying, shown, runVars, inVars, ccVars, input, askVars, stdinVars,
                 srvVars, got>>

ReceiveCancelled ==
  /\ token /\ recvPc \in {"recv", "show", "failing"}
  /\ recvPc' = "ended"
  /\ UNCHANGED <<token, outVars, runVars, inVars, ccVars, input, askVars, stdinVars,
                 srvVars, got>>

-----------------------------------------------------------------------------
(* The server, as far as the client can tell.                              *)

\* The first packet after the key exchange is the nick to the server: the one
\* that was asked for or, when its prompt was lost, the first line written.
NickArrived == inPc # "none" /\ (answer = "fits" \/ wire # <<>>)

\* It admits the client once it has the nick, or gives up the handshake, with
\* a token or without; its timer does not depend on what the client does.
ServerDecides ==
  /\ serverPc = "handshake"
  /\ \/ NickArrived /\ serverPc' = "serving" /\ UNCHANGED posted
     \/ serverPc' = "closed" /\ posted' \in {posted, posted + 1} /\ posted' <= MaxPosts
  /\ UNCHANGED <<token, outVars, runVars, inVars, recvPc, ccVars, input, askVars,
                 stdinVars, got>>

ServerPosts ==
  /\ serverPc = "serving" /\ posted < MaxPosts
  /\ posted' = posted + 1
  /\ UNCHANGED <<token, outVars, runVars, inVars, recvPc, ccVars, input, askVars,
                 stdinVars, serverPc, got>>

ServerCloses ==
  /\ serverPc = "serving"
  /\ serverPc' = "closed"
  /\ UNCHANGED <<token, outVars, runVars, inVars, recvPc, ccVars, input, askVars,
                 stdinVars, posted, got>>

-----------------------------------------------------------------------------
DisplayNext == Show \/ DisplayEnds

CommandsGoOn == Notice \/ SendLine \/ CommandsReturn \/ CommandsCancel

CommandsNext ==
  \/ TypePiece \/ (\E kind \in Typed : TypeLine(kind)) \/ TakeRequest \/ StdinFails
  \/ CommandsGoOn \/ CommandsCancelled

RunGoesOn ==
  \/ Connect \/ Exchange \/ Welcome \/ SendNick \/ PromptLost \/ TakeResponse
  \/ Refused \/ RunFails \/ Joined \/ RunCancelled

InputNext == TakeLine \/ WriteLine \/ WriteFails \/ InputReturns \/ InputCancelled

ReceiveNext ==
  Receive \/ ShowReceived \/ ReceiveFails \/ ReceiveReturns \/ ReceiveCancelled

ServerNext == ServerDecides \/ ServerPosts \/ ServerCloses

Next == DisplayNext \/ Sigint \/ CommandsNext \/ RunGoesOn \/ RuntimeDrop
          \/ InputNext \/ ReceiveNext \/ ServerNext

Spec == Init /\ [][Next]_vars

(* Fairness: a task that can go on is polled (WF), and one that waits for  *)
(* room in a channel gets its turn (SF).  The key exchange ends            *)
(* (Handshake), the server decides about the nick by its timer.  The user, *)
(* SIGINT, a server that serves and a write to it owe nothing.             *)
Fairness ==
  /\ WF_vars(DisplayNext) /\ WF_vars(RuntimeDrop) /\ WF_vars(ServerDecides)
  /\ SF_vars(RunGoesOn) /\ SF_vars(ReceiveNext)

FairSpec == Spec /\ Fairness

-----------------------------------------------------------------------------
ToServer == INSTANCE PacketQueue WITH
  written <- meant, delivered <- wire, stopped <- inPc = "ended"

(* The lines meant for the server reach it in the order in which they were *)
(* typed, each once and none skipped, lines typed before the nick included;*)
(* after a line that cannot be written, none (client_commands,             *)
(* handling_stdin_input).                                                  *)
LinesInOrder == ToServer!Spec

ToDisplay == INSTANCE PacketQueue WITH
  written <- posted, delivered <- shown, stopped <- ~displaying

(* What the server posts is displayed in its order, none doubled or left   *)
(* out, while the client's own messages go the same way; the shutdown may  *)
(* cut off the end and nothing else (recv_msg, display_output).            *)
ShownInOrder == ToDisplay!Spec

(* The request for the nick is neither lost nor outlived: while it is      *)
(* awaited, client_commands has it or will get it; once the chat has begun *)
(* it is gone, so that no line typed from then on is swallowed as its      *)
(* answer; and a chat that begins with the prompt lost is that of a client *)
(* whose client_commands has returned, so that nothing more is typed into  *)
(* it (handshake, client_commands).                                        *)
NickPromptAccounting ==
  /\ Asking /\ ccPc \notin {"returned", "ended"} => prompt \in {"queue", "held"}
  /\ runPc = "join" => prompt = "gone"
  /\ runPc = "join" /\ answer = "none" => ccPc \in {"returned", "ended"}

(* Although a request that arrives in the middle of a line costs that line *)
(* its start (read_line is dropped by the select!), no such line is ever   *)
(* written to the server as a text: it is the one that answers the request *)
(* (client_commands).                                                      *)
WireIsWhole == inPc = "writing" => sending.whole

(* A cancelled token ends every task of the client, whatever it awaits.    *)
ClientShutdownCompletes ==
  token ~> /\ runPc = "ended" /\ ccPc = "ended" /\ ~displaying
           /\ inPc = "ended" /\ recvPc = "ended"

(* The client's wait for its user ends although it has no timer: the       *)
(* server's token or the end of the stream wakes it (handshake).           *)
NickWaitEnds == runPc = "asking" ~> runPc # "asking"

(* A client does not outlive its connection.                               *)
ServerGoneEndsClient == serverPc = "closed" ~> runPc = "ended"

-----------------------------------------------------------------------------
(* What the program says of the nick, and does not do.                     *)

(* client_lib/handshaking.rs:37, "Type your nickname:": a client is served *)
(* under what its user typed as an answer, not under a line of the chat    *)
(* that was queued before (handshake, the arm in which the prompt is lost).*)
NickIsAnAnswer == serverPc = "serving" => answer = "fits"
=============================================================================
