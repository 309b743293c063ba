----------------------------- MODULE ChatServer -----------------------------
(***************************************************************************)
(* The server process of async-chat: the tasks `run`, `id_record`,         *)
(* `server_commands`, `handling_sigint` and one `connection_handler` per   *)
(* client, with the channels and the cancellation token that join them.    *)
(* One action is what a task does between two points at which it awaits.   *)
(*                                                                         *)
(* Abstracted: what is displayed (a send to the output channel only        *)
(* separates two steps as long as `display_output` runs, and fails once it *)
(* has ended), the texts, and the handshake, which here either succeeds or *)
(* fails with a fatal or a non-fatal error.                                *)
(***************************************************************************)
EXTENDS Naturals, Sequences, Messages

CONSTANTS
  NickOf,          \* [Conns -> nicknames]: what each client types as its nick
  MaxConnections,  \* settings.max_connections
  HandCap,         \* capacity of con_hand_id, handlers and admin to id_record (10)
  RunCap,          \* capacity of run_id_com, run to id_record (10)
  ReqCap,          \* capacity of stdin_req, id_record to server_commands (10)
  RingCap,         \* capacity of the broadcast channel (10, tokio rounds it to 16)
  Typed,           \* bound: the lines the admin types, a subset of Lines
  Sizes,           \* bound: whether the texts of clients fit, a subset of BOOLEAN
  MaxLog,          \* bound: texts are typed while fewer than this many are posted
  MaxAsk           \* bound: &KICK is typed while fewer prompts than this were made

\* What the admin may type, without &COMM (displayed, changes nothing) and
\* without empty lines (dropped): commands, an index, texts short and long.
Lines == {"KICK", "LIST", "ZERO", "TEXT", "LONG"}

ASSUME CapsArePositive ==
  /\ {HandCap, RunCap, ReqCap, RingCap} \subseteq Nat \ {0}
  /\ {MaxConnections, MaxLog, MaxAsk} \subseteq Nat
  /\ Typed \subseteq Lines /\ Sizes \subseteq BOOLEAN

HandMsg == [type : {"ClientLeft", "List"}, addr : Conns]
             \cup [type : {"ServerCommand"}, line : Lines]

VARIABLES
  token,      \* the CancellationToken has been cancelled
  displaying, \* `display_output` runs: the output channel has its reader
  runPc,      \* `run`: "bind" | "accept" | "send" | "ended"
  runConn,    \* the connection `run` is handing to id_record (when "send")
  runIdCom,   \* the channel of NewConnection requests
  idPc,       \* `id_record`: where it is (see TypeOK)
  idConn,     \* the connection whose handshake id_record is awaiting
  cause,      \* why id_record left its loop
  clients,    \* the record of connected clients, a Vec<Client>: their addresses
  conHandId,  \* the channel of ConnHandlerIdRecordMsg
  log,        \* all messages ever sent on the broadcast channel
  handler,    \* [Conns -> state of the connection and of its handler]
  since,      \* [Conns -> length of the log when its receiver subscribed]
  rx,         \* [Conns -> cursor of its receiver]
  written,    \* [Conns -> positions of the log written to the client]
  command,    \* [Conns -> its command channel: "open" | "kick" | "closed"]
  idHand,     \* [Conns -> its reply channel: "open" | "list" | "closed"]
  adminPc,    \* `server_commands`: "select" | "send" | "ended"
  line,       \* the line it is sending to id_record (when "send")
  asked,      \* number of stdin requests made so far; the latest is the live one
  stdinReq,   \* the channel of stdin requests
  requests,   \* requests server_commands has taken from it
  answer      \* the oneshot of the latest request: a line, or "none"

runVars   == <<runPc, runConn, displaying>>
idVars    == <<idPc, idConn, cause, clients>>
roomVars  == <<log, since, rx, written>>
chanVars  == <<command, idHand>>
adminVars == <<adminPc, line, requests>>
askVars   == <<asked, stdinReq, answer>>
vars == <<token, runVars, runIdCom, idVars, conHandId, roomVars, handler,
          chanVars, adminVars, askVars>>

\* Handler states in which the future `connection_handler` exists.
Serving == {"select", "writing", "list", "listwait"}
Leaving == {"lagged", "broken", "hmac", "kicked"}
Alive   == Serving \cup Leaving
HandlerStates ==
  {"absent", "accepted", "queued", "dropped", "handshake", "refused", "fatal",
   "done"} \cup Alive

FlagsTypeOK == token \in BOOLEAN /\ displaying \in BOOLEAN

TasksTypeOK ==
  /\ runPc \in {"bind", "accept", "send", "ended"}
  /\ runConn \in Conns \cup {Master}
  /\ runPc = "send" => runConn \in Conns
  /\ idPc \in {"start", "select", "handshake", "spawned", "ask", "await",
               "failing", "ended", "panicked"}
  /\ idConn \in Conns \cup {Master}
  /\ idPc \in {"handshake", "spawned"} => idConn \in Conns
  /\ cause \in {"none", "Fatal", "NonFatal", "NoReceiver", "Channel"}
  /\ adminPc \in {"select", "send", "ended"}
  /\ line \in Lines \cup {"none"}
  /\ adminPc = "send" => line \in Lines
  /\ asked \in Nat
  /\ answer \in Lines \cup {"none"}

QueuesTypeOK ==
  /\ runIdCom \in Seq(Conns) /\ Len(runIdCom) <= RunCap
  /\ clients \in Seq(Conns)
  /\ conHandId \in Seq(HandMsg) /\ Len(conHandId) <= HandCap
  /\ log \in Seq(Message)
  /\ stdinReq \in Seq(Nat) /\ Len(stdinReq) <= ReqCap
  /\ requests \in Seq(Nat)

HandlersTypeOK ==
  /\ handler \in [Conns -> HandlerStates]
  /\ since \in [Conns -> Nat]
  /\ rx \in [Conns -> Nat]
  /\ written \in [Conns -> SUBSET Nat]
  /\ command \in [Conns -> {"open", "kick", "closed"}]
  /\ idHand \in [Conns -> {"open", "list", "closed"}]

TypeOK == FlagsTypeOK /\ TasksTypeOK /\ QueuesTypeOK /\ HandlersTypeOK

Init ==
  /\ token = FALSE /\ displaying = TRUE
  /\ runPc = "bind" /\ runConn = Master
  /\ runIdCom = <<>>
  /\ idPc = "start" /\ idConn = Master /\ cause = "none" /\ clients = <<>>
  /\ conHandId = <<>>
  /\ log = <<>>
  /\ handler = [c \in Conns |-> "absent"]
  /\ since = [c \in Conns |-> 0]
  /\ rx = [c \in Conns |-> 0]
  /\ written = [c \in Conns |-> {}]
  /\ command = [c \in Conns |-> "open"]
  /\ idHand = [c \in Conns |-> "open"]
  /\ adminPc = "select" /\ line = "none" /\ requests = <<>>
  /\ asked = 0 /\ stdinReq = <<>> /\ answer = "none"

\* The receiving ends of run_id_com and con_hand_id live as long as id_record.
IdRecordGone == idPc \in {"ended", "panicked"}

\* Mutant: a channel that takes one message more than its capacity.
HasRoomForOneMore(channel, capacity) == Len(channel) <= capacity

\* A send waits for room in the channel.
HasRoom(channel, capacity) == Len(channel) < capacity

\* The connections that hold a receiver of the broadcast channel.
Receivers == {c \in Conns : handler[c] \in Alive \cup {"handshake"}}

Goto(c, state) == handler' = [handler EXCEPT ![c] = state]

-----------------------------------------------------------------------------
(* `run` and `handling_sigint` (server_lib.rs, graceful_shutdown.rs).      *)

BindListener ==
  /\ runPc = "bind"
  /\ \/ runPc' = "accept" /\ UNCHANGED token
     \/ runPc' = "ended" /\ token' = TRUE
  /\ UNCHANGED <<displaying, runConn, runIdCom, idVars, conHandId, roomVars, handler,
                 chanVars, adminVars, askVars>>

Accept(c) ==
  /\ runPc = "accept"
  /\ handler[c] = "absent"
  /\ runPc' = "send" /\ runConn' = c
  /\ Goto(c, "accepted")
  /\ UNCHANGED <<token, displaying, runIdCom, idVars, conHandId, roomVars, chanVars,
                 adminVars, askVars>>

\* Mutant: the error is logged, and `run` goes on accepting.
GoesOnAccepting ==
  /\ runPc = "send" /\ runPc' = "accept" /\ runConn' = Master
  /\ IF IdRecordGone THEN UNCHANGED <<runIdCom, handler>>
     ELSE /\ HasRoom(runIdCom, RunCap)
          /\ runIdCom' = Append(runIdCom, runConn) /\ Goto(runConn, "queued")
  /\ UNCHANGED <<token, displaying, idVars, conHandId, roomVars, chanVars, adminVars,
                 askVars>>

\* A send fails when the receiver is gone.
SendNewConnection ==
  /\ runPc = "send"
  /\ IF IdRecordGone
     THEN /\ runPc' = "ended" /\ token' = TRUE
          /\ UNCHANGED <<runIdCom, handler>>
     ELSE /\ HasRoom(runIdCom, RunCap)
          /\ runIdCom' = Append(runIdCom, runConn)
          /\ runPc' = "accept"
          /\ Goto(runConn, "queued")
          /\ UNCHANGED token
  /\ runConn' = Master
  /\ UNCHANGED <<displaying, idVars, conHandId, roomVars, chanVars, adminVars,
                 askVars>>

\* `run_wrapper` returns as soon as the token is cancelled, wherever `run` is.
RunCancelled ==
  /\ token /\ runPc # "ended"
  /\ runPc' = "ended"
  /\ UNCHANGED <<token, displaying, runConn, runIdCom, idVars, conHandId, roomVars, handler,
                 chanVars, adminVars, askVars>>

\* The runtime drops every task that is left and every queue.
DropTasks ==
  /\ <<idPc, adminPc>> # <<"ended", "ended">> \/ \E c \in Conns : handler[c] # "done"
  /\ idPc' = "ended" /\ adminPc' = "ended"
  /\ handler' = [c \in Conns |-> "done"]
  /\ runIdCom' = <<>> /\ conHandId' = <<>>
  /\ UNCHANGED <<token, runVars, idConn, cause, clients, roomVars, chanVars, line,
                 requests, askVars>>

\* Mutant: `run_wrapper` joins id_record before it returns.
RuntimeDropJoining == runPc = "ended" /\ IdRecordGone /\ DropTasks

\* `run_wrapper` and `main` have returned.
RuntimeDrop == runPc = "ended" /\ DropTasks

Sigint ==
  /\ ~token /\ runPc # "ended"
  /\ token' = TRUE
  /\ UNCHANGED <<runVars, runIdCom, idVars, conHandId, roomVars, handler,
                 chanVars, adminVars, askVars>>

\* `display_output` leaves its loop and drops the reader of the output channel.
DisplayEnds ==
  /\ token /\ displaying
  /\ displaying' = FALSE
  /\ UNCHANGED <<token, runPc, runConn, runIdCom, idVars, conHandId, roomVars,
                 handler, chanVars, adminVars, askVars>>

-----------------------------------------------------------------------------
(* `id_record` (id_record.rs, id_record/utils.rs).  It handles one message *)
(* at a time and awaits, inside the handling, the whole of a handshake and *)
(* the admin's answer to a prompt.                                         *)

\* An error leaves the loop, whatever kind of error it is.
Fail(why) == idPc' = "failing" /\ cause' = why

\* Mutant: the Client lives on with nobody to use it.
LeakClients(S) == UNCHANGED chanVars

\* A Client that is dropped closes the channels to its handler.
DropClients(S) ==
  /\ command' = [c \in Conns |->
       IF c \in S /\ command[c] = "open" THEN "closed" ELSE command[c]]
  /\ idHand' = [c \in Conns |->
       IF c \in S /\ idHand[c] = "open" THEN "closed" ELSE idHand[c]]

\* The end of id_record drops the receiving ends of its channels with all that
\* is queued, the connections that wait for their handshake included.
DropChannels ==
  /\ runIdCom' = <<>> /\ conHandId' = <<>>
  /\ handler' = [c \in Conns |->
                   IF handler[c] = "queued" THEN "dropped" ELSE handler[c]]

\* The address of the settings is parsed.  One that is no socket address (a
\* host name, which `run` can bind) ends id_record, and nothing is cancelled.
IdRecordStarts ==
  /\ idPc = "start"
  /\ \/ idPc' = "select" /\ UNCHANGED <<runIdCom, conHandId, handler>>
     \/ idPc' = "ended" /\ DropChannels
  /\ UNCHANGED <<token, runVars, idConn, cause, clients, roomVars, chanVars,
                 adminVars, askVars>>

\* `receiving_from_run` up to the handshake: it subscribes, then counts; the
\* receiver of a refused connection is dropped at once.
TakeConnection ==
  /\ idPc = "select" /\ runIdCom # <<>>
  /\ runIdCom' = Tail(runIdCom)
  /\ LET c == Head(runIdCom) IN
       IF Len(clients) >= MaxConnections
       THEN /\ Fail("NonFatal") /\ Goto(c, "refused")
            /\ UNCHANGED <<idConn, since, rx>>
       ELSE /\ idPc' = "handshake" /\ idConn' = c
            /\ since' = [since EXCEPT ![c] = Len(log)]
            /\ rx' = [rx EXCEPT ![c] = Len(log)]
            /\ Goto(c, "handshake")
            /\ UNCHANGED cause
  /\ UNCHANGED <<token, runVars, clients, conHandId, log, written, chanVars,
                 adminVars, askVars>>

\* `run` has ended and its channel is drained.
RunIsGone ==
  /\ idPc = "select" /\ runIdCom = <<>> /\ runPc = "ended"
  /\ Fail("Channel")
  /\ UNCHANGED <<token, runVars, runIdCom, idConn, clients, conHandId, roomVars,
                 handler, chanVars, adminVars, askVars>>

\* The addresses in the record of clients.
Listed == {clients[i] : i \in 1 .. Len(clients)}

NickTaken(c) == \E d \in Listed : NickOf[d] = NickOf[c] \/ d = c

\* Mutant: the receiver subscribes after the handshake instead of before it.
SubscribesLate ==
  /\ idPc = "handshake"
  /\ idPc' = "spawned" /\ Goto(idConn, "select")
  /\ since' = [since EXCEPT ![idConn] = Len(log)]
  /\ rx' = [rx EXCEPT ![idConn] = Len(log)]
  /\ UNCHANGED <<token, runVars, runIdCom, idConn, cause, clients, conHandId, log,
                 written, chanVars, adminVars, askVars>>

\* Mutant: the record of clients is filled, as its uses suppose.
FillsTheRecord ==
  /\ idPc = "handshake"
  /\ idPc' = "spawned" /\ Goto(idConn, "select")
  /\ clients' = Append(clients, idConn)
  /\ UNCHANGED <<token, runVars, runIdCom, idConn, cause, conHandId, roomVars,
                 chanVars, adminVars, askVars>>

\* The key exchange worked and a nick of a legal length was received.  The
\* handler is spawned; the new Client is not stored in `clients`.
HandshakeSucceeds ==
  /\ idPc = "handshake"
  /\ IF NickTaken(idConn)
     THEN Fail("NonFatal") /\ Goto(idConn, "refused")
     ELSE idPc' = "spawned" /\ UNCHANGED cause /\ Goto(idConn, "select")
  /\ UNCHANGED <<token, runVars, runIdCom, idConn, clients, conHandId, roomVars,
                 chanVars, adminVars, askVars>>

\* The key exchange, the nick or the socket is at fault.
HandshakeFails(kind) ==
  /\ idPc = "handshake"
  /\ Fail(kind) /\ Goto(idConn, "refused")
  /\ UNCHANGED <<token, runVars, runIdCom, idConn, clients, conHandId, roomVars,
                 chanVars, adminVars, askVars>>

\* Mutant: no timer.
NoTimer == FALSE

\* `handshake_wrapper`: the timer of 20 seconds, a non-fatal error.
HandshakeTimesOut ==
  /\ idPc = "handshake"
  /\ Fail("NonFatal") /\ Goto(idConn, "refused")
  /\ UNCHANGED <<token, runVars, runIdCom, idConn, clients, conHandId, roomVars,
                 chanVars, adminVars, askVars>>

\* `receiving_from_run` returns, and the Client it built goes out of scope.
DropNewClient ==
  /\ idPc = "spawned"
  /\ idPc' = "select" /\ idConn' = Master
  /\ DropClients({idConn})
  /\ UNCHANGED <<token, runVars, runIdCom, cause, clients, conHandId,
                 roomVars, handler, adminVars, askVars>>

\* The next message of a handler or of the admin.
NextHandMsg(type) ==
  /\ idPc = "select" /\ conHandId # <<>>
  /\ Head(conHandId).type = type

\* The message is sent if anybody holds a receiver, else id_record fails.
SendOrFail(m) ==
  IF Receivers = {}
  THEN Fail("NoReceiver") /\ UNCHANGED log
  ELSE log' = Append(log, m) /\ UNCHANGED <<idPc, cause>>

PositionOf(a) == CHOOSE i \in 1 .. Len(clients) : clients[i] = a

Without(i) == [j \in 1 .. (Len(clients) - 1) |->
                 IF j < i THEN clients[j] ELSE clients[j + 1]]

\* `ClientLeft`: the code removes clients[i], then reads clients[i] for the
\* text: a panic, which kills the task, if it removed the last of the vector.
ReceiveClientLeft ==
  /\ NextHandMsg("ClientLeft")
  /\ LET a == Head(conHandId).addr
         i == PositionOf(a)
     IN  IF a \in Listed /\ i = Len(clients)
         THEN /\ idPc' = "panicked" /\ clients' = <<>>
              /\ DropClients(Listed) /\ DropChannels
              /\ UNCHANGED <<cause, log>>
         ELSE /\ conHandId' = Tail(conHandId) /\ UNCHANGED <<runIdCom, handler>>
              /\ IF a \notin Listed
                 THEN UNCHANGED <<idPc, cause, clients, log, chanVars>>
                 ELSE /\ clients' = Without(i)
                      /\ DropClients({a})
                      /\ IF displaying
                         THEN SendOrFail(Broadcast(a, TRUE))
                         ELSE Fail("Channel") /\ UNCHANGED log
  /\ UNCHANGED <<token, runVars, idConn, since, rx, written, adminVars, askVars>>

\* `List`: answered only if the client is in the record; the answer fails when
\* its handler is gone.
ReceiveList ==
  /\ NextHandMsg("List") /\ conHandId' = Tail(conHandId)
  /\ LET a == Head(conHandId).addr IN
       IF a \in Listed /\ handler[a] \notin Alive
       THEN Fail("Channel") /\ UNCHANGED idHand
       ELSE /\ idHand' = IF a \in Listed THEN [idHand EXCEPT ![a] = "list"] ELSE idHand
            /\ UNCHANGED <<idPc, cause>>
  /\ UNCHANGED <<token, runVars, runIdCom, idConn, clients, roomVars, handler, command,
                 adminVars, askVars>>

\* `parse_command`: &KICK prompts, &LIST only displays, all else is sent.
ReceiveServerCommand ==
  /\ NextHandMsg("ServerCommand") /\ conHandId' = Tail(conHandId)
  /\ LET l == Head(conHandId).line IN
       CASE l \in {"KICK", "LIST"} /\ ~displaying -> Fail("Channel") /\ UNCHANGED log
         [] l = "KICK" /\ displaying -> idPc' = "ask" /\ UNCHANGED <<cause, log>>
         [] l = "LIST" /\ displaying -> UNCHANGED <<idPc, cause, log>>
         [] OTHER      -> SendOrFail(Broadcast(Master, l # "LONG"))
  /\ UNCHANGED <<token, runVars, runIdCom, idConn, clients, since, rx, written,
                 handler, chanVars, adminVars, askVars>>

\* `kick_user`: the request for a line of stdin.
AskAdmin ==
  /\ idPc = "ask"
  /\ IF adminPc = "ended"
     THEN Fail("Channel") /\ UNCHANGED <<asked, stdinReq>>
     ELSE /\ HasRoom(stdinReq, ReqCap)
          /\ idPc' = "await"
          /\ asked' = asked + 1
          /\ stdinReq' = Append(stdinReq, asked + 1)
          /\ UNCHANGED cause
  /\ UNCHANGED <<token, runVars, runIdCom, idConn, clients, conHandId, roomVars,
                 handler, chanVars, adminVars, answer>>

\* The answer: an index below the number of clients kicks one, anything else
\* aborts.  Sending to a handler that is gone is an error.
AnswerArrives ==
  /\ idPc = "await" /\ answer # "none"
  /\ IF answer = "ZERO" /\ Len(clients) > 0
     THEN IF handler[clients[1]] \in Alive
          THEN /\ command' = [command EXCEPT ![clients[1]] = "kick"]
               /\ idPc' = "select" /\ UNCHANGED cause
          ELSE Fail("Channel") /\ UNCHANGED command
     ELSE /\ IF displaying THEN idPc' = "select" /\ UNCHANGED cause ELSE Fail("Channel")
          /\ UNCHANGED command
  /\ answer' = "none"
  /\ UNCHANGED <<token, runVars, runIdCom, idConn, clients, conHandId, roomVars,
                 handler, idHand, adminVars, asked, stdinReq>>

\* server_commands ended with the request in its hands.
AnswerLost ==
  /\ idPc = "await" /\ answer = "none" /\ adminPc = "ended"
  /\ Fail("Channel")
  /\ UNCHANGED <<token, runVars, runIdCom, idConn, clients, conHandId, roomVars,
                 handler, chanVars, adminVars, askVars>>

\* The end of `id_record`: it cancels the token and drops what it holds.
IdRecordEnds ==
  /\ idPc = "failing"
  /\ idPc' = "ended" /\ token' = TRUE
  /\ clients' = <<>>
  /\ DropClients(Listed)
  /\ DropChannels
  /\ UNCHANGED <<runVars, idConn, cause, roomVars, adminVars, askVars>>

-----------------------------------------------------------------------------
(* `server_commands` (administration.rs).                                  *)

\* Whether the requester of r still waits for its answer.
Live(r) == r = asked /\ idPc = "await" /\ answer = "none"

\* Mutant: the request that was answered is peeked at, not popped.
StillPending(i) == SubSeq(requests, i, Len(requests))

\* The requests that are left when the i-th is answered.
Unanswered(i) == SubSeq(requests, i + 1, Len(requests))

\* A line goes to the first request whose requester still waits; with none
\* left it is a command for id_record.
TypeLine(l) ==
  /\ adminPc = "select"
  /\ l \in {"TEXT", "LONG", "ZERO"} => Len(log) < MaxLog
  /\ l = "KICK" => asked < MaxAsk
  /\ LET waiting == {i \in 1 .. Len(requests) : Live(requests[i])} IN
       IF waiting # {}
       THEN LET i == CHOOSE j \in waiting : \A k \in waiting : j <= k IN
              /\ answer' = l
              /\ requests' = Unanswered(i)
              /\ UNCHANGED <<adminPc, line>>
       ELSE /\ requests' = <<>>
            /\ adminPc' = "send" /\ line' = l
            /\ UNCHANGED answer
  /\ UNCHANGED <<token, runVars, runIdCom, idVars, conHandId, roomVars, handler,
                 chanVars, asked, stdinReq>>

PickRequest ==
  /\ adminPc = "select" /\ stdinReq # <<>>
  /\ requests' = Append(requests, Head(stdinReq))
  /\ stdinReq' = Tail(stdinReq)
  /\ UNCHANGED <<token, runVars, runIdCom, idVars, conHandId, roomVars, handler,
                 chanVars, adminPc, line, asked, answer>>

\* It awaits room in the channel, and meanwhile takes no request and no line.
SendCommand ==
  /\ adminPc = "send"
  /\ IF IdRecordGone
     THEN adminPc' = "ended" /\ token' = TRUE /\ UNCHANGED conHandId
     ELSE /\ HasRoom(conHandId, HandCap)
          /\ conHandId' = Append(conHandId, [type |-> "ServerCommand", line |-> line])
          /\ adminPc' = "select"
          /\ UNCHANGED token
  /\ line' = "none"
  /\ UNCHANGED <<runVars, runIdCom, idVars, roomVars, handler, chanVars, requests,
                 askVars>>

StdinFails ==
  /\ adminPc = "select"
  /\ adminPc' = "ended" /\ token' = TRUE
  /\ UNCHANGED <<runVars, runIdCom, idVars, conHandId, roomVars, handler,
                 chanVars, line, requests, askVars>>

AdminCancelled ==
  /\ token /\ adminPc # "ended"
  /\ adminPc' = "ended" /\ line' = "none"
  /\ UNCHANGED <<token, runVars, runIdCom, idVars, conHandId, roomVars, handler,
                 chanVars, requests, askVars>>

-----------------------------------------------------------------------------
(* `connection_handler` (connection_handling.rs, utils.rs).  Its select!   *)
(* takes any branch that is ready.  rx[c] counts the messages it has done  *)
(* with: the one it is writing is the next.                                *)

\* `handle_id_record_command`: a closed channel ends the handler at once.
ObeyCommand(c) ==
  /\ handler[c] = "select" /\ command[c] # "open"
  /\ Goto(c, IF command[c] = "kick" THEN "kicked" ELSE "done")
  /\ UNCHANGED <<token, runVars, runIdCom, idVars, conHandId, roomVars, chanVars,
                 adminVars, askVars>>

\* `read_branch_n`, a text: it is posted behind the nick of the client.
ReadText(c, fits) ==
  /\ handler[c] = "select"
  /\ Len(log) < MaxLog
  /\ IF displaying THEN log' = Append(log, Broadcast(c, fits)) /\ UNCHANGED handler
                   ELSE Goto(c, "fatal") /\ UNCHANGED log
  /\ UNCHANGED <<token, runVars, runIdCom, idVars, conHandId, since, rx, written,
                 chanVars, adminVars, askVars>>

\* `read_branch_n`, &LIST: id_record is asked, then its reply is awaited.
ReadList(c) ==
  /\ handler[c] = "select"
  /\ Goto(c, "list")
  /\ UNCHANGED <<token, runVars, runIdCom, idVars, conHandId, roomVars, chanVars,
                 adminVars, askVars>>

SendList(c) ==
  /\ handler[c] = "list"
  /\ IF IdRecordGone
     THEN Goto(c, "fatal") /\ UNCHANGED conHandId
     ELSE /\ HasRoom(conHandId, HandCap)
          /\ conHandId' = Append(conHandId, [type |-> "List", addr |-> c])
          /\ Goto(c, "listwait")
  /\ UNCHANGED <<token, runVars, runIdCom, idVars, roomVars, chanVars, adminVars,
                 askVars>>

\* A closed reply channel is a fatal error.
ListReply(c) ==
  /\ handler[c] = "listwait" /\ idHand[c] # "open"
  /\ IF idHand[c] = "list"
     THEN /\ idHand' = [idHand EXCEPT ![c] = "open"]
          /\ log' = Append(log, Personal(c))
          /\ Goto(c, "select")
     ELSE Goto(c, "fatal") /\ UNCHANGED <<idHand, log>>
  /\ UNCHANGED <<token, runVars, runIdCom, idVars, conHandId, since, rx, written,
                 command, adminVars, askVars>>

\* `read_branch` on an error: "broken" for a closed or broken connection and
\* a malformed packet, "hmac" for a packet that does not verify.
ReadFails(c, error) ==
  /\ handler[c] = "select"
  /\ Goto(c, error)
  /\ UNCHANGED <<token, runVars, runIdCom, idVars, conHandId, roomVars, chanVars,
                 adminVars, askVars>>

\* The ring keeps the last RingCap messages; a receiver further behind gets
\* `RecvError::Lagged` instead of a message.
Lagging(c) == Len(log) > rx[c] + RingCap

\* `write_branch`: the next message, which is written if it is meant for the
\* client and passed over if not.
TakeNext(c) ==
  /\ handler[c] = "select" /\ rx[c] < Len(log) /\ ~Lagging(c)
  /\ IF MeantFor(c, log[rx[c] + 1])
     THEN Goto(c, "writing") /\ UNCHANGED rx
     ELSE rx' = [rx EXCEPT ![c] = @ + 1] /\ UNCHANGED handler
  /\ UNCHANGED <<token, runVars, runIdCom, idVars, conHandId, log, since, written,
                 chanVars, adminVars, askVars>>

\* The write lasts as long as the client takes to read; meanwhile the handler
\* does nothing else.
WriteDone(c) ==
  /\ handler[c] = "writing" /\ log[rx[c] + 1].fits
  /\ rx' = [rx EXCEPT ![c] = @ + 1]
  /\ written' = [written EXCEPT ![c] = @ \cup {rx[c] + 1}]
  /\ Goto(c, "select")
  /\ UNCHANGED <<token, runVars, runIdCom, idVars, conHandId, log, since,
                 chanVars, adminVars, askVars>>

\* Mutant: a message that cannot be written is skipped.
SkipsUnwritten(c) ==
  /\ handler[c] = "writing"
  /\ rx' = [rx EXCEPT ![c] = @ + 1]
  /\ Goto(c, "select")
  /\ UNCHANGED <<token, runVars, runIdCom, idVars, conHandId, log, since, written,
                 chanVars, adminVars, askVars>>

\* Too long for a packet, or the socket fails.
WriteFails(c) ==
  /\ handler[c] = "writing"
  /\ rx' = [rx EXCEPT ![c] = @ + 1]
  /\ Goto(c, "broken")
  /\ UNCHANGED <<token, runVars, runIdCom, idVars, conHandId, log, since, written,
                 chanVars, adminVars, askVars>>

\* Mutant: a lagging receiver goes on with the oldest message left.
SkipsLost(c) ==
  /\ handler[c] = "select" /\ Lagging(c)
  /\ rx' = [rx EXCEPT ![c] = Len(log) - RingCap]
  /\ UNCHANGED <<token, runVars, runIdCom, idVars, conHandId, log, since, written,
                 handler, chanVars, adminVars, askVars>>

\* `write_branch` on an error of the receiver.
FallBehind(c) ==
  /\ handler[c] = "select" /\ Lagging(c)
  /\ Goto(c, "lagged")
  /\ UNCHANGED <<token, runVars, runIdCom, idVars, conHandId, roomVars, chanVars,
                 adminVars, askVars>>

\* `connection_dropped`: the error is displayed first, except for a connection
\* the client closed ("broken" stands for both); a failure is fatal.
DisplayErrorFails(c) ==
  /\ handler[c] \in Leaving \ {"kicked"} /\ ~displaying
  /\ Goto(c, "fatal")
  /\ UNCHANGED <<token, runVars, runIdCom, idVars, conHandId, roomVars, chanVars,
                 adminVars, askVars>>

\* Mutant: the loop goes on after the report.
StaysAfterReport(state) == "select"

\* Where the loop ends after the report: a bad hmac is a fatal error.
AfterReport(state) == IF state = "hmac" THEN "fatal" ELSE "done"

\* `connection_dropped`, and the kick: id_record is told, then the handler
\* ends; when id_record is gone, with a fatal error.
ReportLeft(c) ==
  /\ handler[c] \in Leaving
  /\ IF IdRecordGone
     THEN Goto(c, "fatal") /\ UNCHANGED <<conHandId, log>>
     ELSE /\ HasRoom(conHandId, HandCap)
          /\ conHandId' = Append(conHandId, [type |-> "ClientLeft", addr |-> c])
          /\ log' = IF handler[c] = "kicked" THEN Append(log, Personal(c)) ELSE log
          /\ Goto(c, AfterReport(handler[c]))
  /\ UNCHANGED <<token, runVars, runIdCom, idVars, since, rx, written, chanVars,
                 adminVars, askVars>>

\* `connection_handler_wrapper`: a fatal error cancels the token.
FatalEnds(c) ==
  /\ handler[c] = "fatal"
  /\ token' = TRUE
  /\ Goto(c, "done")
  /\ UNCHANGED <<runVars, runIdCom, idVars, conHandId, roomVars, chanVars,
                 adminVars, askVars>>

HandlerCancelled(c) ==
  /\ token /\ handler[c] \in Alive
  /\ Goto(c, "done")
  /\ UNCHANGED <<token, runVars, runIdCom, idVars, conHandId, roomVars, chanVars,
                 adminVars, askVars>>

-----------------------------------------------------------------------------
RunNext == BindListener \/ (\E c \in Conns : Accept(c)) \/ SendNewConnection
             \/ RunCancelled \/ RuntimeDrop \/ Sigint \/ DisplayEnds

ReceiveFromHand == ReceiveClientLeft \/ ReceiveList \/ ReceiveServerCommand

\* What id_record goes on with inside the handling of a message.
IdRecordGoesOn == IdRecordStarts \/ HandshakeTimesOut \/ DropNewClient \/ AskAdmin
                    \/ AnswerArrives \/ AnswerLost \/ IdRecordEnds

IdRecordNext ==
  \/ TakeConnection \/ RunIsGone \/ HandshakeSucceeds
  \/ \E kind \in {"Fatal", "NonFatal"} : HandshakeFails(kind)
  \/ ReceiveFromHand \/ IdRecordGoesOn

AdminNext == (\E l \in Typed : TypeLine(l)) \/ PickRequest \/ SendCommand
               \/ StdinFails \/ AdminCancelled

\* What a handler goes on with outside its select!.
HandlerGoesOn(c) == SendList(c) \/ ListReply(c) \/ ReportLeft(c) \/ FatalEnds(c)

HandlerNext(c) ==
  \/ ObeyCommand(c) \/ (\E fits \in Sizes : ReadText(c, fits)) \/ ReadList(c)
  \/ (\E error \in {"broken", "hmac"} : ReadFails(c, error)) \/ TakeNext(c)
  \/ WriteDone(c) \/ WriteFails(c) \/ FallBehind(c) \/ DisplayErrorFails(c)
  \/ HandlerGoesOn(c) \/ HandlerCancelled(c)

Next == RunNext \/ IdRecordNext \/ AdminNext \/ \E c \in Conns : HandlerNext(c)

Spec == Init /\ [][Next]_vars

(* Fairness: a task that can go on is polled (WF); a select! that finds    *)
(* several branches ready picks one at random and a channel wakes blocked  *)
(* senders in turn, so what is ready again and again is taken (SF).  The   *)
(* admin, the clients and SIGINT owe nothing, so that a prompt or a write  *)
(* may last for ever; the timer of the handshake does fire.                *)
Fairness ==
  /\ WF_vars(SendNewConnection \/ RunCancelled) /\ WF_vars(RuntimeDrop)
  /\ SF_vars(TakeConnection) /\ SF_vars(ReceiveFromHand) /\ WF_vars(IdRecordGoesOn)
  /\ SF_vars(SendCommand)
  /\ \A c \in Conns : SF_vars(ObeyCommand(c)) /\ SF_vars(HandlerGoesOn(c))

FairSpec == Spec /\ Fairness

-----------------------------------------------------------------------------
(* The chat that the handlers implement: a member follows the log as long  *)
(* as its handler serves it.                                               *)
StatusOf(state) ==
  CASE state \in {"absent", "accepted", "queued", "dropped"} -> "out"
    [] state = "handshake" -> "entering"
    [] state \in Serving -> "in"
    [] OTHER -> "gone"

Status == [c \in Conns |-> StatusOf(handler[c])]

Room == INSTANCE ChatRoom WITH
  status <- Status, from <- since, upto <- rx, heard <- written

(* The server implements the chat room: whatever the interleaving of       *)
(* handlers, handshakes, lags and shutdown (write_branch, read_branch_n,   *)
(* receiving_from_run), only served clients speak, and each is written the *)
(* log in order from the point of its subscription.                        *)
RoomSpec == Room!Spec

(* What a client was written is, without gap, echo or stranger's message,  *)
(* what was meant for it since the subscription before its handshake; only *)
(* the message its handler stopped at may lack (write_branch).             *)
GapFree == Room!GapFree

(* The prompt of kick_user is neither lost, nor doubled, nor outlived: as  *)
(* long as server_commands runs, the channel and the queue of requests     *)
(* hold exactly the request that id_record is waiting for, so a line typed *)
(* as an answer reaches the one who asked and no later line does.          *)
PromptAccounting ==
  adminPc # "ended" =>
    stdinReq \o requests =
      (IF idPc = "await" /\ answer = "none" THEN <<asked>> ELSE <<>>)

(* A handler that awaits the reply to &LIST is not forgotten: its request  *)
(* is still queued, or its reply channel is answered or closed, so that it *)
(* is woken (read_branch_n, receiving_from_hand).                          *)
NoOrphanedWait ==
  \A c \in Conns : handler[c] = "listwait" =>
    \/ idHand[c] # "open"
    \/ \E i \in 1 .. Len(conHandId) : conHandId[i] = [type |-> "List", addr |-> c]

(* A connection is reported as left at most once, and only when its        *)
(* handler has stopped serving it: nothing follows a ClientLeft from the   *)
(* same client (connection_dropped, and the `break` after it).             *)
ReportedHandlersAreGone ==
  \A i \in 1 .. Len(conHandId) : conHandId[i].type = "ClientLeft" =>
    /\ handler[conHandId[i].addr] \in {"fatal", "done"}
    /\ \A j \in (i + 1) .. Len(conHandId) :
         conHandId[j].type # "ServerCommand" => conHandId[j].addr # conHandId[i].addr

(* id_record never reads past the end of `clients`: the index panic that   *)
(* ClientLeft holds for the last client of the vector is out of reach, but *)
(* only because the record is never filled (receiving_from_hand).          *)
NoIndexPanic == idPc # "panicked"

(* Shutdown completes from wherever the tasks are, a prompt nobody answers *)
(* or a handshake included: run_wrapper joins none of them.                *)
ShutdownCompletes ==
  token ~> (idPc = "ended" /\ adminPc = "ended" /\ \A c \in Conns : handler[c] = "done")

(* A connection handed to id_record is neither left in its queue nor left  *)
(* in its handshake: it is admitted, refused or closed, whatever its       *)
(* client does, unless id_record sits at a prompt (id_record,              *)
(* handshake_wrapper).                                                     *)
ConnectionResolved ==
  \A c \in Conns :
    handler[c] = "queued" ~> (handler[c] \notin {"queued", "handshake"} \/ idPc = "await")

(* A server whose id_record has ended, even at its start where nothing is  *)
(* cancelled, does not accept clients for ever: it shuts down at the next  *)
(* one (id_record, run).                                                   *)
DeadServerIsNoticed == \A c \in Conns : handler[c] = "accepted" /\ IdRecordGone ~> token

-----------------------------------------------------------------------------
(* What the documentation says of the server, and the code does not do.    *)

(* id_record/utils.rs:31, on success "a new client has been successfully   *)
(* connected": as long as the server is not shut down its handler serves   *)
(* it, until it leaves by one of the ways that are reported to id_record   *)
(* (it breaks off, falls behind, is kicked).                               *)
ServedUntilItLeaves ==
  [][\A c \in Conns : handler[c] \in Serving /\ handler'[c] = "done" => token]_vars

(* administration.rs:24, server_commands responds to requests for input:   *)
(* it is never stuck on a queue that only the requester could empty.       *)
NoCircularWait ==
  ~ /\ idPc = "await" /\ answer = "none"
    /\ adminPc = "send" /\ Len(conHandId) = HandCap
=============================================================================
