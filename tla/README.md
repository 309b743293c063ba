# A specification of async-chat

async-chat is a chat over TCP: a server that relays what its clients type, an
administrator who types at the server, and a terminal client. Both programs are
sets of tokio tasks joined by channels and one cancellation token. This directory
holds TLA+ specifications of the parts whose correctness depends on the order in
which tasks, messages and bytes meet, the TLC configurations that check them on
small instances, and proofs, checked by TLAPS, for every instance. Paths below are
relative to the root of the repository (`src/...`); line numbers are those of the
files themselves.

## 1. The system

### Parts

| Part | Source | State it keeps | What it does |
|---|---|---|---|
| `run_wrapper`, `run` | `src/server_lib.rs` | listener; the connection it is handing over | spawns the tasks; accepts; sends `NewConnection` to id_record; returns when the token is cancelled |
| `handling_sigint` | `src/shared_lib/graceful_shutdown.rs` | none | cancels the token on CTRL-C |
| `display_output` | `src/shared_lib.rs` | none | prints what arrives; ends with the token, and its channel with it |
| `id_record` | `src/server_lib/id_record.rs`, `id_record/utils.rs` | `clients: Vec<Client>`; sender of the broadcast channel | takes connections (subscribe, count, handshake, spawn a handler); handles `ClientLeft`, `List` and `ServerCommand`; prompts the admin for a kick |
| `server_commands` | `src/server_lib/administration.rs` | queue of stdin requests | a typed line answers the oldest live request, or is sent to id_record as a command |
| `connection_handler`, one per client | `src/server_lib/connection_handling.rs`, `connection_handling/utils.rs` | receiver of the broadcast channel, both halves of the socket | posts what its client sends; writes to it what others post; reports its end |
| handshake, on both sides | `connection_handling/handshaking.rs`, `client_lib/handshaking.rs` | keys, nick | two plain packets from the server, one from the client, then an encrypted nick; 20 s timer on the server |
| `RecvHandler`, `WriteHandler` | `src/shared_lib/socket_handling.rs` | cursor, buffer, cipher, sequence number | packets of fixed size over a byte stream; hmac, encryption, numbering |
| client: `run`, `client_commands`, `handling_stdin_input`, `recv_msg` | `src/client_lib.rs`, `client_lib/sending_messages.rs` | queue of stdin requests; both halves of the socket | a typed line answers the prompt for the nick or goes to the server; what the server sends is displayed |
| settings, telemetry, binaries | the rest | none | start-up and logging |

### How they interact

```
 stdin -> server_commands --ServerCommand--> id_record <--NewConnection-- run <- TCP
              ^      <------StdinRequest------   |  ^
              '------- oneshot answer ---------> |  '---ClientLeft, List--- connection_handler[c]
                                                 '------Kick, List reply--> connection_handler[c]
       id_record, connection_handler[c]  ==broadcast channel==>  connection_handler[*]
                                                                        ^ TCP
                                                                        v
 stdin -> client_commands --InputMsg--> handling_stdin_input -> socket, recv_msg <- socket
              ^ StdinRequest, oneshot                                   |
              '--- run (handshake)  --OutputMsg--> display_output <-----'
```

All mpsc channels hold 10 messages; a send waits for room and fails when the
receiver is gone. The broadcast channel is a ring: a receiver that is too far
behind gets an error instead of the messages it has missed. The cancellation token
is watched by every task but id_record, which notices the shutdown only by its
channels or by the end of the runtime.

### What is hard

* id_record handles one message at a time and awaits a handshake (up to 20 s) or the
  admin's answer (for ever) while it does; everything else that needs it waits.
* The broadcast subscription is made before the handshake, the handler starts after.
* Handlers lag, write to slow clients, fail, are told to stop and are cancelled, each
  in any order; they report to a task that may be busy, waiting or gone.
* The end of `display_output` turns every later send into an error.
* `select!` drops the future of a branch not taken; `recv_str` cannot stand that.
* The Client built for a new connection is dropped instead of recorded. Much of what
  id_record and the handlers do afterwards follows from that.
* The two sides of a connection change from plain packets to numbered and encrypted ones
  at moments of their own; the server's time-out may write a packet at any of them.
* The client answers the prompt for the nick from the same stdin that feeds the chat, and
  begins the chat without waiting for the server's verdict on the nick.

`PROJECT.json` ("hazards") lists them one by one at their lines.

### What makes each part correct

* broadcast and handlers: each client is written, in order and without a gap, what
  others posted since its subscription; nobody is written a line of its own or
  another's personal message; only admitted clients speak.
* prompt: a request is answered once, by the line typed for it; none outlives its
  requester.
* id_record: no waiting handler is forgotten; a departure is reported once and last;
  no index out of range.
* shutdown: from any state, a cancelled token ends everything.
* handshake: keys only between holders of one secret, one sequence number on both sides, an
  end on both sides whoever is silent, and a reason told to a client that is refused.
* client: lines reach the server whole, in order and once, packets the display; the prompt
  for the nick is neither lost nor outlived; the client ends with its connection.
* packet stream: packets come out in order, none skipped or doubled unnoticed; the
  receiver keeps its place in the stream.

## 2. The modules

| Module | Models |
|---|---|
| `Messages` | `Message` and the rule of `write_branch` for whom it is meant |
| `ChatRoom` | abstract: one log, members that enter, hear, post and leave |
| `ChatServer` | the server's tasks and channels; `Room` maps them to `ChatRoom` |
| `MCChatServer` | values for TLC |
| `Handshake` | both sides of one connection, packet by packet, from the key to the first texts |
| `ClientApp` | the client's tasks and channels; `ToServer` and `ToDisplay` map them to `PacketQueue` |
| `ChatPath` | the composition: queue, room and queue between two keyboards and screens |
| `MCChatPath` | symmetry for TLC |
| `PacketQueue` | abstract: packets delivered in order, each once |
| `PacketStream` | one direction of a socket, `WriteHandler` to `RecvHandler`; `Queue` maps it to `PacketQueue` |
| `ChatRoomProofs` | the abstract room is gap-free |
| `ChatServerTyping` | type correctness of `ChatServer`; which action changes what |
| `ChatServerInvariants` | the record stays empty; the prompt; connections in one place; waits for a reply; reports |
| `ChatServerRefinement` | the server implements the room |
| `HandshakeProofs` | type correctness of `Handshake`; the agreement of its sides; numbers, turns and ends |
| `ClientAppProofs` | type correctness of `ClientApp`; the prompt; whole lines; both of its queues |
| `PacketStreamProofs` | type correctness of `PacketStream`; nothing thrown away; it implements `PacketQueue` |
| `ChatPathProofs` | the log of the composition; end to end |

### ChatServer

One action is what a task does between two awaits. `runPc`, `idPc`, `adminPc` and
`handler[c]` say where each task is:

* `idPc`: `"select"` is the loop, `"handshake"` the await in `receiving_from_run`,
  `"spawned"` the moment between the spawn of a handler and the drop of its Client,
  `"ask"` and `"await"` the two awaits of `kick_user`, `"failing"` the way out.
* `handler[c]`: `"accepted"` and `"queued"` are before id_record has it;
  `"select"`, `"writing"`, `"list"`, `"listwait"` are the awaits of a handler that
  serves; `"lagged"`, `"broken"`, `"hmac"`, `"kicked"` are the errors on the way to
  `connection_dropped`; `"fatal"` is an error about to cancel the token.

The broadcast channel is `log`, everything ever sent, with a cursor `rx[c]` per
receiver; a receiver more than `RingCap` behind lags. `since[c]` and `written[c]`
record where c subscribed and which messages were written to it: the code has no such
variables, they are what the properties speak of. A client's command and reply
channels are single slots, enough since at most one kick or reply is ever under way.
Texts are whether they fit a packet (`fits`); what is displayed is left out, but a send
to the display is a step that can fail.

`since`, `rx`, `written` and the handlers' states map to the room's `from`, `upto`,
`heard` and `status`: a connection is `"out"` until its subscription, `"entering"`
during the handshake, `"in"` while its handler serves and `"gone"` after.

### PacketStream

A byte is its position in the stream. The buffer keeps what it held; a packet
verifies when every position of the buffer holds the byte of one packet at that place.
`Read(count)` brings any amount that has arrived and fits, and continues with
deciphering and validation when the packet is complete, since there is no await in
between. `fromServer` is the direction: the client receives two plain packets first, the
server one; the server's loop drops reads at any time, the client's handshake once. A
packet is written as a whole because it fits the 8 KiB of the `BufWriter`: a cancelled
flush goes on with the next one. `ReadFails` is the error of the socket itself.

### Handshake

`pc[s]` is what a side awaits: `"key"`, `"answer"`, `"proof"`, `"nick"`, then `"serving"` or
`"chatting"`. `net[s]` holds the packets under way to s, with the form, number and content
that `prepare_packet` gave them; `tools[s]`, `writeSeq[s]` and `readSeq[s]` are what
`import_safety_tools` and the packets since have left in both handlers of a side.

* A hash verifies when it belongs to this exchange and both sides have the same secret
  (`secretsMatch`, chosen at the start). Nonces and keys are fresh.
* `NumberParses` is the padding of the sequence number: a number that has fewer digits than
  `SEQ_NUM_SIZE` comes with NULs, which the server's parser refuses.
* `After` is the read that runs into the next packet: while plain packets are expected the
  buffer has room for its start, which is lost. `HalfRead` is the `recv_str` that the
  client's `select!` drops when the nick is typed.
* The loop of a serving handler does the same to any packet: `OtherBranch` takes another
  branch of its `select!`, sends what it has, and drops the start of the packet that was being
  read (`scrap`). What the next reads get is not whole (`ReadTorn`), which is the hmac
  error that ends the handler (`Fault`); or, if another branch drops the rest too, they go on
  with the packet after it, out of its place. `lost` counts the dropped packets; it is
  history, no code reads it.
* `TimeOut` writes its token as the server's state has it, plain or encrypted, whatever the
  client expects, and closes.
* `Survivors` is TCP: a side that closes with something unread resets the connection, and
  of what it wrote before any suffix may be lost.
* `why[s]` and `told` are not in the code: they remember what ended a side and which tokens
  the client got.

The nick is `"fine"`, `"taken"`, too short, too long, or too long for a packet. That the
record of nicks stays empty is `ChatServer`'s concern; here a nick is refused or not.

### ClientApp

As in `ChatServer`, one action is what a task does between two awaits, and `runPc`, `ccPc`,
`inPc` and `recvPc` say where `run`, `client_commands`, `handling_stdin_input` and `recv_msg`
are. `displaying` and `output` are `display_output` and its channel, `input` the other
channel. A message of the client itself in the output channel is 0, the n-th packet of the
server is n; a line for the server is its number among those.

There is one request on stdin in the client, for the nick: `prompt` is in its channel, held
by `client_commands`, or gone; `answer` is its oneshot. `TakeRequest` drops `read_line` with
the piece of a line it has read (`part`), and the line that follows has lost its start
(`torn`). `posted`, `got` and `serverPc` are the server as the client sees it: it decides
about the nick within the time of its timer, may refuse with a token or without, posts, and
closes. It takes the first packet that comes for the nick (`NickArrived`): the answer, or, when
the prompt was lost and the chat began without one, a line that was queued before. `SendNick`
may fail. What else precedes the prompt, the key exchange, is one step that succeeds or fails.

### ChatPath, and how the modules fit together

`ChatPath` puts together what the parts promise: a queue from the keyboard of a client to
its handler, the room, and a queue from the handler to the display. Its steps are those of
`ChatRoom`, with the line that was posted in `said` and what a handler wrote in `down`.

* `ClientApp!LinesInOrder` (stdin to socket) and `PacketStream!QueueSpec` (socket to handler)
  are the first queue, `ChatServer!RoomSpec` the room, `PacketStream!QueueSpec` and
  `ClientApp!ShownInOrder` the second. Two `PacketQueue`s in a row are one.
* `PacketStream!ItsTurn` assumes that the sides of a handshake take turns;
  `Handshake!TurnsAreKept` shows that they do, until the server times out.
* `ClientApp!Exchange` assumes that the key exchange ends, and `ChatServer` that a handshake
  succeeds, fails or times out; `Handshake!HandshakesEnd` shows it. `NickWaitEnds` assumes
  that the server decides; that is its timer, in `Handshake` and `ChatServer`.
* `Handshake` reads packets whole and in their place, but for those that the server's
  `select!` loop drops. `PacketStream`, byte by byte, shows why this is all there is to it:
  `ClientKeepsItsPlace` and `NothingThrownAway`, and that loop is its only loss.
* The lines of `ChatPath` are those of a client whose nick was an answer: a line that is taken
  for the nick (`line_for_nick`) is none the room sees.

These assumptions are not discharged by one run of everything: the modules share no state
space, and the list above is the argument.

## 3. The runs

| Run | Question | Bounds |
|---|---|---|
| `server_delivery` | `TypeOK`, `GapFree`, `RoomSpec` with two clients | 2 connections, all queues 1, ring of 2, 3 texts, each fitting a packet behind a prefix or not |
| `server_prompts` | `RoomSpec`, `PromptAccounting`, `NoIndexPanic`, `NoOrphanedWait`, `ReportedHandlersAreGone` with an admin at work | 1 connection, HandCap 2, lines KICK, LIST, an index, a text too long; 2 prompts, 1 text |
| `server_liveness` | `ShutdownCompletes`, `DeadServerIsNoticed`, `ConnectionResolved` under fairness | 2 connections, which may both be queued; 1 prompt, no texts |
| `stream` | `TypeOK`, `ClientKeepsItsPlace`, `NothingThrownAway`, `QueueSpec`, `EveryPacketArrives`, in both directions | 6 packets, sizes 3 and 5, numbers modulo 8 from 6 |
| `handshake` | `TypeOK`, `SequencesAgree`, `TurnsAreKept`, `Agreement`, `EndsAreExplained`; `HandshakesEnd`, `NoHalfOpenConnection`, `RefusalIsTold` under fairness | secrets equal or not; numbers 9, 10, 15 modulo 16 with full width from 10; 4 nicks, 2 texts each way |
| `client` | `TypeOK`, `NickPromptAccounting`, `WireIsWhole`, `LinesInOrder`, `ShownInOrder`; `ClientShutdownCompletes`, `NickWaitEnds`, `ServerGoneEndsClient` under fairness | channels of 1; 3 lines of 4 kinds, 2 packets |
| `chat_path` | `TypeOK`, `EndToEnd` | 2 connections, 3 lines each, 3 messages |
| `dropped_client`, `circular_wait`, `stream_hmac`, `same_secret`, `line_for_nick` | violated: see findings | the smallest that show it |

What the properties of the newer modules say, in short:

* `SequencesAgree`: of the packets under way the plain ones come first, the numbered ones bear
  the numbers that their reader will expect when it comes to them, and so will the next one
  written, across the import of the tools, tokens and the wrap. The serving server is behind
  by the packets that its `select!` has dropped, and by no other.
* `EndsAreExplained`: the client never gets a packet that does not verify or is out of its
  place; the server only after its `select!` has dropped one half read. A client whose wait for
  the proof or the nick is ended by a packet has a server that timed out.
* `RefusalIsTold`: the client receives the token of a refused nick before the end of the
  stream, unless it goes on typing: only the reset of an unread text can take it away.
  Whether the display still prints it is another matter (`ClientApp`).
* `NickPromptAccounting`: the request is where somebody will answer it, and does not outlive
  the handshake to swallow a line of the chat. Its third part says when a chat may begin
  without a nick (`PromptLost` goes on after an `Ok`): only when nothing more can be typed.
  What was typed before may then be taken for the nick, see `line_for_nick`.
* `WireIsWhole`: a line that has lost its start answers the prompt, or goes nowhere.
* `EndToEnd`: among what b displays, the lines of a are in the order in which a typed them,
  none twice, and none is missing that was posted after b connected.

Why the bounds are enough. Capacities of 1 and 2 make full queues and lag frequent
where 10 would make them rare; nothing depends on the number but full or not full.
Two connections are the least with a sender and a receiver, and with one in a handshake
while the other talks; connections are treated alike, hence the symmetry (not used where
liveness is checked). `ConnectionResolved` needs two, one queued behind the other's
handshake. No texts are posted where liveness is checked: a handler that waits with one ends
like any other. Three posts overrun a ring of two. Two prompts are needed for an answer to reach
the wrong one. Sizes 3 and 5 leave room for over-reads of 1 and 2 and for a packet lost in
two halves; starting at 6 modulo 8, the sequence numbers wrap after two packets, as they do
in `Handshake` from 15; 9 has too few digits, 10 just enough. Two texts each way put more
than one packet behind a nick that is refused. With channels of one, three lines are one at
the socket or the prompt, one in the channel and one waiting for room. Two packets of the
server are one in the channel and one waiting. The theorems below need no bounds.

Deadlock is not checked: the server may stop (all tasks ended, no client left), and so
may a client, a connection or a stream (closed).

### Fairness

`ChatServer!Fairness` is weak fairness for a task that can go on, because tokio polls
every task that was woken; strong fairness for id_record's channels, a handler's command
branch and for sends to a full channel, because `select!` picks a ready branch at random
and channels wake blocked senders in turn. Nothing is assumed of the admin, of clients
or of SIGINT: a prompt may never be answered, a client may never read. The timer of the
handshake fires (`HandshakeTimesOut`). `ShutdownCompletes` therefore holds because `run_wrapper` joins no task
and the runtime drops them, not because the tasks co-operate; that the operating system
thread blocked on stdin keeps the process alive until ENTER (`EXIT_MSG` says so) is below
this model. `ConnectionResolved` excepts an id_record that sits at a prompt: there the code
waits for ever. `PacketStream!FairSpec` says only that a receiver is polled when something arrived.

`Handshake!FairSpec` is weak fairness for each side's task, polled when something has
arrived, and for the server's timer. It gives nothing to the users: the nick may never be
typed, and the client's end then follows from the server's.

`ClientApp!Fairness` is weak fairness for the display, for the end of the runtime and for
the server's decision about a nick (its timer), strong fairness for `run` and `recv_msg`,
whose sends to the output channel compete for its room with other senders, which the
channel lets in in turn. The user, SIGINT, `client_commands`, the writes to the server and a
server that has admitted the client are under no obligation.

## 4. Findings

Each is a run that TLC must find violated, with the sentence it contradicts quoted in
`PROJECT.json`.

* `dropped_client`: the new Client is never stored but dropped, so a client that has just been
  connected and has done nothing wrong loses its handler, in silence, when its `select!` gets to
  the closed command channel. A handler that serves until its client leaves is what the docs
  describe; the
  code has a TODO at the place where it ends (`connection_handling/utils.rs:371-374`).
* `circular_wait`: id_record awaits the admin's answer while `server_commands` awaits
  room in id_record's channel.
* `stream_hmac`: `select!` drops `recv_str` in the middle of a packet; the stream is out
  of step, the next packet does not verify, and that is fatal too.
* `same_secret`: a sequence number below 10^9, about one in four, is sent with NULs in front,
  and the server's `parse::<u32>` refuses it: the handshake fails although the secrets agree.
* `line_for_nick`: when the prompt for the nick is lost the client begins the chat without
  one, and the server takes the first text that was queued before for the nick.

The models also contain the following, without a run of its own.

* A handler that lags drops its client (`FallBehind`), which the comment at
  `connection_handling/utils.rs:292` rules out; `GapFree` is why it must.
* The record of clients being empty, `max_connections` never applies (`TakeConnection`), although
  `id_record.rs:39` has it as the maximum number of connections allowed; and `&LIST` from a client
  ends in a closed channel (`ListReply`), which is fatal.
* A handshake that fails, in whatever way, stops the server (`HandshakeFails`, `Fail`):
  `id_record` breaks its loop on errors that their type calls non-fatal, too.
* The client may not get its prompt answered when lines typed earlier fill the input channel
  (`SendLine` waits, its reader is spawned after the handshake); `NickWaitEnds` holds because
  the server's timer ends the wait.
* A line typed for a request whose requester is gone goes to the server's queue
  (`TypeLine`), and not to the display as `shared_lib.rs:81` has it.
* The token of acceptance is never sent (`TakeNick`), although `globals.rs` lists it.

## 5. The proofs

All safety that the passing runs check, invariants, action properties and refinements, is
also proved. The theorems assume only what the modules assume of their constants: capacities
and sizes are positive, the bounds are natural numbers, the server's address is no client's, the
sequence numbers drawn are below their modulus, and, in `PacketStream`, plain packets are the
shorter ones and fewer packets are written than the modulus has numbers: a reader that lost a
whole round of 2^32 packets would notice nothing.

### The server

* `TypeCorrect`: `Spec => []TypeOK`. `TypeOK` is inductive by itself. Its interesting part
  is that no queue exceeds its capacity and that `run` and id_record have a connection
  in hand wherever they use one. The *frame lemmas* before it say which actions can
  change a variable; the other proofs cite them instead of splitting `Next` again.
* `IndexPanicIsOutOfReach`: `Spec => []NoIndexPanic`. The invariant is `RecordIsEmpty`: no
  action adds to `clients`, hence no kick, no list reply, no index.
* `PromptsAreAccountedFor`: `Spec => []PromptAccounting`. It is inductive together with
  "an answer is at hand only while id_record awaits it"; the argument is that the
  channel and the queue concatenated are empty or hold one request.
* `WaitsAreNotOrphaned`: `Spec => []NoOrphanedWait`. A handler is woken because its reply channel
  closes, and what has to be shown is that it does. The invariant adds `AwaitInv`: the only live
  handler with an open channel is the one whose connection id_record has just handed over,
  whose Client it drops before it takes another message. So a `List` that leaves
  the queue meets a closed channel, or a reply is sent.
* `ReportsAreFinal`: `Spec => []ReportedHandlersAreGone`, with `PathInv` (below): a connection that
  is reported is on no way into a handler again.
* `ServerImplementsRoom`: `Spec => RoomSpec`. The invariant is `PathInv`: the queue of new
  connections holds each once and only queued ones (else a connection could enter
  twice), the connection in hand is in the state that goes with it, and a handler that
  writes stands at a message meant for it. With `RecordIsEmpty` (a kicked handler would
  post after it has left) every action is a step of the room or a stutter:
  `TakeConnection` is `Enter` or `Leave`, `HandshakeSucceeds` is `Admit`, `ReadText`,
  `ListReply` and the admin's text are `Post`, `WriteDone` and the skipping in `TakeNext`
  are `Hear`, errors and cancellation are `Leave`, the end of the runtime is `Close`.
* `RoomIsGapFree` in the abstract room, and through the refinement
  `DeliveryIsGapFree`: `Spec => []GapFree` for the server.

### The handshake

* `HandshakeTyped`: `Spec => []TypeOK` for `Handshake`. Its lemmas say what reads, torn packets
  and closed connections leave under way: parts of what was there (`Within`).
* `SidesAgree`: `Spec => []Agreement`. A side knows the other only by what reaches it, so the
  invariant is about the packets under way (`Trusted`): an encrypted one reaches the server
  only from a client that has its tools, a proof the client only from a server that has its
  own. Dropping and tearing packets cannot add to them, and who writes one has the tools.
* `NumbersStayTogether`, `PlainPacketsTakeTurns`, `ConnectionsEndForAReason`: `SequencesAgree`,
  `TurnsAreKept` and `EndsAreExplained`. None of the three is inductive alone: a packet is in its
  place because of how far its writer was, and the number of the first
  encrypted packet depends on how many plain ones are ahead of it. `TalkInv` ties them together:
  `ServerStage` and `ClientStage` say for each step of one side where the other can be and what it
  finds under way; `NumbersInv` counts the packets of a lane on from the number its reader
  expects, after the plain packet that may be ahead (`PlainAhead`) and past those that were
  dropped (`Missing`); `LossInv` says that only a server that serves, or has, drops any; `EndedInv`
  empties the lane of a side that is gone. With them, `AgreementInv` excludes the ends that would need a forged
  packet. What writing, reading, tearing and dropping do to a lane is said once, in lemmas
  (`AfterLane`, `LaneKept`, `LaneWritten`, `LaneRead`), as is counting modulo `SeqModulus`
  (`CountingOn`).

### The packet stream

* `StreamTyped`, `ClientNeverLosesItsPlace`, `NothingIsThrownAway`, and `StreamImplementsQueue`:
  `Spec => QueueSpec`. The invariant `StreamInv` relates the three places where the stream is
  known. `LayoutInv`: the packets lie one behind the other and number themselves.
  `BufferInv`: what is in the buffer is a contiguous piece of the stream. `PlaceInv`: that piece begins
  where the next packet does, or it is the last one there will ever be (`CutOff`), or the
  receiver is a server in its select! loop, the only one that can lose its place. `TurnsInv`
  and `CountInv` (the receiver's number is that of the packets delivered) do the rest: out of
  place, a packet is accepted only with the number awaited, and that one bears only if it
  is the next.

### The client

* `ClientTyped`, `NickPromptIsAccountedFor`, `OnlyWholeLinesAreWritten`; `LinesGoInOrder` and
  `PacketsAreShownInOrder`, its refinements of `PacketQueue` in both directions. `ClientInv` has
  `PromptInv` (who holds the request in which step of the handshake), `LinesInv` (from the last
  line written over the one being written and the channel to the one that waits for room,
  the numbers have no gap, as long as somebody writes them), `WholeInv` (a line that lost
  its start is queued only where nobody will write it) and `ScreenInv` (the packets
  of the server stand in the output channel in order and without a gap, the client's own
  messages between them, until the display leaves).

### The composition

* `PathTyped` and `DisplayedAsTyped`: `Spec => []EndToEnd` for `ChatPath`. `PathInv`:
  the log says of each client what its handler took, in order (`SaidInv`, `LogIsFaithful`), and
  what was written to a client is, in order, what was meant for it between the message at which
  it entered and the one its cursor has reached, but for the one at which it may have left
  (`FollowInv`, `DownInv`). `EndToEnd` follows, since what is displayed is a prefix of
  what was written.

### Only model-checked

* Liveness under fairness, which is out of the prover's reach: `ShutdownCompletes`,
  `DeadServerIsNoticed`, `ConnectionResolved`, `EveryPacketArrives`, `HandshakesEnd`,
  `NoHalfOpenConnection`, `RefusalIsTold`, `ClientShutdownCompletes`, `NickWaitEnds` and
  `ServerGoneEndsClient`.
* The claims of the runs that expect a violation: they are false, and TLC shows how.
* That the queues and the room of `ChatPath` are those that `ClientApp`, `PacketStream` and
  `ChatServer` implement: each refinement is a theorem, their composition is by reading.

## 6. Not modelled, and the plan

Not modelled:

* settings and the binaries: they read files and build the runtime once, at the start. What
  a bad address does to the server is in (`IdRecordStarts`).
* telemetry, error types' texts, formatting and layout of what is displayed.
* prefixes, UTF-8 and the ciphers themselves: a packet verifies or does not.
* the failure of `accept` (logged, then retried), and `&COMM` and blank lines at the server's
  stdin, which change nothing.
* partial lines on the server's stdin: `server_commands` has the loop of `client_commands`,
  where they are modelled. There, too, the line that has lost its start answers the prompt.
* a record of clients that were filled: the code never fills it, and the models follow it.
* the operating system's thread that blocks on stdin after the shutdown.

What is left:

1. The way to the server and back are each several queues in a row (channel, socket, channel):
   that two `PacketQueue`s in a row implement one, as a theorem, would close the gap between the
   components and `ChatPath`.
2. The safety halves of the liveness properties: that in every state from which a task must
   go on, one of its actions is possible (`NoHalfOpenConnection`, `ShutdownCompletes`).
