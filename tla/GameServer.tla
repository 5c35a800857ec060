----------------------------- MODULE GameServer -----------------------------
(***************************************************************************)
(* The websocket server (lib/networking/src/Server.cpp) under the main     *)
(* loop of the game server (tools/server/gameserver.cpp).                  *)
(*                                                                         *)
(* One thread: each turn polls the io_context, which runs completion       *)
(* handlers in any order, then processes what was received, answers the    *)
(* event loop and sends.  A Channel is identified by its address, which is *)
(* free again once nothing refers to the object: neither the channel map   *)
(* nor activeChannel nor a pending handler.                                *)
(***************************************************************************)
EXTENDS Integers, Sequences

CONSTANTS
    Conns,       \* addresses a Channel may get
    NoConn,      \* activeChannel before any registration
    QueueCap,    \* MSG_MAX_COUNT of the queue to the event loop
    MaxId,       \* bound: game instance and player ids handed out
    MaxReads     \* bound: messages received from clients

ASSUME ConnAssumption == NoConn \notin Conns
ASSUME CapAssumption == QueueCap \in Nat \ {0} /\ MaxId \in Nat /\ MaxReads \in Nat

Commands == {"quit", "shutdown"}
Texts == {"chat"} \cup Commands

VARIABLES
    pc,           \* where the main loop is: "update", "process", "send", "exited", "crashed"
    failed,       \* errorWhileUpdating
    chan,         \* the Channel object at each address
    channels,     \* keys of ServerImpl::channels
    active,       \* ServerImpl::activeChannel
    clients,      \* how often the vector of gameserver.cpp holds each connection:
                  \* nothing depends on its order
    incoming,     \* messages read and not yet received
    log,          \* the text processMessages returned
    gameOf,       \* socketToGameInstanceID, 0 for no entry
    playerOf,     \* socketToPlayerID, 0 for no entry
    nextGame, nextPlayer,
    toLoop,       \* number of messages in the queue to the event loop
    reads         \* messages read so far, for the bound

idVars == <<gameOf, playerOf, nextGame, nextPlayer>>
vars == <<pc, failed, chan, channels, active, clients, incoming, log, gameOf, playerOf,
          nextGame, nextPlayer, toLoop, reads>>

Messages == [conn : Conns, text : Texts]
Logs == Seq(Messages)

Channel == [accepting : BOOLEAN, reading : BOOLEAN, disconnected : BOOLEAN,
            writes : Nat,          \* async_writes started and not completed
            buffer : Seq(Logs),    \* writeBuffer
            queued : Seq(Logs),    \* history: every text given to Channel::send
            wire : Seq(Logs)]      \* history: every text written

NewChannelObject ==
    [accepting |-> TRUE, reading |-> FALSE, disconnected |-> FALSE, writes |-> 0,
     buffer |-> <<>>, queued |-> <<>>, wire |-> <<>>]
NoChannel == [NewChannelObject EXCEPT !.accepting = FALSE]

\* Something still holds a shared_ptr to the Channel.
Alive(c) ==
    \/ c \in channels \/ active = c
    \/ chan[c].accepting \/ chan[c].reading \/ chan[c].writes > 0

-----------------------------------------------------------------------------
(* Server::disconnect and the callbacks of gameserver.cpp                   *)

OnConnect(c) == [clients EXCEPT ![c] = @ + 1]

\* Plausible slip: std::remove without the erase.
RemoveOnly(c) == clients
\* std::remove and erase take out every element that is equal.
OnDisconnect(c) == [clients EXCEPT ![c] = 0]

EraseChannel(c) == channels \ {c}

\* Server::disconnect(c), with "table" the channels as the caller left them.
Disconnect(table, c) ==
    IF c \in channels
    THEN /\ clients' = OnDisconnect(c)
         /\ gameOf' = [gameOf EXCEPT ![c] = 0]
         /\ playerOf' = [playerOf EXCEPT ![c] = 0]
         /\ chan' = [table EXCEPT ![c].disconnected = TRUE]
         /\ channels' = EraseChannel(c)
    ELSE /\ chan' = table
         /\ UNCHANGED <<clients, gameOf, playerOf, channels>>

\* Ambassador::sendMsg: a full queue drops the message and nobody looks.
SendToLoop == IF toLoop < QueueCap THEN toLoop + 1 ELSE toLoop

-----------------------------------------------------------------------------
(* Completion handlers, run by io_context::poll                             *)

Polling == pc = "update"

\* An HTTP upgrade: a Channel is made and its handshake started.
Upgrade(c) ==
    /\ Polling /\ ~Alive(c)
    /\ chan' = [chan EXCEPT ![c] = NewChannelObject]
    /\ UNCHANGED <<pc, failed, channels, active, clients, incoming, log, idVars, toLoop,
                   reads>>

\* Channel::start's handler after a good handshake: registerChannel, then
\* the first read.
Accepted(c) ==
    /\ Polling /\ chan[c].accepting
    /\ channels' = channels \cup {c}
    /\ clients' = OnConnect(c)
    /\ active' = c
    /\ chan' = [chan EXCEPT ![c].accepting = FALSE, ![c].reading = TRUE]
    /\ UNCHANGED <<pc, failed, incoming, log, idVars, toLoop, reads>>

\* ... and after a failed one: the channel is not registered.
NotAccepted(c) ==
    /\ Polling /\ chan[c].accepting
    /\ Disconnect([chan EXCEPT ![c].accepting = FALSE], c)
    /\ UNCHANGED <<pc, failed, active, incoming, log, nextGame, nextPlayer, toLoop,
                   reads>>

\* readMessage's handler: keep the message and read on.  A read that was
\* already complete when the channel was closed is still delivered.
ReadOk(c, text) ==
    /\ Polling /\ chan[c].reading
    /\ reads < MaxReads
    /\ reads' = reads + 1
    /\ incoming' = Append(incoming, [conn |-> c, text |-> text])
    /\ UNCHANGED <<pc, failed, chan, channels, active, clients, log, idVars, toLoop>>

\* ... a failed read ends the read loop and disconnects, once.
ReadFailed(c) ==
    /\ Polling /\ chan[c].reading
    /\ LET table == [chan EXCEPT ![c].reading = FALSE]
       IN  IF ~chan[c].disconnected
           THEN Disconnect(table, c)
           ELSE chan' = table /\ UNCHANGED <<clients, gameOf, playerOf, channels>>
    /\ UNCHANGED <<pc, failed, active, incoming, log, nextGame, nextPlayer, toLoop,
                   reads>>

\* Plausible slip in afterWrite: no chained write.
ChainNever(buffer) == 0
ChainWrite(buffer) == IF buffer # <<>> THEN 1 ELSE 0

\* afterWrite: the front is written; the next write is chained.
WriteOk(c) ==
    /\ Polling /\ chan[c].writes > 0 /\ chan[c].buffer # <<>>
    /\ LET rest == Tail(chan[c].buffer)
       IN  chan' = [chan EXCEPT ![c].wire = Append(@, Head(chan[c].buffer)),
                                ![c].buffer = rest,
                                ![c].writes = @ - 1 + ChainWrite(rest)]
    /\ UNCHANGED <<pc, failed, channels, active, clients, incoming, log, idVars, toLoop,
                   reads>>

\* ... a failed write pops nothing, starts no other, and disconnects, once.
WriteFailed(c) ==
    /\ Polling /\ chan[c].writes > 0
    /\ LET table == [chan EXCEPT ![c].writes = @ - 1]
       IN  IF ~chan[c].disconnected
           THEN Disconnect(table, c)
           ELSE chan' = table /\ UNCHANGED <<clients, gameOf, playerOf, channels>>
    /\ UNCHANGED <<pc, failed, active, incoming, log, nextGame, nextPlayer, toLoop,
                   reads>>

\* GET /create-game: the id goes to whichever channel registered last.
CreateGame ==
    /\ Polling /\ nextGame <= MaxId
    /\ IF active = NoConn
       THEN pc' = "crashed" /\ UNCHANGED <<gameOf, nextGame, toLoop>>
       ELSE /\ gameOf' = [gameOf EXCEPT ![active] = nextGame]
            /\ nextGame' = nextGame + 1
            /\ toLoop' = SendToLoop
            /\ UNCHANGED pc
    /\ UNCHANGED <<failed, chan, channels, active, clients, incoming, log, playerOf,
                   nextPlayer, reads>>

\* GET /join-game.
JoinGame ==
    /\ Polling /\ nextPlayer <= MaxId
    /\ IF active = NoConn
       THEN pc' = "crashed" /\ UNCHANGED <<playerOf, nextPlayer, toLoop>>
       ELSE /\ playerOf' = [playerOf EXCEPT ![active] = nextPlayer]
            /\ nextPlayer' = nextPlayer + 1
            /\ toLoop' = SendToLoop
            /\ UNCHANGED pc
    /\ UNCHANGED <<failed, chan, channels, active, clients, incoming, log, gameOf,
                   nextGame, reads>>

\* GET /configure-game.
ConfigureGame ==
    /\ Polling
    /\ toLoop' = SendToLoop
    /\ UNCHANGED <<pc, failed, chan, channels, active, clients, incoming, log, idVars,
                   reads>>

-----------------------------------------------------------------------------
(* The main loop *)

Init ==
    /\ pc = "update" /\ failed = FALSE
    /\ chan = [c \in Conns |-> NoChannel]
    /\ channels = {} /\ active = NoConn
    /\ clients = [c \in Conns |-> 0]
    /\ incoming = <<>> /\ log = <<>>
    /\ gameOf = [c \in Conns |-> 0] /\ playerOf = [c \in Conns |-> 0]
    /\ nextGame = 1 /\ nextPlayer = 1
    /\ toLoop = 0 /\ reads = 0

\* server.update() returns, or an exception of a handler is caught.
UpdateEnds(error) ==
    /\ Polling
    /\ failed' = error
    /\ pc' = "process"
    /\ UNCHANGED <<chan, channels, active, clients, incoming, log, idVars, toLoop, reads>>

\* receive() and processMessages: the first command ends the batch, and what
\* came before and after it in the batch is not in the log.
CommandAt == {i \in 1..Len(incoming) : incoming[i].text \in Commands}
ProcessMessages ==
    /\ pc = "process"
    /\ incoming' = <<>>
    /\ IF CommandAt = {}
       THEN /\ log' = incoming
            /\ UNCHANGED <<chan, channels, clients, gameOf, playerOf>>
       ELSE LET first == CHOOSE i \in CommandAt : \A j \in CommandAt : i <= j
            IN  /\ log' = <<>>
                /\ IF incoming[first].text = "quit"
                   THEN Disconnect(chan, incoming[first].conn)
                   ELSE UNCHANGED <<chan, channels, clients, gameOf, playerOf>>
    /\ pc' = "send"
    /\ UNCHANGED <<failed, active, nextGame, nextPlayer, toLoop, reads>>

\* Plausible slip: a write started for every message.
StartAlways(channel) == channel.writes + 1

\* Channel::send starts a write only for the first message in the buffer.
StartWrite(channel) == IF channel.buffer = <<>> THEN channel.writes + 1 ELSE channel.writes

\* Plausible slip: return before push_back while a write is pending.
SendLogWhenIdle(c) ==
    IF log = <<>> \/ clients[c] = 0 \/ c \notin channels
    THEN chan[c]
    ELSE [chan[c] EXCEPT !.writes = StartWrite(chan[c]),
                         !.buffer = IF @ = <<>> THEN <<log>> ELSE @,
                         !.queued = Append(@, log)]

\* Server::send of buildOutgoing(log): one text per client, an empty text is
\* dropped by Channel::send.
SendLog(c) ==
    IF log = <<>> \/ clients[c] = 0 \/ c \notin channels
    THEN chan[c]
    ELSE [chan[c] EXCEPT !.writes = StartWrite(chan[c]),
                         !.buffer = Append(@, log),
                         !.queued = Append(@, log)]

\* The rest of the turn: the answer to the made-up INPUT_REQ goes to the
\* event loop, the log to every client, and only an exception ends the loop.
Send ==
    /\ pc = "send"
    /\ toLoop' = SendToLoop
    /\ chan' = [c \in Conns |-> SendLog(c)]
    /\ log' = <<>>
    /\ pc' = IF failed THEN "exited" ELSE "update"
    /\ UNCHANGED <<failed, channels, active, clients, incoming, idVars, reads>>

\* The event loop process takes a message from its queue.
LoopReads ==
    /\ toLoop > 0
    /\ toLoop' = toLoop - 1
    /\ UNCHANGED <<pc, failed, chan, channels, active, clients, incoming, log, idVars,
                   reads>>

\* The process is gone.
Stopped == pc \in {"exited", "crashed"} /\ UNCHANGED vars

Handlers ==
    \/ \E c \in Conns : \/ Upgrade(c) \/ Accepted(c) \/ NotAccepted(c)
                        \/ ReadFailed(c) \/ WriteOk(c) \/ WriteFailed(c)
    \/ \E c \in Conns, text \in Texts : ReadOk(c, text)
    \/ CreateGame \/ JoinGame \/ ConfigureGame

Next ==
    \/ Handlers
    \/ \E error \in BOOLEAN : UpdateEnds(error)
    \/ ProcessMessages
    \/ Send
    \/ LoopReads
    \/ Stopped

\* The thread runs; poll() runs every handler that is ready before it
\* returns, so a completion that is ready turn after turn is handled; and
\* the transport completes a write or reports that it failed.
Fairness ==
    /\ WF_vars(UpdateEnds(FALSE)) /\ WF_vars(ProcessMessages) /\ WF_vars(Send)
    /\ \A c \in Conns : SF_vars(WriteOk(c) \/ WriteFailed(c))

Spec == Init /\ [][Next]_vars
FairSpec == Spec /\ Fairness

-----------------------------------------------------------------------------
(* Properties *)

\* Type invariant.
TypeOK ==
    /\ pc \in {"update", "process", "send", "exited", "crashed"}
    /\ failed \in BOOLEAN
    /\ DOMAIN chan = Conns
    /\ \A c \in Conns :
         /\ chan[c].accepting \in BOOLEAN /\ chan[c].reading \in BOOLEAN
         /\ chan[c].disconnected \in BOOLEAN /\ chan[c].writes \in {0, 1}
         /\ Len(chan[c].buffer) <= Len(chan[c].queued)
    /\ channels \subseteq Conns
    /\ active \in Conns \cup {NoConn}
    /\ clients \in [Conns -> Nat]
    /\ incoming \in Seq(Messages) /\ log \in Seq(Messages)
    /\ gameOf \in [Conns -> 0..MaxId] /\ playerOf \in [Conns -> 0..MaxId]
    /\ nextGame \in 1..(MaxId + 1) /\ nextPlayer \in 1..(MaxId + 1)
    /\ toLoop \in 0..QueueCap /\ reads \in 0..MaxReads

\* The clients that gameserver.cpp sends to are exactly the registered
\* channels, each once, however connects, failures on the read and on the
\* write side, quits and reused addresses interleave.  Each of them is not
\* closed and has its read pending, so that its peer going away is noticed,
\* and no pending handshake of another object has its address.
ClientsAreChannels ==
    /\ \A c \in Conns : clients[c] = (IF c \in channels THEN 1 ELSE 0)
    /\ \A c \in channels :
          ~chan[c].disconnected /\ chan[c].reading /\ ~chan[c].accepting

\* Beast allows one write at a time: a channel has one pending exactly when
\* it has something to write, so writes neither overlap nor stall.
OneWriteAtATime ==
    \A c \in Conns :
        /\ chan[c].writes <= 1
        /\ c \in channels => (chan[c].writes = 1 <=> chan[c].buffer # <<>>)

\* A client is written the texts given to Channel::send in their order, none
\* lost or repeated, up to the ones still in the buffer.
SentInOrder ==
    \A c \in Conns : chan[c].queued = chan[c].wire \o chan[c].buffer

\* What is buffered for a client is written, unless the client is
\* disconnected or the server ends.
BuffersDrain ==
    \A c \in Conns :
        (c \in channels /\ chan[c].buffer # <<>>)
            ~> (chan[c].buffer = <<>> \/ c \notin channels \/ pc \in {"exited", "crashed"})
=============================================================================
