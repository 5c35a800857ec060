---------------------------- MODULE HttpSession ----------------------------
(***************************************************************************)
(* The HTTP side of the server (lib/networking/src/Server.cpp) on top of   *)
(* GameServer: the listener, the sessions it makes, their requests and     *)
(* answers, and what a request does to the websocket side: an upgrade      *)
(* makes a Channel of the session's socket, a game end point is handled.   *)
(*                                                                         *)
(* A session object lives as long as a handler of it is pending.  The      *)
(* answer to a request is only known by whether it keeps the connection.   *)
(***************************************************************************)
EXTENDS GameServer, SequencesExt

CONSTANTS
    Sessions,     \* HTTPSession objects
    MaxRequests   \* bound: requests read

ASSUME RequestAssumption == MaxRequests \in Nat

VARIABLES
    session,      \* the object at each address
    requests      \* requests read so far, for the bound

httpVars == <<session, requests>>
allVars == <<vars, session, requests>>

EndPoints == {"/create-game", "/join-game", "/configure-game"}
\* "page" is a target that shouldServeIndex accepts and no handler is for:
\* /index.html and the two other configuration targets.
Targets == {"/", "page", "illegal"} \cup EndPoints
Requests == [method : {"get", "head", "post", "other"}, target : Targets, keep : BOOLEAN]

Session == [phase : {"free", "accepting", "open", "undefined"},
            reads : 0..1,            \* async_reads pending
            writes : Seq(BOOLEAN),   \* async_writes pending, with keep_alive
            moved : BOOLEAN,         \* the socket is a Channel's
            spoilt : BOOLEAN]        \* history: an illegal target was read

NewSession == [phase |-> "accepting", reads |-> 0, writes |-> <<>>,
               moved |-> FALSE, spoilt |-> FALSE]
FreeSession == [NewSession EXCEPT !.phase = "free"]

\* Plausible slip: reads that are pending at once are independent.
StartReadCounted(o) == [o EXCEPT !.reads = @ + 1]

\* async_read, also while another read of the object is pending: then both
\* fill one request from one buffer, which Beast leaves undefined.
StartRead(o) ==
    IF o.reads = 0 THEN [o EXCEPT !.reads = 1] ELSE [o EXCEPT !.phase = "undefined"]

\* The last shared_ptr to the session goes with its last handler.
Settle(o) ==
    IF o.phase = "open" /\ o.reads = 0 /\ o.writes = <<>> THEN FreeSession ELSE o

Put(s, o) == session' = [session EXCEPT ![s] = Settle(o)]

Open(s) == Polling /\ session[s].phase = "open"

-----------------------------------------------------------------------------
(* ServerImpl::listenForConnections                                         *)

\* A connection is accepted, or it is not and the session is dropped; the
\* next one is waited for at once, on a session of its own.
Accept(s, ok) ==
    /\ Polling /\ session[s].phase = "accepting"
    /\ \E t \in Sessions :
         /\ session[t].phase = "free"
         /\ session' = [session EXCEPT
                ![s] = IF ok THEN StartRead([@ EXCEPT !.phase = "open"]) ELSE FreeSession,
                ![t] = NewSession]
    /\ UNCHANGED <<vars, requests>>

-----------------------------------------------------------------------------
(* HTTPSession::handleRequest                                               *)

\* Plausible slip: no else after the answer to an unknown method.
AnswersFallingThrough(req) ==
    (IF req.method = "other" \/ req.target = "illegal" THEN 1 ELSE 0)
        + (IF req.method # "post" /\ req.target \notin EndPoints THEN 1 ELSE 0)

\* How many answers a request gets: an illegal target is answered and then
\* handled like any other; a GET of an end point and a POST are not answered.
Answers(req) ==
    IF req.method = "other" THEN 1
    ELSE (IF req.target = "illegal" THEN 1 ELSE 0)
       + (IF req.method = "head" \/ (req.method = "get" /\ req.target \notin EndPoints)
          THEN 1 ELSE 0)

\* A request whose illegal target is answered twice.
Spoils(req) == req.target = "illegal" /\ req.method \in {"get", "head"}

\* What the handler of a GET does to the rest of the server.
Asks(req, target) == req.method = "get" /\ req.target = target
Handle(req) ==
    /\ Asks(req, "/create-game") => CreateGame
    /\ Asks(req, "/join-game") => JoinGame
    /\ Asks(req, "/configure-game") => ConfigureGame
    /\ ~(\E target \in EndPoints : Asks(req, target)) => UNCHANGED vars

\* start's handler with a request that is no upgrade.
ReadRequest(s, req) ==
    /\ Open(s) /\ session[s].reads > 0 /\ ~session[s].moved
    /\ requests < MaxRequests
    /\ requests' = requests + 1
    /\ Handle(req)
    /\ Put(s, [session[s] EXCEPT
                   !.reads = @ - 1,
                   !.writes = @ \o [i \in 1..Answers(req) |-> req.keep],
                   !.spoilt = @ \/ Spoils(req)])

\* ... with an upgrade: a Channel takes the socket, and the session is left
\* with the writes it has pending.
ReadUpgrade(s, c) ==
    /\ Open(s) /\ session[s].reads > 0 /\ ~session[s].moved
    /\ requests < MaxRequests
    /\ requests' = requests + 1
    /\ Upgrade(c)
    /\ Put(s, [session[s] EXCEPT !.reads = @ - 1, !.moved = TRUE])

\* ... and with an error, which is all that a moved socket can give.
SessionReadFailed(s) ==
    /\ Open(s) /\ session[s].reads > 0
    /\ Put(s, [session[s] EXCEPT !.reads = @ - 1])
    /\ UNCHANGED <<vars, requests>>

\* send's handler after a good write: read on, or shut the sending side.
ReadOn(o, keep) == IF keep THEN StartRead(o) ELSE o

AnswerWritten(s) ==
    /\ Open(s)
    /\ \E i \in DOMAIN session[s].writes :
         Put(s, ReadOn([session[s] EXCEPT !.writes = RemoveAt(@, i)], session[s].writes[i]))
    /\ UNCHANGED <<vars, requests>>

\* ... and after a failed one: shutdown without an error code throws when
\* the peer is gone, and the exception leaves io_context::poll.
AnswerFailed(s, throws) ==
    /\ Open(s)
    /\ session[s].moved => throws
    /\ \E i \in DOMAIN session[s].writes :
         Put(s, [session[s] EXCEPT !.writes = RemoveAt(@, i)])
    /\ IF throws THEN UpdateEnds(TRUE) ELSE UNCHANGED vars
    /\ UNCHANGED requests

-----------------------------------------------------------------------------
HttpInit ==
    /\ Init
    /\ \E s \in Sessions :
         session = [t \in Sessions |-> IF t = s THEN NewSession ELSE FreeSession]
    /\ requests = 0

\* The listener and the sessions.
HttpHandlers ==
    \E s \in Sessions :
        \/ \E ok \in BOOLEAN : Accept(s, ok)
        \/ \E req \in Requests : ReadRequest(s, req)
        \/ \E c \in Conns : ReadUpgrade(s, c)
        \/ SessionReadFailed(s)
        \/ AnswerWritten(s)
        \/ \E throws \in BOOLEAN : AnswerFailed(s, throws)

\* What GameServer does whoever asked for it.
ChannelHandlers ==
    /\ \E c \in Conns :
         \/ Accepted(c) \/ NotAccepted(c) \/ ReadFailed(c) \/ WriteOk(c) \/ WriteFailed(c)
         \/ \E text \in Texts : ReadOk(c, text)
    /\ UNCHANGED httpVars

MainLoop ==
    /\ \/ \E error \in BOOLEAN : UpdateEnds(error)
       \/ ProcessMessages \/ Send \/ LoopReads \/ Stopped
    /\ UNCHANGED httpVars

HttpNext == HttpHandlers \/ ChannelHandlers \/ MainLoop

\* As in GameServer; an answer, too, is written or its write fails.  The
\* operator answers the prompt of an end point, which stops the thread.
HttpFairness ==
    /\ WF_allVars(UpdateEnds(FALSE) /\ UNCHANGED httpVars)
    /\ WF_allVars((ProcessMessages \/ Send) /\ UNCHANGED httpVars)
    /\ \A c \in Conns : SF_allVars((WriteOk(c) \/ WriteFailed(c)) /\ UNCHANGED httpVars)
    /\ \A s \in Sessions :
         SF_allVars(AnswerWritten(s) \/ \E throws \in BOOLEAN : AnswerFailed(s, throws))

HttpSpec == HttpInit /\ [][HttpNext]_allVars /\ HttpFairness

-----------------------------------------------------------------------------
(* Properties *)

\* Type invariant of the sessions.
SessionTypeOK ==
    /\ session \in [Sessions -> Session]
    /\ requests \in 0..MaxRequests

\* A session that was never asked for an illegal target has one handler
\* pending at a time: it does not read a request while it writes an answer,
\* and never writes two answers into each other.  Once its socket is a
\* Channel's, it has no handler left: one object reads and writes a socket.
OneHandlerPending ==
    \A s \in Sessions :
        (session[s].phase # "free" /\ ~session[s].spoilt) =>
            /\ session[s].phase # "undefined"
            /\ session[s].reads + Len(session[s].writes)
                 = (IF session[s].phase = "open" THEN 1 ELSE 0)
            /\ ~session[s].moved

\* What a session looks like to its peer.
View(o) ==
    IF o.phase \in {"free", "accepting"} THEN "idle"
    ELSE IF o.spoilt THEN "spoilt"
    ELSE IF o.writes # <<>> THEN "answering" ELSE "reading"

Stage(s) == IF pc \in {"exited", "crashed"} THEN "down" ELSE View(session[s])

Conversation == INSTANCE HttpConversation WITH stage <- [s \in Sessions |-> Stage(s)]

\* Every session holds an HTTP conversation: what it is asked is answered
\* once or not at all, before the next request is read or the connection is
\* upgraded, and an answer that was started ends.
ImplementsConversation == Conversation!Spec
=============================================================================
