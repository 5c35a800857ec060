----------------------------- MODULE GameClient -----------------------------
(***************************************************************************)
(* The websocket client (lib/networking/src/Client.cpp) under the loop of  *)
(* the game client (tools/client/gameclient.cpp): each turn polls the      *)
(* io_service, receives what has come and sends a message, connected or    *)
(* not.                                                                    *)
(***************************************************************************)
EXTENDS Integers, Sequences, FiniteSets

CONSTANTS
    MaxSends,     \* bound: messages sent
    MaxReads      \* bound: messages that arrive

ASSUME BoundAssumption == MaxSends \in Nat /\ MaxReads \in Nat

VARIABLES
    pc,           \* "check", "update", "turn", "exited", "aborted"
    stage,        \* "connecting", "handshaking", "open", "failed"
    closed,
    reading,      \* an async_read is pending
    gone,         \* the server has closed the connection
    writeBuffer,
    writes,       \* pending async_writes: the messages they refer to
    sent,
    incoming,     \* incomingMessage
    received,     \* history: what receive() gave
    arrived,      \* history: messages that were read
    muted         \* history: an empty message has ended the reading

vars == <<pc, stage, closed, reading, gone, writeBuffer, writes, sent, incoming, received,
          arrived, muted>>

Polling == pc = "update"

\* The client is constructed: async_connect.
Init ==
    /\ pc = "check" /\ stage = "connecting"
    /\ closed = FALSE /\ reading = FALSE /\ gone = FALSE
    /\ writeBuffer = <<>> /\ writes = <<>> /\ sent = 0
    /\ incoming = <<>> /\ received = <<>> /\ arrived = <<>> /\ muted = FALSE

-----------------------------------------------------------------------------
(* Completion handlers, run by io_service::poll                             *)

\* connect's handler, then handshake's: only the last starts to read, and
\* neither failure closes the client.
Connected ==
    /\ Polling /\ stage = "connecting"
    /\ stage' \in {"handshaking", "failed"}
    /\ UNCHANGED <<pc, closed, reading, gone, writeBuffer, writes, sent, incoming, received,
                   arrived, muted>>

Handshaken ==
    /\ Polling /\ stage = "handshaking"
    /\ stage' \in {"open", "failed"}
    /\ reading' = (stage' = "open")
    /\ UNCHANGED <<pc, closed, gone, writeBuffer, writes, sent, incoming, received, arrived, muted>>

\* readMessage's handler reads on after a message, but not after an empty one.
ReadMessage ==
    /\ Polling /\ reading /\ Len(arrived) < MaxReads
    /\ LET m == Len(arrived) + 1
       IN  incoming' = Append(incoming, m) /\ arrived' = Append(arrived, m)
    /\ UNCHANGED <<pc, stage, closed, reading, gone, writeBuffer, writes, sent, received, muted>>

ReadEmpty ==
    /\ Polling /\ reading
    /\ reading' = FALSE /\ muted' = TRUE
    /\ UNCHANGED <<pc, stage, closed, gone, writeBuffer, writes, sent, incoming, received,
                   arrived>>

\* Plausible slip: the failed read not reported to disconnect().
ClosedStill == closed

\* disconnect() closes for good; it may be called again.
Disconnected == TRUE

ReadFailed ==
    /\ Polling /\ reading
    /\ gone \/ closed
    /\ reading' = FALSE
    /\ closed' = Disconnected
    /\ UNCHANGED <<pc, stage, gone, writeBuffer, writes, sent, incoming, received, arrived, muted>>

\* Plausible slip: the newest message dropped, not the oldest.
PopBack(q) == SubSeq(q, 1, Len(q) - 1)
PopFront(q) == Tail(q)

\* send's handler.  A write fails before the handshake is done, and once the
\* connection is gone.
WriteOk ==
    /\ Polling /\ writes # <<>> /\ stage = "open" /\ ~gone
    /\ writes' = Tail(writes)
    /\ writeBuffer' = PopFront(writeBuffer)
    /\ UNCHANGED <<pc, stage, closed, reading, gone, sent, incoming, received, arrived, muted>>

WriteFailed ==
    /\ Polling /\ writes # <<>>
    /\ stage # "open" \/ gone \/ closed
    /\ writes' = Tail(writes)
    /\ closed' = Disconnected
    /\ UNCHANGED <<pc, stage, reading, gone, writeBuffer, sent, incoming, received, arrived, muted>>

-----------------------------------------------------------------------------
(* The loop of the game client *)

Check ==
    /\ pc = "check"
    /\ pc' = IF closed THEN "exited" ELSE "update"
    /\ UNCHANGED <<stage, closed, reading, gone, writeBuffer, writes, sent, incoming,
                   received, arrived, muted>>

UpdateEnds ==
    /\ Polling
    /\ pc' = "turn"
    /\ UNCHANGED <<stage, closed, reading, gone, writeBuffer, writes, sent, incoming,
                   received, arrived, muted>>

\* Plausible slip: the stream not emptied by receive().
KeepStream(stream) == stream
EmptyStream(stream) == <<>>

Receive == received' = received \o incoming /\ incoming' = EmptyStream(incoming)

\* The stream carries out one write and keeps one waiting; a third is against
\* its rules: an assertion ends the program, or the waiting one is dropped.
Started(m) ==
    IF Len(writes) < 2 THEN Append(writes, m) ELSE <<writes[1], m>>

SendMessage ==
    /\ pc = "turn" /\ sent < MaxSends
    /\ Receive
    /\ sent' = sent + 1
    /\ writeBuffer' = Append(writeBuffer, sent + 1)
    /\ writes' = Started(sent + 1)
    /\ \/ pc' = "check"
       \/ Len(writes) = 2 /\ pc' = "aborted"
    /\ UNCHANGED <<stage, closed, reading, gone, arrived, muted>>

\* A turn past the bound on messages: nothing is sent.
QuietTurn ==
    /\ pc = "turn" /\ sent = MaxSends
    /\ Receive
    /\ pc' = "check"
    /\ UNCHANGED <<stage, closed, reading, gone, writeBuffer, writes, sent, arrived, muted>>

\* The server closes the connection or is lost.
ServerGone ==
    /\ stage = "open" /\ ~gone
    /\ gone' = TRUE
    /\ UNCHANGED <<pc, stage, closed, reading, writeBuffer, writes, sent, incoming, received,
                   arrived, muted>>

Stopped == pc \in {"exited", "aborted"} /\ UNCHANGED vars

Handlers ==
    Connected \/ Handshaken \/ ReadMessage \/ ReadEmpty \/ ReadFailed \/ WriteOk \/ WriteFailed
Loop == Check \/ UpdateEnds \/ SendMessage \/ QuietTurn

Next == Handlers \/ Loop \/ ServerGone \/ Stopped

Spec == Init /\ [][Next]_vars

\* The loop runs, and poll() runs a handler that is ready turn after turn.
FairSpec == Spec /\ WF_vars(Loop) /\ SF_vars(ReadFailed)

-----------------------------------------------------------------------------
(* Properties *)

RangeOf(s) == {s[k] : k \in 1..Len(s)}

\* Type invariant; what was read is with the caller or in the stream, once
\* and in order.
TypeOK ==
    /\ pc \in {"check", "update", "turn", "exited", "aborted"}
    /\ stage \in {"connecting", "handshaking", "open", "failed"}
    /\ closed \in BOOLEAN /\ reading \in BOOLEAN /\ gone \in BOOLEAN /\ muted \in BOOLEAN
    /\ writeBuffer \in Seq(1..MaxSends)
    /\ writes \in Seq(1..MaxSends) /\ Len(writes) <= 2
    /\ sent \in 0..MaxSends
    /\ Len(arrived) <= MaxReads /\ arrived = received \o incoming

\* The string an async_write refers to stays in writeBuffer until its handler
\* has run, whatever writes fail, overlap or are dropped before it.
BufferOutlivesWrite == RangeOf(writes) \subseteq RangeOf(writeBuffer)

\* Once the server is gone, a client that is reading leaves its loop, unless
\* it was aborted or an empty message has ended its reading.
LossIsNoticed == (gone /\ reading) ~> (muted \/ pc \in {"exited", "aborted"})
=============================================================================
