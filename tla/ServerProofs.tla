---------------------------- MODULE ServerProofs ----------------------------
(***************************************************************************)
(* Proofs about the server process.  First GameServer, for every set of    *)
(* addresses, every capacity of the queue to the event loop, and every     *)
(* number of messages and ids; then HttpSession, which shares its state,    *)
(* for every set of sessions and every number of requests.                 *)
(***************************************************************************)
EXTENDS HttpSession, SequenceTheorems, TLAPS

-----------------------------------------------------------------------------
(* GameServer                                                               *)

\* The state of the main loop.
LoopOK ==
    /\ pc \in {"update", "process", "send", "exited", "crashed"}
    /\ failed \in BOOLEAN
    /\ active \in Conns \cup {NoConn}
    /\ incoming \in Seq(Messages) /\ log \in Seq(Messages)
    /\ gameOf \in [Conns -> 0..MaxId] /\ playerOf \in [Conns -> 0..MaxId]
    /\ nextGame \in 1..(MaxId + 1) /\ nextPlayer \in 1..(MaxId + 1)
    /\ toLoop \in 0..QueueCap /\ reads \in 0..MaxReads

\* What holds of every Channel object: a handshake is the first thing that
\* happens to it, and no text is lost between send and the wire.
Sound(o) ==
    /\ o.writes <= 1
    /\ o.accepting => ~o.disconnected /\ o.writes = 0 /\ o.buffer = <<>>
    /\ o.queued = o.wire \o o.buffer

\* ... and of a registered one: a write is pending when there is something to
\* write, which a channel that failed a write no longer promises.
Serving(o) ==
    /\ ~o.disconnected /\ o.reading /\ ~o.accepting
    /\ o.writes = 1 <=> o.buffer # <<>>

ChannelsOK ==
    /\ chan \in [Conns -> Channel]
    /\ channels \subseteq Conns
    /\ clients \in [Conns -> Nat]
    /\ \A c \in Conns : Sound(chan[c])
    /\ \A c \in channels : Serving(chan[c])
    /\ \A c \in Conns : clients[c] = (IF c \in channels THEN 1 ELSE 0)

Inv == LoopOK /\ ChannelsOK

-----------------------------------------------------------------------------
(* Lemmas about the steps' parts                                            *)

\* Moving the first text from the buffer to the wire loses nothing.
LEMMA TakeFirst ==
  ASSUME NEW S, NEW s \in Seq(S), NEW t \in Seq(S), t # <<>>
  PROVE  /\ Tail(t) \in Seq(S)
         /\ Append(s, Head(t)) \in Seq(S)
         /\ Append(s, Head(t)) \o Tail(t) = s \o t
<1>1. /\ Head(t) \in S /\ Tail(t) \in Seq(S) /\ Append(s, Head(t)) \in Seq(S)
  BY HeadTailProperties
<1>2. Append(s, Head(t)) = s \o <<Head(t)>>
  BY <1>1, AppendIsConcat
<1>3. t = <<Head(t)>> \o Tail(t)
  BY <1>1
<1>4. (s \o <<Head(t)>>) \o Tail(t) = s \o (<<Head(t)>> \o Tail(t))
  BY <1>1, ConcatAssociative
<1>. QED
  BY <1>1, <1>2, <1>3, <1>4

\* A Channel object with one of its flags or its count of writes set.
LEMMA SetFlags ==
  ASSUME NEW o \in Channel, NEW b \in BOOLEAN, NEW n \in Nat
  PROVE  /\ [o EXCEPT !.disconnected = b] \in Channel
         /\ [o EXCEPT !.reading = b] \in Channel
         /\ [o EXCEPT !.writes = n] \in Channel
<1>. DEFINE T == Seq(Logs)
<1>1. Channel = [accepting : BOOLEAN, reading : BOOLEAN, disconnected : BOOLEAN,
                 writes : Nat, buffer : T, queued : T, wire : T]
  BY DEF Channel
<1>. HIDE DEF T
<1>. QED
  BY <1>1

\* Server::disconnect, called with channels that are sound and with only the
\* one to disconnect changed, and not one whose handshake is pending.
LEMMA DisconnectKeeps ==
  ASSUME LoopOK, ChannelsOK, NEW table \in [Conns -> Channel], NEW c,
         \A d \in Conns : Sound(table[d]),
         \A d \in channels \ {c} : table[d] = chan[d],
         c \in channels => ~table[c].accepting,
         Disconnect(table, c)
  PROVE  /\ ChannelsOK'
         /\ gameOf' \in [Conns -> 0..MaxId] /\ playerOf' \in [Conns -> 0..MaxId]
<1>. USE CapAssumption
<1>1. CASE c \in channels
  <2>. USE <1>1
  <2>1. /\ c \in Conns
        /\ chan' = [table EXCEPT ![c].disconnected = TRUE]
        /\ channels' = channels \ {c}
        /\ clients' = [clients EXCEPT ![c] = 0]
        /\ gameOf' = [gameOf EXCEPT ![c] = 0] /\ playerOf' = [playerOf EXCEPT ![c] = 0]
    BY DEF ChannelsOK, Disconnect, EraseChannel, OnDisconnect
  <2>2. chan' \in [Conns -> Channel] /\ clients' \in [Conns -> Nat] /\ channels' \subseteq Conns
    <3>1. [table[c] EXCEPT !.disconnected = TRUE] \in Channel
      BY <2>1, SetFlags
    <3>2. chan' \in [Conns -> Channel]
      BY <2>1, <3>1
    <3>. QED
      BY <2>1, <3>2 DEF ChannelsOK
  <2>3. \A d \in Conns : Sound(chan'[d])
    BY <2>1 DEF Sound, Channel
  <2>4. \A d \in channels' : Serving(chan'[d])
    BY <2>1 DEF ChannelsOK
  <2>5. \A d \in Conns : clients'[d] = (IF d \in channels' THEN 1 ELSE 0)
    BY <2>1 DEF ChannelsOK
  <2>6. gameOf' \in [Conns -> 0..MaxId] /\ playerOf' \in [Conns -> 0..MaxId]
    BY <2>1 DEF LoopOK
  <2>. QED
    BY <2>2, <2>3, <2>4, <2>5, <2>6 DEF ChannelsOK
<1>2. CASE c \notin channels
  BY <1>2 DEF Disconnect, ChannelsOK, LoopOK
<1>. QED
  BY <1>1, <1>2

\* It does not matter which of three parts are put together first.
LEMMA TextsAssociative ==
  \A a, b, c \in Seq(Logs) : (a \o b) \o c = a \o (b \o c)
<1>. SUFFICES ASSUME NEW a \in Seq(Logs), NEW b \in Seq(Logs), NEW c \in Seq(Logs)
              PROVE  (a \o b) \o c = a \o (b \o c)
  OBVIOUS
<1>. QED
  BY ConcatAssociative

\* A Channel object after a write and after a send.
LEMMA WithTexts ==
  ASSUME NEW o \in Channel, NEW n \in Nat, NEW buffer \in Seq(Logs), NEW texts \in Seq(Logs)
  PROVE  /\ [o EXCEPT !.wire = texts, !.buffer = buffer, !.writes = n] \in Channel
         /\ [o EXCEPT !.writes = n, !.buffer = buffer, !.queued = texts] \in Channel
<1>. DEFINE T == Seq(Logs)
<1>1. Channel = [accepting : BOOLEAN, reading : BOOLEAN, disconnected : BOOLEAN,
                 writes : Nat, buffer : T, queued : T, wire : T]
  BY DEF Channel
<1>2. buffer \in T /\ texts \in T
  OBVIOUS
<1>. HIDE DEF T
<1>. QED
  BY <1>1, <1>2

\* afterWrite: the text moves from the buffer to the wire, and the next write
\* is started exactly when the buffer still holds something.
LEMMA WriteDone ==
  ASSUME NEW o \in Channel, Sound(o), o.writes = 1, o.buffer # <<>>
  PROVE  LET p == [o EXCEPT !.wire = Append(@, Head(o.buffer)), !.buffer = Tail(o.buffer),
                            !.writes = @ - 1 + ChainWrite(Tail(o.buffer))]
         IN  p \in Channel /\ Sound(p) /\ (Serving(o) => Serving(p))
<1>. DEFINE wire == Append(o.wire, Head(o.buffer))
            rest == Tail(o.buffer)
            n == o.writes - 1 + ChainWrite(rest)
            p == [o EXCEPT !.wire = wire, !.buffer = rest, !.writes = n]
<1>1. o.buffer \in Seq(Logs) /\ o.wire \in Seq(Logs)
  BY DEF Channel
<1>2. wire \in Seq(Logs) /\ rest \in Seq(Logs)
  BY <1>1, TakeFirst
<1>3. wire \o rest = o.wire \o o.buffer
  BY <1>1, TakeFirst
<1>4. n \in Nat
  BY DEF ChainWrite
<1>5. n <= 1 /\ (n = 1 <=> rest # <<>>)
  BY DEF ChainWrite
<1>. HIDE DEF wire, rest, n
<1>6. /\ p \in Channel
      /\ p.writes = n /\ p.buffer = rest /\ p.queued = o.queued /\ p.wire = wire
      /\ p.accepting = o.accepting /\ p.reading = o.reading
      /\ p.disconnected = o.disconnected
  <2>1. p \in Channel
    BY <1>2, <1>4, WithTexts
  <2>. QED
    BY <2>1 DEF Channel
<1>. HIDE DEF p
<1>7. Sound(p)
  BY <1>3, <1>5, <1>6 DEF Sound
<1>8. Serving(o) => Serving(p)
  BY <1>5, <1>6 DEF Serving
<1>. QED
  BY <1>6, <1>7, <1>8 DEF p, n, rest, wire

\* Channel::send: the text is the last of the buffer, and a write is started
\* exactly when none is pending.
LEMMA TextQueued ==
  ASSUME NEW o \in Channel, Sound(o), Serving(o), NEW text \in Logs
  PROVE  LET p == [o EXCEPT !.writes = StartWrite(o), !.buffer = Append(@, text),
                            !.queued = Append(@, text)]
         IN  p \in Channel /\ Sound(p) /\ Serving(p)
<1>. DEFINE buffer == Append(o.buffer, text)
            queued == Append(o.queued, text)
            n == StartWrite(o)
            p == [o EXCEPT !.writes = n, !.buffer = buffer, !.queued = queued]
<1>1. o.buffer \in Seq(Logs) /\ o.wire \in Seq(Logs) /\ o.queued \in Seq(Logs)
  BY DEF Channel
<1>2. buffer \in Seq(Logs) /\ queued \in Seq(Logs)
  BY <1>1, AppendProperties
<1>3. buffer # <<>>
  BY <1>1, AppendProperties
<1>4. queued = o.wire \o buffer
  <2>. DEFINE w == o.wire
              b == o.buffer
              e == <<text>>
  <2>1. w \in Seq(Logs) /\ b \in Seq(Logs) /\ e \in Seq(Logs)
    BY <1>1
  <2>2. buffer = b \o e /\ queued = o.queued \o e
    BY <1>1, AppendIsConcat
  <2>3. o.queued = w \o b
    BY DEF Sound
  <2>. HIDE DEF w, b, e
  <2>4. (w \o b) \o e = w \o (b \o e)
    BY <2>1, TextsAssociative
  <2>. QED
    BY <2>2, <2>3, <2>4 DEF w
<1>5. n = 1 /\ n \in Nat
  <2>1. o.writes \in Nat
    BY DEF Channel
  <2>. QED
    BY <2>1 DEF StartWrite, Serving, Sound
<1>. HIDE DEF buffer, queued, n
<1>6. /\ p \in Channel
      /\ p.writes = n /\ p.buffer = buffer /\ p.queued = queued /\ p.wire = o.wire
      /\ p.accepting = o.accepting /\ p.reading = o.reading
      /\ p.disconnected = o.disconnected
  <2>1. p \in Channel
    BY <1>2, <1>5, WithTexts
  <2>. QED
    BY <2>1 DEF Channel
<1>. HIDE DEF p
<1>7. Sound(p) /\ Serving(p)
  BY <1>3, <1>4, <1>5, <1>6 DEF Sound, Serving
<1>. QED
  BY <1>6, <1>7 DEF p, n, buffer, queued

-----------------------------------------------------------------------------
(* The actions                                                              *)

\* A new Channel has its handshake pending and nothing else.
LEMMA NewObject == NewChannelObject \in Channel /\ Sound(NewChannelObject)
<1>1. <<>> \in Seq(Logs) /\ <<>> \o <<>> = <<>>
  OBVIOUS
<1>. QED
  BY <1>1 DEF NewChannelObject, Channel, Sound

\* The server starts with no channel.
LEMMA InitInv == Init => Inv
<1>. SUFFICES ASSUME Init PROVE Inv
  OBVIOUS
<1>. USE CapAssumption
<1>1. NoChannel \in Channel /\ Sound(NoChannel)
  <2>1. NewChannelObject \in Channel /\ Sound(NewChannelObject)
    BY NewObject
  <2>2. NoChannel = [NewChannelObject EXCEPT !.accepting = FALSE]
    BY DEF NoChannel
  <2>. QED
    BY <2>1, <2>2 DEF Channel, Sound
<1>2. ChannelsOK
  BY <1>1 DEF Init, ChannelsOK
<1>3. LoopOK
  <2>1. <<>> \in Seq(Messages) /\ 0 \in 0..MaxId /\ 1 \in 1..(MaxId + 1)
        /\ 0 \in 0..QueueCap /\ 0 \in 0..MaxReads
    OBVIOUS
  <2>. QED
    BY <2>1 DEF Init, LoopOK
<1>. QED
  BY <1>2, <1>3 DEF Inv

\* A new Channel replaces one that nothing refers to, so no registered one.
LEMMA UpgradeInv == ASSUME Inv, NEW c \in Conns, Upgrade(c) PROVE Inv'
<1>1. NewChannelObject \in Channel /\ Sound(NewChannelObject)
  BY NewObject
<1>2. c \notin channels /\ chan' = [chan EXCEPT ![c] = NewChannelObject]
  BY DEF Upgrade, Alive
<1>3. ChannelsOK'
  BY <1>1, <1>2 DEF Inv, ChannelsOK, Upgrade
<1>4. LoopOK'
  BY DEF Inv, LoopOK, Upgrade, idVars
<1>. QED
  BY <1>3, <1>4 DEF Inv

\* The handshake is the first thing that happens to a Channel, so what is
\* registered has nothing pending and is not in the vector yet.
LEMMA AcceptedInv == ASSUME Inv, NEW c \in Conns, Accepted(c) PROVE Inv'
<1>1. /\ chan' = [chan EXCEPT ![c].accepting = FALSE, ![c].reading = TRUE]
      /\ channels' = channels \cup {c} /\ clients' = [clients EXCEPT ![c] = @ + 1]
  BY DEF Accepted, OnConnect
<1>2. chan[c].accepting /\ Sound(chan[c]) /\ chan[c] \in Channel /\ c \notin channels
  BY DEF Accepted, Inv, ChannelsOK, Serving
<1>3. chan' \in [Conns -> Channel] /\ Sound(chan'[c]) /\ Serving(chan'[c])
  <2>1. chan'[c] = [chan[c] EXCEPT !.accepting = FALSE, !.reading = TRUE]
    BY <1>1 DEF Inv, ChannelsOK
  <2>2. chan'[c] \in Channel
    BY <1>2, <2>1 DEF Channel
  <2>3. /\ chan'[c].writes = chan[c].writes /\ chan'[c].buffer = chan[c].buffer
        /\ chan'[c].queued = chan[c].queued /\ chan'[c].wire = chan[c].wire
        /\ chan'[c].disconnected = chan[c].disconnected
        /\ chan'[c].reading /\ ~chan'[c].accepting
    BY <1>2, <2>1 DEF Channel
  <2>4. Sound(chan'[c])
    BY <1>2, <2>3 DEF Sound
  <2>5. Serving(chan'[c])
    BY <1>2, <2>3 DEF Sound, Serving
  <2>. QED
    BY <1>1, <2>2, <2>4, <2>5 DEF Inv, ChannelsOK
<1>4. \A d \in Conns \ {c} : chan'[d] = chan[d]
  BY <1>1 DEF Inv, ChannelsOK
<1>5. /\ clients' \in [Conns -> Nat]
      /\ \A d \in Conns : clients'[d] = (IF d \in channels' THEN 1 ELSE 0)
  BY <1>1, <1>2 DEF Inv, ChannelsOK
<1>6. ChannelsOK'
  BY <1>1, <1>3, <1>4, <1>5 DEF Inv, ChannelsOK
<1>7. LoopOK'
  BY DEF Inv, LoopOK, Accepted, idVars
<1>. QED
  BY <1>6, <1>7 DEF Inv

\* A failed handshake leaves the Channel unregistered.
LEMMA NotAcceptedInv == ASSUME Inv, NEW c \in Conns, NotAccepted(c) PROVE Inv'
<1>. DEFINE table == [chan EXCEPT ![c].accepting = FALSE]
<1>1. c \notin channels /\ chan[c] \in Channel /\ Sound(chan[c])
  BY DEF NotAccepted, Inv, ChannelsOK, Serving
<1>2. /\ table \in [Conns -> Channel]
      /\ \A d \in Conns : Sound(table[d])
      /\ \A d \in channels \ {c} : table[d] = chan[d]
  BY <1>1 DEF Inv, ChannelsOK, Channel, Sound
<1>3. ChannelsOK' /\ gameOf' = gameOf /\ playerOf' = playerOf
  BY <1>1, <1>2 DEF Inv, ChannelsOK, NotAccepted, Disconnect
<1>4. LoopOK'
  BY <1>3 DEF Inv, LoopOK, NotAccepted
<1>. QED
  BY <1>3, <1>4 DEF Inv

\* A failed read disconnects a channel that is not disconnected yet.
LEMMA ReadFailedInv == ASSUME Inv, NEW c \in Conns, ReadFailed(c) PROVE Inv'
<1>. DEFINE table == [chan EXCEPT ![c].reading = FALSE]
<1>1. /\ table \in [Conns -> Channel]
      /\ \A d \in Conns : Sound(table[d])
      /\ \A d \in channels \ {c} : table[d] = chan[d]
      /\ c \in channels => ~chan[c].disconnected /\ ~table[c].accepting
  <2>1. chan[c] \in Channel /\ Sound(chan[c])
    BY DEF Inv, ChannelsOK
  <2>2. table[c] = [chan[c] EXCEPT !.reading = FALSE]
    BY DEF Inv, ChannelsOK
  <2>3. table[c] \in Channel
    BY <2>1, <2>2, SetFlags
  <2>4. DOMAIN chan[c] = {"accepting", "reading", "disconnected", "writes", "buffer",
                          "queued", "wire"}
    BY <2>1 DEF Channel
  <2>5. /\ table[c].writes = chan[c].writes /\ table[c].buffer = chan[c].buffer
        /\ table[c].queued = chan[c].queued /\ table[c].wire = chan[c].wire
        /\ table[c].accepting = chan[c].accepting
        /\ table[c].disconnected = chan[c].disconnected
    BY <2>2, <2>4
  <2>. HIDE DEF table
  <2>6. Sound(table[c])
    BY <2>1, <2>5 DEF Sound
  <2>. QED
    <3>1. /\ table \in [Conns -> Channel]
          /\ \A d \in Conns \ {c} : table[d] = chan[d] /\ Sound(table[d])
      BY <2>3 DEF Inv, ChannelsOK, table
    <3>. QED
      BY <2>5, <2>6, <3>1 DEF Inv, ChannelsOK, Serving
<1>2. /\ ChannelsOK'
      /\ gameOf' \in [Conns -> 0..MaxId] /\ playerOf' \in [Conns -> 0..MaxId]
  <2>1. CASE ~chan[c].disconnected
    <3>1. Disconnect(table, c)
      BY <2>1 DEF ReadFailed
    <3>. HIDE DEF table
    <3>. QED
      BY <1>1, <3>1, DisconnectKeeps DEF Inv
  <2>2. CASE chan[c].disconnected
    <3>1. chan' = table /\ UNCHANGED <<clients, gameOf, playerOf, channels>>
      BY <2>2 DEF ReadFailed
    <3>. HIDE DEF table
    <3>. QED
      BY <1>1, <2>2, <3>1 DEF Inv, ChannelsOK, LoopOK
  <2>. QED
    BY <2>1, <2>2
<1>3. LoopOK'
  BY <1>2 DEF Inv, LoopOK, ReadFailed
<1>. QED
  BY <1>2, <1>3 DEF Inv

\* A finished write changes the one channel that it is of.
LEMMA WriteOkInv == ASSUME Inv, NEW c \in Conns, WriteOk(c) PROVE Inv'
<1>1. /\ chan[c] \in Channel /\ Sound(chan[c]) /\ chan[c].buffer # <<>>
      /\ chan[c].writes > 0
  BY DEF WriteOk, Inv, ChannelsOK
<1>2. chan[c].writes = 1
  BY <1>1 DEF Channel, Sound
<1>3. PICK p : /\ p = [chan[c] EXCEPT !.wire = Append(@, Head(chan[c].buffer)),
                                      !.buffer = Tail(chan[c].buffer),
                                      !.writes = @ - 1 + ChainWrite(Tail(chan[c].buffer))]
               /\ chan' = [chan EXCEPT ![c] = p]
  BY DEF WriteOk, Inv, ChannelsOK
<1>4. p \in Channel /\ Sound(p) /\ (Serving(chan[c]) => Serving(p))
  BY <1>1, <1>2, <1>3, WriteDone
<1>5. ChannelsOK'
  BY <1>3, <1>4 DEF Inv, ChannelsOK, WriteOk
<1>6. LoopOK'
  BY DEF Inv, LoopOK, WriteOk, idVars
<1>. QED
  BY <1>5, <1>6 DEF Inv

\* A failed write leaves the channel without one, and disconnects it.
LEMMA WriteFailedInv == ASSUME Inv, NEW c \in Conns, WriteFailed(c) PROVE Inv'
<1>. DEFINE p == [chan[c] EXCEPT !.writes = @ - 1]
            table == [chan EXCEPT ![c].writes = @ - 1]
<1>1. chan[c] \in Channel /\ Sound(chan[c]) /\ chan[c].writes = 1
  <2>1. chan[c] \in Channel /\ Sound(chan[c]) /\ chan[c].writes > 0
    BY DEF WriteFailed, Inv, ChannelsOK
  <2>. QED
    BY <2>1 DEF Channel, Sound
<1>2. p \in Channel /\ Sound(p) /\ p.accepting = chan[c].accepting
  <2>1. p \in Channel
    <3>1. p = [chan[c] EXCEPT !.writes = 0]
      BY <1>1
    <3>. QED
      BY <1>1, <3>1, SetFlags
  <2>2. /\ p.writes = 0 /\ p.buffer = chan[c].buffer /\ p.queued = chan[c].queued
        /\ p.wire = chan[c].wire /\ p.accepting = chan[c].accepting
        /\ p.disconnected = chan[c].disconnected
    BY <1>1 DEF Channel
  <2>. HIDE DEF p
  <2>. QED
    BY <1>1, <2>1, <2>2 DEF Sound
<1>3. table = [chan EXCEPT ![c] = p]
  OBVIOUS
<1>4. /\ table \in [Conns -> Channel]
      /\ \A d \in Conns : Sound(table[d])
      /\ \A d \in channels \ {c} : table[d] = chan[d]
      /\ c \in channels => ~chan[c].disconnected /\ ~table[c].accepting
  <2>. HIDE DEF p, table
  <2>. QED
    BY <1>2, <1>3 DEF Inv, ChannelsOK, Serving
<1>5. /\ ChannelsOK'
      /\ gameOf' \in [Conns -> 0..MaxId] /\ playerOf' \in [Conns -> 0..MaxId]
  <2>1. CASE ~chan[c].disconnected
    <3>1. Disconnect(table, c)
      BY <2>1 DEF WriteFailed
    <3>. HIDE DEF table
    <3>. QED
      BY <1>4, <3>1, DisconnectKeeps DEF Inv
  <2>2. CASE chan[c].disconnected
    <3>1. chan' = table /\ UNCHANGED <<clients, gameOf, playerOf, channels>>
      BY <2>2 DEF WriteFailed
    <3>. HIDE DEF table
    <3>. QED
      BY <1>4, <2>2, <3>1 DEF Inv, ChannelsOK, LoopOK
  <2>. QED
    BY <2>1, <2>2
<1>6. LoopOK'
  BY <1>5 DEF Inv, LoopOK, WriteFailed
<1>. QED
  BY <1>5, <1>6 DEF Inv

\* The end points change the maps of ids and the queue, and no channel.
LEMMA EndPointInv == Inv /\ (CreateGame \/ JoinGame \/ ConfigureGame) => Inv'
<1>. SUFFICES ASSUME Inv, CreateGame \/ JoinGame \/ ConfigureGame PROVE Inv'
  OBVIOUS
<1>. USE CapAssumption
<1>1. SendToLoop \in 0..QueueCap
  BY DEF SendToLoop, Inv, LoopOK
<1>2. ChannelsOK'
  BY DEF Inv, ChannelsOK, CreateGame, JoinGame, ConfigureGame, idVars
<1>3. CASE CreateGame
  <2>1. nextGame' \in 1..(MaxId + 1) /\ gameOf' \in [Conns -> 0..MaxId]
    BY <1>3 DEF Inv, LoopOK, CreateGame
  <2>. QED
    BY <1>1, <1>2, <1>3, <2>1 DEF Inv, LoopOK, CreateGame
<1>4. CASE JoinGame
  <2>1. /\ gameOf \in [Conns -> 0..MaxId] /\ playerOf \in [Conns -> 0..MaxId]
        /\ nextPlayer \in 1..(MaxId + 1) /\ nextPlayer <= MaxId /\ MaxId \in Nat
    BY <1>4 DEF Inv, LoopOK, JoinGame
  <2>2. /\ gameOf' = gameOf
        /\ \/ nextPlayer' = nextPlayer /\ playerOf' = playerOf
           \/ nextPlayer' = nextPlayer + 1 /\ playerOf' = [playerOf EXCEPT ![active] = nextPlayer]
    BY <1>4 DEF JoinGame
  <2>3. /\ nextPlayer' \in 1..(MaxId + 1)
        /\ gameOf' \in [Conns -> 0..MaxId] /\ playerOf' \in [Conns -> 0..MaxId]
    BY <2>1, <2>2
  <2>. QED
    BY <1>1, <1>2, <1>4, <2>3 DEF Inv, LoopOK, JoinGame
<1>5. CASE ConfigureGame
  BY <1>1, <1>2, <1>5 DEF Inv, LoopOK, ConfigureGame, idVars
<1>. QED
  BY <1>3, <1>4, <1>5

\* processMessages disconnects the channel of a "quit", whichever message of
\* the batch that is.
LEMMA ProcessMessagesInv == Inv /\ ProcessMessages => Inv'
<1>. SUFFICES ASSUME Inv, ProcessMessages PROVE Inv'
  OBVIOUS
<1>. USE CapAssumption
<1>. DEFINE first == CHOOSE i \in CommandAt : \A j \in CommandAt : i <= j
<1>1. /\ ChannelsOK'
      /\ gameOf' \in [Conns -> 0..MaxId] /\ playerOf' \in [Conns -> 0..MaxId]
  <2>1. CASE UNCHANGED <<chan, channels, clients, gameOf, playerOf>>
    BY <2>1 DEF Inv, ChannelsOK, LoopOK
  <2>2. CASE Disconnect(chan, incoming[first].conn)
    <3>1. /\ chan \in [Conns -> Channel] /\ \A d \in Conns : Sound(chan[d])
          /\ \A d \in channels : ~chan[d].accepting
      BY DEF Inv, ChannelsOK, Serving
    <3>. HIDE DEF first
    <3>. QED
      BY <2>2, <3>1, DisconnectKeeps DEF Inv
  <2>. QED
    BY <2>1, <2>2 DEF ProcessMessages
<1>2. incoming' \in Seq(Messages) /\ log' \in Seq(Messages)
  <2>1. <<>> \in Seq(Messages) /\ incoming \in Seq(Messages)
    BY DEF Inv, LoopOK
  <2>2. incoming' = <<>> /\ log' \in {incoming, <<>>}
    BY DEF ProcessMessages
  <2>. QED
    BY <2>1, <2>2
<1>3. LoopOK'
  BY <1>1, <1>2 DEF Inv, LoopOK, ProcessMessages
<1>. QED
  BY <1>1, <1>3 DEF Inv

\* Channel::send keeps what it is given in order, and starts a write exactly
\* when none is pending.
LEMMA SendInv == Inv /\ Send => Inv'
<1>. SUFFICES ASSUME Inv, Send PROVE Inv'
  OBVIOUS
<1>. USE CapAssumption
<1>1. ASSUME NEW c \in Conns
      PROVE  /\ SendLog(c) \in Channel /\ Sound(SendLog(c))
             /\ c \in channels => Serving(SendLog(c))
  <2>1. /\ chan[c] \in Channel /\ Sound(chan[c]) /\ (c \in channels => Serving(chan[c]))
        /\ log \in Logs
    BY DEF Inv, ChannelsOK, LoopOK, Logs
  <2>2. CASE SendLog(c) = chan[c]
    BY <2>1, <2>2
  <2>3. CASE SendLog(c) # chan[c]
    <3>1. /\ SendLog(c) = [chan[c] EXCEPT !.writes = StartWrite(chan[c]),
                                          !.buffer = Append(@, log),
                                          !.queued = Append(@, log)]
          /\ c \in channels
      BY <2>3 DEF SendLog
    <3>. QED
      BY <2>1, <3>1, TextQueued
  <2>. QED
    BY <2>2, <2>3
<1>2. ChannelsOK'
  <2>1. /\ chan' = [c \in Conns |-> SendLog(c)]
        /\ channels' = channels /\ clients' = clients
    BY DEF Send
  <2>. QED
    BY <1>1, <2>1 DEF Inv, ChannelsOK
<1>3. SendToLoop \in 0..QueueCap
  BY DEF SendToLoop, Inv, LoopOK
<1>4. LoopOK'
  BY <1>3 DEF Inv, LoopOK, Send, idVars
<1>. QED
  BY <1>2, <1>4 DEF Inv

\* Every step of the server and of the event loop process keeps the invariant.
LEMMA NextInv == Inv /\ [Next]_vars => Inv'
<1>. SUFFICES ASSUME Inv, [Next]_vars PROVE Inv'
  OBVIOUS
<1>. USE CapAssumption
<1>1. CASE Handlers
  <2>1. ASSUME NEW c \in Conns,
               \/ Upgrade(c) \/ Accepted(c) \/ NotAccepted(c)
               \/ ReadFailed(c) \/ WriteOk(c) \/ WriteFailed(c)
        PROVE  Inv'
    BY <2>1, UpgradeInv, AcceptedInv, NotAcceptedInv, ReadFailedInv, WriteOkInv,
       WriteFailedInv
  <2>2. ASSUME NEW c \in Conns, NEW text \in Texts, ReadOk(c, text) PROVE Inv'
    <3>1. [conn |-> c, text |-> text] \in Messages
      BY DEF Messages
    <3>2. incoming' \in Seq(Messages)
      <4>1. incoming \in Seq(Messages) /\ incoming' = Append(incoming, [conn |-> c, text |-> text])
        BY <2>2 DEF ReadOk, Inv, LoopOK
      <4>. QED
        BY <3>1, <4>1, AppendProperties
    <3>3. reads' \in 0..MaxReads
      BY <2>2 DEF ReadOk, Inv, LoopOK
    <3>. QED
      BY <2>2, <3>2, <3>3 DEF ReadOk, Inv, LoopOK, ChannelsOK, idVars
  <2>. QED
    BY <1>1, <2>1, <2>2, EndPointInv DEF Handlers
<1>2. ASSUME NEW error \in BOOLEAN, UpdateEnds(error) PROVE Inv'
  BY <1>2 DEF UpdateEnds, Inv, LoopOK, ChannelsOK, idVars
<1>3. CASE ProcessMessages
  BY <1>3, ProcessMessagesInv
<1>4. CASE Send
  BY <1>4, SendInv
<1>5. CASE LoopReads
  BY <1>5 DEF LoopReads, Inv, LoopOK, ChannelsOK, idVars
<1>6. CASE UNCHANGED vars
  BY <1>6 DEF vars, idVars, Inv, LoopOK, ChannelsOK
<1>7. CASE Stopped
  BY <1>6, <1>7 DEF Stopped
<1>. QED
  BY <1>1, <1>2, <1>3, <1>4, <1>5, <1>6, <1>7 DEF Next

\* The invariant holds in every state of the server.
LEMMA InvAlways == Spec => []Inv
<1>. QED
  BY InitInv, NextInv, PTL DEF Spec

-----------------------------------------------------------------------------
(* What the invariant gives                                                 *)

\* A buffer that is the rest of what was queued is no longer than that.
LEMMA InvTypeOK == Inv => TypeOK
<1>. SUFFICES ASSUME Inv PROVE TypeOK
  OBVIOUS
<1>1. ASSUME NEW c \in Conns
      PROVE  /\ chan[c].accepting \in BOOLEAN /\ chan[c].reading \in BOOLEAN
             /\ chan[c].disconnected \in BOOLEAN /\ chan[c].writes \in {0, 1}
             /\ Len(chan[c].buffer) <= Len(chan[c].queued)
  <2>1. chan[c] \in Channel /\ Sound(chan[c])
    BY DEF Inv, ChannelsOK
  <2>2. Len(chan[c].buffer) <= Len(chan[c].queued)
    <3>. DEFINE w == chan[c].wire
                b == chan[c].buffer
    <3>1. w \in Seq(Logs) /\ b \in Seq(Logs)
      BY <2>1 DEF Channel
    <3>2. chan[c].queued = w \o b
      BY <2>1 DEF Sound
    <3>. HIDE DEF w, b
    <3>3. Len(w \o b) = Len(w) + Len(b) /\ Len(w) \in Nat /\ Len(b) \in Nat
      BY <3>1, ConcatProperties, LenProperties
    <3>4. Len(b) <= Len(w \o b)
      BY <3>3
    <3>. QED
      BY <3>2, <3>4 DEF b
  <2>3. chan[c].writes \in {0, 1}
    BY <2>1 DEF Channel, Sound
  <2>. QED
    BY <2>1, <2>2, <2>3 DEF Channel
<1>2. DOMAIN chan = Conns
  BY DEF Inv, ChannelsOK
<1>. QED
  BY <1>1, <1>2 DEF Inv, LoopOK, ChannelsOK, TypeOK

\* The server keeps the types of its state, and a channel has at most one
\* write pending.
THEOREM TypeCorrect == Spec => []TypeOK
<1>. QED
  BY InvTypeOK, InvAlways, PTL

\* The vector of clients and the channel map agree whatever the order of
\* connects, failures, quits and reused addresses: gameserver.cpp sends to
\* every registered channel, once, and to nothing else.
THEOREM ClientsAreChannelsHolds == Spec => []ClientsAreChannels
<1>1. Inv => ClientsAreChannels
  BY DEF Inv, ChannelsOK, Serving, ClientsAreChannels
<1>. QED
  BY <1>1, InvAlways, PTL

\* No channel has two writes pending, and a registered one writes exactly as
\* long as its buffer holds something.
THEOREM OneWriteAtATimeHolds == Spec => []OneWriteAtATime
<1>1. Inv => OneWriteAtATime
  BY DEF Inv, ChannelsOK, Sound, Serving, OneWriteAtATime
<1>. QED
  BY <1>1, InvAlways, PTL

\* What a client is written is what it was sent, in order and each once, up
\* to the texts in its buffer.
THEOREM SentInOrderHolds == Spec => []SentInOrder
<1>1. Inv => SentInOrder
  BY DEF Inv, ChannelsOK, Sound, SentInOrder
<1>. QED
  BY <1>1, InvAlways, PTL

-----------------------------------------------------------------------------
(* HttpSession                                                              *)

\* What holds of every session object.
Good(o) ==
    /\ o.phase = "free" => o = FreeSession
    /\ o.phase = "accepting" => o = NewSession
    /\ o.phase # "free" /\ ~o.spoilt =>
         /\ o.phase # "undefined"
         /\ o.reads + Len(o.writes) = (IF o.phase = "open" THEN 1 ELSE 0)
         /\ ~o.moved

\* What a conversation may do in a step of one session.
Moves == {<<"idle", "reading">>, <<"reading", "answering">>, <<"reading", "spoilt">>,
          <<"answering", "reading">>, <<"answering", "idle">>,
          <<"reading", "idle">>, <<"spoilt", "idle">>}

MovesTo(o, p) == View(o) = View(p) \/ <<View(o), View(p)>> \in Moves

\* p is what a handler may leave of a session o.
Follows(o, p) == p \in Session /\ Good(p) /\ MovesTo(o, p)

\* ... before Settle looks whether any handler is left.
Unsettled(p) ==
    /\ p \in Session
    /\ p.phase = "open" \/ (p.phase = "undefined" /\ p.spoilt)
    /\ ~p.spoilt => \/ p.reads = 0 /\ p.writes = <<>>
                    \/ p.reads + Len(p.writes) = 1 /\ ~p.moved

Busy(o) == View(o) \in {"reading", "answering", "spoilt"}

HttpInv ==
    /\ Inv
    /\ session \in [Sessions -> Session]
    /\ requests \in 0..MaxRequests
    /\ \A s \in Sessions : Good(session[s])

-----------------------------------------------------------------------------
(* What a handler leaves of its session                                     *)

\* A session that is made, or has no handler, is idle and has nothing pending.
LEMMA IdleSessions ==
  /\ NewSession \in Session /\ Good(NewSession) /\ View(NewSession) = "idle"
  /\ FreeSession \in Session /\ Good(FreeSession) /\ View(FreeSession) = "idle"
  /\ NewSession.phase = "accepting" /\ FreeSession.phase = "free"
<1>1. <<>> \in Seq(BOOLEAN) /\ Len(<<>>) = 0
  OBVIOUS
<1>2. NewSession \in Session /\ NewSession.phase = "accepting"
  BY <1>1 DEF NewSession, Session
<1>3. FreeSession \in Session /\ FreeSession.phase = "free"
  BY <1>2 DEF FreeSession, Session
<1>4. Good(NewSession)
  BY <1>1 DEF Good, NewSession
<1>5. Good(FreeSession)
  BY <1>3 DEF Good
<1>6. View(NewSession) = "idle" /\ View(FreeSession) = "idle"
  BY <1>2, <1>3 DEF View
<1>. QED
  BY <1>2, <1>3, <1>4, <1>5, <1>6

\* A session whose last handler is done is freed; any other is left as it is.
LEMMA SettleFollows ==
  ASSUME NEW o, NEW p, Busy(o), Unsettled(p), MovesTo(o, p)
  PROVE  Follows(o, Settle(p))
<1>1. CASE p.phase = "open" /\ p.reads = 0 /\ p.writes = <<>>
  <2>1. Settle(p) = FreeSession
    BY <1>1 DEF Settle
  <2>. QED
    BY <2>1, IdleSessions DEF Follows, MovesTo, Moves, Busy
<1>2. CASE ~(p.phase = "open" /\ p.reads = 0 /\ p.writes = <<>>)
  <2>1. Settle(p) = p
    BY <1>2 DEF Settle
  <2>2. Good(p)
    BY <1>2 DEF Good, Unsettled, Session
  <2>. QED
    BY <2>1, <2>2 DEF Follows, Unsettled
<1>. QED
  BY <1>1, <1>2

\* A session that reads a request, and how it looks.
LEMMA ReadingSession ==
  ASSUME NEW o \in Session, Good(o), o.phase = "open"
  PROVE  /\ Busy(o)
         /\ o.spoilt <=> View(o) = "spoilt"
         /\ ~o.spoilt => /\ ~o.moved
                         /\ o.reads + Len(o.writes) = 1
                         /\ o.reads > 0 => o.writes = <<>> /\ View(o) = "reading"
                         /\ o.writes # <<>> => o.reads = 0 /\ View(o) = "answering"
<1>1. o.writes \in Seq(BOOLEAN) /\ o.reads \in 0..1 /\ o.spoilt \in BOOLEAN
  BY DEF Session
<1>2. Len(o.writes) \in Nat /\ (o.writes # <<>> <=> Len(o.writes) > 0)
  BY <1>1, EmptySeq, LenProperties
<1>3. /\ Busy(o)
      /\ o.spoilt <=> View(o) = "spoilt"
  <2>1. o.phase \notin {"free", "accepting"}
    OBVIOUS
  <2>2. CASE o.spoilt
    BY <2>1, <2>2 DEF View, Busy
  <2>3. CASE ~o.spoilt /\ o.writes # <<>>
    BY <2>1, <2>3 DEF View, Busy
  <2>4. CASE ~o.spoilt /\ o.writes = <<>>
    BY <2>1, <2>4 DEF View, Busy
  <2>. QED
    BY <2>2, <2>3, <2>4
<1>4. ~o.spoilt => ~o.moved /\ o.reads + Len(o.writes) = 1
  BY DEF Good
<1>5. ~o.spoilt => (IF o.writes # <<>> THEN View(o) = "answering" ELSE View(o) = "reading")
  BY DEF View
<1>. QED
  BY <1>1, <1>2, <1>3, <1>4, <1>5

\* What a handler changes of a session keeps its types.
LEMMA SessionWith ==
  ASSUME NEW o \in Session, NEW n \in 0..1, NEW writes \in Seq(BOOLEAN),
         NEW b \in BOOLEAN
  PROVE  /\ [o EXCEPT !.reads = n, !.writes = writes, !.spoilt = b] \in Session
         /\ [o EXCEPT !.reads = n, !.moved = b] \in Session
         /\ [o EXCEPT !.writes = writes] \in Session
<1>. DEFINE T == Seq(BOOLEAN)
            P == {"free", "accepting", "open", "undefined"}
<1>1. Session = [phase : P, reads : 0..1, writes : T, moved : BOOLEAN, spoilt : BOOLEAN]
  BY DEF Session
<1>2. writes \in T
  OBVIOUS
<1>. HIDE DEF T, P
<1>. QED
  BY <1>1, <1>2

\* An answer of the code: at most one, unless the target is illegal and the
\* method GET or HEAD.
LEMMA AnswersBound ==
  ASSUME NEW req \in Requests
  PROVE  Answers(req) \in 0..2 /\ (~Spoils(req) => Answers(req) \in 0..1)
<1>. QED
  BY DEF Answers, Spoils, Requests, EndPoints, Targets

\* Taking an element out of a sequence.
LEMMA RemoveAtProperties ==
  ASSUME NEW S, NEW q \in Seq(S), NEW i \in 1..Len(q)
  PROVE  /\ RemoveAt(q, i) \in Seq(S)
         /\ Len(RemoveAt(q, i)) = Len(q) - 1
<1>. DEFINE front == SubSeq(q, 1, i - 1)
            back == SubSeq(q, i + 1, Len(q))
<1>1. Len(q) \in Nat /\ i \in Nat /\ 1 <= i /\ i <= Len(q)
  BY LenProperties
<1>2. front \in Seq(S) /\ Len(front) = i - 1
  BY <1>1, SubSeqProperties
<1>3. back \in Seq(S) /\ Len(back) = Len(q) - i
  BY <1>1, SubSeqProperties
<1>. HIDE DEF front, back
<1>4. front \o back \in Seq(S) /\ Len(front \o back) = Len(front) + Len(back)
  BY <1>2, <1>3, ConcatProperties
<1>5. RemoveAt(q, i) = front \o back
  BY DEF RemoveAt, front, back
<1>6. (i - 1) + (Len(q) - i) = Len(q) - 1
  BY <1>1
<1>. QED
  BY <1>2, <1>3, <1>4, <1>5, <1>6

\* What start's handler leaves of a session that read a request.
LEMMA RequestFollows ==
  ASSUME NEW o \in Session, Good(o), o.phase = "open", o.reads > 0, NEW req \in Requests
  PROVE  Follows(o, Settle([o EXCEPT !.reads = @ - 1,
                                     !.writes = @ \o [i \in 1..Answers(req) |-> req.keep],
                                     !.spoilt = @ \/ Spoils(req)]))
<1>. DEFINE answers == [i \in 1..Answers(req) |-> req.keep]
            writes == o.writes \o answers
            spoilt == o.spoilt \/ Spoils(req)
            n == o.reads - 1
            p == [o EXCEPT !.reads = n, !.writes = writes, !.spoilt = spoilt]
<1>1. o.reads = 1 /\ o.writes \in Seq(BOOLEAN) /\ o.spoilt \in BOOLEAN
  BY DEF Session
<1>2. answers \in Seq(BOOLEAN) /\ Len(answers) = Answers(req)
  BY AnswersBound DEF Requests
<1>. HIDE DEF answers
<1>3. writes \in Seq(BOOLEAN) /\ Len(writes) = Len(o.writes) + Answers(req)
  <2>. DEFINE v == o.writes
  <2>1. v \in Seq(BOOLEAN)
    BY <1>1
  <2>. HIDE DEF v
  <2>2. v \o answers \in Seq(BOOLEAN) /\ Len(v \o answers) = Len(v) + Len(answers)
    BY <1>2, <2>1, ConcatProperties
  <2>. QED
    BY <1>2, <2>2 DEF v
<1>4. spoilt \in BOOLEAN
  OBVIOUS
<1>. HIDE DEF writes, spoilt
<1>5. /\ p \in Session /\ p.phase = "open" /\ p.reads = 0 /\ p.writes = writes
      /\ p.spoilt = spoilt /\ p.moved = o.moved
  <2>1. n \in 0..1 /\ n = 0
    BY <1>1
  <2>. HIDE DEF n
  <2>2. p \in Session
    BY <1>3, <1>4, <2>1, SessionWith
  <2>. QED
    BY <2>1, <2>2 DEF Session
<1>. HIDE DEF p
<1>6. MovesTo(o, p)
  <2>1. CASE o.spoilt
    BY <1>5, <2>1, ReadingSession DEF spoilt, View, MovesTo
  <2>2. CASE ~o.spoilt
    <3>1. View(o) = "reading" /\ o.writes = <<>>
      BY <2>2, ReadingSession
    <3>2. View(p) \in {"spoilt", "answering", "reading"}
      BY <1>5 DEF View
    <3>. QED
      BY <3>1, <3>2 DEF Moves, MovesTo
  <2>. QED
    BY <2>1, <2>2
<1>7. ~p.spoilt => \/ p.reads = 0 /\ p.writes = <<>>
                   \/ p.reads + Len(p.writes) = 1 /\ ~p.moved
  <2>. SUFFICES ASSUME ~p.spoilt
                PROVE  \/ p.reads = 0 /\ p.writes = <<>>
                       \/ p.reads + Len(p.writes) = 1 /\ ~p.moved
    OBVIOUS
  <2>1. ~o.spoilt /\ ~Spoils(req)
    BY <1>5 DEF spoilt
  <2>2. ~o.moved /\ o.writes = <<>> /\ Answers(req) \in 0..1
    BY <1>1, <2>1, ReadingSession, AnswersBound
  <2>3. Len(writes) \in 0..1
    <3>1. Len(<<>>) = 0
      OBVIOUS
    <3>. QED
      BY <1>3, <2>2, <3>1
  <2>4. CASE Len(writes) = 0
    BY <1>3, <1>5, <2>4, EmptySeq
  <2>5. CASE Len(writes) = 1
    BY <1>5, <2>2, <2>5
  <2>. QED
    BY <2>3, <2>4, <2>5
<1>8. Unsettled(p)
  BY <1>5, <1>7 DEF Unsettled
<1>9. Follows(o, Settle(p))
  BY <1>6, <1>8, ReadingSession, SettleFollows
<1>. QED
  BY <1>9 DEF p, n, writes, answers, spoilt

\* A request to upgrade, and a failed read, leave a session without a read.
LEMMA ReadEndFollows ==
  ASSUME NEW o \in Session, Good(o), o.phase = "open", o.reads > 0, NEW moved \in BOOLEAN
  PROVE  Follows(o, Settle([o EXCEPT !.reads = @ - 1, !.moved = moved]))
<1>. DEFINE n == o.reads - 1
            p == [o EXCEPT !.reads = n, !.moved = moved]
<1>1. o.reads = 1
  BY DEF Session
<1>2. /\ p \in Session /\ p.phase = "open" /\ p.reads = 0 /\ p.writes = o.writes
      /\ p.spoilt = o.spoilt
  <2>1. n \in 0..1 /\ n = 0
    BY <1>1
  <2>. HIDE DEF n
  <2>2. p \in Session
    BY <2>1, EmptySeq, SessionWith
  <2>. QED
    BY <2>1, <2>2 DEF Session
<1>. HIDE DEF p
<1>3. MovesTo(o, p)
  BY <1>2 DEF View, MovesTo
<1>4. ~p.spoilt => p.reads = 0 /\ p.writes = <<>>
  BY <1>2, ReadingSession
<1>5. Unsettled(p)
  BY <1>2, <1>4 DEF Unsettled
<1>6. Follows(o, Settle(p))
  BY <1>3, <1>5, ReadingSession, SettleFollows
<1>. QED
  BY <1>6 DEF p, n

\* send's handler leaves a session without the answer, and reading on when
\* the answer was good and keeps the connection.
LEMMA AnswerFollows ==
  ASSUME NEW o \in Session, Good(o), o.phase = "open", NEW i \in DOMAIN o.writes,
         NEW keep \in BOOLEAN
  PROVE  Follows(o, Settle(ReadOn([o EXCEPT !.writes = RemoveAt(@, i)], keep)))
<1>. DEFINE writes == RemoveAt(o.writes, i)
            p == [o EXCEPT !.writes = writes]
            r == ReadOn(p, keep)
<1>1. o.writes \in Seq(BOOLEAN) /\ o.reads \in 0..1 /\ i \in 1..Len(o.writes)
  BY LenProperties DEF Session
<1>2. writes \in Seq(BOOLEAN) /\ Len(writes) = Len(o.writes) - 1
  BY <1>1, RemoveAtProperties
<1>3. o.writes # <<>>
  BY <1>1, EmptySeq
<1>. HIDE DEF writes
<1>4. /\ p \in Session /\ p.phase = "open" /\ p.reads = o.reads /\ p.writes = writes
      /\ p.spoilt = o.spoilt /\ p.moved = o.moved
  BY <1>2 DEF Session
<1>. HIDE DEF p
<1>5. /\ r \in Session /\ r.phase \in {"open", "undefined"} /\ r.writes = writes
      /\ r.spoilt = o.spoilt /\ r.moved = o.moved
      /\ o.reads = 0 => r.phase = "open" /\ r.reads \in {0, 1}
  <2>1. CASE ~keep
    BY <1>1, <1>4, <2>1 DEF ReadOn
  <2>2. CASE keep /\ p.reads = 0
    BY <1>4, <2>2 DEF ReadOn, StartRead, Session
  <2>3. CASE keep /\ p.reads # 0
    BY <1>4, <2>3 DEF ReadOn, StartRead, Session
  <2>. QED
    BY <2>1, <2>2, <2>3
<1>. HIDE DEF r
<1>6. MovesTo(o, r) /\ Unsettled(r)
  <2>1. CASE o.spoilt
    <3>1. View(o) = "spoilt" /\ View(r) = "spoilt"
      BY <1>5, <2>1, ReadingSession DEF View
    <3>. QED
      BY <1>5, <2>1, <3>1 DEF MovesTo, Unsettled
  <2>2. CASE ~o.spoilt
    <3>1. ~o.moved /\ o.reads = 0 /\ Len(o.writes) = 1 /\ View(o) = "answering"
      <4>1. /\ ~o.moved /\ o.reads = 0 /\ View(o) = "answering"
            /\ o.reads + Len(o.writes) = 1
        BY <1>3, <2>2, ReadingSession
      <4>2. Len(o.writes) \in Nat
        BY <1>1, LenProperties
      <4>. QED
        BY <4>1, <4>2
    <3>2. writes = <<>> /\ Len(<<>>) = 0
      BY <1>2, <3>1, EmptySeq
    <3>3. View(r) = "reading"
      BY <1>5, <2>2, <3>1, <3>2 DEF View
    <3>4. r.reads \in {0, 1} /\ r.writes = <<>> /\ r.phase = "open" /\ ~r.moved
      BY <1>5, <3>1, <3>2
    <3>5. Unsettled(r)
      BY <1>5, <3>2, <3>4 DEF Unsettled
    <3>. QED
      BY <3>1, <3>3, <3>5 DEF MovesTo, Moves
  <2>. QED
    BY <2>1, <2>2
<1>7. Follows(o, Settle(r))
  BY <1>6, ReadingSession, SettleFollows
<1>. QED
  BY <1>7 DEF r, p, writes

-----------------------------------------------------------------------------
(* The steps                                                                *)

stages == [s \in Sessions |-> Stage(s)]

Down == pc \in {"exited", "crashed"}

\* A step of the sessions is a step of the server, or leaves it alone, and
\* changes sessions only while the server polls.
LEMMA ServerStep == [HttpNext]_allVars => [Next]_vars
<1>. SUFFICES ASSUME [HttpNext]_allVars PROVE [Next]_vars
  OBVIOUS
<1>1. CASE UNCHANGED allVars
  BY <1>1 DEF allVars
<1>2. ASSUME NEW s \in Sessions, NEW ok \in BOOLEAN, Accept(s, ok) PROVE [Next]_vars
  BY <1>2 DEF Accept
<1>3. ASSUME NEW s \in Sessions, NEW req \in Requests, ReadRequest(s, req)
      PROVE  [Next]_vars
  <2>1. CreateGame \/ JoinGame \/ ConfigureGame \/ UNCHANGED vars
    BY <1>3, Zenon DEF ReadRequest, Handle, EndPoints
  <2>. QED
    BY <2>1 DEF Next, Handlers
<1>4. ASSUME NEW s \in Sessions, NEW c \in Conns, ReadUpgrade(s, c) PROVE [Next]_vars
  BY <1>4 DEF ReadUpgrade, Next, Handlers
<1>5. ASSUME NEW s \in Sessions, SessionReadFailed(s) \/ AnswerWritten(s)
      PROVE  [Next]_vars
  BY <1>5 DEF SessionReadFailed, AnswerWritten
<1>6. ASSUME NEW s \in Sessions, NEW throws \in BOOLEAN, AnswerFailed(s, throws)
      PROVE  [Next]_vars
  <2>1. UpdateEnds(TRUE) \/ UNCHANGED vars
    BY <1>6 DEF AnswerFailed
  <2>. QED
    BY <2>1 DEF Next
<1>7. CASE ChannelHandlers
  BY <1>7 DEF ChannelHandlers, Next, Handlers
<1>8. CASE MainLoop
  BY <1>8 DEF MainLoop, Next
<1>. QED
  BY <1>1, <1>2, <1>3, <1>4, <1>5, <1>6, <1>7, <1>8 DEF HttpNext, HttpHandlers

\* A server that is down stays so.
LEMMA DownStays == Down /\ [Next]_vars => Down'
<1>. QED
  BY DEF Down, Next, Handlers, vars, Stopped, LoopReads, Send, ProcessMessages, UpdateEnds,
         Polling, Upgrade, Accepted, NotAccepted, ReadOk, ReadFailed, WriteOk, WriteFailed,
         CreateGame, JoinGame, ConfigureGame

\* One session moves, and the others look as before.
OneMoves(t) ==
    /\ MovesTo(session[t], session'[t])
    /\ \A u \in Sessions \ {t} : View(session'[u]) = View(session[u])

\* What a step does to the sessions: they stay good, and a step that one of
\* them can see is of one of them alone, while the server polls.
SessionsMove ==
    /\ session' \in [Sessions -> Session]
    /\ \A s \in Sessions : Good(session'[s])
    /\ \/ \A s \in Sessions : View(session'[s]) = View(session[s])
       \/ ~Down /\ \E t \in Sessions : OneMoves(t)

\* A handler that leaves its own session as it may.
LEMMA PutMoves ==
  ASSUME HttpInv, NEW s \in Sessions, NEW p, Follows(session[s], Settle(p)), Put(s, p),
         Polling
  PROVE  SessionsMove
<1>1. session \in [Sessions -> Session] /\ \A t \in Sessions : Good(session[t])
  BY DEF HttpInv
<1>2. session' = [session EXCEPT ![s] = Settle(p)]
  BY DEF Put
<1>3. session'[s] = Settle(p) /\ \A t \in Sessions \ {s} : session'[t] = session[t]
  BY <1>1, <1>2
<1>4. session' \in [Sessions -> Session] /\ \A t \in Sessions : Good(session'[t])
  BY <1>1, <1>2, <1>3 DEF Follows
<1>5. OneMoves(s)
  BY <1>3 DEF OneMoves, Follows
<1>6. ~Down
  BY DEF Down, Polling
<1>. QED
  BY <1>4, <1>5, <1>6 DEF SessionsMove

\* A connection: its session reads, or is free again, and another session
\* waits for the next one.
LEMMA AcceptMoves ==
  ASSUME HttpInv, NEW s \in Sessions, NEW ok \in BOOLEAN, Accept(s, ok)
  PROVE  SessionsMove
<1>. DEFINE p == IF ok THEN StartRead([session[s] EXCEPT !.phase = "open"]) ELSE FreeSession
<1>1. PICK t \in Sessions :
        /\ session[t].phase = "free"
        /\ session' = [session EXCEPT ![s] = p, ![t] = NewSession]
  BY DEF Accept
<1>2. /\ session \in [Sessions -> Session] /\ \A u \in Sessions : Good(session[u])
      /\ session[s].phase = "accepting"
  BY DEF HttpInv, Accept
<1>3. session[s] = NewSession /\ t # s /\ View(session[t]) = "idle" /\ View(session[s]) = "idle"
  BY <1>1, <1>2 DEF Good, View
<1>4. Follows(session[s], p)
  <2>1. CASE ~ok
    BY <1>3, <2>1, IdleSessions DEF Follows, MovesTo
  <2>2. CASE ok
    <3>. DEFINE o == [NewSession EXCEPT !.phase = "open"]
                r == [o EXCEPT !.reads = 1]
    <3>1. <<>> \in Seq(BOOLEAN) /\ Len(<<>>) = 0
      BY EmptySeq
    <3>2. /\ o.phase = "open" /\ o.reads = 0 /\ o.writes = <<>> /\ ~o.moved /\ ~o.spoilt
          /\ o \in Session
      <4>1. /\ NewSession \in Session /\ NewSession.reads = 0 /\ NewSession.writes = <<>>
            /\ ~NewSession.moved /\ ~NewSession.spoilt
        BY IdleSessions DEF NewSession
      <4>. QED
        BY <4>1 DEF Session
    <3>. HIDE DEF o
    <3>3. /\ r.phase = "open" /\ r.reads = 1 /\ r.writes = <<>> /\ ~r.moved /\ ~r.spoilt
          /\ r \in Session
      BY <3>2 DEF Session
    <3>4. p = r
      BY <1>3, <2>2, <3>2 DEF StartRead, o
    <3>. HIDE DEF r, p
    <3>5. Good(r) /\ View(r) = "reading"
      BY <3>1, <3>3 DEF Good, View
    <3>. QED
      BY <1>3, <3>3, <3>4, <3>5 DEF Follows, MovesTo, Moves
  <2>. QED
    BY <2>1, <2>2
<1>. HIDE DEF p
<1>5. /\ session'[s] = p /\ session'[t] = NewSession
      /\ \A u \in Sessions \ {s, t} : session'[u] = session[u]
  BY <1>1, <1>2, <1>3
<1>6. session' \in [Sessions -> Session] /\ \A u \in Sessions : Good(session'[u])
  BY <1>1, <1>2, <1>4, <1>5, IdleSessions DEF Follows
<1>7. OneMoves(s)
  BY <1>3, <1>4, <1>5, IdleSessions DEF OneMoves, Follows
<1>8. ~Down
  BY DEF Accept, Down, Polling
<1>. QED
  BY <1>6, <1>7, <1>8 DEF SessionsMove

\* Every step moves the sessions as it may.
LEMMA StepMoves ==
  ASSUME HttpInv, [HttpNext]_allVars
  PROVE  SessionsMove /\ requests' \in 0..MaxRequests
<1>. USE RequestAssumption
<1>1. CASE session' = session /\ requests' = requests
  BY <1>1 DEF HttpInv, SessionsMove
<1>2. ASSUME NEW s \in Sessions, NEW ok \in BOOLEAN, Accept(s, ok)
      PROVE  SessionsMove /\ requests' \in 0..MaxRequests
  BY <1>2, AcceptMoves DEF Accept, HttpInv
<1>3. ASSUME NEW s \in Sessions, Open(s)
      PROVE  /\ session[s] \in Session /\ Good(session[s]) /\ session[s].phase = "open"
             /\ Polling
  BY <1>3 DEF Open, HttpInv
<1>4. ASSUME NEW s \in Sessions, NEW req \in Requests, ReadRequest(s, req)
      PROVE  SessionsMove /\ requests' \in 0..MaxRequests
  <2>1. Open(s) /\ session[s].reads > 0 /\ requests < MaxRequests /\ requests' = requests + 1
    BY <1>4 DEF ReadRequest
  <2>2. Follows(session[s],
                Settle([session[s] EXCEPT
                          !.reads = @ - 1,
                          !.writes = @ \o [i \in 1..Answers(req) |-> req.keep],
                          !.spoilt = @ \/ Spoils(req)]))
    BY <1>3, <2>1, RequestFollows
  <2>3. SessionsMove
    BY <1>3, <1>4, <2>1, <2>2, PutMoves DEF ReadRequest
  <2>. QED
    BY <2>1, <2>3 DEF HttpInv
<1>5. ASSUME NEW s \in Sessions, NEW c \in Conns, ReadUpgrade(s, c)
      PROVE  SessionsMove /\ requests' \in 0..MaxRequests
  <2>1. Open(s) /\ session[s].reads > 0 /\ requests < MaxRequests /\ requests' = requests + 1
    BY <1>5 DEF ReadUpgrade
  <2>2. Follows(session[s], Settle([session[s] EXCEPT !.reads = @ - 1, !.moved = TRUE]))
    BY <1>3, <2>1, ReadEndFollows
  <2>3. SessionsMove
    BY <1>3, <1>5, <2>1, <2>2, PutMoves DEF ReadUpgrade
  <2>. QED
    BY <2>1, <2>3 DEF HttpInv
<1>6. ASSUME NEW s \in Sessions, SessionReadFailed(s)
      PROVE  SessionsMove /\ requests' \in 0..MaxRequests
  <2>1. Open(s) /\ session[s].reads > 0 /\ requests' = requests
    BY <1>6 DEF SessionReadFailed
  <2>2. session[s].moved \in BOOLEAN
    BY <1>3, <2>1 DEF Session
  <2>3. [session[s] EXCEPT !.reads = @ - 1, !.moved = session[s].moved]
          = [session[s] EXCEPT !.reads = @ - 1]
    BY <1>3, <2>1 DEF Session
  <2>4. Follows(session[s], Settle([session[s] EXCEPT !.reads = @ - 1]))
    BY <1>3, <2>1, <2>2, <2>3, ReadEndFollows
  <2>5. SessionsMove
    BY <1>3, <1>6, <2>1, <2>4, PutMoves DEF SessionReadFailed
  <2>. QED
    BY <2>1, <2>5 DEF HttpInv
<1>7. ASSUME NEW s \in Sessions, AnswerWritten(s)
      PROVE  SessionsMove /\ requests' \in 0..MaxRequests
  <2>1. Open(s) /\ requests' = requests
    BY <1>7 DEF AnswerWritten
  <2>2. PICK i \in DOMAIN session[s].writes :
          Put(s, ReadOn([session[s] EXCEPT !.writes = RemoveAt(@, i)], session[s].writes[i]))
    BY <1>7 DEF AnswerWritten
  <2>3. session[s].writes[i] \in BOOLEAN
    BY <1>3, <2>1, ElementOfSeq DEF Session
  <2>4. Follows(session[s], Settle(ReadOn([session[s] EXCEPT !.writes = RemoveAt(@, i)],
                                          session[s].writes[i])))
    BY <1>3, <2>1, <2>3, AnswerFollows
  <2>5. SessionsMove
    BY <1>3, <2>1, <2>2, <2>4, PutMoves
  <2>. QED
    BY <2>1, <2>5 DEF HttpInv
<1>8. ASSUME NEW s \in Sessions, NEW throws \in BOOLEAN, AnswerFailed(s, throws)
      PROVE  SessionsMove /\ requests' \in 0..MaxRequests
  <2>1. Open(s) /\ requests' = requests
    BY <1>8 DEF AnswerFailed
  <2>2. PICK i \in DOMAIN session[s].writes :
          Put(s, [session[s] EXCEPT !.writes = RemoveAt(@, i)])
    BY <1>8 DEF AnswerFailed
  <2>3. Follows(session[s], Settle(ReadOn([session[s] EXCEPT !.writes = RemoveAt(@, i)], FALSE)))
    BY <1>3, <2>1, AnswerFollows
  <2>4. Follows(session[s], Settle([session[s] EXCEPT !.writes = RemoveAt(@, i)]))
    BY <2>3 DEF ReadOn
  <2>5. SessionsMove
    BY <1>3, <2>1, <2>2, <2>4, PutMoves
  <2>. QED
    BY <2>1, <2>5 DEF HttpInv
<1>9. CASE UNCHANGED allVars
  BY <1>1, <1>9 DEF allVars
<1>10. CASE ChannelHandlers
  BY <1>1, <1>10 DEF ChannelHandlers, httpVars
<1>11. CASE MainLoop
  BY <1>1, <1>11 DEF MainLoop, httpVars
<1>. QED
  BY <1>2, <1>4, <1>5, <1>6, <1>7, <1>8, <1>9, <1>10, <1>11 DEF HttpNext, HttpHandlers

\* The server starts with one session, which waits for a connection.
LEMMA HttpInitInv == HttpInit => HttpInv /\ Conversation!Init
<1>. SUFFICES ASSUME HttpInit PROVE HttpInv /\ Conversation!Init
  OBVIOUS
<1>1. PICK s \in Sessions :
        session = [t \in Sessions |-> IF t = s THEN NewSession ELSE FreeSession]
  BY DEF HttpInit
<1>2. \A t \in Sessions : /\ session[t] \in Session /\ Good(session[t])
                          /\ View(session[t]) = "idle"
  BY <1>1, IdleSessions
<1>3. HttpInv
  BY <1>1, <1>2, InitInv, RequestAssumption DEF HttpInit, HttpInv
<1>4. \A t \in Sessions : Stage(t) = "idle"
  BY <1>2 DEF Stage, HttpInit, Init
<1>. QED
  BY <1>3, <1>4 DEF Conversation!Init

\* Every step keeps the invariant, and is a step of a conversation: of one
\* session, or of all of them when the server goes down.
LEMMA HttpNextInv ==
  HttpInv /\ [HttpNext]_allVars => HttpInv' /\ [Conversation!Next]_stages
<1>. SUFFICES ASSUME HttpInv, [HttpNext]_allVars
              PROVE  HttpInv' /\ [Conversation!Next]_stages
  OBVIOUS
<1>1. SessionsMove /\ requests' \in 0..MaxRequests
  BY StepMoves
<1>2. HttpInv'
  BY <1>1, ServerStep, NextInv DEF HttpInv, SessionsMove
<1>3. CASE Down
  BY <1>2, <1>3, ServerStep, DownStays DEF stages, Stage, Down
<1>4. CASE ~Down /\ Down'
  <2>1. stages' = [s \in Sessions |-> "down"]
    BY <1>4 DEF stages, Stage, Down
  <2>. QED
    BY <1>2, <2>1 DEF Conversation!Next, Conversation!GoDown, stages
<1>5. CASE ~Down /\ ~Down'
  <2>1. stages = [s \in Sessions |-> View(session[s])]
    BY <1>5 DEF stages, Stage, Down
  <2>2. stages' = [s \in Sessions |-> View(session'[s])]
    BY <1>5 DEF stages, Stage, Down
  <2>3. CASE \A s \in Sessions : View(session'[s]) = View(session[s])
    BY <1>2, <2>1, <2>2, <2>3
  <2>4. ASSUME NEW t \in Sessions, OneMoves(t) PROVE [Conversation!Next]_stages
    <3>1. CASE View(session'[t]) = View(session[t])
      BY <2>1, <2>2, <2>4, <3>1 DEF OneMoves
    <3>2. CASE <<View(session[t]), View(session'[t])>> \in Moves
      <4>1. stages' = [stages EXCEPT ![t] = View(session'[t])]
        BY <2>1, <2>2, <2>4 DEF OneMoves
      <4>2. stages[t] = View(session[t])
        BY <2>1
      <4>3. \/ stages[t] = "idle" /\ View(session'[t]) = "reading"
            \/ stages[t] = "reading" /\ View(session'[t]) \in {"answering", "spoilt", "idle"}
            \/ stages[t] = "answering" /\ View(session'[t]) \in {"reading", "idle"}
            \/ stages[t] = "spoilt" /\ View(session'[t]) = "idle"
        BY <3>2, <4>2 DEF Moves
      <4>4. \/ Conversation!Connect(t) \/ Conversation!Request(t) \/ Conversation!Spoil(t)
            \/ Conversation!Answer(t) \/ Conversation!Leave(t)
        BY <4>1, <4>3
           DEF stages, Conversation!Connect, Conversation!Request, Conversation!Spoil,
               Conversation!Answer, Conversation!Leave, Conversation!Move
      <4>. QED
        BY <4>4 DEF Conversation!Next
    <3>. QED
      BY <2>4, <3>1, <3>2 DEF OneMoves, MovesTo
  <2>. QED
    BY <1>1, <1>2, <2>3, <2>4 DEF SessionsMove
<1>. QED
  BY <1>3, <1>4, <1>5

\* The invariant holds in every state of the server with its sessions.
LEMMA HttpInvAlways == HttpSpec => []HttpInv
<1>. QED
  BY HttpInitInv, HttpNextInv, PTL DEF HttpSpec

\* The sessions keep the types of their state.
THEOREM SessionTypeCorrect == HttpSpec => []SessionTypeOK
<1>1. HttpInv => SessionTypeOK
  BY DEF HttpInv, SessionTypeOK
<1>. QED
  BY <1>1, HttpInvAlways, PTL

\* A session that was asked nothing illegal never reads while it answers,
\* never has two answers under way, and does not hold a socket that a Channel
\* reads, for every number of sessions and requests.
THEOREM OneHandlerPendingHolds == HttpSpec => []OneHandlerPending
<1>1. HttpInv => OneHandlerPending
  BY DEF HttpInv, Good, OneHandlerPending
<1>. QED
  BY <1>1, HttpInvAlways, PTL

\* The websocket side keeps its promises under the HTTP side: its clients are
\* the registered channels, no channel has two writes pending, and no text is
\* lost.
THEOREM ChannelsUnderHttp ==
  HttpSpec => [](ClientsAreChannels /\ OneWriteAtATime /\ SentInOrder)
<1>1. HttpInv => ClientsAreChannels /\ OneWriteAtATime /\ SentInOrder
  BY DEF HttpInv, Inv, ChannelsOK, Sound, Serving, ClientsAreChannels, OneWriteAtATime,
         SentInOrder
<1>. QED
  BY <1>1, HttpInvAlways, PTL

\* The safety part of ImplementsConversation: every session starts idle, and
\* every step of the server is a step of an HTTP conversation or none.
THEOREM RefinesConversation ==
  HttpSpec => Conversation!Init /\ [][Conversation!Next]_stages
<1>. QED
  BY HttpInitInv, HttpNextInv, HttpInvAlways, PTL DEF HttpSpec
=============================================================================
