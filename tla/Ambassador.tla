----------------------------- MODULE Ambassador -----------------------------
(***************************************************************************)
(* The two message queues between the server and the event loop processes  *)
(* (lib/ambassador/Ambassador.{h,cpp}).  Each process opens both queues by *)
(* name, writes one and reads the other.  A name is linked to a queue      *)
(* object; removing the name leaves the object to the processes that have  *)
(* it open, and the next open_or_create makes another.  A queue is named   *)
(* here after the process that writes it.                                  *)
(***************************************************************************)
EXTENDS Integers, Sequences, FiniteSets

CONSTANTS
    Objects,     \* queue objects that open_or_create may make
    NoObject,
    Cap,         \* MSG_MAX_COUNT
    MaxSends,    \* bound: messages a process tries to send
    MaxRestarts  \* bound: starts of a process

Procs == {"server", "loop"}
Peer(p) == IF p = "server" THEN "loop" ELSE "server"

\* A response, of whatever type: its number among those of its sender.
Msgs == 1..MaxSends

ASSUME ObjectAssumption == NoObject \notin Objects
ASSUME BoundAssumption ==
    Cap \in Nat \ {0} /\ MaxSends \in Nat /\ MaxRestarts \in Nat

VARIABLES
    link,        \* name of a queue -> object, NoObject when removed
    queue,       \* contents of the objects
    phase,       \* process -> how far its constructors and destructors are
    handle,      \* process -> queue -> the object it has open
    pending,     \* process -> readContentQ
    got,         \* process -> what getOneMsg returned since it started
    sends, starts,   \* counters for the bounds
    accepted,    \* history: object -> everything ever put into it
    spent        \* history: object -> how much earlier readers took off it

procVars == <<phase, handle, pending, got>>
vars == <<link, queue, phase, handle, pending, got, sends, starts, accepted, spent>>

Up(p) == phase[p] = "up"

Init ==
    /\ link = [q \in Procs |-> NoObject]
    /\ queue = [o \in Objects |-> <<>>]
    /\ phase = [p \in Procs |-> "down"]
    /\ handle = [p \in Procs |-> [q \in Procs |-> NoObject]]
    /\ pending = [p \in Procs |-> <<>>]
    /\ got = [p \in Procs |-> <<>>]
    /\ sends = [p \in Procs |-> 0] /\ starts = [p \in Procs |-> 0]
    /\ accepted = [o \in Objects |-> <<>>]
    /\ spent = [o \in Objects |-> 0]

\* Objects that no name and no process refers to and that were never used.
Fresh == {o \in Objects : /\ accepted[o] = <<>>
                          /\ \A q \in Procs : link[q] # o
                          /\ \A p, q \in Procs : handle[p][q] # o}

\* A msgQImpl constructor: open what the name is linked to, or create it.
Open(p, q) ==
    /\ link[q] # NoObject \/ Fresh # {}
    /\ LET o == IF link[q] # NoObject THEN link[q] ELSE CHOOSE f \in Fresh : TRUE
       IN  /\ link' = [link EXCEPT ![q] = o]
           /\ handle' = [handle EXCEPT ![p][q] = o]
    /\ UNCHANGED <<queue, pending, got, sends, accepted, spent>>

\* A process opens the queue it writes, then the one it reads.
OpenWriteQ(p) ==
    /\ phase[p] = "down"
    /\ starts[p] <= MaxRestarts
    /\ Open(p, p)
    /\ starts' = [starts EXCEPT ![p] = @ + 1]
    /\ phase' = [phase EXCEPT ![p] = "opening"]

OpenReadQ(p) ==
    /\ phase[p] = "opening"
    /\ Open(p, Peer(p))
    /\ phase' = [phase EXCEPT ![p] = "up"]
    /\ UNCHANGED starts

\* Plausible slip: an old message overwritten when the queue is full.
WriteOver(o, m) ==
    /\ queue' = [queue EXCEPT ![o] = Append(IF Len(@) < Cap THEN @ ELSE Tail(@), m)]
    /\ accepted' = [accepted EXCEPT ![o] = Append(@, m)]

\* Plausible slip: one message too many taken for a free slot.
WriteOneMore(o, m) ==
    IF Len(queue[o]) <= Cap
    THEN /\ queue' = [queue EXCEPT ![o] = Append(@, m)]
         /\ accepted' = [accepted EXCEPT ![o] = Append(@, m)]
    ELSE UNCHANGED <<queue, accepted>>

\* msgQImpl::write: try_send, which refuses a message when the queue is full.
\* The caller of sendMsg does not look at the result.
Write(o, m) ==
    IF Len(queue[o]) < Cap
    THEN /\ queue' = [queue EXCEPT ![o] = Append(@, m)]
         /\ accepted' = [accepted EXCEPT ![o] = Append(@, m)]
    ELSE UNCHANGED <<queue, accepted>>

SendMsg(p) ==
    /\ Up(p)
    /\ sends[p] < MaxSends
    /\ sends' = [sends EXCEPT ![p] = @ + 1]
    /\ Write(handle[p][p], sends[p] + 1)
    /\ UNCHANGED <<link, procVars, starts, spent>>

\* Plausible slip: what was read before is put behind what is new.
FetchedFirst(p) == queue[handle[p][Peer(p)]] \o pending[p]

\* getAllMsg: everything in the queue goes to the end of readContentQ.  The
\* queue is returned by value and keeps its contents.
Fetched(p) == pending[p] \o queue[handle[p][Peer(p)]]

GetAllMsg(p) ==
    /\ Up(p)
    /\ pending' = [pending EXCEPT ![p] = Fetched(p)]
    /\ queue' = [queue EXCEPT ![handle[p][Peer(p)]] = <<>>]
    /\ UNCHANGED <<link, phase, handle, got, sends, starts, accepted, spent>>

\* readContentQ.pop(), and a slip that forgets it.
Unpopped(q) == q
Popped(q) == Tail(q)

\* getOneMsg: fetch all, then give the first, or EMPTY when there is none.
GetOneMsg(p) ==
    /\ Up(p)
    /\ queue' = [queue EXCEPT ![handle[p][Peer(p)]] = <<>>]
    /\ IF Fetched(p) = <<>>
       THEN UNCHANGED <<pending, got>>
       ELSE /\ got' = [got EXCEPT ![p] = Append(@, Head(Fetched(p)))]
            /\ pending' = [pending EXCEPT ![p] = Popped(Fetched(p))]
    /\ UNCHANGED <<link, phase, handle, sends, starts, accepted, spent>>

\* What a process took off the queue it reads dies with it, used or not.
Forget(p) ==
    /\ spent' = [o \in Objects |->
                   IF o = handle[p][Peer(p)]
                   THEN spent[o] + Len(got[p]) + Len(pending[p])
                   ELSE spent[o]]
    /\ pending' = [pending EXCEPT ![p] = <<>>]
    /\ got' = [got EXCEPT ![p] = <<>>]

\* ~Ambassador: QUEUE_CLOSED is sent like any other message.
CloseAmbassador(p) ==
    /\ Up(p)
    /\ sends[p] < MaxSends
    /\ sends' = [sends EXCEPT ![p] = @ + 1]
    /\ Write(handle[p][p], sends[p] + 1)
    /\ Forget(p)
    /\ phase' = [phase EXCEPT ![p] = "closing"]
    /\ UNCHANGED <<link, handle, starts>>

\* ~msgQImpl of the queue it reads, then of the one it writes: the name is
\* removed, whatever object it is linked to by then.
RemoveReadQ(p) ==
    /\ phase[p] = "closing"
    /\ link' = [link EXCEPT ![Peer(p)] = NoObject]
    /\ handle' = [handle EXCEPT ![p][Peer(p)] = NoObject]
    /\ phase' = [phase EXCEPT ![p] = "removing"]
    /\ UNCHANGED <<queue, pending, got, sends, starts, accepted, spent>>

RemoveWriteQ(p) ==
    /\ phase[p] = "removing"
    /\ link' = [link EXCEPT ![p] = NoObject]
    /\ handle' = [handle EXCEPT ![p][p] = NoObject]
    /\ phase' = [phase EXCEPT ![p] = "down"]
    /\ UNCHANGED <<queue, pending, got, sends, starts, accepted, spent>>

\* No destructor runs: names and contents stay for the next process.
Crash(p) ==
    /\ phase[p] # "down"
    /\ Forget(p)
    /\ handle' = [handle EXCEPT ![p] = [q \in Procs |-> NoObject]]
    /\ phase' = [phase EXCEPT ![p] = "down"]
    /\ UNCHANGED <<link, queue, sends, starts, accepted>>

Work(p) ==
    OpenWriteQ(p) \/ OpenReadQ(p) \/ SendMsg(p) \/ GetAllMsg(p) \/ GetOneMsg(p)
Leave(p) == CloseAmbassador(p) \/ RemoveReadQ(p) \/ RemoveWriteQ(p) \/ Crash(p)

Next == \E p \in Procs : Work(p) \/ Leave(p)

Spec == Init /\ [][Next]_vars

\* A process that is started comes up, and one that is up keeps polling, as
\* the loops of mockAnswer.cpp and mockServerTest.cpp do.
Fairness == \A p \in Procs : WF_vars(OpenReadQ(p)) /\ WF_vars(GetOneMsg(p))

FairSpec == Spec /\ Fairness

-----------------------------------------------------------------------------
(* Properties *)

\* Type invariant.
TypeOK ==
    /\ link \in [Procs -> Objects \cup {NoObject}]
    /\ \A o \in Objects : Len(queue[o]) <= Cap
    /\ handle \in [Procs -> [Procs -> Objects \cup {NoObject}]]
    /\ phase \in [Procs -> {"down", "opening", "up", "closing", "removing"}]
    /\ sends \in [Procs -> 0..MaxSends]
    /\ starts \in [Procs -> 0..(MaxRestarts + 1)]

\* While a reader runs, the messages accepted by the queue it has open, less
\* those taken by readers that are gone, are the ones it was given, the ones
\* it holds and the ones still in the queue, in that order: none is lost,
\* repeated or reordered by mixing getAllMsg and getOneMsg or by restarts.  A
\* process is given what getOneMsg returns; the copy that getAllMsg returns of
\* what it holds does not count.
NothingLostWhileUp ==
    \A p \in Procs : Up(p) =>
        LET o == handle[p][Peer(p)]
        IN  SubSeq(accepted[o], spent[o] + 1, Len(accepted[o]))
              = got[p] \o pending[p] \o queue[o]

\* Messages are given to a process in the order their sender numbered them,
\* each at most once, also when sender and reader restart independently and
\* queue names are removed and made again.
GivenInOrder ==
    \A p \in Procs : \A i, j \in 1..Len(got[p]) : i < j => got[p][i] < got[p][j]

\* What the event loop process reads; the other direction is the same with
\* the names exchanged.
ToLoop == INSTANCE FifoChannel WITH
    open <- Up("loop"),
    pipe <- IF Up("loop") THEN pending["loop"] \o queue[handle["loop"]["server"]] ELSE <<>>,
    out <- got["loop"]

\* The queue and readContentQ together implement FifoChannel: from when a
\* reader is up until it leaves or crashes, an accepted message is delivered
\* exactly once, in order, and eventually, whatever getAllMsg and getOneMsg
\* calls are mixed, however full the queue gets and however often the writer
\* restarts or removes the name.
ImplementsFifo == ToLoop!Spec
=============================================================================
