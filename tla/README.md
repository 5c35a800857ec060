# A TLA+ model of the social gaming platform

The repository is a C++ platform for small social games: a game file is parsed
into a tree of rules, the rules are run by an *event loop* process, players
connect through a *server* process with a browser or a console client, and the
two processes talk through a pair of message queues. This directory models the
parts of it that keep state, checks them with TLC on small instances, and proves
some of the results with TLAPS for every instance.

Paths below are relative to the repository. `PROJECT.json` maps every definition
to the lines it models, and lists the runs, the hazards, the findings, the
mutants (a plausible slip for every property, which must break it) and the
theorems.

## The system

| component | state it keeps | operations |
|---|---|---|
| Environment manager, `lib/variables/EnvironmentMgr.{hpp,cpp}` | a stack of scopes that bind names; the control flow of the rule a scope was entered for; a map of timers | `setVariable`, `enterScope` (plain, timed), `exitScope`, `updateTimers` |
| Rules walked through it, `lib/variables/tests/EnvMgr_test.cpp`, `src/include/RuleInterpreter.h` | the node to execute next | enter a node, leave a body, extend a list |
| Variables and lists, `lib/variables/Variables.{hpp,cpp}` | lists of `Variable`s whose values are shared | `push_back`, `insert_at`, `remove_at`, `remove`, `get_at`, `contains`, `compare`, and the list tasks |
| Websocket server, `lib/networking/src/Server.cpp` | channels with their write buffers, `activeChannel`, received messages, ids of games and players | completion handlers of handshakes, reads, writes; the three game end points; `send`, `receive`, `disconnect` |
| Game server, `tools/server/gameserver.cpp` | the client list, the log of a turn | one turn: update, process, send |
| Ambassador, `lib/ambassador/Ambassador.{h,cpp}` | two named interprocess queues, messages fetched and not yet given | open, `sendMsg`, `getAllMsg`, `getOneMsg`, close, crash |
| Client, `lib/networking/src/Client.cpp`, `tools/client/gameclient.cpp` | connection stage, write buffer, received text | handlers, `send`, `receive`, the loop |
| Event loop, `lib/eventLoop/EventLoop.cpp` | a task queue, whether the game waits, inputs counted | take tasks, wait, count inputs |
| Game instances, `lib/gameInstanceManager`, `src/gameinstance.cpp` | a map and a queue of games, players of a game | create, queue, find, join |
| HTTP sessions, `lib/networking/src/Server.cpp:300-433` | the sockets accepted, a request being read, answers being written | accept, read, answer, upgrade, fail |
| Task factory, `lib/taskFactory`, and `PlayerHandler` of `src/gameinstance.cpp` | tasks made and not run, the Variables they copy, share or borrow; messages to players | make a task of each kind, run it; change, rebind or drop a Variable; clear messages |
| Rule interpreter, `src/RuleInterpreter.cpp` | the nodes of the rule tree, linked by parent, next and children | `parseRules`, one parse function per kind of rule, the print of the tree |
| Expressions, `RuleInterpreter.cpp:158-189`, `EnvironmentMgr.cpp:294-380` | a token list with one shared iterator | parse to prefix tokens, evaluate |
| Game settings, `lib/setupGameSetting` | five maps of settings | `parse`, one parser per section |

Interactions: the game server owns a `Server` and an `Ambassador`; the event loop
process is the other end of the Ambassador; a `GameInstance` owns an environment
manager, whose variables the tasks of the factory change; a game file
gives the settings and the rule tree, whose guards are evaluated in a scope; the walk of the rules
calls `enterScope` and `exitScope` and goes where they point. Only the two
processes run concurrently; within one, the concurrency is that of completion
handlers, which `poll()` runs in whatever order the network finishes them.

What is hard in it, and which property is aimed at it, is listed at its line
under `hazards` in `PROJECT.json`. The main ones:

* a loop *consumes* the list object it shares with a variable, other names of it
  and other loops (`ElementsVisitedOnce`, `RulesEnd`);
* timers outlive scopes, fire in the order of their ids, and exit scopes by depth
  (`FlagOutlivesScope`, `UnwindingEnds`, `JumpMatchesUnwinding`);
* reads, writes, quits and reused addresses disconnect one channel along
  several paths (`ClientsAreChannels`), and a stream takes one write at a time
  (`OneWriteAtATime`, `SentInOrder`, `BuffersDrain`);
* a request may be answered twice or not at all, and an upgrade moves the socket of
  a session that still exists (`OneHandlerPending`, `ImplementsConversation`);
* the queues drop messages when full, survive a crash and are removed by whoever
  closes first (`NothingLostWhileUp`, `GivenInOrder`, `ImplementsFifo`);
* values are shared by `shared_ptr` (`CopiesAreIndependent`), and indexes count
  from either end (`OrderIsKept`);
* tasks run long after they were made, of Variables that are copied, shared or
  borrowed by raw pointer (`CreatedTasksRun`, `BoundAtCreation`,
  `IndependentUnlessAssigned`);
* a body is linked node by node around nested bodies and comments
  (`RulesAsWritten`), a section that throws leaves the settings half filled
  (`SettingsAsWritten`), and the calls that evaluate an expression share one
  iterator (`EvaluatesAsWritten`).

## The modules

```
EnvironmentMgr <- RuleWalk <- EnvironmentMgrProofs      EventLoop <- EventLoopProofs
   |                 |                                      |
MCEnvironmentMgr  MCRuleWalk                            MCEventLoop

GameServer <- HttpSession <- ServerProofs               GameClient <- GameClientProofs
   |              |
MCGameServer  HttpConversation (refined)                ListObj <- ListObjProofs
                                                            |
Ambassador <- AmbassadorProofs                          MCListObj
   |
FifoChannel (refined)                                   GameTasks <- GameTasksProofs
                                                            |
                                                        MCGameTasks

Expressions <- RuleInterpreter <- GameFile <- GameProofs -> GameInstances
                                  |      |                      |
                         GameSettings   MCGameFile          MCGameInstances
```

**EnvironmentMgr.** `scopes` is the deque with its innermost scope last, so that
indexes stay put; a scope is its node, whether it has control flow, its variables,
the list object of its loop, `exiting` and its timer id. `lists` holds the list
objects apart from the variables that share them. One action per public call;
`updateTimers` is split into `UpdateTimers` (takes every timer), one `FireTimer`
per timer in the order of ids, and `UpdateReturns`; the class is single-threaded,
so no other call interleaves. The clock (`Tick`) is external. A call that would
throw, dereference null or spin sets `status` and ends the game. `SetVariable` only
hands over list objects that somebody holds. Left out: the values of scalars, maps,
and the text of expressions.

**RuleWalk** extends it with the loop that drives it in the repository's loop test:
enter a control-flow node, exit at the end of a body, go on at the node returned.
`given` and `visited` record what each list held and what loops took.

**ListObj** models a list as a sequence of *cells*, the `varType` objects, so that
two positions can share one; each call records its outcome, undefined behaviour
(erasing `end()`, inserting before the first element) among them. A shuffle is any
permutation.

**GameServer.** `pc` is the place in the main loop. During "update" any completion
handler may run, in any order and number; `UpdateEnds(TRUE)` is the caught exception.
A channel is identified by its address and the address is free again once neither
the map nor `activeChannel` nor a pending handler holds the object: a `shared_ptr`
count. `clients` is the vector of `gameserver.cpp` as a multiset, how often each
address is in it: a second entry would send a client everything twice. A handler that dereferences the null `activeChannel` leads to "crashed". A
text is chat, quit or shutdown. The contents of the queue to the event loop are a
count.

**HttpSession** extends GameServer with the listener and the sessions of HTTP. Its
next-state relation replaces that of GameServer where a request is the cause: an
upgrade makes the Channel, a GET of an end point runs `CreateGame`, `JoinGame` or
`ConfigureGame` (`Handle`), and a failed `shutdown` throws out of `poll`. A session lives as long
as a handler of it is pending. Which page an answer holds is left out: a target is
"/", a page, an end point or illegal. **HttpConversation** is the abstract
conversation a session implements: requests and answers alternate, an answer ends,
an upgrade happens between them. `View` is the refinement mapping: what the peer of a
session can tell of its state.

**Ambassador** has both processes and both queues. A queue *name* is linked to a
queue *object*, as with POSIX unlink: `message_queue::remove` frees the name, and
those who have the object open keep it. A message is a number, QUEUE_CLOSED like
any other. Boost's queue is external and modelled from its use.
**FifoChannel** is the abstract channel that one direction implements for as long as
its reader is up, however often the writer restarts.

**EventLoop** is `main` of the event loop process: a turn of at most
`maxProcessCount` tasks, then input. A line of input is well formed, malformed or
empty. **GameInstances** is the map, the queue and the callers that hold a game.
**GameClient** is the client's handlers and loop; the stream accepts one write
and keeps one waiting, and what a third one does is a choice between the assertion
that ends the program and the loss of the waiting one.

**GameTasks** has names bound to Variable objects, list elements that are objects of
their own, and tasks that wait to run. A factory counts its arguments, looks for null
ones and checks their types,
and a task copies values, shares elements or Variables, or borrows: `dangling` says
that what it borrowed is gone. Between the making and the run of a task names may be
bound anew or dropped, values set in place, elements pushed or changed. `given`,
`touched` and `assigned` are history. `SCConverter` passes fixed arguments for now
(`tempArgs`); the model passes any.

**GameFile** is what `main.cpp` and `demo.cpp` do with one syntax tree: fill the
settings (**GameSettings**), build the rule tree and print it (**RuleInterpreter**),
and evaluate its guards in a scope (**Expressions**). The syntax tree is the input: a
record for each node with the fields the tree-sitter grammar gives it, among the
constants `Items` (what a body has in it), `Terms` and `Expressions`; `Nesting`,
`Depth` and `Height` say how deep each is nested. The rule nodes are numbered in the
order they are made, so that the parent, next and child links are links between
numbers. The parse functions call each other: each takes the parser of the rules below
as an argument, and `ParseRule` is the recursive function that closes the knot.
`Standing` says which nodes stand for which rule (a node with the rule's data, whose
children start the chains of nodes that stand for the rules of its bodies, `IsBody`),
and `Listing` which lines a rule has; neither uses what the parse or the print does.
`Means` says by its tree what an expression is worth in a scope: a name what the scope
binds, `size` of a list or a map the number of its entries, an operator what it makes of
its operands. It claims no value for `contains`, `collect` and `upfrom`, which the code
does not compute (see the table below), nor for `size` of anything else. `Reading` says
by the tree alone whether all tokens of an expression have to be taken, whether some may
be left, or whether an operand need not be read where it begins. Neither uses what the
evaluator returns (`BuiltinValue`) or how many tokens it passes over (`Skips`) for a
builtin, so `EvaluatesAsWritten` fails if `size`, `contains` or `upfrom` pass over one
token more or less, whatever value they return. Integers are unbounded: an overflow of `+` in
a guard is not modelled. `evaluationExpression` is called by nothing in the source; the
step `EvaluateGuard` calls it (`Evaluate`) as its signature asks, for a guard of the
tree that was built. GameSettings and Expressions have specifications of their own, in
which nothing else happens, and the proofs about them are done there.

## The runs

Passing runs, with their distinct states:

| run | states | what it shows |
|---|---|---|
| `environment` | 2.7 M | over up to 3 scopes, a loop and its list, two names and timers of two ids: the global scope stays, no name is bound twice, flags stay readable, forced exits end, and the jump is the one of the outermost scope exited |
| `walk` | 23 k | nested and consecutive loops visit each element once, over lists of their own or two names of one list; they end if no list is shared |
| `lists` | 97 k | all calls on two lists of up to two elements over three cells, every index from below `-size` to above `size` |
| `server` | 1.8 M | two addresses, two messages, every order of handlers, failures, quits, reconnects and end points |
| `http` | 147 k | sessions with every request, upgrades to a channel, failing reads and writes: a conversation each, and buffers of channels drain |
| `ambassador` | 507 k | both processes close, crash and start twice, over queues of two; one direction implements `FifoChannel`, delivery included |
| `event_loop` | 3.3 k | every game of up to three tasks and the one the source builds |
| `games` | 28 k | three games, two ids, moved between map, queue and callers, joined |
| `client` | 2.8 k | four sends, two reads, failures in any order |
| `tasks` | 918 k | three tasks of every kind, with one other change to the Variables before, between or after |
| `game_file` | 78 k | some 2500 syntax trees that vary in their rules, in one guard or in their settings |

One violation run shows where the code does not do what is said of it; `findings`
quotes both sides:

* `env_stop`: `exitScope` keeps a timer that has a flag, and a later `updateTimers`
  exits the scopes above its depth, which need not be the ones it was started with.
  The comment at `EnvironmentMgr.cpp:161` says "exit scopes up to one with timer".

Other disagreements met while modelling. The models do what the code does in each
case; no run is spent on them:

| where | what the code does |
|---|---|
| `EnvironmentMgr.cpp:147` | `updateTimers` takes every timer, expired or not; line 144 says "move all expired timers to vector" |
| `EnvironmentMgr.cpp:214` | a loop node with a variable and a range, as `parseForRule` builds it (`RuleInterpreter.cpp:264-274`), throws when it is entered, so no parsed loop can run; line 210 says that is the minimum needed |
| `EnvironmentMgr.cpp:245,253` | a loop entered again over an exhausted list returns its body once more, where line 83 says "either loop child or loop sibling"; if an inner loop emptied the list of the outer one, the outer loop never ends |
| `gameserver.cpp:230` | the main loop computes `shouldQuit` and never tests it, so a `shutdown` message does not end the server, contrary to `README.md:86-87` |
| `Server.cpp:251` | `activeChannel` is null before any websocket and never reset, so an end point called after a disconnect maps an id to a socket that is gone |
| `Server.cpp:246` | an end point reads the terminal of the server inside a handler, so everything waits for the operator; it and a POST get no answer |
| `Server.cpp:388` | an illegal target is answered and then handled on: a second answer, and later a second read, overlap with the first |
| `Server.cpp:338` | a failed answer shuts the socket without an error code, which throws and ends the server when the peer is gone |
| `Server.cpp:378` | `/index.html` is let through and then answered 404; `README.md:90-92` says that it is served |
| `gameserver.cpp:151` | chat in one batch with a command is sent to nobody |
| `Ambassador.cpp:107` | QUEUE_CLOSED is sent with `try_send` and is lost when the queue is full |
| `Ambassador.cpp:145` | `getOneMsg` returns EMPTY whenever nothing waits; `Ambassador.h:41` says EMPTY "should never be received" |
| `Variables.cpp:271` | `remove` throws after it has removed |
| `Variables.cpp:281,317` | `insert_at` lets some negative indexes through, `remove_at` ignores large ones |
| `Variables.cpp:141` | any two lists compare equal: both are taken from the first |
| `Variables.cpp:74` | a list element set by index takes ownership of an object it was only lent |
| `SocialGamingTaskFactory.hpp:180` | an assignment keeps a `string_view` into a Variable; `lib/taskFactory/README.md` asks to copy what is not stored in the manager |
| `SocialGamingTaskFactory.cpp:184` | a question to no player erases from an empty string |
| `SocialGamingTaskFactory.cpp:274` | the factories of reverse and shuffle dereference a null argument and take one that is no list |
| `RuleInterpreter.cpp:4-15` | extend, discard, shuffle and reverse keep none of their arguments, while their factories ask for one or two |
| `RuleInterpreter.cpp:88` | a body of comments only, or no rule at all, crashes the print |
| `RuleInterpreter.cpp:175` | an operator is found only one space behind its left operand |
| `EnvironmentMgr.cpp:294-380` | a literal, or a name bound in another scope than the one given, crashes the evaluation, so that guards like `winners.size() = 0` of `games/rockpaper.json` have no value; a true left operand of \|\| leaves the right one on the iterator, and `collect` takes five of its six tokens |
| `EnvironmentMgr.cpp:335,342,349` | `contains` is always true and `collect` and `upfrom` always false: the calls that would compute them are commented out (lines 333, 340, 347), where `controlflow.cpp:19-24` says that `contains` tells whether any element satisfies a condition and `collect` returns a filtered list; no condition is looked at, not even whether its names are bound |
| `EnvironmentMgr.cpp:334,341,348` | a builtin passes over a fixed number of tokens: an argument of several tokens, as in `won.contains(players.size())`, is left on the iterator in part |
| `Variables.cpp:217` | `size` of what is no list or map is `sizeof(varType)` |
| `SetupGameSetting.cpp:28` | a bad number or boolean throws and leaves the sections before it filled |
| `SetupGameSetting.cpp:121` | a set-up setting named like the name, player range or audience of the game replaces it |
| `gameinstance.cpp:21` | nothing counts players, so their limit is never reached |
| `EventLoop.cpp:251` | reading goes on until a line is not empty, so at the end of standard input the loop never ends |
| `Client.cpp:106` | an empty message ends the reading for good, and the loss of the server is then noticed only by a failing write |
| `Server.cpp:95` | a connection id is the address of its channel, so a `quit` still queued from a client that is gone disconnects a later one with the same address |
| `Ambassador.cpp:45` | a destructor removes the name whatever object it is linked to by then: two processes can end up with queues of their own and never meet |
| `Ambassador.cpp:136` | `getAllMsg` returns what it holds and keeps it, so the same messages come again from the next call |
| `Client.cpp:129` | a message sent before the handshake closes a client that was never connected; `Client.h:66` says "after initially connecting" |

### Bounds, and why they are enough

`MaxDepth` 3 gives the global scope, a loop and a scope in it, or two timed scopes
within one another, so that ids and depths of timers can disagree in order. The
timers are STOP and PAD, with and without a flag; a REGULAR timer is exited like a
STOP timer and fires like a PAD timer. `MaxLen` 2 lets a loop iterate, finish and be
appended to. `MaxTime` 1 separates expired from running timers. `MaxGiven` bounds what
`ExtendTask` adds over time: without it a rule could feed its own loop for ever.
In the server two addresses are the least with which one can be reused while another
is active; two messages allow a batch with a command in it; `QueueCap` 1 is full at
once. `http` needs one channel, since buffers of different channels share nothing, and
two sessions, since the listener waits on one while another is open; three requests
let one be answered between two others. In the Ambassador queues of two fill up with three sends, one restart each
lets a name be removed while its peer has it open, and six queue objects are as many
as two starts of each process can make. Three cells and two positions
let a cell be shared and another be free. `neededInputCount` 3 and two tasks a turn
let waits and turns end out of step; games of three tasks can wait twice in a row.
Three tasks let one be made, and a second run, before the first made of it runs; one
other change is enough to rebind, drop, set or extend what any of them borrowed, and
six Variables are never all in use. Five elements let a list be doubled twice. The files of
`game_file` have loops and matches within one another, every body empty, of comments,
or of up to three rules, up to three rules in a row, and guards with two
operators, where a wrong number of tokens taken by the first shows in the second; the
stacks of scopes have the names in the scope asked, behind it and in front of it.
Symmetry is used over addresses, cells, list names and games, only in runs without liveness properties.

Runs say `CHECK_DEADLOCK FALSE` where a bound ends them or a failed call ends the
game (the environment manager, lists, games, tasks, the Ambassador once its starts are
used up), or a file has been read (`game_file`). The server with and without HTTP, the client, the event loop and the walk have an explicit final state
and are checked for deadlock.

### Fairness

* `WalkSpec`: the driver does not stop between two rules; nothing is assumed of
  `ExtendTask`.
* GameServer `FairSpec`: the main loop runs (weak fairness of its three steps;
  never of the exception). `poll()` runs every ready handler before it returns, and
  the transport finishes or fails a write: strong fairness of a write's completion,
  since polling is interrupted each turn. Nothing is assumed of clients.
* HttpSession `HttpFairness`: the same of GameServer, and an answer, too, is written or
  its write fails. That an end point returns assumes that the operator answers its
  prompt.
* Ambassador `FairSpec`: a process that has started opens its queues, and polls `getOneMsg`
  as the loops of `mockAnswer.cpp` and `mockServerTest.cpp` do. Sending, closing and
  crashing are never forced.
* EventLoop `FairSpec`: the process runs, and a player who is asked again and again
  at some time gives a well-formed line (strong fairness of `GoodInput`). Without
  it no game with a wait ends; the end of the input is an explicit way out.
* GameClient `FairSpec`: the loop runs and `poll()` runs the handler of a read that
  has failed.

## What is proved

Each theorem below holds for every value of the constants that the named assumptions
allow; TLC evaluates these assumptions in every run. Where a theorem states a
property of a run, the property has its name without the `Holds`, or it is named below
(`TypeCorrect` states `TypeOK`).

**`EnvironmentMgrProofs`**, for every set of names, lists, nodes and timers and every
bound, from `NodeAssumption`, `ValueAssumption`, `TimerAssumption` and
`BoundAssumption`:

* `TypeCorrect`, `NoShadowingHolds`, `GlobalScopeStaysHolds`, `UnwindingEndsHolds`
  follow from `Inv`: the type invariant, `WellFormed(scopes)` (the outermost scope
  is the only one without control flow, and no name is bound twice) and
  `UnwindingEnds`. None is inductive alone. That the forced exits end needs each
  timer's `scopeid` to be at least 1, which is in the type of timers and holds since a
  stack is never empty; that it is never empty needs `exitScope` to know the outermost
  scope by its missing control flow, which is `WellFormed`; and that a name is bound
  once is kept by binding the loop variable and the flag through the one operator
  `SetIn`. Lemmas on pushing, popping and replacing a scope carry the rest, then one
  lemma per action.
* `FlagOutlivesScopeHolds`. The property says that a flag can be read, the inductive
  form `FlagsKept` says where it is bound: outside the scope that the timer is for.
  Every step relates the stack before to the one after by `Outer`: scopes may be
  popped or added and the innermost one may change, while those outside it keep their
  bindings and timers. `OuterKeepsFlags` draws the conclusion once for all steps.
* `JumpMatchesUnwindingHolds`. While `updateTimers` runs, `Unwinding` adds what the
  timers handled so far have to do with the stack: what fires is what was taken, ids are
  handled in order, and the scope unwound to last is the innermost one.
* `ElementsVisitedOnceHolds` is about RuleWalk (with `WalkAssumption`: the rules start
  at a node, the globals are bindings and the lists are lists). `enterScope` takes an
  element whenever the innermost scope is of the node it enters, without asking
  whether that is a loop. So the proof needs `WalkStack`: every scope but the global one
  is of a rule, and those with a scope inside them, or that are entered again, are of
  loops.

**`EventLoopProofs`**, for every set of games, every number of inputs and every
turn size (`ProgramAssumption`, `CountAssumption`): `TypeCorrect`,
`TasksInOrderHolds`, `InputsMatchWaitsHolds`. The invariant adds `PlaceMatches`, which
ties the place in `main` to the state of the game: tasks are run only while it is
active, input is read only while it is not, and `exit` is set only when no task is
left. Without it an input could be counted for a game that waits for none.

**`ServerProofs`**, for every set of addresses and sessions, every queue capacity and
any number of messages, ids and requests (`ConnAssumption`, `CapAssumption`,
`RequestAssumption`):

* `TypeCorrect`, `ClientsAreChannelsHolds`, `OneWriteAtATimeHolds`, `SentInOrderHolds`.
  Handlers of a channel may still be pending when it is no longer registered, so the
  invariant speaks of two kinds of channel: `Sound` holds of every Channel object (no
  text lost between `send` and the wire, at most one write, a handshake before
  anything else), `Serving` of the registered ones (reading, and writing as long as there
  is something to write). A failed write takes a channel from the second to the first.
  A write is pending only with a text in the buffer, so that `afterWrite` pops the
  text that was written.
* `SessionTypeCorrect`, `OneHandlerPendingHolds`. A session is `Good` if it has one
  handler, or was asked for an illegal target, or is idle with none. Every handler leaves its
  session `Unsettled`, and `Settle` makes that `Good`.
* `ChannelsUnderHttp`: the properties of GameServer hold under `HttpSpec` too, where
  requests cause the upgrades and the end points, and a failing answer can end a poll.
* `RefinesConversation`, the safety part of `ImplementsConversation`: the initial states
  are initial and each step is a step of HttpConversation or a stutter. Each handler
  moves the `View` of one session, along a pair in `Moves`; an exit of the process
  takes them all down.

**`AmbassadorProofs`**, for every number of queue objects, every capacity and any number
of messages and restarts (`ObjectAssumption`, `BoundAssumption`):

* `TypeCorrect`, `NothingLostWhileUpHolds`, `GivenInOrderHolds`. `OneWriter` says that,
  however names are removed and made again, an object is the queue of one writer, and so
  has one reader; `AllAccounted` then says of every object, also one that nobody reads,
  that what it accepted is what earlier readers took, what its reader holds and was
  given, and what is in it, in this order. `Numbered` orders what each
  object accepted and bounds it by the writer's count, so that a message a restarted
  writer adds is larger than any left over from before its crash.
* `RefinesFifo`, the safety part of `ImplementsFifo`: the queue the event loop has open,
  with its `readContentQ`, is the channel's contents.

**`ListObjProofs`**, for every set of lists, of varType objects and scalars and every
size (`CellAssumption`, `SizeAssumption`): `TypeCorrect`, `CopiesAreIndependentHolds` and the action
property `OrderIsKeptHolds`. Each call that changes a list is described by a function
`f` (`Origins`): which position of the old list each position of the new one came from,
no two from one, or that it holds a new or a lent object. `ChangeKeeps` shows
that such a change shares nothing else; a function like `f` shows which list is a
subsequence of which. The invariant is that of the run with the lists known to be a
function.

**`GameTasksProofs`**, for any names, Variables, elements, arguments and initial values
(`ObjAssumption`, `ValueAssumption`, `BoundAssumption`, `CellsAssumption`,
`EnoughAssumption`: there are Variables for the names to begin with;
`InitiallyAssumption`, `ArgumentsAssumption`): `TypeCorrect`, `CreatedTasksRunHolds`,
`BoundAtCreationHolds`, `IndependentHolds` (of `IndependentUnlessAssigned`). The last
three look at the last call, so the invariant says of the tasks that wait what running them will need (`TaskOK`): a task whose Variable was
not touched borrows the one its name is bound to, with a type it can use, and what a
task captured is what `given` recorded when it was made. `TypeCorrect` needs that the
elements `CopyVec` copies keep their types, which is shown by induction on how many of
them were copied.

**`GameProofs`** has the game instances and the three parts of a game file.

* Instances, for any ids, games and players (`GameAssumption`, `BoundAssumption`):
  `TypeCorrect`, `OneGamePerIdHolds`. A game that lives is the one the map has for its id
  and the other way round (`OneByOne`); a game `emplace` refused never lived, which is
  why the queue, fed by callers, cannot hold a second one.
* Settings, for any game files with values nested to any depth (`ExpressionsAssumption`,
  `FilesAssumption`): `SettingsCorrect` (of `SettingsAsWritten`). Writing one entry after
  the other by `setValue` leaves each key once with the value written last, by induction
  on the entries written; what a value becomes is shown by induction over its nesting; and
  the sections before the first that throws are those that were read.
* Expressions, of any depth and in any scope (`TermsAssumption`, `VariantAssumption`,
  `StacksAssumption`): `EvaluatesCorrect` (of `EvaluatesAsWritten`). The induction is over
  the depth of the expression and speaks of a token list that has the expression's
  tokens *at some place*: evaluation started there gives the value, where `Means` claims
  one (`IsWorth`), and, where `Reading` says that all of them have to be taken, fails or
  leaves the shared iterator just behind (`TakesAll`). That is what the calls for the
  operands of an operator need of each other. That a call of `size`, `contains` or
  `upfrom` without compound arguments has as many tokens as the evaluator passes over is
  `PlainCallLength`.
* Rules, for any grammar, nesting and file (`ItemsAssumption`, `RulesAssumption`):
  `RulesCorrect` (of `RulesAsWritten`), `PrintsCorrect` (of `PrintsEveryRule`). The nodes of
  a call have consecutive numbers and link forward among themselves (`Closed`), so that
  what is linked later changes none of them but one: the next pointer of the root.
  `RuleStands` therefore says that the root stands for the rule in *whatever* nodes extend
  those of the call but for that pointer (`Extends`). A body half linked is `UnderWay`, and
  `FollowsTo` says how far a chain through it has come. Both are shown of a rule
  from the rules in its bodies. For the print, a chain ends and children are later nodes,
  so the print of the nodes exists and is unique (`PrintExists`); `BodyPrinted` follows a
  chain backwards from its end, and `EveryRulePrinted` is the induction over the nesting.
* `FileImplementsParts`: every step of `FileSpec` is, for the settings, a step of
  `SettingsSpec` and, for the answer, a step of `ExpressionsSpec`, or leaves them alone, since
  the guards of a file's rules are terms. So `FileSettingsCorrect` and
  `FileEvaluatesCorrect` hold of the specification the run checks.

The definitions these proofs are about are recursive functions over data. No induction
theorem with an operator parameter is used: `Least`, that a set of numbers has a least
one, follows from the well-founded order on numbers; `Induction` and `TreeInduction` are
stated with the *set* of what the claim holds of; and `Recursion` shows that a recursive
function exists when its value depends only on the parts of its argument, from which
each definition's equation follows (`ParseRuleDoes`, `StandingDoes`, `ListingDoes`).

**`GameClientProofs`**, for any number of messages (`BoundAssumption`): `TypeCorrect`,
`BufferOutlivesWriteHolds`. The handlers pop the front of a deque whatever write they
belong to; that this never frees a string a pending write refers to holds because
both are in the order of sending (`InOrder`), and the front is the oldest.

Only model-checked: liveness (`RulesEnd`, `BuffersDrain`, `GameEnds`, `LossIsNoticed`, and
the fairness in `ImplementsFifo` and `ImplementsConversation`), since the prover has no
ENABLED. Every safety invariant and every action property of a passing run is
proved.

## What is not modelled

* The tree-sitter grammar, and with it which texts are game files: a syntax tree is an
  input.
* Comments between the arms of a match or the entries of a map: the grammar assumed of
  a tree has none there, while `parseMatchRule` and `valueMapParser` would take such a
  child for an arm or an entry. Comments in bodies are modelled.
* What `contains`, `collect` and `upfrom` were meant to compute: the code has only the
  fixed values, which are modelled.
* `try_send` throwing for a message longer than the queue allows (`MSG_MAX_SIZE`, 600
  bytes): a message has no length in module Ambassador.
* `parseValue` of the evaluation: no call of it returns, since a literal fails before.
* `src/controlflow.cpp`: pure list helpers without callers outside tests.
* Maps as values of Variables, nested lists, and setting by key: nothing but the game
  settings builds maps, and GameSettings has them.
* Console I/O of the demo drivers and mock processes, the browser page, the text of
  HTTP pages and of messages; serialisation of `Response`.
* Classes without a user: `src/Message.cpp`, `src/include/Task.h`.
* `lib/nlohmann/json.hpp` is third-party; `lib/ambassador/Ambassador 2.cpp` is an older
  copy that no build file names.

## Plan

Done, in this order: EnvironmentMgr with its proofs, RuleWalk, GameServer, Ambassador
with FifoChannel, ListObj, EventLoop with its proofs, GameInstances, GameClient,
HttpSession with HttpConversation, GameTasks, and GameFile with Expressions,
RuleInterpreter and GameSettings.

The safety properties of all of these, and the safety parts of both refinements, are
proved.

Left: an abstract channel that GameServer's channels implement, one from `send` to
the wire; the width of integers in guards and settings; and lemmas that the
proof modules of the environment manager and of the lists could share.
