----------------------------- MODULE EventLoop -----------------------------
(***************************************************************************)
(* The event loop process: main of lib/eventLoop/EventLoop.cpp with the    *)
(* GameInstance and GameInstanceManager it defines.  A game is a queue of  *)
(* tasks; a SERVER_MSG_WAIT task makes it inactive until enough players    *)
(* have given input, which is read from standard input.                    *)
(***************************************************************************)
EXTENDS Integers, Sequences

CONSTANTS
    Programs,          \* the task sequences a GameInstance may be built with
    neededInputCount,  \* inputs that make a waiting game active again
    maxProcessCount    \* tasks run in one turn

TaskTypes == {"EXECUTABLE", "SERVER_MSG_WAIT", "SERVER_MSG_CONTINUE", "SERVER_DISPLAY_MSG"}

ASSUME ProgramAssumption == Programs \subseteq Seq(TaskTypes)
ASSUME CountAssumption == neededInputCount \in Nat \ {0} /\ maxProcessCount \in Nat \ {0}

VARIABLES
    pc,           \* "turn", "tasks", "input", "reading", "exited"
    i,            \* tasks run in this turn
    taskQ,        \* GameInstance::taskQ
    isInactive, inputCount,   \* of the GameInstanceManager
    exit,
    eof,          \* standard input has ended
    program,      \* history: the tasks the game was built with
    ran,          \* history: the tasks taken, in order
    waits,        \* history: SERVER_MSG_WAIT tasks taken
    inputs        \* history: inputs accepted

vars == <<pc, i, taskQ, isInactive, inputCount, exit, eof, program, ran, waits, inputs>>
history == <<program, ran, waits, inputs>>

Init ==
    /\ pc = "turn" /\ i = 0
    /\ program \in Programs /\ taskQ = program
    /\ isInactive = FALSE /\ inputCount = 0
    /\ exit = FALSE /\ eof = FALSE
    /\ ran = <<>> /\ waits = 0 /\ inputs = 0

\* while(!exit): an inactive game runs no task.
BeginTurn ==
    /\ pc = "turn"
    /\ pc' = IF exit THEN "exited" ELSE IF isInactive THEN "input" ELSE "tasks"
    /\ i' = 0
    /\ UNCHANGED <<taskQ, isInactive, inputCount, exit, eof, history>>

\* Plausible slip: the game put back on the active queue after a wait.
StayActive(task) == FALSE

\* putGameInstanceInMap after a SERVER_MSG_WAIT, which also ends the turn.
Waits(task) == task = "SERVER_MSG_WAIT"

\* taskQ.pop() of getTask, and a slip that forgets it.
Unpopped(q) == q
Popped(q) == Tail(q)

\* getTask, and running or sending it.
RunTask ==
    /\ pc = "tasks" /\ i < maxProcessCount /\ taskQ # <<>>
    /\ LET task == Head(taskQ)
       IN  /\ ran' = Append(ran, task)
           /\ waits' = IF task = "SERVER_MSG_WAIT" THEN waits + 1 ELSE waits
           /\ isInactive' = Waits(task)
           /\ pc' = IF Waits(task) THEN "input" ELSE "tasks"
    /\ taskQ' = Popped(taskQ)
    /\ i' = i + 1
    /\ UNCHANGED <<inputCount, exit, eof, program, inputs>>

\* Plausible slip: the main loop not told that the game is over.
GameEndUntold ==
    /\ pc = "tasks" /\ i < maxProcessCount /\ taskQ = <<>>
    /\ isInactive' = FALSE
    /\ pc' = "input"
    /\ UNCHANGED <<i, taskQ, inputCount, exit, eof, history>>

\* No task left: the game ends.
GameEnd ==
    /\ pc = "tasks" /\ i < maxProcessCount /\ taskQ = <<>>
    /\ exit' = TRUE
    /\ isInactive' = FALSE
    /\ pc' = "input"
    /\ UNCHANGED <<i, taskQ, inputCount, eof, history>>

\* The turn's tasks are done: putGameInstanceInQueue.
TurnDone ==
    /\ pc = "tasks" /\ i = maxProcessCount
    /\ isInactive' = FALSE
    /\ pc' = "input"
    /\ UNCHANGED <<i, taskQ, inputCount, exit, eof, history>>

\* Input is read only for an inactive game.
CheckInput ==
    /\ pc = "input"
    /\ pc' = IF isInactive /\ ~exit THEN "reading" ELSE "turn"
    /\ UNCHANGED <<i, taskQ, isInactive, inputCount, exit, eof, history>>

\* playerInput starts the count anew once it has made the game active.
CountAfter(enough) == IF enough THEN 0 ELSE inputCount + 1

\* Plausible slip: one input too many waited for.
OneMore == neededInputCount < inputCount + 1
Enough == neededInputCount <= inputCount + 1

\* A well-formed line: playerInput.
GoodInput ==
    /\ pc = "reading" /\ ~eof
    /\ inputs' = inputs + 1
    /\ inputCount' = CountAfter(Enough)
    /\ isInactive' = ~Enough
    /\ pc' = "turn"
    /\ UNCHANGED <<i, taskQ, exit, eof, program, ran, waits>>

\* A malformed line, or a player number stoi cannot convert.
MalformedInput ==
    /\ pc = "reading" /\ ~eof
    /\ pc' = "turn"
    /\ UNCHANGED <<i, taskQ, isInactive, inputCount, exit, eof, history>>

\* An empty line is read over, and so is, for ever, the end of the input.
EmptyLine == pc = "reading" /\ UNCHANGED vars
InputEnds ==
    /\ ~eof
    /\ eof' = TRUE
    /\ UNCHANGED <<pc, i, taskQ, isInactive, inputCount, exit, history>>

\* The process is gone.
Exited == pc = "exited" /\ UNCHANGED vars

Step == BeginTurn \/ RunTask \/ GameEnd \/ TurnDone \/ CheckInput
Next == Step \/ GoodInput \/ MalformedInput \/ EmptyLine \/ InputEnds \/ Exited

Spec == Init /\ [][Next]_vars

\* The process runs, and players keep giving input that is well formed.
FairSpec == Spec /\ WF_vars(Step) /\ SF_vars(GoodInput)

-----------------------------------------------------------------------------
(* Properties *)

\* Type invariant.
TypeOK ==
    /\ pc \in {"turn", "tasks", "input", "reading", "exited"}
    /\ i \in 0..maxProcessCount
    /\ taskQ \in Seq(TaskTypes) /\ program \in Seq(TaskTypes) /\ ran \in Seq(TaskTypes)
    /\ isInactive \in BOOLEAN /\ exit \in BOOLEAN /\ eof \in BOOLEAN
    /\ inputCount \in 0..(neededInputCount - 1)
    /\ waits \in Nat /\ inputs \in Nat

\* The tasks of a game are taken each once and in order, and the process
\* leaves only when none is left.
TasksInOrder ==
    /\ program = ran \o taskQ
    /\ pc = "exited" => ran = program

\* A game goes on after a SERVER_MSG_WAIT exactly when the needed number of
\* inputs has come since: earlier waits used up their inputs, none of which
\* counts for a later one, and only a waiting game has a count.
InputsMatchWaits ==
    LET over == IF isInactive THEN waits - 1 ELSE waits
    IN  /\ inputs = over * neededInputCount + inputCount
        /\ ~isInactive => inputCount = 0

\* The game ends if the players keep answering, unless the input ends.
GameEnds == <>(pc = "exited" \/ eof)
=============================================================================
