-------------------------- MODULE EventLoopProofs --------------------------
(***************************************************************************)
(* Proofs about EventLoop, for every game, every number of inputs waited   *)
(* for and every number of tasks per turn.                                 *)
(***************************************************************************)
EXTENDS EventLoop, SequenceTheorems, TLAPS

\* What ties the place in main's loop to the state of the game: tasks run
\* only while the game is active, input is read only while it is not, and
\* exit is set only when no task is left.
PlaceMatches ==
    /\ pc = "tasks" => ~isInactive /\ ~exit
    /\ pc = "reading" => isInactive
    /\ exit => taskQ = <<>> /\ ~isInactive
    /\ pc = "exited" => exit

Inv == TypeOK /\ program = ran \o taskQ /\ InputsMatchWaits /\ PlaceMatches

\* Moving the first task from the queue to the tasks taken loses nothing.
LEMMA TakeFirst ==
  ASSUME NEW S, NEW s \in Seq(S), NEW t \in Seq(S), t # <<>>
  PROVE  /\ Head(t) \in S
         /\ Tail(t) \in Seq(S)
         /\ Append(s, Head(t)) \in Seq(S)
         /\ Append(s, Head(t)) \o Tail(t) = s \o t
<1>1. /\ Head(t) \in S /\ Tail(t) \in Seq(S) /\ Append(s, Head(t)) \in Seq(S)
  BY HeadTailProperties
<1>2. Append(s, Head(t)) = s \o <<Head(t)>>
  BY <1>1, AppendIsConcat
<1>3. t = <<Head(t)>> \o Tail(t)
  BY <1>1
<1>4. (s \o <<Head(t)>>) \o Tail(t) = s \o (<<Head(t)>> \o Tail(t))
  BY <1>1, ConcatAssociative
<1>. QED
  BY <1>1, <1>2, <1>3, <1>4

\* A game starts active, with all its tasks to run.
LEMMA InitInv == Init => Inv
<1>. SUFFICES ASSUME Init PROVE Inv
  OBVIOUS
<1>1. program \in Seq(TaskTypes) /\ taskQ = program
  BY ProgramAssumption DEF Init
<1>2. TypeOK
  <2>1. <<>> \in Seq(TaskTypes)
    OBVIOUS
  <2>2. i \in 0..maxProcessCount /\ inputCount \in 0..(neededInputCount - 1)
    BY CountAssumption DEF Init
  <2>3. waits \in Nat /\ inputs \in Nat
    BY DEF Init
  <2>4. isInactive \in BOOLEAN /\ exit \in BOOLEAN /\ eof \in BOOLEAN
    BY DEF Init
  <2>5. taskQ \in Seq(TaskTypes) /\ program \in Seq(TaskTypes) /\ ran \in Seq(TaskTypes)
    BY <1>1, <2>1 DEF Init
  <2>6. pc \in {"turn", "tasks", "input", "reading", "exited"}
    BY DEF Init
  <2>. QED
    BY <2>2, <2>3, <2>4, <2>5, <2>6 DEF TypeOK
<1>3. <<>> \o program = program
  BY <1>1, ConcatEmptySeq
<1>4. InputsMatchWaits
  BY CountAssumption DEF Init, InputsMatchWaits
<1>. QED
  BY <1>1, <1>2, <1>3, <1>4 DEF Init, Inv, PlaceMatches

\* Taking a task keeps the invariant: an active game has no input counted, so
\* a wait starts from zero.
LEMMA RunTaskInv == Inv /\ RunTask => Inv'
<1>. SUFFICES ASSUME Inv, RunTask PROVE Inv'
  OBVIOUS
<1>. USE CountAssumption DEF Popped
<1>1. /\ taskQ \in Seq(TaskTypes) /\ ran \in Seq(TaskTypes) /\ taskQ # <<>>
  BY DEF Inv, TypeOK, RunTask
<1>2. /\ Head(taskQ) \in TaskTypes /\ taskQ' \in Seq(TaskTypes) /\ ran' \in Seq(TaskTypes)
      /\ program' = ran' \o taskQ'
  BY <1>1, TakeFirst DEF RunTask, Inv
<1>3. TypeOK'
  BY <1>2 DEF Inv, TypeOK, RunTask, Waits
<1>4. InputsMatchWaits'
  <2>1. /\ ~isInactive /\ inputCount = 0 /\ inputs = waits * neededInputCount + inputCount
        /\ inputCount' = inputCount /\ inputs' = inputs
    BY DEF Inv, RunTask, InputsMatchWaits, PlaceMatches
  <2>2. CASE Head(taskQ) = "SERVER_MSG_WAIT"
    <3>1. isInactive'
      BY <2>2, Zenon DEF RunTask, Waits
    <3>2. waits' = waits + 1 /\ waits \in Nat
      BY <2>2 DEF RunTask, Inv, TypeOK
    <3>3. waits' - 1 = waits
      BY <3>2
    <3>. QED
      BY <2>1, <3>1, <3>3 DEF InputsMatchWaits
  <2>3. CASE Head(taskQ) # "SERVER_MSG_WAIT"
    BY <2>1, <2>3 DEF RunTask, Waits, InputsMatchWaits
  <2>. QED
    BY <2>2, <2>3
<1>5. PlaceMatches'
  BY DEF Inv, TypeOK, RunTask, Waits, PlaceMatches
<1>. QED
  BY <1>2, <1>3, <1>4, <1>5 DEF Inv

\* An accepted input keeps the invariant: the last one needed ends the wait
\* and is the only one that resets the count.
LEMMA GoodInputInv == Inv /\ GoodInput => Inv'
<1>. SUFFICES ASSUME Inv, GoodInput PROVE Inv'
  OBVIOUS
<1>. USE CountAssumption
<1>1. isInactive /\ isInactive' = ~Enough /\ inputs' = inputs + 1 /\ waits' = waits
  BY DEF Inv, PlaceMatches, GoodInput
<1>2. /\ inputs = (waits - 1) * neededInputCount + inputCount
      /\ inputCount \in 0..(neededInputCount - 1) /\ waits \in Nat /\ inputs \in Nat
  BY <1>1 DEF Inv, InputsMatchWaits, TypeOK
<1>3. TypeOK'
  BY <1>2 DEF Inv, TypeOK, GoodInput, CountAfter, Enough
<1>4. InputsMatchWaits'
  <2>1. CASE Enough
    <3>1. inputCount = neededInputCount - 1 /\ inputCount' = 0
      BY <1>2, <2>1 DEF Enough, GoodInput, CountAfter
    <3>2. (waits - 1) * neededInputCount + neededInputCount = waits * neededInputCount
      BY <1>2
    <3>3. inputs' = waits * neededInputCount + inputCount'
      BY <1>1, <1>2, <3>1, <3>2
    <3>. QED
      BY <1>1, <2>1, <3>1, <3>3 DEF InputsMatchWaits
  <2>2. CASE ~Enough
    <3>1. inputCount' = inputCount + 1
      BY <2>2 DEF GoodInput, CountAfter
    <3>2. inputs' = (waits - 1) * neededInputCount + inputCount'
      BY <1>1, <1>2, <3>1
    <3>. QED
      BY <1>1, <2>2, <3>2 DEF InputsMatchWaits
  <2>. QED
    BY <2>1, <2>2
<1>5. PlaceMatches'
  BY <1>1 DEF Inv, PlaceMatches, GoodInput
<1>. QED
  BY <1>3, <1>4, <1>5 DEF Inv, GoodInput

\* Every step of the process keeps the invariant.
LEMMA NextInv == Inv /\ [Next]_vars => Inv'
<1>. SUFFICES ASSUME Inv, [Next]_vars PROVE Inv'
  OBVIOUS
<1>. USE CountAssumption
<1>1. CASE BeginTurn
  BY <1>1 DEF BeginTurn, Inv, TypeOK, InputsMatchWaits, PlaceMatches, history
<1>2. CASE RunTask
  BY <1>2, RunTaskInv
<1>3. CASE GameEnd
  BY <1>3 DEF GameEnd, Inv, TypeOK, InputsMatchWaits, PlaceMatches, history
<1>4. CASE TurnDone
  BY <1>4 DEF TurnDone, Inv, TypeOK, InputsMatchWaits, PlaceMatches, history
<1>5. CASE CheckInput
  BY <1>5 DEF CheckInput, Inv, TypeOK, InputsMatchWaits, PlaceMatches, history
<1>6. CASE GoodInput
  BY <1>6, GoodInputInv
<1>7. CASE MalformedInput
  BY <1>7 DEF MalformedInput, Inv, TypeOK, InputsMatchWaits, PlaceMatches, history
<1>8. CASE InputEnds
  BY <1>8 DEF InputEnds, Inv, TypeOK, InputsMatchWaits, PlaceMatches, history
<1>9. CASE UNCHANGED vars
  BY <1>9 DEF vars, Inv, TypeOK, InputsMatchWaits, PlaceMatches
<1>10. CASE EmptyLine
  BY <1>9, <1>10 DEF EmptyLine
<1>11. CASE Exited
  BY <1>9, <1>11 DEF Exited
<1>. QED
  BY <1>1, <1>2, <1>3, <1>4, <1>5, <1>6, <1>7, <1>8, <1>9, <1>10, <1>11 DEF Next, Step

\* The invariant holds in every state of the process.
LEMMA InvAlways == Spec => []Inv
<1>. QED
  BY InitInv, NextInv, PTL DEF Spec

\* The event loop keeps the types of its state; in particular its input count
\* stays below the number it waits for.
THEOREM TypeCorrect == Spec => []TypeOK
<1>1. Inv => TypeOK
  BY DEF Inv
<1>. QED
  BY <1>1, InvAlways, PTL

\* Every game's tasks are taken once each and in order, and the process
\* leaves only when none is left, for every game and every turn size.
THEOREM TasksInOrderHolds == Spec => []TasksInOrder
<1>1. Inv => TasksInOrder
  <2>1. Inv /\ pc = "exited" => ran = program
    <3>. SUFFICES ASSUME Inv, pc = "exited" PROVE ran = program
      OBVIOUS
    <3>1. taskQ = <<>> /\ program = ran \o taskQ /\ ran \in Seq(TaskTypes)
      BY DEF Inv, PlaceMatches, TypeOK
    <3>. QED
      BY <3>1, ConcatEmptySeq
  <2>. QED
    BY <2>1 DEF Inv, TasksInOrder
<1>. QED
  BY <1>1, InvAlways, PTL

\* A waiting game goes on exactly when the needed inputs have come since,
\* whatever their number.
THEOREM InputsMatchWaitsHolds == Spec => []InputsMatchWaits
<1>1. Inv => InputsMatchWaits
  BY DEF Inv
<1>. QED
  BY <1>1, InvAlways, PTL
=============================================================================
