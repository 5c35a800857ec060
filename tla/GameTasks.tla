----------------------------- MODULE GameTasks -----------------------------
(***************************************************************************)
(* The tasks of a game (lib/taskFactory): a factory makes a task of        *)
(* Variables that names are bound to, and the task runs later, after other *)
(* tasks ran and names were bound anew.  Some arguments are copied, some   *)
(* shared, and some only borrowed: a raw pointer to the list a task will   *)
(* change, a string_view of the name an assignment will bind.  Messages go *)
(* to the PlayerHandler of the game (src/gameinstance.cpp).                *)
(***************************************************************************)
EXTENDS Integers, Sequences, FiniteSets, SequencesExt

CONSTANTS
    Names,        \* names a Variable is bound to
    Objs,         \* Variable objects
    Cells,        \* Variable objects that are elements of lists
    NoObj,
    Ints,         \* integers; the strings are the names
    Arguments,    \* kind of task -> argument lists to make it with
    Initially,    \* what the names are bound to at first: name -> value
    MaxTasks,     \* bound: tasks made
    MaxChanges    \* bound: other changes to Variables

ASSUME ObjAssumption == NoObj \notin Objs
ASSUME EnoughAssumption == Names # {} /\ \E e \in [Names -> Objs] : IsInjective(e)
ASSUME CellsAssumption == IsFiniteSet(Cells)
ASSUME ValueAssumption == Ints # {} /\ Ints \cap Names = {}
ASSUME BoundAssumption == MaxTasks \in Nat /\ MaxChanges \in Nat

VARIABLES
    env,       \* name -> Variable, NoObj for none
    value,     \* Variable -> what it holds
    cell,      \* element -> what it holds
    tasks,     \* tasks made and not run yet, in the order they run
    mail,      \* PlayerHandler::messages
    last,      \* the last call: what it was, how it ended, and its history
    assigned,  \* history: names last bound by an AssignmentTask
    made, changes

vars == <<env, value, cell, tasks, mail, last, assigned, made, changes>>

Scalars == Ints \cup Names

\* A Variable holds a list of elements or one scalar.
Value == [type : {"list"}, data : Seq(Cells)]
    \cup [type : {"int"}, data : {<<i>> : i \in Ints}]
    \cup [type : {"str"}, data : {<<s>> : s \in Names}]

ASSUME InitiallyAssumption == Initially \in [Names -> Value]

ListKinds == {"reverse", "shuffle"}
AskKinds == {"input", "choice", "range", "message"}
Kinds == ListKinds \cup AskKinds \cup {"extend", "scores", "assignment"}

ASSUME ArgumentsAssumption == \A kind \in Kinds : Arguments[kind] \subseteq Seq(Names)

\* What it is that a task works with.
Content == [ids : Seq(Ints), body : Seq(Names), cells : Seq(Cells)]

Task == [kind : Kinds,
         borrowed : Objs \cup {NoObj},   \* varTypeBorrowedPtr, or what name points into
         dangling : BOOLEAN,             \* what was borrowed is gone or overwritten
         val : Objs \cup {NoObj},        \* a shared Variable
         own : Content,                  \* copies, and shared elements
         args : Seq(Names),              \* history: the arguments
         given : Content,                \* history: what they held when it was made
         touched : BOOLEAN]              \* history: a borrowed argument was changed since

Message == [ids : Seq(Ints), body : Seq(Names), scores : Seq(Scalars)]

Nothing == [ids |-> <<>>, body |-> <<>>, cells |-> <<>>]
NoCall == [op |-> "none", how |-> "ok", type |-> "list", touched |-> FALSE,
           used |-> Nothing, given |-> Nothing]

-----------------------------------------------------------------------------
(* Memory *)

Bound(e) == {e[n] : n \in Names} \ {NoObj}
LiveObjs(e, ts) == Bound(e) \cup ({ts[i].val : i \in DOMAIN ts} \ {NoObj})
LiveCells(e, v, ts) ==
    UNION ({Range(v[o].data) : o \in {p \in LiveObjs(e, ts) : v[p].type = "list"}}
           \cup {Range(ts[i].own.cells) : i \in DOMAIN ts})

FreshCells == SetToSeq(Cells \ LiveCells(env, value, tasks))

\* Binding a name anew ends its Variable unless somebody shares it.
Loosen(ts, e) ==
    [i \in DOMAIN ts |->
        [ts[i] EXCEPT !.dangling = @ \/ (ts[i].borrowed # NoObj
                                         /\ ts[i].borrowed \notin LiveObjs(e, ts))]]

\* The arguments a task of some kind borrows.
BorrowedArgs(t) ==
    IF t.kind \in ListKinds \cup {"extend", "assignment"} THEN {t.args[1]} ELSE {}
Touch(ts, n) ==
    [i \in DOMAIN ts |-> [ts[i] EXCEPT !.touched = @ \/ n \in BorrowedArgs(ts[i])]]

Ready == last.how # "undefined"

\* Plausible slip: the Variable of another name with that value is taken.
BindEqual(n, v) ==
    /\ env' = [env EXCEPT ![n] = CHOOSE o \in Bound(env) : value[o] = v]
    /\ UNCHANGED value

\* make_shared of a Variable, bound to a name.
BindFresh(n, v) ==
    /\ Objs # LiveObjs(env, tasks)
    /\ LET o == CHOOSE free \in Objs : free \notin LiveObjs(env, tasks)
       IN  /\ env' = [env EXCEPT ![n] = o]
           /\ value' = [value EXCEPT ![o] = v]

-----------------------------------------------------------------------------
(* Variables change between the making of a task and its run                *)

Change == Ready /\ changes < MaxChanges /\ changes' = changes + 1

\* EnvironmentManager::setVariable with a value: a new Variable takes the
\* name.  A list that is copied shares its elements.
SetVariable(n, v) ==
    /\ Change
    /\ BindFresh(n, v)
    /\ tasks' = Loosen(Touch(tasks, n), env')
    /\ last' = [NoCall EXCEPT !.op = "setVariable"]
    /\ assigned' = assigned \ {n}
    /\ UNCHANGED <<cell, mail, made>>

\* The scope of a name is left.
DropVariable(n) ==
    /\ Change
    /\ env[n] # NoObj
    /\ env' = [env EXCEPT ![n] = NoObj]
    /\ tasks' = Loosen(Touch(tasks, n), env')
    /\ last' = [NoCall EXCEPT !.op = "drop"]
    /\ assigned' = assigned \ {n}
    /\ UNCHANGED <<value, cell, mail, made>>

\* Plausible slip: the value taken whatever its type.
AnyType(old, new) == TRUE

\* VariableUtils::setValue takes a value of the same type only.
SameType(old, new) == old.type = new.type

\* Variable::set, in place.  A string_view of an overwritten string is not
\* to be used.
SetInPlace(n, v) ==
    /\ Change
    /\ env[n] # NoObj
    /\ IF SameType(value[env[n]], v)
       THEN /\ value' = [value EXCEPT ![env[n]] = v]
            /\ tasks' = [i \in DOMAIN tasks |->
                  IF tasks[i].kind = "assignment" /\ tasks[i].borrowed = env[n]
                  THEN [tasks[i] EXCEPT !.dangling = TRUE, !.touched = TRUE]
                  ELSE tasks[i]]
            /\ last' = [NoCall EXCEPT !.op = "set"]
       ELSE /\ last' = [NoCall EXCEPT !.op = "set", !.how = "bad_arg"]
            /\ UNCHANGED <<value, tasks>>
    /\ UNCHANGED <<env, cell, mail, assigned, made>>

\* Variable::set of an element, as a score that changes.
SetElement(c, s) ==
    /\ Change
    /\ c \in LiveCells(env, value, tasks)
    /\ (s \in Ints) = (cell[c] \in Ints)
    /\ cell' = [cell EXCEPT ![c] = s]
    /\ last' = [NoCall EXCEPT !.op = "set"]
    /\ UNCHANGED <<env, value, tasks, mail, assigned, made>>

\* ListObjUtils::push_back of a new element, as addPlayerToGame does.
PushBack(n, s) ==
    /\ Change
    /\ env[n] # NoObj /\ value[env[n]].type = "list" /\ FreshCells # <<>>
    /\ cell' = [cell EXCEPT ![Head(FreshCells)] = s]
    /\ value' = [value EXCEPT ![env[n]].data = Append(@, Head(FreshCells))]
    /\ last' = [NoCall EXCEPT !.op = "push_back"]
    /\ UNCHANGED <<env, tasks, mail, assigned, made>>

\* PlayerHandler::clearAllMessages.
ClearAllMessages ==
    /\ Change /\ mail # <<>>
    /\ mail' = <<>>
    /\ last' = [NoCall EXCEPT !.op = "clear"]
    /\ UNCHANGED <<env, value, cell, tasks, assigned, made>>

-----------------------------------------------------------------------------
(* Factories *)

\* Plausible slip: every element is copied, whatever its type.
CopyVecAny(cells, T) == [i \in DOMAIN cells |-> cell[cells[i]]]

\* copyVec<T>: the elements of one type, copied.
CopyVec(cells, T) ==
    LET copy[i \in 0..Len(cells)] ==
            IF i = 0 THEN <<>>
            ELSE IF cell[cells[i]] \in T THEN Append(copy[i - 1], cell[cells[i]])
            ELSE copy[i - 1]
    IN  copy[Len(cells)]

\* The types of the arguments each factory asks for; Reverse and Shuffle
\* take a Variable of any type.
Signature == [reverse |-> <<"any">>, shuffle |-> <<"any">>,
              extend |-> <<"list", "list">>,
              input |-> <<"list", "str", "str">>,
              choice |-> <<"list", "str", "str", "list">>,
              range |-> <<"list", "str", "str", "int", "int">>,
              message |-> <<"list", "str">>,
              scores |-> <<"int", "list", "list", "str">>,
              assignment |-> <<"str", "any">>]

\* A factory counts its arguments before it looks at them.
Counted(kind, args) == Len(args) = Len(Signature[kind])

\* checkPreconditions and the get_ifs of the factories.
Checks(kind, args) ==
    \A i \in DOMAIN args : Signature[kind][i] \in {"any", value[env[args[i]]].type}

\* What the constructor of the task copies or shares of its arguments.
Captured(kind, args) ==
    LET list(i) == value[env[args[i]]].data
        strings(i) == CopyVec(list(i), Names)
    IN  [ids |-> CASE kind \in AskKinds -> CopyVec(list(1), Ints)
                   [] kind = "scores" -> list(1)
                   [] OTHER -> <<>>,
         body |-> CASE kind = "message" -> list(2)
                    [] kind \in {"input", "range"} -> list(2) \o list(3)
                    [] kind = "choice" -> list(2) \o list(3) \o strings(4)
                    [] kind = "scores" -> list(4) \o strings(2)
                    [] OTHER -> <<>>,
         cells |-> CASE kind = "extend" -> list(2)
                     [] kind = "scores" -> list(3)
                     [] OTHER -> <<>>]

NewTask(kind, args) ==
    [kind |-> kind,
     borrowed |-> IF kind \in ListKinds \cup {"extend", "assignment"}
                  THEN env[args[1]] ELSE NoObj,
     dangling |-> FALSE,
     val |-> IF kind = "assignment" THEN env[args[2]] ELSE NoObj,
     own |-> Captured(kind, args),
     args |-> args,
     given |-> Captured(kind, args),
     touched |-> FALSE]

\* SCConverter::convert and TaskFactory::create; a name that is bound to
\* nothing gives a null pointer, which Reverse and Shuffle do not look for.
Create(kind, args) ==
    /\ Ready /\ made < MaxTasks
    /\ made' = made + 1
    /\ LET null == \E i \in DOMAIN args : env[args[i]] = NoObj
           fits == Counted(kind, args) /\ ~null /\ Checks(kind, args)
       IN  /\ tasks' = IF fits THEN Append(tasks, NewTask(kind, args)) ELSE tasks
           /\ last' = [NoCall EXCEPT
                  !.op = "create",
                  !.how = CASE fits -> "ok"
                            [] Counted(kind, args) /\ null /\ kind \in ListKinds -> "undefined"
                            [] OTHER -> "bad_arg"]
    /\ UNCHANGED <<env, value, cell, mail, assigned, changes>>

\* A node that no factory was added for: match, sort, deal, discard and loops.
CreateUnsupported ==
    /\ Ready /\ made < MaxTasks
    /\ made' = made + 1
    /\ last' = [NoCall EXCEPT !.op = "create", !.how = "bad_arg"]
    /\ UNCHANGED <<env, value, cell, tasks, mail, assigned, changes>>

-----------------------------------------------------------------------------
(* RunnableTask::run of the first task *)

Task1 == Head(tasks)

\* A task of one of these kinds runs first, and how it ends.
Ran(kinds, how, used) ==
    /\ Ready /\ tasks # <<>> /\ Task1.kind \in kinds
    /\ last' = [op |-> Task1.kind, how |-> how,
                type |-> IF Task1.borrowed = NoObj THEN "list" ELSE value[Task1.borrowed].type,
                touched |-> Task1.touched, used |-> used, given |-> Task1.given]
    /\ UNCHANGED <<made, changes>>

\* The task is gone, and what it alone kept alive.
Pop == tasks' = Loosen(Tail(tasks), env) /\ UNCHANGED <<env, assigned>>

\* How a task that works on a borrowed list ends.
OnBorrowed ==
    IF Task1.dangling THEN "undefined"
    ELSE IF value[Task1.borrowed].type # "list" THEN "bad_arg" ELSE "ok"

Permutation(s) == {p \in [DOMAIN s -> Range(s)] : \A x \in Range(s) :
    Cardinality({i \in DOMAIN s : s[i] = x}) = Cardinality({i \in DOMAIN s : p[i] = x})}

\* ReverseTask::run and ShuffleTask::run.
RunReorder ==
    /\ Ran(ListKinds, OnBorrowed, Task1.own)
    /\ IF OnBorrowed = "ok"
       THEN \E p \in IF Task1.kind = "reverse"
                     THEN {Reverse(value[Task1.borrowed].data)}
                     ELSE Permutation(value[Task1.borrowed].data) :
                value' = [value EXCEPT ![Task1.borrowed].data = p]
       ELSE UNCHANGED value
    /\ Pop /\ UNCHANGED <<cell, mail>>

\* Plausible slip: a reference to the second list in place of a copy.
ElementsNow(t) ==
    LET o == env[t.args[2]] IN IF o = NoObj THEN <<>> ELSE value[o].data
Elements(t) == t.own.cells

\* ExtendTask::run: a new element for each, with the value it has by now.
RunExtend ==
    LET n == Len(Elements(Task1))
    IN  /\ Ran({"extend"}, OnBorrowed, [Task1.own EXCEPT !.cells = Elements(Task1)])
        /\ IF OnBorrowed = "ok"
           THEN /\ n <= Len(FreshCells)
                /\ cell' = [c \in Cells |->
                      IF \E i \in 1..n : FreshCells[i] = c
                      THEN cell[Elements(Task1)[CHOOSE i \in 1..n : FreshCells[i] = c]]
                      ELSE cell[c]]
                /\ value' = [value EXCEPT ![Task1.borrowed].data =
                                 @ \o SubSeq(FreshCells, 1, n)]
           ELSE UNCHANGED <<cell, value>>
        /\ Pop /\ UNCHANGED mail

\* Plausible slip: the players read from the list when the task runs.
PlayersNow(t) ==
    LET o == env[t.args[1]]
    IN  IF o = NoObj \/ value[o].type # "list" THEN t.own.ids ELSE CopyVec(value[o].data, Ints)
Players(t) == t.own.ids

\* InputTask::run and MessageTask::run: the comma in front of the first id
\* is erased also when there is no id.
RunAsk ==
    /\ Ran(AskKinds, IF Players(Task1) = <<>> THEN "undefined" ELSE "ok",
           [Task1.own EXCEPT !.ids = Players(Task1)])
    /\ mail' = IF Players(Task1) = <<>> THEN mail
               ELSE Append(mail, [ids |-> Players(Task1), body |-> Task1.own.body,
                                  scores |-> <<>>])
    /\ Pop /\ UNCHANGED <<value, cell>>

\* ScoresTask::run: names as they were, scores as they are.
RunScores ==
    /\ Ran({"scores"}, "ok", Task1.own)
    /\ mail' = Append(mail, [ids |-> Task1.own.ids, body |-> Task1.own.body,
                             scores |-> CopyVec(Task1.own.cells, Scalars)])
    /\ Pop /\ UNCHANGED <<value, cell>>

\* AssignmentTask::run: the name, as the view shows it, is bound to the very
\* Variable of the argument.
RunAssignment ==
    LET n == value[Task1.borrowed].data[1]
    IN  /\ Ran({"assignment"}, IF Task1.dangling THEN "undefined" ELSE "ok", Task1.own)
        /\ IF Task1.dangling
           THEN Pop
           ELSE /\ env' = [env EXCEPT ![n] = Task1.val]
                /\ assigned' = assigned \cup {n}
                /\ tasks' = Loosen(Touch(Tail(tasks), n), env')
        /\ UNCHANGED <<value, cell, mail>>

-----------------------------------------------------------------------------
\* The lists that names are bound to at first have elements of their own.
Init ==
    /\ env = CHOOSE e \in [Names -> Objs] : IsInjective(e)
    /\ cell = [c \in Cells |-> CHOOSE i \in Ints : TRUE]
    /\ value = [o \in Objs |->
                  IF \E n \in Names : env[n] = o
                  THEN Initially[CHOOSE n \in Names : env[n] = o]
                  ELSE CHOOSE v \in Range(Initially) : TRUE]
    /\ tasks = <<>> /\ mail = <<>> /\ last = NoCall /\ assigned = {}
    /\ made = 0 /\ changes = 0

Changes ==
    \/ \E n, m \in Names : /\ env[m] # NoObj
                           /\ SetVariable(n, value[env[m]]) \/ SetInPlace(n, value[env[m]])
    \/ \E n \in Names : DropVariable(n)
    \/ \E n \in Names, s \in Scalars : PushBack(n, s)
    \/ \E c \in Cells, s \in Scalars : SetElement(c, s)
    \/ ClearAllMessages

Next ==
    \/ Changes
    \/ \E kind \in Kinds : \E args \in Arguments[kind] : Create(kind, args)
    \/ CreateUnsupported
    \/ RunReorder \/ RunExtend \/ RunAsk \/ RunScores \/ RunAssignment

Spec == Init /\ [][Next]_vars

-----------------------------------------------------------------------------
(* Properties *)

\* Type invariant.
TypeOK ==
    /\ env \in [Names -> Objs \cup {NoObj}]
    /\ value \in [Objs -> Value]
    /\ cell \in [Cells -> Scalars]
    /\ tasks \in Seq(Task) /\ mail \in Seq(Message)
    /\ last.how \in {"ok", "bad_arg", "undefined"}
    /\ assigned \subseteq Names
    /\ made \in 0..MaxTasks /\ changes \in 0..MaxChanges

\* A task that a factory made runs to its end, whatever ran and changed in
\* between, as long as the name it borrowed from is not bound anew, left or
\* overwritten: its memory is still there, with a value of the type that the
\* factory saw.  Reverse and Shuffle, whose factories see no type, and
\* questions to nobody are the exceptions in the source.
CreatedTasksRun ==
    (last.op \in Kinds /\ last.how # "ok") =>
        \/ last.touched
        \/ last.op \in ListKinds /\ last.type # "list"
        \/ last.op \in AskKinds /\ last.given.ids = <<>>

\* A task works with the players, texts and elements that its arguments held
\* when it was made: nothing that joined or was appended since is asked,
\* told or copied, also when a list is extended by itself.
BoundAtCreation ==
    (last.op \in Kinds /\ last.how = "ok") => last.used = last.given

\* Two names are one Variable, so that a task on one changes the other, only
\* where an AssignmentTask bound one of them.
IndependentUnlessAssigned ==
    \A m, n \in Names :
        (m # n /\ env[m] # NoObj /\ env[m] = env[n]) => {m, n} \cap assigned # {}
=============================================================================
