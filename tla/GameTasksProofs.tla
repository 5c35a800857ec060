-------------------------- MODULE GameTasksProofs --------------------------
(***************************************************************************)
(* Proofs about GameTasks, for any names, Variables, elements, arguments   *)
(* and initial values, and any number of tasks and changes.                *)
(***************************************************************************)
EXTENDS GameTasks, SequenceTheorems, FiniteSetTheorems, WellFoundedInduction, TLAPS

-----------------------------------------------------------------------------
(* Sequences whose elements are in no set known beforehand                  *)

IsSeq(ts) == ts \in Seq(Range(ts))

\* A function on an initial segment of the numbers is a sequence.
LEMMA MadeSeq ==
  ASSUME NEW n \in Nat, NEW f, DOMAIN f = 1..n, f = [i \in DOMAIN f |-> f[i]]
  PROVE  IsSeq(f)
<1>1. f \in [1..n -> Range(f)]
  BY DEF Range
<1>. QED
  BY <1>1, SeqDef DEF IsSeq

\* The domain of a sequence.
LEMMA SeqDomain ==
  ASSUME NEW ts, IsSeq(ts)
  PROVE  /\ Len(ts) \in Nat /\ DOMAIN ts = 1..Len(ts) /\ ts = [i \in DOMAIN ts |-> ts[i]]
         /\ (ts # <<>> => 1 \in DOMAIN ts /\ Head(ts) = ts[1])
<1>1. ts \in Seq(Range(ts))
  BY DEF IsSeq
<1>2. /\ Len(ts) \in Nat /\ DOMAIN ts = 1..Len(ts) /\ ts \in [1..Len(ts) -> Range(ts)]
  BY <1>1, LenProperties
<1>3. ts # <<>> => Len(ts) \in Nat \ {0}
  BY <1>1, EmptySeq
<1>4. Head(ts) = ts[1]
  BY DEF Head
<1>. QED
  BY <1>2, <1>3, <1>4

\* What a sequence holds without its first element.
LEMMA TailElements ==
  ASSUME NEW ts, IsSeq(ts), ts # <<>>
  PROVE  /\ IsSeq(Tail(ts))
         /\ \A i \in DOMAIN Tail(ts) : i + 1 \in DOMAIN ts /\ Tail(ts)[i] = ts[i + 1]
<1>. DEFINE t == Tail(ts)
            R == Range(ts)
<1>1. ts \in Seq(R)
  BY DEF IsSeq
<1>. HIDE DEF R
<1>2. /\ t \in Seq(R) /\ Len(t) = Len(ts) - 1 /\ \A i \in 1..Len(t) : t[i] = ts[i + 1]
  BY <1>1, HeadTailProperties
<1>. HIDE DEF t
<1>3. /\ Len(t) \in Nat /\ DOMAIN t = 1..Len(t) /\ t \in [1..Len(t) -> R]
      /\ Len(ts) \in Nat /\ DOMAIN ts = 1..Len(ts)
  BY <1>1, <1>2, LenProperties
<1>4. IsSeq(t)
  BY <1>3, MadeSeq
<1>5. \A i \in DOMAIN t : i + 1 \in DOMAIN ts /\ t[i] = ts[i + 1]
  BY <1>2, <1>3
<1>. QED
  BY <1>4, <1>5 DEF t

\* What a sequence holds with one more element.
LEMMA AppendElements ==
  ASSUME NEW ts, IsSeq(ts), NEW e
  PROVE  /\ IsSeq(Append(ts, e))
         /\ \A i \in DOMAIN Append(ts, e) :
               (i \in DOMAIN ts /\ Append(ts, e)[i] = ts[i]) \/ Append(ts, e)[i] = e
<1>. DEFINE t == Append(ts, e)
            R == Range(ts) \cup {e}
<1>1. ts \in Seq(Range(ts)) /\ Range(ts) \subseteq R
  BY DEF IsSeq
<1>. HIDE DEF R
<1>2. ts \in Seq(R) /\ e \in R
  <2>1. ts \in Seq(R)
    BY <1>1, SeqMonotonic
  <2>. QED
    BY <2>1 DEF R
<1>3. /\ t \in Seq(R) /\ Len(t) = Len(ts) + 1 /\ t[Len(ts) + 1] = e
      /\ \A i \in 1..Len(ts) : t[i] = ts[i]
  BY <1>2, AppendProperties
<1>. HIDE DEF t
<1>4. /\ Len(t) \in Nat /\ DOMAIN t = 1..Len(t) /\ t \in [1..Len(t) -> R]
      /\ Len(ts) \in Nat /\ DOMAIN ts = 1..Len(ts)
  BY <1>2, <1>3, LenProperties
<1>5. IsSeq(t)
  BY <1>4, MadeSeq
<1>6. \A i \in DOMAIN t : (i \in DOMAIN ts /\ t[i] = ts[i]) \/ t[i] = e
  BY <1>3, <1>4
<1>. QED
  BY <1>5, <1>6 DEF t

-----------------------------------------------------------------------------
(* What is true of a task that waits, in an environment e with values v     *)

Borrowers == ListKinds \cup {"extend", "assignment"}

Fields == {"kind", "borrowed", "dangling", "val", "own", "args", "given", "touched"}

\* What a task borrowed is the Variable that the name is bound to, and has
\* the type the factory saw.
Holds(t, e, v) ==
    /\ ~t.dangling
    /\ t.args[1] \in Names /\ t.borrowed \in Objs /\ e[t.args[1]] = t.borrowed
    /\ t.kind = "extend" => v[t.borrowed].type = "list"

TaskOK(t, e, v) ==
    /\ Fields \subseteq DOMAIN t
    /\ t.kind \in Kinds /\ t.val \in Objs \cup {NoObj}
    /\ t.own = t.given
    /\ t.own = [ids |-> t.own.ids, body |-> t.own.body, cells |-> t.own.cells]
    /\ t.kind \in Borrowers /\ ~t.touched => Holds(t, e, v)
    /\ t.kind \notin Borrowers => t.borrowed = NoObj /\ ~t.dangling

TasksOK(ts, e, v) == IsSeq(ts) /\ \A i \in DOMAIN ts : TaskOK(ts[i], e, v)

Env == [Names -> Objs \cup {NoObj}]

\* What is bound is alive, and what is alive is a Variable.
LEMMA Alive ==
  ASSUME NEW e \in Env, NEW v, NEW ts, TasksOK(ts, e, v)
  PROVE  Bound(e) \subseteq LiveObjs(e, ts) /\ LiveObjs(e, ts) \subseteq Objs
<1>1. \A i \in DOMAIN ts : ts[i].val \in Objs \cup {NoObj}
  BY DEF TasksOK, TaskOK
<1>2. Bound(e) \subseteq Objs
  BY DEF Env, Bound
<1>. QED
  BY <1>1, <1>2 DEF LiveObjs

\* A task whose Variable is still bound is not left dangling.
LEMMA LoosenKeeps ==
  ASSUME NEW e \in Env, NEW v, NEW ts, TasksOK(ts, e, v)
  PROVE  TasksOK(Loosen(ts, e), e, v)
<1>. DEFINE u == Loosen(ts, e)
            L == LiveObjs(e, ts)
<1>1. /\ DOMAIN u = DOMAIN ts /\ u = [i \in DOMAIN u |-> u[i]]
      /\ \A i \in DOMAIN ts : u[i] = [ts[i] EXCEPT !.dangling = @ \/ (ts[i].borrowed # NoObj
                                                            /\ ts[i].borrowed \notin L)]
  BY DEF Loosen
<1>2. Bound(e) \subseteq L
  BY Alive
<1>. HIDE DEF u, L
<1>3. IsSeq(u)
  BY <1>1, SeqDomain, MadeSeq DEF TasksOK
<1>4. ASSUME NEW i \in DOMAIN ts PROVE TaskOK(u[i], e, v)
  <2>. DEFINE t == ts[i]
              d == t.dangling \/ (t.borrowed # NoObj /\ t.borrowed \notin L)
  <2>1. TaskOK(t, e, v)
    BY DEF TasksOK
  <2>2. u[i] = [t EXCEPT !.dangling = d]
    BY <1>1
  <2>. HIDE DEF t, d
  <2>3. /\ DOMAIN u[i] = DOMAIN t /\ u[i].dangling = d /\ u[i].kind = t.kind
        /\ u[i].borrowed = t.borrowed /\ u[i].val = t.val /\ u[i].own = t.own
        /\ u[i].args = t.args /\ u[i].given = t.given /\ u[i].touched = t.touched
    BY <2>1, <2>2 DEF TaskOK, Fields
  <2>4. Holds(t, e, v) => ~d
    <3>. SUFFICES ASSUME Holds(t, e, v) PROVE ~d
      OBVIOUS
    <3>1. t.borrowed \in Objs /\ t.borrowed # NoObj /\ ~t.dangling
      BY ObjAssumption DEF Holds
    <3>2. t.borrowed \in Bound(e)
      BY <3>1 DEF Holds, Bound
    <3>. QED
      BY <1>2, <3>1, <3>2 DEF d
  <2>5. t.borrowed = NoObj /\ ~t.dangling => ~d
    BY DEF d
  <2>6. Holds(t, e, v) => Holds(u[i], e, v)
    BY <2>3, <2>4 DEF Holds
  <2>. QED
    BY <2>1, <2>3, <2>5, <2>6 DEF TaskOK
<1>5. \A i \in DOMAIN u : TaskOK(u[i], e, v)
  BY <1>1, <1>4
<1>6. TasksOK(u, e, v)
  BY <1>3, <1>5 DEF TasksOK
<1>. QED
  BY <1>6 DEF u

\* When one name is bound anew, the tasks that did not borrow from it hold
\* what they held.
LEMMA TouchKeeps ==
  ASSUME NEW e, NEW v, NEW ts, TasksOK(ts, e, v), NEW n, NEW e2, NEW v2,
         \A k \in Names \ {n} : e2[k] = e[k],
         \A k \in Names \ {n} : e[k] \in Objs => v2[e[k]].type = v[e[k]].type
  PROVE  TasksOK(Touch(ts, n), e2, v2)
<1>. DEFINE u == Touch(ts, n)
<1>1. /\ DOMAIN u = DOMAIN ts /\ u = [i \in DOMAIN u |-> u[i]]
      /\ \A i \in DOMAIN ts : u[i] = [ts[i] EXCEPT !.touched = @ \/ n \in BorrowedArgs(ts[i])]
  BY DEF Touch
<1>. HIDE DEF u
<1>2. IsSeq(u)
  BY <1>1, SeqDomain, MadeSeq DEF TasksOK
<1>3. ASSUME NEW i \in DOMAIN ts PROVE TaskOK(u[i], e2, v2)
  <2>. DEFINE t == ts[i]
              d == t.touched \/ n \in BorrowedArgs(t)
  <2>1. TaskOK(t, e, v)
    BY DEF TasksOK
  <2>2. u[i] = [t EXCEPT !.touched = d]
    BY <1>1
  <2>. HIDE DEF t, d
  <2>3. /\ DOMAIN u[i] = DOMAIN t /\ u[i].touched = d /\ u[i].kind = t.kind
        /\ u[i].borrowed = t.borrowed /\ u[i].val = t.val /\ u[i].own = t.own
        /\ u[i].args = t.args /\ u[i].given = t.given /\ u[i].dangling = t.dangling
    BY <2>1, <2>2 DEF TaskOK, Fields
  <2>4. ASSUME t.kind \in Borrowers, ~d PROVE Holds(u[i], e2, v2)
    <3>1. ~t.touched /\ n # t.args[1]
      BY <2>4 DEF d, BorrowedArgs, Borrowers
    <3>2. Holds(t, e, v)
      BY <2>1, <2>4, <3>1 DEF TaskOK
    <3>3. t.args[1] \in Names \ {n} /\ t.borrowed \in Objs /\ e[t.args[1]] = t.borrowed
      BY <3>1, <3>2 DEF Holds
    <3>4. e2[t.args[1]] = t.borrowed /\ v2[t.borrowed].type = v[t.borrowed].type
      BY <3>3
    <3>. QED
      BY <2>3, <3>2, <3>4 DEF Holds
  <2>. QED
    BY <2>1, <2>3, <2>4 DEF TaskOK
<1>4. TasksOK(u, e2, v2)
  BY <1>1, <1>2, <1>3 DEF TasksOK
<1>. QED
  BY <1>4 DEF u

\* Values may change while their types do not.
LEMMA TypesKeep ==
  ASSUME NEW e, NEW v, NEW ts, TasksOK(ts, e, v), NEW v2, \A o \in Objs : v2[o].type = v[o].type
  PROVE  TasksOK(ts, e, v2)
<1>. QED
  BY DEF TasksOK, TaskOK, Holds

\* The tasks behind the first wait on.
LEMMA TailKeeps ==
  ASSUME NEW e, NEW v, NEW ts, TasksOK(ts, e, v), ts # <<>>
  PROVE  TasksOK(Tail(ts), e, v) /\ TaskOK(Head(ts), e, v)
<1>1. IsSeq(ts)
  BY DEF TasksOK
<1>2. /\ IsSeq(Tail(ts)) /\ 1 \in DOMAIN ts /\ Head(ts) = ts[1]
      /\ \A i \in DOMAIN Tail(ts) : i + 1 \in DOMAIN ts /\ Tail(ts)[i] = ts[i + 1]
  BY <1>1, TailElements, SeqDomain
<1>. QED
  BY <1>2 DEF TasksOK

\* A new task waits behind the others.
LEMMA AppendKeeps ==
  ASSUME NEW e, NEW v, NEW ts, TasksOK(ts, e, v), NEW t, TaskOK(t, e, v)
  PROVE  TasksOK(Append(ts, t), e, v)
<1>1. IsSeq(ts)
  BY DEF TasksOK
<1>2. /\ IsSeq(Append(ts, t))
      /\ \A i \in DOMAIN Append(ts, t) :
            (i \in DOMAIN ts /\ Append(ts, t)[i] = ts[i]) \/ Append(ts, t)[i] = t
  BY <1>1, AppendElements
<1>. QED
  BY <1>2 DEF TasksOK

-----------------------------------------------------------------------------
(* The inductive invariant                                                  *)

ValueOK == DOMAIN value = Objs /\ \A o \in Objs : "type" \in DOMAIN value[o]

Inv ==
    /\ env \in Env /\ ValueOK /\ TasksOK(tasks, env, value)
    /\ IndependentUnlessAssigned
    /\ CreatedTasksRun /\ BoundAtCreation

\* At first every name has a Variable of its own, and no task is made.
LEMMA InitInv == Init => Inv
<1>. SUFFICES ASSUME Init PROVE Inv
  OBVIOUS
<1>1. env \in [Names -> Objs] /\ IsInjective(env)
  BY EnoughAssumption DEF Init
<1>2. Names # {} /\ Initially \in [Names -> Value] /\ \A x \in Value : "type" \in DOMAIN x
  BY EnoughAssumption, InitiallyAssumption DEF Value
<1>3. ValueOK
  <2>1. /\ DOMAIN value = Objs
        /\ \A o \in Objs : value[o] = IF \E n \in Names : env[n] = o
                                     THEN Initially[CHOOSE n \in Names : env[n] = o]
                                     ELSE CHOOSE v \in Range(Initially) : TRUE
    BY DEF Init
  <2>2. \E v \in Range(Initially) : TRUE
    BY <1>2 DEF Range
  <2>3. Range(Initially) \subseteq Value
    BY <1>2 DEF Range
  <2>4. \A o \in Objs : value[o] \in Value
    <3>. SUFFICES ASSUME NEW o \in Objs PROVE value[o] \in Value
      OBVIOUS
    <3>1. CASE \E n \in Names : env[n] = o
      BY <1>2, <2>1, <3>1
    <3>2. CASE ~\E n \in Names : env[n] = o
      BY <2>1, <2>2, <2>3, <3>2
    <3>. QED
      BY <3>1, <3>2
  <2>. QED
    BY <1>2, <2>1, <2>4 DEF ValueOK
<1>4. TasksOK(tasks, env, value)
  <2>1. <<>> \in Seq(Range(<<>>))
    BY EmptySeq
  <2>2. tasks = <<>> /\ DOMAIN tasks = {}
    BY DEF Init
  <2>. QED
    BY <2>1, <2>2 DEF TasksOK, IsSeq
<1>5. IndependentUnlessAssigned
  BY <1>1 DEF IndependentUnlessAssigned, IsInjective
<1>6. last.op \notin Kinds
  BY DEF Init, NoCall, Kinds, ListKinds, AskKinds
<1>. QED
  BY <1>1, <1>3, <1>4, <1>5, <1>6 DEF Inv, Env, CreatedTasksRun, BoundAtCreation

\* What a call says of tasks that ran, when none did.
LEMMA NoneRan ==
  ASSUME last'.op \in {"setVariable", "drop", "set", "push_back", "clear", "create"}
  PROVE  CreatedTasksRun' /\ BoundAtCreation'
<1>1. last'.op \notin Kinds
  BY DEF Kinds, ListKinds, AskKinds
<1>. QED
  BY <1>1 DEF CreatedTasksRun, BoundAtCreation

\* Changing the data of a Variable leaves its type.
LEMMA DataOnly ==
  ASSUME NEW v, DOMAIN v = Objs, \A p \in Objs : "type" \in DOMAIN v[p], NEW o \in Objs, NEW d
  PROVE  LET w == [v EXCEPT ![o].data = d]
         IN  /\ DOMAIN w = Objs
             /\ \A p \in Objs : "type" \in DOMAIN w[p] /\ w[p].type = v[p].type
<1>. DEFINE x == [v[o] EXCEPT !.data = d]
            w == [v EXCEPT ![o].data = d]
<1>1. "type" \in DOMAIN x /\ x.type = v[o].type
  OBVIOUS
<1>2. w = [v EXCEPT ![o] = x]
  OBVIOUS
<1>. HIDE DEF x, w
<1>3. DOMAIN w = Objs /\ w[o] = x /\ \A p \in Objs \ {o} : w[p] = v[p]
  BY <1>2
<1>. QED
  BY <1>1, <1>3 DEF w

\* A new Variable is one that nothing refers to.
LEMMA BindFreshKeeps ==
  ASSUME Inv, NEW n \in Names, NEW v, "type" \in DOMAIN v, BindFresh(n, v)
  PROVE  /\ env' \in Env /\ ValueOK'
         /\ env'[n] \notin Bound(env)
         /\ \A k \in Names \ {n} : env'[k] = env[k]
         /\ \A p \in Objs : p \in Bound(env) => value'[p] = value[p]
<1>. DEFINE L == LiveObjs(env, tasks)
            o == CHOOSE free \in Objs : free \notin L
<1>1. env \in Env /\ ValueOK /\ TasksOK(tasks, env, value)
  BY DEF Inv
<1>2. Bound(env) \subseteq L /\ L \subseteq Objs
  BY <1>1, Alive
<1>3. env' = [env EXCEPT ![n] = o] /\ value' = [value EXCEPT ![o] = v] /\ Objs # L
  BY DEF BindFresh
<1>. HIDE DEF L
<1>4. o \in Objs /\ o \notin L
  BY <1>2, <1>3
<1>. HIDE DEF o
<1>5. env' \in Env /\ env'[n] = o /\ \A k \in Names \ {n} : env'[k] = env[k]
  BY <1>1, <1>3, <1>4 DEF Env
<1>6. DOMAIN value' = Objs /\ value'[o] = v /\ \A p \in Objs \ {o} : value'[p] = value[p]
  BY <1>1, <1>3, <1>4 DEF ValueOK
<1>7. ValueOK'
  BY <1>1, <1>6 DEF ValueOK
<1>. QED
  BY <1>2, <1>4, <1>5, <1>6, <1>7

-----------------------------------------------------------------------------
(* Changes to Variables between the making and the running of tasks         *)

\* A name bound to a new Variable shares it with no other name.
LEMMA SetVariableKeepsInv ==
  ASSUME Inv, NEW n \in Names, NEW v, "type" \in DOMAIN v, SetVariable(n, v)
  PROVE  Inv'
<1>1. /\ BindFresh(n, v) /\ tasks' = Loosen(Touch(tasks, n), env')
      /\ last' = [NoCall EXCEPT !.op = "setVariable"] /\ assigned' = assigned \ {n}
  BY DEF SetVariable
<1>2. env \in Env /\ TasksOK(tasks, env, value) /\ IndependentUnlessAssigned
  BY DEF Inv
<1>3. /\ env' \in Env /\ ValueOK'
      /\ env'[n] \notin Bound(env)
      /\ \A k \in Names \ {n} : env'[k] = env[k]
      /\ \A p \in Objs : p \in Bound(env) => value'[p] = value[p]
  BY <1>1, BindFreshKeeps
<1>4. \A k \in Names : env[k] # NoObj => env[k] \in Bound(env) /\ env[k] \in Objs
  BY <1>2 DEF Bound, Env
<1>5. TasksOK(Touch(tasks, n), env', value')
  <2>1. \A k \in Names \ {n} : env[k] \in Objs => value'[env[k]].type = value[env[k]].type
    BY <1>3, <1>4, ObjAssumption
  <2>. QED
    BY <1>2, <1>3, <2>1, TouchKeeps
<1>6. TasksOK(tasks', env', value')
  BY <1>1, <1>3, <1>5, LoosenKeeps
<1>7. IndependentUnlessAssigned'
  <2>. SUFFICES ASSUME NEW j \in Names, NEW k \in Names, j # k, env'[j] # NoObj, env'[j] = env'[k]
                PROVE  {j, k} \cap assigned' # {}
    BY DEF IndependentUnlessAssigned
  <2>1. j # n /\ k # n
    BY <1>3, <1>4
  <2>2. {j, k} \cap assigned # {}
    BY <1>2, <1>3, <2>1 DEF IndependentUnlessAssigned
  <2>. QED
    BY <1>1, <2>1, <2>2
<1>8. CreatedTasksRun' /\ BoundAtCreation'
  <2>1. last'.op = "setVariable"
    BY <1>1 DEF NoCall
  <2>. QED
    BY <2>1, NoneRan
<1>. QED
  BY <1>3, <1>6, <1>7, <1>8 DEF Inv

\* A name that is left is bound to nothing.
LEMMA DropVariableKeepsInv ==
  ASSUME Inv, NEW n \in Names, DropVariable(n)
  PROVE  Inv'
<1>1. /\ env' = [env EXCEPT ![n] = NoObj] /\ tasks' = Loosen(Touch(tasks, n), env')
      /\ last' = [NoCall EXCEPT !.op = "drop"] /\ assigned' = assigned \ {n}
      /\ value' = value
  BY DEF DropVariable
<1>2. env \in Env /\ ValueOK /\ TasksOK(tasks, env, value) /\ IndependentUnlessAssigned
  BY DEF Inv
<1>3. env' \in Env /\ env'[n] = NoObj /\ \A k \in Names \ {n} : env'[k] = env[k]
  BY <1>1, <1>2 DEF Env
<1>4. TasksOK(Touch(tasks, n), env', value)
  BY <1>2, <1>3, TouchKeeps
<1>5. TasksOK(tasks', env', value')
  BY <1>1, <1>3, <1>4, LoosenKeeps
<1>6. IndependentUnlessAssigned'
  BY <1>1, <1>2, <1>3 DEF IndependentUnlessAssigned
<1>7. CreatedTasksRun' /\ BoundAtCreation'
  <2>1. last'.op = "drop"
    BY <1>1 DEF NoCall
  <2>. QED
    BY <2>1, NoneRan
<1>8. ValueOK'
  BY <1>1, <1>2 DEF ValueOK
<1>. QED
  BY <1>3, <1>5, <1>6, <1>7, <1>8 DEF Inv

\* A value set in place has the type of the one before; a task with a view of
\* the one before is known to have lost it.
LEMMA SetInPlaceKeepsInv ==
  ASSUME Inv, NEW n \in Names, NEW v, "type" \in DOMAIN v, SetInPlace(n, v)
  PROVE  Inv'
<1>. DEFINE o == env[n]
<1>1. env \in Env /\ ValueOK /\ TasksOK(tasks, env, value) /\ IndependentUnlessAssigned
  BY DEF Inv
<1>2. o \in Objs /\ UNCHANGED <<env, assigned>>
  BY <1>1 DEF SetInPlace, Env
<1>3. CASE SameType(value[o], v)
  <2>1. /\ value' = [value EXCEPT ![o] = v] /\ last' = [NoCall EXCEPT !.op = "set"]
        /\ tasks' = [i \in DOMAIN tasks |->
              IF tasks[i].kind = "assignment" /\ tasks[i].borrowed = o
              THEN [tasks[i] EXCEPT !.dangling = TRUE, !.touched = TRUE] ELSE tasks[i]]
    BY <1>3 DEF SetInPlace
  <2>2. value[o].type = v.type
    BY <1>3 DEF SameType
  <2>. HIDE DEF o
  <2>3. DOMAIN value' = Objs /\ value'[o] = v /\ \A p \in Objs \ {o} : value'[p] = value[p]
    BY <1>1, <1>2, <2>1 DEF ValueOK
  <2>4. ValueOK' /\ \A p \in Objs : value'[p].type = value[p].type
    BY <1>1, <2>2, <2>3 DEF ValueOK
  <2>5. TasksOK(tasks, env, value')
    BY <1>1, <2>4, TypesKeep
  <2>6. /\ DOMAIN tasks' = DOMAIN tasks /\ tasks' = [i \in DOMAIN tasks' |-> tasks'[i]]
        /\ \A i \in DOMAIN tasks : tasks'[i] =
              IF tasks[i].kind = "assignment" /\ tasks[i].borrowed = o
              THEN [tasks[i] EXCEPT !.dangling = TRUE, !.touched = TRUE] ELSE tasks[i]
    BY <2>1
  <2>7. IsSeq(tasks')
    <3>1. Len(tasks) \in Nat /\ DOMAIN tasks = 1..Len(tasks)
      BY <1>1, SeqDomain DEF TasksOK
    <3>2. DOMAIN tasks' = 1..Len(tasks)
      BY <2>6, <3>1
    <3>3. tasks' = [i \in DOMAIN tasks' |-> tasks'[i]]
      BY <2>6
    <3>. QED
      BY <3>1, <3>2, <3>3, MadeSeq
  <2>8. ASSUME NEW i \in DOMAIN tasks PROVE TaskOK(tasks'[i], env, value')
    <3>. DEFINE t == tasks[i]
                u == tasks'[i]
    <3>1. TaskOK(t, env, value')
      BY <2>5 DEF TasksOK
    <3>2. u = IF t.kind = "assignment" /\ t.borrowed = o
              THEN [t EXCEPT !.dangling = TRUE, !.touched = TRUE] ELSE t
      BY <2>6
    <3>. HIDE DEF t, u
    <3>3. CASE t.kind = "assignment" /\ t.borrowed = o
      <4>1. /\ DOMAIN u = DOMAIN t /\ u.touched = TRUE /\ u.kind = t.kind
            /\ u.val = t.val /\ u.own = t.own /\ u.given = t.given
        BY <3>1, <3>2, <3>3 DEF TaskOK, Fields
      <4>. QED
        BY <3>1, <3>3, <4>1 DEF TaskOK, Borrowers, u
    <3>4. CASE ~(t.kind = "assignment" /\ t.borrowed = o)
      BY <3>1, <3>2, <3>4 DEF u
    <3>. QED
      BY <3>3, <3>4
  <2>9. TasksOK(tasks', env', value')
    BY <1>2, <2>6, <2>7, <2>8 DEF TasksOK
  <2>10. CreatedTasksRun' /\ BoundAtCreation'
    <3>1. last'.op = "set"
      BY <2>1 DEF NoCall
    <3>. QED
      BY <3>1, NoneRan
  <2>. QED
    BY <1>1, <1>2, <2>4, <2>9, <2>10 DEF Inv, IndependentUnlessAssigned
<1>4. CASE ~SameType(value[o], v)
  <2>1. /\ last' = [NoCall EXCEPT !.op = "set", !.how = "bad_arg"]
        /\ UNCHANGED <<value, tasks>>
    BY <1>4 DEF SetInPlace
  <2>2. CreatedTasksRun' /\ BoundAtCreation'
    BY <2>1, NoneRan DEF NoCall
  <2>. QED
    BY <1>1, <1>2, <2>1, <2>2 DEF Inv, IndependentUnlessAssigned, ValueOK
<1>. QED
  BY <1>3, <1>4

\* A list that grows is a list still.
LEMMA PushBackKeepsInv ==
  ASSUME Inv, NEW n \in Names, NEW s, PushBack(n, s)
  PROVE  Inv'
<1>. DEFINE o == env[n]
            d == Append(value[o].data, Head(FreshCells))
<1>1. env \in Env /\ ValueOK /\ TasksOK(tasks, env, value) /\ IndependentUnlessAssigned
  BY DEF Inv
<1>2. /\ o \in Objs /\ UNCHANGED <<env, assigned, tasks>>
      /\ last' = [NoCall EXCEPT !.op = "push_back"]
  BY <1>1 DEF PushBack, Env
<1>3. value' = [value EXCEPT ![o].data = d]
  BY DEF PushBack
<1>. HIDE DEF o, d
<1>4. ValueOK' /\ \A p \in Objs : value'[p].type = value[p].type
  BY <1>1, <1>2, <1>3, DataOnly DEF ValueOK
<1>5. TasksOK(tasks', env', value')
  BY <1>1, <1>2, <1>4, TypesKeep
<1>6. CreatedTasksRun' /\ BoundAtCreation'
  <2>1. last'.op = "push_back"
    BY <1>2 DEF NoCall
  <2>. QED
    BY <2>1, NoneRan
<1>. QED
  BY <1>1, <1>2, <1>4, <1>5, <1>6 DEF Inv, IndependentUnlessAssigned

\* Steps that change elements or messages only.
LEMMA QuietKeepsInv ==
  ASSUME Inv, UNCHANGED <<env, value, tasks, assigned>>,
         CreatedTasksRun' /\ BoundAtCreation'
  PROVE  Inv'
<1>. QED
  BY DEF Inv, ValueOK, IndependentUnlessAssigned

-----------------------------------------------------------------------------
(* Making tasks                                                             *)

\* A task that a factory makes borrows a Variable that is there, of the type
\* the factory asked for.
LEMMA NewTaskOK ==
  ASSUME env \in Env, NEW kind \in Kinds, NEW args \in Arguments[kind],
         Counted(kind, args), Checks(kind, args), \A i \in DOMAIN args : env[args[i]] # NoObj
  PROVE  TaskOK(NewTask(kind, args), env, value)
<1>. DEFINE t == NewTask(kind, args)
            c == Captured(kind, args)
<1>1. c = [ids |-> c.ids, body |-> c.body, cells |-> c.cells]
  BY DEF Captured
<1>2. args \in Seq(Names) /\ Len(args) \in Nat /\ DOMAIN args = 1..Len(args)
      /\ \A i \in DOMAIN args : args[i] \in Names
  <2>1. args \in Seq(Names)
    BY ArgumentsAssumption
  <2>. QED
    BY <2>1, LenProperties
<1>. HIDE DEF c
<1>3. /\ Fields \subseteq DOMAIN t /\ t.kind = kind /\ t.dangling = FALSE /\ t.touched = FALSE
      /\ t.own = c /\ t.given = c /\ t.args = args
      /\ t.borrowed = IF kind \in Borrowers THEN env[args[1]] ELSE NoObj
      /\ t.val = IF kind = "assignment" THEN env[args[2]] ELSE NoObj
  BY DEF NewTask, c, Fields, Borrowers
<1>. HIDE DEF t
<1>4. ASSUME kind \in Borrowers PROVE 1 \in DOMAIN args
  <2>1. Len(Signature[kind]) = 1 \/ Len(Signature[kind]) = 2
    BY <1>4 DEF Signature, Borrowers, ListKinds
  <2>2. Len(args) = 1 \/ Len(args) = 2
    BY <2>1 DEF Counted
  <2>. QED
    BY <1>2, <2>2
<1>5. ASSUME kind = "assignment" PROVE 2 \in DOMAIN args
  <2>1. Len(Signature[kind]) = 2
    BY <1>5 DEF Signature
  <2>2. Len(args) = 2
    BY <2>1 DEF Counted
  <2>3. DOMAIN args = 1..2
    BY <1>2, <2>2
  <2>. QED
    BY <2>3
<1>6. t.val \in Objs \cup {NoObj}
  BY <1>2, <1>3, <1>5 DEF Env
<1>7. ASSUME kind \in Borrowers PROVE Holds(t, env, value)
  <2>1. env[args[1]] \in Objs /\ args[1] \in Names
    BY <1>2, <1>4, <1>7 DEF Env
  <2>2. kind = "extend" => value[env[args[1]]].type = "list"
    <3>1. kind = "extend" => Signature[kind][1] = "list"
      BY DEF Signature
    <3>. QED
      BY <1>4, <1>7, <3>1 DEF Checks
  <2>. QED
    BY <1>3, <1>7, <2>1, <2>2 DEF Holds
<1>8. TaskOK(t, env, value)
  BY <1>1, <1>3, <1>6, <1>7 DEF TaskOK
<1>. QED
  BY <1>8 DEF t

\* A factory adds a task that is as it should be, or none.
LEMMA CreateKeepsInv ==
  ASSUME Inv, NEW kind \in Kinds, NEW args \in Arguments[kind], Create(kind, args)
  PROVE  Inv'
<1>. DEFINE null == \E i \in DOMAIN args : env[args[i]] = NoObj
            fits == Counted(kind, args) /\ ~null /\ Checks(kind, args)
<1>1. env \in Env /\ ValueOK /\ TasksOK(tasks, env, value) /\ IndependentUnlessAssigned
  BY DEF Inv
<1>2. /\ UNCHANGED <<env, value, assigned>>
      /\ tasks' = IF fits THEN Append(tasks, NewTask(kind, args)) ELSE tasks
  BY DEF Create
<1>3. CreatedTasksRun' /\ BoundAtCreation'
  <2>1. last'.op = "create"
    BY DEF Create, NoCall
  <2>. QED
    BY <2>1, NoneRan
<1>4. TasksOK(tasks', env, value)
  <2>1. CASE fits
    <3>1. TaskOK(NewTask(kind, args), env, value)
      BY <1>1, <2>1, NewTaskOK
    <3>. QED
      BY <1>1, <1>2, <2>1, <3>1, AppendKeeps
  <2>2. CASE ~fits
    BY <1>1, <1>2, <2>2
  <2>. QED
    BY <2>1, <2>2
<1>. QED
  BY <1>1, <1>2, <1>3, <1>4 DEF Inv, ValueOK, IndependentUnlessAssigned

-----------------------------------------------------------------------------
(* Running tasks                                                            *)

\* The first task is as every task should be.
LEMMA FirstTask ==
  ASSUME Inv, tasks # <<>>
  PROVE  TaskOK(Task1, env, value)
<1>. QED
  BY TailKeeps DEF Inv, Task1

\* The tasks behind the first keep what they hold when it is gone.
LEMMA PopKeepsInv ==
  ASSUME Inv, tasks # <<>>, Pop, ValueOK', \A p \in Objs : value'[p].type = value[p].type,
         CreatedTasksRun', BoundAtCreation'
  PROVE  Inv'
<1>1. env \in Env /\ TasksOK(tasks, env, value) /\ IndependentUnlessAssigned
  BY DEF Inv
<1>2. tasks' = Loosen(Tail(tasks), env) /\ UNCHANGED <<env, assigned>>
  BY DEF Pop
<1>3. TasksOK(Tail(tasks), env, value)
  BY <1>1, TailKeeps
<1>4. TasksOK(tasks', env, value)
  BY <1>1, <1>2, <1>3, LoosenKeeps
<1>5. TasksOK(tasks', env', value')
  BY <1>2, <1>4, TypesKeep
<1>. QED
  BY <1>1, <1>2, <1>5 DEF Inv, IndependentUnlessAssigned

\* Reverse and Shuffle fail only on what is no list any more, or never was.
LEMMA RunReorderKeepsInv == Inv /\ RunReorder => Inv'
<1>. SUFFICES ASSUME Inv, RunReorder PROVE Inv'
  OBVIOUS
<1>. DEFINE t == Task1
<1>1. /\ tasks # <<>> /\ t.kind \in ListKinds /\ Pop
      /\ last' = [op |-> t.kind, how |-> OnBorrowed,
                  type |-> IF t.borrowed = NoObj THEN "list" ELSE value[t.borrowed].type,
                  touched |-> t.touched, used |-> t.own, given |-> t.given]
  BY DEF RunReorder, Ran
<1>2. TaskOK(t, env, value) /\ ValueOK
  BY <1>1, FirstTask DEF Inv
<1>3. t.kind \in Borrowers /\ t.kind \in Kinds
  BY <1>1 DEF Borrowers, Kinds
<1>4. ~t.touched => ~t.dangling /\ t.borrowed \in Objs /\ t.borrowed # NoObj
  BY <1>2, <1>3, ObjAssumption DEF TaskOK, Holds
<1>5. BoundAtCreation'
  BY <1>1, <1>2 DEF BoundAtCreation, TaskOK
<1>6. CreatedTasksRun'
  <2>1. OnBorrowed = IF t.dangling THEN "undefined"
                     ELSE IF value[t.borrowed].type # "list" THEN "bad_arg" ELSE "ok"
    BY DEF OnBorrowed
  <2>2. last'.how = OnBorrowed /\ last'.touched = t.touched /\ last'.op = t.kind
        /\ last'.type = IF t.borrowed = NoObj THEN "list" ELSE value[t.borrowed].type
    BY <1>1
  <2>. HIDE DEF t
  <2>3. last'.how # "ok" /\ ~last'.touched => last'.type # "list"
    BY <1>4, <2>1, <2>2
  <2>. QED
    BY <1>1, <2>2, <2>3 DEF CreatedTasksRun
<1>7. ValueOK' /\ \A p \in Objs : value'[p].type = value[p].type
  <2>1. CASE UNCHANGED value
    BY <1>2, <2>1 DEF ValueOK
  <2>2. CASE OnBorrowed = "ok"
    <3>1. ~t.dangling
      BY <2>2 DEF OnBorrowed
    <3>2. PICK d : value' = [value EXCEPT ![t.borrowed].data = d]
      BY <2>2 DEF RunReorder
    <3>3. CASE t.borrowed \in Objs
      <4>. HIDE DEF t
      <4>. QED
        BY <1>2, <3>2, <3>3, DataOnly DEF ValueOK
    <3>4. CASE t.borrowed \notin Objs
      <4>. HIDE DEF t
      <4>1. DOMAIN value' = Objs /\ \A p \in Objs : value'[p] = value[p]
        BY <1>2, <3>2, <3>4 DEF ValueOK
      <4>. QED
        BY <1>2, <4>1 DEF ValueOK
    <3>. QED
      BY <3>3, <3>4
  <2>. QED
    BY <2>1, <2>2 DEF RunReorder
<1>. QED
  BY <1>1, <1>5, <1>6, <1>7, PopKeepsInv

\* Extend copies the elements it took when it was made.
LEMMA RunExtendKeepsInv == Inv /\ RunExtend => Inv'
<1>. SUFFICES ASSUME Inv, RunExtend PROVE Inv'
  OBVIOUS
<1>. DEFINE t == Task1
<1>1. /\ tasks # <<>> /\ t.kind = "extend" /\ Pop
      /\ last' = [op |-> t.kind, how |-> OnBorrowed,
                  type |-> IF t.borrowed = NoObj THEN "list" ELSE value[t.borrowed].type,
                  touched |-> t.touched, used |-> [t.own EXCEPT !.cells = t.own.cells],
                  given |-> t.given]
  BY DEF RunExtend, Ran, Elements
<1>2. TaskOK(t, env, value) /\ ValueOK
  BY <1>1, FirstTask DEF Inv
<1>3. t.kind \in Borrowers /\ t.kind \in Kinds
  BY <1>1 DEF Borrowers, Kinds
<1>4. ~t.touched => ~t.dangling /\ value[t.borrowed].type = "list"
  BY <1>1, <1>2, <1>3 DEF TaskOK, Holds
<1>5. BoundAtCreation'
  <2>1. last'.used = [t.own EXCEPT !.cells = t.own.cells] /\ last'.given = t.given
    BY <1>1
  <2>2. t.own = t.given /\ t.own = [ids |-> t.own.ids, body |-> t.own.body, cells |-> t.own.cells]
    BY <1>2 DEF TaskOK
  <2>. DEFINE i == t.own.ids
              b == t.own.body
              c == t.own.cells
  <2>3. t.own = [ids |-> i, body |-> b, cells |-> c]
    BY <2>2
  <2>. HIDE DEF i, b, c
  <2>4. [[ids |-> i, body |-> b, cells |-> c] EXCEPT !.cells = c]
          = [ids |-> i, body |-> b, cells |-> c]
    OBVIOUS
  <2>5. [t.own EXCEPT !.cells = c] = t.own
    BY <2>3, <2>4
  <2>6. last'.used = last'.given
    BY <2>1, <2>2, <2>5 DEF c
  <2>. QED
    BY <2>6 DEF BoundAtCreation
<1>6. CreatedTasksRun'
  <2>1. OnBorrowed = IF t.dangling THEN "undefined"
                     ELSE IF value[t.borrowed].type # "list" THEN "bad_arg" ELSE "ok"
    BY DEF OnBorrowed
  <2>2. last'.how = OnBorrowed /\ last'.touched = t.touched
    BY <1>1
  <2>. HIDE DEF t
  <2>3. last'.how # "ok" => last'.touched
    BY <1>4, <2>1, <2>2
  <2>. QED
    BY <2>3 DEF CreatedTasksRun
<1>7. ValueOK' /\ \A p \in Objs : value'[p].type = value[p].type
  <2>1. CASE UNCHANGED value
    BY <1>2, <2>1 DEF ValueOK
  <2>2. CASE OnBorrowed = "ok"
    <3>. DEFINE d == value[t.borrowed].data \o SubSeq(FreshCells, 1, Len(Elements(t)))
    <3>1. value' = [value EXCEPT ![t.borrowed].data = d]
      BY <2>2 DEF RunExtend
    <3>. HIDE DEF d, t
    <3>2. CASE t.borrowed \in Objs
      BY <1>2, <3>1, <3>2, DataOnly DEF ValueOK
    <3>3. CASE t.borrowed \notin Objs
      <4>1. DOMAIN value' = Objs /\ \A p \in Objs : value'[p] = value[p]
        BY <1>2, <3>1, <3>3 DEF ValueOK
      <4>. QED
        BY <1>2, <4>1 DEF ValueOK
    <3>. QED
      BY <3>2, <3>3
  <2>. QED
    BY <2>1, <2>2 DEF RunExtend
<1>. QED
  BY <1>1, <1>5, <1>6, <1>7, PopKeepsInv

\* A question or a message goes to those who were there when it was made.
LEMMA RunAskKeepsInv == Inv /\ RunAsk => Inv'
<1>. SUFFICES ASSUME Inv, RunAsk PROVE Inv'
  OBVIOUS
<1>. DEFINE t == Task1
<1>1. /\ tasks # <<>> /\ t.kind \in AskKinds /\ Pop /\ UNCHANGED value
      /\ last' = [op |-> t.kind, how |-> IF t.own.ids = <<>> THEN "undefined" ELSE "ok",
                  type |-> IF t.borrowed = NoObj THEN "list" ELSE value[t.borrowed].type,
                  touched |-> t.touched, used |-> [t.own EXCEPT !.ids = t.own.ids],
                  given |-> t.given]
  BY DEF RunAsk, Ran, Players
<1>2. TaskOK(t, env, value) /\ ValueOK
  BY <1>1, FirstTask DEF Inv
<1>3. BoundAtCreation'
  <2>1. last'.used = [t.own EXCEPT !.ids = t.own.ids] /\ last'.given = t.given
    BY <1>1
  <2>2. t.own = t.given /\ t.own = [ids |-> t.own.ids, body |-> t.own.body, cells |-> t.own.cells]
    BY <1>2 DEF TaskOK
  <2>. DEFINE i == t.own.ids
              b == t.own.body
              c == t.own.cells
  <2>3. t.own = [ids |-> i, body |-> b, cells |-> c]
    BY <2>2
  <2>. HIDE DEF i, b, c
  <2>4. [[ids |-> i, body |-> b, cells |-> c] EXCEPT !.ids = i]
          = [ids |-> i, body |-> b, cells |-> c]
    OBVIOUS
  <2>5. [t.own EXCEPT !.ids = i] = t.own
    BY <2>3, <2>4
  <2>6. last'.used = last'.given
    BY <2>1, <2>2, <2>5 DEF i
  <2>. QED
    BY <2>6 DEF BoundAtCreation
<1>4. CreatedTasksRun'
  <2>1. /\ last'.how = IF t.own.ids = <<>> THEN "undefined" ELSE "ok"
        /\ last'.given = t.given /\ last'.op = t.kind
    BY <1>1
  <2>2. t.own = t.given
    BY <1>2 DEF TaskOK
  <2>3. last'.how # "ok" => last'.op \in AskKinds /\ last'.given.ids = <<>>
    BY <1>1, <2>1, <2>2
  <2>. QED
    BY <2>3 DEF CreatedTasksRun
<1>5. ValueOK' /\ \A p \in Objs : value'[p].type = value[p].type
  BY <1>1, <1>2 DEF ValueOK
<1>. QED
  BY <1>1, <1>3, <1>4, <1>5, PopKeepsInv

\* Scores are shown of the elements that were there when the task was made.
LEMMA RunScoresKeepsInv == Inv /\ RunScores => Inv'
<1>. SUFFICES ASSUME Inv, RunScores PROVE Inv'
  OBVIOUS
<1>. DEFINE t == Task1
<1>1. /\ tasks # <<>> /\ Pop /\ UNCHANGED value
      /\ last'.how = "ok" /\ last'.used = t.own /\ last'.given = t.given
  BY DEF RunScores, Ran
<1>2. TaskOK(t, env, value) /\ ValueOK
  BY <1>1, FirstTask DEF Inv
<1>3. BoundAtCreation' /\ CreatedTasksRun'
  BY <1>1, <1>2 DEF TaskOK, BoundAtCreation, CreatedTasksRun
<1>4. ValueOK' /\ \A p \in Objs : value'[p].type = value[p].type
  BY <1>1, <1>2 DEF ValueOK
<1>. QED
  BY <1>1, <1>3, <1>4, PopKeepsInv

\* An assignment binds a name to a Variable that another name may have, and
\* is on record for it.
LEMMA RunAssignmentKeepsInv == Inv /\ RunAssignment => Inv'
<1>. SUFFICES ASSUME Inv, RunAssignment PROVE Inv'
  OBVIOUS
<1>. DEFINE t == Task1
            n == value[t.borrowed].data[1]
<1>1. /\ tasks # <<>> /\ t.kind = "assignment" /\ UNCHANGED value
      /\ last'.how = (IF t.dangling THEN "undefined" ELSE "ok")
      /\ last'.used = t.own /\ last'.given = t.given /\ last'.touched = t.touched
  BY DEF RunAssignment, Ran
<1>2. TaskOK(t, env, value) /\ ValueOK /\ IndependentUnlessAssigned
      /\ env \in Env /\ TasksOK(tasks, env, value)
  BY <1>1, FirstTask DEF Inv
<1>3. BoundAtCreation' /\ CreatedTasksRun'
  <2>1. t.kind \in Borrowers
    BY <1>1 DEF Borrowers
  <2>2. ~t.touched => ~t.dangling
    BY <1>2, <2>1 DEF TaskOK, Holds
  <2>3. last'.used = last'.given
    BY <1>1, <1>2 DEF TaskOK
  <2>. HIDE DEF t
  <2>4. last'.how # "ok" => last'.touched
    BY <1>1, <2>2
  <2>. QED
    BY <2>3, <2>4 DEF BoundAtCreation, CreatedTasksRun
<1>4. ValueOK' /\ \A p \in Objs : value'[p].type = value[p].type
  BY <1>1, <1>2 DEF ValueOK
<1>5. CASE t.dangling
  <2>1. Pop
    BY <1>5 DEF RunAssignment
  <2>. QED
    BY <1>1, <1>3, <1>4, <2>1, PopKeepsInv
<1>6. CASE ~t.dangling
  <2>1. /\ env' = [env EXCEPT ![n] = t.val] /\ assigned' = assigned \cup {n}
        /\ tasks' = Loosen(Touch(Tail(tasks), n), env')
    BY <1>6 DEF RunAssignment
  <2>2. t.val \in Objs \cup {NoObj}
    BY <1>2 DEF TaskOK
  <2>. HIDE DEF n, t
  <2>3. env' \in Env /\ \A k \in Names \ {n} : env'[k] = env[k]
    BY <1>2, <2>1, <2>2 DEF Env
  <2>4. TasksOK(Tail(tasks), env, value)
    BY <1>1, <1>2, TailKeeps
  <2>5. TasksOK(Touch(Tail(tasks), n), env', value)
    BY <2>3, <2>4, TouchKeeps
  <2>6. TasksOK(tasks', env', value)
    BY <2>1, <2>3, <2>5, LoosenKeeps
  <2>7. IndependentUnlessAssigned'
    <3>. SUFFICES ASSUME NEW j \in Names, NEW k \in Names, j # k, env'[j] # NoObj,
                         env'[j] = env'[k]
                  PROVE  {j, k} \cap assigned' # {}
      BY DEF IndependentUnlessAssigned
    <3>1. CASE j = n \/ k = n
      BY <2>1, <3>1
    <3>2. CASE j # n /\ k # n
      <4>1. {j, k} \cap assigned # {}
        BY <1>2, <2>3, <3>2 DEF IndependentUnlessAssigned
      <4>. QED
        BY <2>1, <4>1
    <3>. QED
      BY <3>1, <3>2
  <2>. QED
    BY <1>1, <1>3, <1>4, <2>3, <2>6, <2>7 DEF Inv
<1>. QED
  BY <1>5, <1>6

-----------------------------------------------------------------------------
(* Induction, and what copyVec returns                                      *)

\* A set of numbers has a least one.
LEMMA Least ==
  ASSUME NEW S, S \subseteq Nat, S # {}
  PROVE  \E n \in S : \A m \in S : n <= m
<1>. DEFINE R == OpToRel(<, Nat)
<1>1. IsWellFoundedOn(R, Nat)
  BY NatLessThanWellFounded
<1>2. \A m, n \in Nat : m < n => <<m, n>> \in R
  BY DEF OpToRel
<1>. HIDE DEF R
<1>3. PICK n \in S : \A m \in S : ~ (<<m, n>> \in R)
  BY <1>1, WFMin
<1>4. ASSUME NEW m \in S PROVE n <= m
  <2>1. m \in Nat /\ n \in Nat
    OBVIOUS
  <2>2. ~ (m < n)
    BY <1>2, <1>3, <2>1
  <2>. QED
    BY <2>1, <2>2
<1>. QED
  BY <1>4

\* What holds at zero and is handed on by every number up to n.
LEMMA Induction ==
  ASSUME NEW n \in Nat, NEW S, 0 \in S,
         \A i \in 1..n : i - 1 \in S => i \in S
  PROVE  0..n \subseteq S
<1>. DEFINE Bad == {i \in 0..n : i \notin S}
<1>. SUFFICES ASSUME Bad # {} PROVE FALSE
  OBVIOUS
<1>1. PICK i \in Bad : \A m \in Bad : i <= m
  <2>. Bad \subseteq Nat
    OBVIOUS
  <2>. HIDE DEF Bad
  <2>. QED
    BY Least
<1>2. i \in 1..n /\ i - 1 \in 0..n /\ i \notin S
  OBVIOUS
<1>3. i - 1 \in S
  BY <1>1, <1>2
<1>. QED
  BY <1>2, <1>3

\* The vectors that copyVec<T> has after each element, up to the k-th.
IsCopy(f, k, cells, T) ==
  f = [i \in 0..k |-> IF i = 0 THEN <<>>
                      ELSE IF cell[cells[i]] \in T THEN Append(f[i - 1], cell[cells[i]]) ELSE f[i - 1]]

\* There is such a loop for any number of elements.
LEMMA CopyExists ==
  ASSUME NEW n \in Nat, NEW cells, NEW T
  PROVE  \E f : IsCopy(f, n, cells, T)
<1>. DEFINE Good == {k \in 0..n : \E f : IsCopy(f, k, cells, T)}
<1>1. 0 \in Good
  <2>1. IsCopy([i \in 0..0 |-> <<>>], 0, cells, T)
    BY DEF IsCopy
  <2>. QED
    BY <2>1
<1>2. ASSUME NEW k \in 1..n, k - 1 \in Good PROVE k \in Good
  <2>1. PICK f : IsCopy(f, k - 1, cells, T)
    BY <1>2
  <2>. DEFINE g == [i \in 0..k |-> IF i < k THEN f[i]
                     ELSE IF cell[cells[k]] \in T THEN Append(f[k - 1], cell[cells[k]]) ELSE f[k - 1]]
  <2>2. IsCopy(g, k, cells, T)
    <3>. SUFFICES ASSUME NEW i \in 0..k
                  PROVE  g[i] = IF i = 0 THEN <<>>
                      ELSE IF cell[cells[i]] \in T THEN Append(g[i - 1], cell[cells[i]]) ELSE g[i - 1]
      BY DEF IsCopy
    <3>1. CASE i = 0
      BY <2>1, <3>1 DEF IsCopy
    <3>2. CASE i # 0 /\ i < k
      <4>1. i \in 0..(k-1) /\ i - 1 \in 0..k /\ i - 1 < k
        BY <3>2
      <4>2. f[i] = IF cell[cells[i]] \in T THEN Append(f[i - 1], cell[cells[i]]) ELSE f[i - 1]
        BY <2>1, <4>1, <3>2 DEF IsCopy
      <4>. QED
        BY <4>1, <4>2, <3>2
    <3>3. CASE i = k
      <4>1. k - 1 \in 0..k /\ k - 1 < k /\ k # 0
        OBVIOUS
      <4>. QED
        BY <3>3, <4>1
    <3>. QED
      BY <3>1, <3>2, <3>3
  <2>. QED
    BY <2>2
<1>. HIDE DEF Good
<1>3. 0..n \subseteq Good
  BY <1>1, <1>2, Induction
<1>. QED
  BY <1>3 DEF Good

\* copyVec<T> returns a vector of T.
LEMMA CopyVecType ==
  ASSUME NEW cells, Len(cells) \in Nat, NEW T
  PROVE  CopyVec(cells, T) \in Seq(T)
<1>. DEFINE n == Len(cells)
            copy == CHOOSE f : f = [i \in 0..n |-> IF i = 0 THEN <<>>
                      ELSE IF cell[cells[i]] \in T THEN Append(f[i - 1], cell[cells[i]]) ELSE f[i - 1]]
<1>1. CopyVec(cells, T) = copy[n]
  BY DEF CopyVec
<1>2. copy = [i \in 0..n |-> IF i = 0 THEN <<>>
                      ELSE IF cell[cells[i]] \in T THEN Append(copy[i - 1], cell[cells[i]]) ELSE copy[i - 1]]
  <2>1. n \in Nat
    OBVIOUS
  <2>2. \E f : IsCopy(f, n, cells, T)
    BY <2>1, CopyExists
  <2>3. \E f : f = [i \in 0..n |-> IF i = 0 THEN <<>>
                      ELSE IF cell[cells[i]] \in T THEN Append(f[i - 1], cell[cells[i]]) ELSE f[i - 1]]
    BY <2>2 DEF IsCopy
  <2>. QED
    BY <2>3
<1>. HIDE DEF copy
<1>. DEFINE Good == {i \in 0..n : copy[i] \in Seq(T)}
<1>3. 0 \in Good
  BY <1>2
<1>4. ASSUME NEW i \in 1..n, i - 1 \in Good PROVE i \in Good
  <2>1. i \in 0..n /\ i # 0
    OBVIOUS
  <2>2. copy[i] = IF cell[cells[i]] \in T THEN Append(copy[i - 1], cell[cells[i]]) ELSE copy[i - 1]
    BY <1>2, <2>1
  <2>3. copy[i - 1] \in Seq(T)
    BY <1>4
  <2>4. copy[i] \in Seq(T)
    BY <2>2, <2>3, AppendProperties
  <2>. QED
    BY <2>1, <2>4
<1>. HIDE DEF Good
<1>5. 0..n \subseteq Good
  BY <1>3, <1>4, Induction
<1>. QED
  BY <1>1, <1>5 DEF Good

-----------------------------------------------------------------------------
(* Types                                                                    *)

\* Elements that nothing refers to are elements.
LEMMA FreshSeq == FreshCells \in Seq(Cells)
<1>. DEFINE S == Cells \ LiveCells(env, value, tasks)
<1>1. IsFiniteSet(S)
  BY CellsAssumption, FS_Subset
<1>. HIDE DEF S
<1>2. Cardinality(S) \in Nat /\ \E f \in [1..Cardinality(S) -> S] : IsInjective(f)
  BY <1>1, FS_CardinalityType DEF ExistsBijection, Bijection, Injection
<1>3. SetToSeq(S) \in [1..Cardinality(S) -> S]
  BY <1>2 DEF SetToSeq
<1>4. SetToSeq(S) \in Seq(S)
  BY <1>2, <1>3, SeqDef
<1>5. FreshCells = SetToSeq(S) /\ S \subseteq Cells
  BY DEF FreshCells, S
<1>. QED
  BY <1>4, <1>5, SeqMonotonic

\* What a Variable of each type holds.
LEMMA ValueTypes ==
  ASSUME NEW v \in Value
  PROVE  /\ v.type \in {"list", "int", "str"} /\ v = [type |-> v.type, data |-> v.data]
         /\ v.type = "list" => v.data \in Seq(Cells)
         /\ v.type = "int" => v.data \in Seq(Ints)
         /\ v.type = "str" => v.data \in Seq(Names) /\ v.data[1] \in Names
<1>1. CASE v \in [type : {"list"}, data : Seq(Cells)]
  BY <1>1
<1>2. CASE v \in [type : {"int"}, data : {<<i>> : i \in Ints}]
  <2>1. PICK i \in Ints : v.data = <<i>>
    BY <1>2
  <2>2. v.data \in Seq(Ints)
    BY <2>1
  <2>. QED
    BY <1>2, <2>2
<1>3. CASE v \in [type : {"str"}, data : {<<s>> : s \in Names}]
  <2>1. PICK s \in Names : v.data = <<s>>
    BY <1>3
  <2>2. v.data \in Seq(Names) /\ v.data[1] \in Names
    BY <2>1
  <2>. QED
    BY <1>3, <2>2
<1>. QED
  BY <1>1, <1>2, <1>3 DEF Value

\* A list with other elements is a list.
LEMMA ListValue ==
  ASSUME NEW v \in Value, v.type = "list", NEW d \in Seq(Cells)
  PROVE  [v EXCEPT !.data = d] \in Value
<1>1. v \in [type : {"list"}, data : Seq(Cells)]
  BY DEF Value
<1>2. [v EXCEPT !.data = d] \in [type : {"list"}, data : Seq(Cells)]
  BY <1>1
<1>. QED
  BY <1>2 DEF Value

\* Also where it is one of many Variables.
LEMMA ListSet ==
  ASSUME NEW v \in [Objs -> Value], NEW o \in Objs, v[o].type = "list", NEW d \in Seq(Cells)
  PROVE  /\ [v EXCEPT ![o].data = d] \in [Objs -> Value]
         /\ \A p \in Objs : [v EXCEPT ![o].data = d][p].type = v[p].type
<1>. DEFINE x == [v[o] EXCEPT !.data = d]
            w == [v EXCEPT ![o].data = d]
<1>1. x \in Value /\ x.type = v[o].type
  <2>1. x \in Value
    BY ListValue
  <2>2. v[o] = [type |-> v[o].type, data |-> v[o].data]
    BY ValueTypes
  <2>. QED
    BY <2>1, <2>2
<1>2. w = [v EXCEPT ![o] = x]
  OBVIOUS
<1>. HIDE DEF x, w
<1>3. w \in [Objs -> Value] /\ w[o] = x /\ \A p \in Objs \ {o} : w[p] = v[p]
  BY <1>1, <1>2
<1>. QED
  BY <1>1, <1>3 DEF w

\* Tasks remain tasks when what they borrowed is gone or changed.
LEMMA MarkedTask ==
  ASSUME NEW t \in Task, NEW b \in BOOLEAN
  PROVE  /\ [t EXCEPT !.dangling = b] \in Task /\ [t EXCEPT !.touched = b] \in Task
         /\ [t EXCEPT !.dangling = b, !.touched = b] \in Task
<1>. QED
  BY DEF Task

\* A sequence changed task by task is a sequence of tasks.
LEMMA MappedTasks ==
  ASSUME NEW ts \in Seq(Task), NEW u, DOMAIN u = DOMAIN ts, u = [i \in DOMAIN u |-> u[i]],
         \A i \in DOMAIN ts : u[i] \in Task
  PROVE  u \in Seq(Task)
<1>1. Len(ts) \in Nat /\ DOMAIN ts = 1..Len(ts)
  BY LenProperties
<1>2. u \in [1..Len(ts) -> Task]
  BY <1>1
<1>. QED
  BY <1>1, <1>2, SeqDef

\* Loosen and Touch keep the type of the tasks and what they borrowed.
LEMMA LoosenTypes ==
  ASSUME NEW ts \in Seq(Task), NEW e
  PROVE  /\ Loosen(ts, e) \in Seq(Task) /\ DOMAIN Loosen(ts, e) = DOMAIN ts
         /\ \A i \in DOMAIN ts : LET t == ts[i]
                                     u == Loosen(ts, e)[i]
                                 IN  /\ u.kind = t.kind /\ u.borrowed = t.borrowed /\ u.val = t.val
                                     /\ ~u.dangling => /\ ~t.dangling
                                                       /\ t.borrowed = NoObj
                                                          \/ t.borrowed \in LiveObjs(e, ts)
<1>. DEFINE v == Loosen(ts, e)
            L == LiveObjs(e, ts)
            d(i) == ts[i].dangling \/ (ts[i].borrowed # NoObj /\ ts[i].borrowed \notin L)
<1>1. /\ DOMAIN v = DOMAIN ts /\ v = [i \in DOMAIN v |-> v[i]]
      /\ \A i \in DOMAIN ts : v[i] = [ts[i] EXCEPT !.dangling = d(i)]
  BY DEF Loosen
<1>2. \A i \in DOMAIN ts : ts[i] \in Task /\ d(i) \in BOOLEAN
  BY ElementOfSeq, LenProperties DEF Task
<1>. HIDE DEF v, L
<1>3. ASSUME NEW i \in DOMAIN ts PROVE v[i] \in Task
  <2>. DEFINE t == ts[i]
              b == d(i)
  <2>1. t \in Task /\ b \in BOOLEAN
    BY <1>2
  <2>2. v[i] = [t EXCEPT !.dangling = b]
    BY <1>1
  <2>. HIDE DEF t, b
  <2>. QED
    BY <2>1, <2>2, MarkedTask
<1>4. v \in Seq(Task)
  BY <1>1, <1>3, MappedTasks
<1>5. ASSUME NEW i \in DOMAIN ts
      PROVE  /\ v[i].kind = ts[i].kind /\ v[i].borrowed = ts[i].borrowed /\ v[i].val = ts[i].val
             /\ v[i].dangling = d(i)
  <2>1. v[i] = [ts[i] EXCEPT !.dangling = d(i)] /\ ts[i] \in Task
    BY <1>1, <1>2
  <2>. QED
    BY <2>1 DEF Task
<1>. QED
  BY <1>1, <1>4, <1>5 DEF v, L

LEMMA TouchTypes ==
  ASSUME NEW ts \in Seq(Task), NEW n
  PROVE  /\ Touch(ts, n) \in Seq(Task) /\ DOMAIN Touch(ts, n) = DOMAIN ts
         /\ \A i \in DOMAIN ts : LET t == ts[i]
                                     u == Touch(ts, n)[i]
                                 IN  /\ u.kind = t.kind /\ u.borrowed = t.borrowed /\ u.val = t.val
                                     /\ u.dangling = t.dangling
<1>. DEFINE v == Touch(ts, n)
            d(i) == ts[i].touched \/ n \in BorrowedArgs(ts[i])
<1>1. /\ DOMAIN v = DOMAIN ts /\ v = [i \in DOMAIN v |-> v[i]]
      /\ \A i \in DOMAIN ts : v[i] = [ts[i] EXCEPT !.touched = d(i)]
  BY DEF Touch
<1>2. \A i \in DOMAIN ts : ts[i] \in Task /\ d(i) \in BOOLEAN
  BY ElementOfSeq, LenProperties DEF Task
<1>. HIDE DEF v
<1>3. ASSUME NEW i \in DOMAIN ts PROVE v[i] \in Task
  <2>. DEFINE t == ts[i]
              b == d(i)
  <2>1. t \in Task /\ b \in BOOLEAN
    BY <1>2
  <2>2. v[i] = [t EXCEPT !.touched = b]
    BY <1>1
  <2>. HIDE DEF t, b
  <2>. QED
    BY <2>1, <2>2, MarkedTask
<1>4. v \in Seq(Task)
  BY <1>1, <1>3, MappedTasks
<1>5. ASSUME NEW i \in DOMAIN ts
      PROVE  /\ v[i].kind = ts[i].kind /\ v[i].borrowed = ts[i].borrowed /\ v[i].val = ts[i].val
             /\ v[i].dangling = ts[i].dangling
  <2>1. v[i] = [ts[i] EXCEPT !.touched = d(i)] /\ ts[i] \in Task
    BY <1>1, <1>2
  <2>. QED
    BY <2>1 DEF Task
<1>. QED
  BY <1>1, <1>4, <1>5 DEF v

-----------------------------------------------------------------------------
(* The name that an assignment will bind                                    *)

\* An AssignmentTask borrowed a Variable; while its view is good, that is a
\* string.
Viewed(t, v) ==
    t.kind = "assignment" => /\ t.borrowed \in Objs
                             /\ ~t.dangling => v[t.borrowed].type = "str"

ViewsTyped(ts, v) == \A i \in DOMAIN ts : Viewed(ts[i], v)

\* A Variable that is viewed is in use, so that no new one takes its place.
ViewsLive(ts, e) ==
    \A i \in DOMAIN ts :
        ts[i].kind = "assignment" /\ ~ts[i].dangling => ts[i].borrowed \in LiveObjs(e, ts)

TypeInv == TypeOK /\ ViewsTyped(tasks, value) /\ ViewsLive(tasks, env)

\* What is alive depends on the shared Variables of the tasks only.
LEMMA LiveSame ==
  ASSUME NEW e, NEW ts, NEW u, DOMAIN u = DOMAIN ts, \A i \in DOMAIN ts : u[i].val = ts[i].val
  PROVE  LiveObjs(e, u) = LiveObjs(e, ts)
<1>. QED
  BY DEF LiveObjs

\* After Loosen every view that is still good is of a Variable in use.
LEMMA LoosenViews ==
  ASSUME NEW ts \in Seq(Task), NEW e, NEW v, ViewsTyped(ts, v)
  PROVE  /\ Loosen(ts, e) \in Seq(Task)
         /\ ViewsTyped(Loosen(ts, e), v) /\ ViewsLive(Loosen(ts, e), e)
<1>. DEFINE u == Loosen(ts, e)
<1>1. /\ u \in Seq(Task) /\ DOMAIN u = DOMAIN ts
      /\ \A i \in DOMAIN ts : /\ u[i].kind = ts[i].kind /\ u[i].borrowed = ts[i].borrowed
                              /\ u[i].val = ts[i].val
                              /\ ~u[i].dangling => /\ ~ts[i].dangling
                                                   /\ ts[i].borrowed = NoObj
                                                      \/ ts[i].borrowed \in LiveObjs(e, ts)
  BY LoosenTypes
<1>. HIDE DEF u
<1>2. LiveObjs(e, u) = LiveObjs(e, ts)
  BY <1>1, LiveSame
<1>3. ViewsTyped(u, v)
  BY <1>1 DEF ViewsTyped, Viewed
<1>4. ViewsLive(u, e)
  <2>. SUFFICES ASSUME NEW i \in DOMAIN u, u[i].kind = "assignment", ~u[i].dangling
                PROVE  u[i].borrowed \in LiveObjs(e, u)
    BY DEF ViewsLive
  <2>1. ts[i].borrowed \in Objs
    BY <1>1 DEF ViewsTyped, Viewed
  <2>2. ts[i].borrowed # NoObj
    BY <2>1, ObjAssumption
  <2>. QED
    BY <1>1, <1>2, <2>2
<1>. QED
  BY <1>1, <1>3, <1>4 DEF u

\* Touch leaves the views.
LEMMA TouchViews ==
  ASSUME NEW ts \in Seq(Task), NEW n, NEW v, ViewsTyped(ts, v)
  PROVE  Touch(ts, n) \in Seq(Task) /\ ViewsTyped(Touch(ts, n), v)
<1>. DEFINE u == Touch(ts, n)
<1>1. /\ u \in Seq(Task) /\ DOMAIN u = DOMAIN ts
      /\ \A i \in DOMAIN ts : /\ u[i].kind = ts[i].kind /\ u[i].borrowed = ts[i].borrowed
                              /\ u[i].val = ts[i].val /\ u[i].dangling = ts[i].dangling
  BY TouchTypes
<1>. HIDE DEF u
<1>2. ViewsTyped(u, v)
  BY <1>1 DEF ViewsTyped, Viewed
<1>. QED
  BY <1>1, <1>2 DEF u

\* The first task, and those behind it.
LEMMA TailViews ==
  ASSUME NEW ts \in Seq(Task), ts # <<>>, NEW v, ViewsTyped(ts, v)
  PROVE  /\ Head(ts) \in Task /\ Viewed(Head(ts), v)
         /\ Tail(ts) \in Seq(Task) /\ ViewsTyped(Tail(ts), v)
<1>1. /\ Head(ts) \in Task /\ Tail(ts) \in Seq(Task)
  BY HeadTailProperties
<1>2. IsSeq(ts)
  <2>1. DOMAIN ts = 1..Len(ts) /\ Len(ts) \in Nat /\ ts = [i \in DOMAIN ts |-> ts[i]]
    BY LenProperties
  <2>. QED
    BY <2>1, MadeSeq
<1>3. /\ 1 \in DOMAIN ts /\ Head(ts) = ts[1]
      /\ \A i \in DOMAIN Tail(ts) : i + 1 \in DOMAIN ts /\ Tail(ts)[i] = ts[i + 1]
  BY <1>2, SeqDomain, TailElements
<1>. QED
  BY <1>1, <1>3 DEF ViewsTyped

\* Values that change within their types leave the views.
LEMMA ViewsKeep ==
  ASSUME NEW ts, NEW v, ViewsTyped(ts, v), NEW v2, \A o \in Objs : v2[o].type = v[o].type
  PROVE  ViewsTyped(ts, v2)
<1>. QED
  BY DEF ViewsTyped, Viewed

\* A task that ran is gone, and the others are as they should be.
LEMMA PopTypes ==
  ASSUME TypeInv, tasks # <<>>, Pop, \A o \in Objs : value'[o].type = value[o].type
  PROVE  /\ Task1 \in Task /\ UNCHANGED <<env, assigned>> /\ tasks' \in Seq(Task)
         /\ ViewsTyped(tasks', value') /\ ViewsLive(tasks', env')
<1>1. tasks \in Seq(Task) /\ ViewsTyped(tasks, value)
  BY DEF TypeInv, TypeOK
<1>2. Task1 \in Task /\ Tail(tasks) \in Seq(Task) /\ ViewsTyped(Tail(tasks), value)
  BY <1>1, TailViews DEF Task1
<1>3. ViewsTyped(Tail(tasks), value')
  BY <1>2, ViewsKeep
<1>4. tasks' = Loosen(Tail(tasks), env) /\ UNCHANGED <<env, assigned>>
  BY DEF Pop
<1>. QED
  BY <1>2, <1>3, <1>4, LoosenViews

\* At first the values are the initial ones.
LEMMA InitTypes == Init => TypeInv
<1>. SUFFICES ASSUME Init PROVE TypeInv
  OBVIOUS
<1>1. env \in [Names -> Objs]
  BY EnoughAssumption DEF Init
<1>2. cell \in [Cells -> Scalars]
  <2>1. (CHOOSE i \in Ints : TRUE) \in Scalars
    BY ValueAssumption DEF Scalars
  <2>. QED
    BY <2>1 DEF Init
<1>3. value \in [Objs -> Value]
  <2>1. value = [o \in Objs |-> IF \E n \in Names : env[n] = o
                                THEN Initially[CHOOSE n \in Names : env[n] = o]
                                ELSE CHOOSE v \in Range(Initially) : TRUE]
    BY DEF Init
  <2>2. Initially \in [Names -> Value] /\ Names # {}
    BY InitiallyAssumption, EnoughAssumption
  <2>3. (CHOOSE v \in Range(Initially) : TRUE) \in Value
    <3>1. Range(Initially) \subseteq Value /\ \E v \in Range(Initially) : TRUE
      BY <2>2 DEF Range
    <3>. QED
      BY <3>1
  <2>4. ASSUME NEW o \in Objs, \E n \in Names : env[n] = o
        PROVE  Initially[CHOOSE n \in Names : env[n] = o] \in Value
    BY <2>2, <2>4
  <2>. QED
    BY <2>1, <2>3, <2>4
<1>4. tasks = <<>> /\ mail = <<>> /\ last = NoCall /\ assigned = {} /\ made = 0 /\ changes = 0
  BY DEF Init
<1>5. TypeOK
  <2>1. tasks \in Seq(Task) /\ mail \in Seq(Message)
    BY <1>4
  <2>2. last.how \in {"ok", "bad_arg", "undefined"}
    BY <1>4 DEF NoCall
  <2>. QED
    BY <1>1, <1>2, <1>3, <1>4, <2>1, <2>2, BoundAssumption DEF TypeOK
<1>6. DOMAIN tasks = {}
  BY <1>4
<1>. QED
  BY <1>5, <1>6 DEF TypeInv, ViewsTyped, ViewsLive

\* The call is recorded as one that ended in a way a call can end.
LEMMA CallEnds ==
  /\ \A op : [NoCall EXCEPT !.op = op].how = "ok"
  /\ \A op, how : [NoCall EXCEPT !.op = op, !.how = how].how = how
<1>. QED
  BY DEF NoCall

\* A new Variable is none that a task has a view of.
LEMMA SetVariableTypes ==
  ASSUME Inv, TypeInv, NEW n \in Names, NEW v \in Value, SetVariable(n, v)
  PROVE  TypeInv'
<1>. DEFINE L == LiveObjs(env, tasks)
            o == CHOOSE free \in Objs : free \notin L
<1>1. /\ changes < MaxChanges /\ changes' = changes + 1 /\ UNCHANGED <<cell, mail, made>>
      /\ tasks' = Loosen(Touch(tasks, n), env') /\ last'.how = "ok" /\ assigned' = assigned \ {n}
  BY CallEnds DEF SetVariable, Change
<1>2. env' = [env EXCEPT ![n] = o] /\ value' = [value EXCEPT ![o] = v] /\ Objs # L
  BY DEF SetVariable, BindFresh
<1>3. L \subseteq Objs
  BY Alive DEF Inv
<1>4. /\ env \in [Names -> Objs \cup {NoObj}] /\ value \in [Objs -> Value]
      /\ tasks \in Seq(Task) /\ ViewsTyped(tasks, value) /\ ViewsLive(tasks, env)
  BY DEF TypeInv, TypeOK
<1>. HIDE DEF L
<1>5. o \in Objs /\ o \notin L
  BY <1>2, <1>3
<1>. HIDE DEF o
<1>6. env' \in [Names -> Objs \cup {NoObj}] /\ value' \in [Objs -> Value]
  BY <1>2, <1>4, <1>5
<1>7. ViewsTyped(tasks, value')
  <2>. SUFFICES ASSUME NEW i \in DOMAIN tasks, tasks[i].kind = "assignment"
                PROVE  /\ tasks[i].borrowed \in Objs
                       /\ ~tasks[i].dangling => value'[tasks[i].borrowed].type = "str"
    BY DEF ViewsTyped, Viewed
  <2>1. /\ tasks[i].borrowed \in Objs
        /\ ~tasks[i].dangling => /\ value[tasks[i].borrowed].type = "str"
                                 /\ tasks[i].borrowed \in L
    BY <1>4 DEF ViewsTyped, Viewed, ViewsLive, L
  <2>. QED
    BY <1>2, <1>4, <1>5, <2>1
<1>8. Touch(tasks, n) \in Seq(Task) /\ ViewsTyped(Touch(tasks, n), value')
  BY <1>4, <1>7, TouchViews
<1>9. tasks' \in Seq(Task) /\ ViewsTyped(tasks', value') /\ ViewsLive(tasks', env')
  BY <1>1, <1>8, LoosenViews
<1>10. TypeOK'
  BY <1>1, <1>6, <1>9, BoundAssumption DEF TypeInv, TypeOK
<1>. QED
  BY <1>9, <1>10 DEF TypeInv

\* A name that is left.
LEMMA DropVariableTypes ==
  ASSUME TypeInv, NEW n \in Names, DropVariable(n)
  PROVE  TypeInv'
<1>1. /\ changes < MaxChanges /\ changes' = changes + 1 /\ UNCHANGED <<value, cell, mail, made>>
      /\ tasks' = Loosen(Touch(tasks, n), env') /\ last'.how = "ok" /\ assigned' = assigned \ {n}
      /\ env' = [env EXCEPT ![n] = NoObj]
  BY CallEnds DEF DropVariable, Change
<1>2. tasks \in Seq(Task) /\ ViewsTyped(tasks, value)
  BY DEF TypeInv, TypeOK
<1>3. Touch(tasks, n) \in Seq(Task) /\ ViewsTyped(Touch(tasks, n), value)
  BY <1>2, TouchViews
<1>4. tasks' \in Seq(Task) /\ ViewsTyped(tasks', value) /\ ViewsLive(tasks', env')
  BY <1>1, <1>3, LoosenViews
<1>5. env' \in [Names -> Objs \cup {NoObj}]
  BY <1>1 DEF TypeInv, TypeOK
<1>6. TypeOK'
  BY <1>1, <1>4, <1>5, BoundAssumption DEF TypeInv, TypeOK
<1>. QED
  BY <1>1, <1>4, <1>6 DEF TypeInv

\* A value set in place has the type of the one before, and a task that had
\* a view of it is known to have lost it.
LEMMA SetInPlaceTypes ==
  ASSUME TypeInv, NEW n \in Names, NEW v \in Value, SetInPlace(n, v)
  PROVE  TypeInv'
<1>. DEFINE o == env[n]
<1>1. /\ changes < MaxChanges /\ changes' = changes + 1
      /\ UNCHANGED <<env, cell, mail, assigned, made>> /\ o # NoObj
  BY DEF SetInPlace, Change
<1>2. /\ env \in [Names -> Objs \cup {NoObj}] /\ value \in [Objs -> Value]
      /\ tasks \in Seq(Task) /\ ViewsTyped(tasks, value) /\ ViewsLive(tasks, env)
  BY DEF TypeInv, TypeOK
<1>3. o \in Objs
  BY <1>1, <1>2
<1>4. CASE SameType(value[o], v)
  <2>1. /\ value' = [value EXCEPT ![o] = v] /\ last'.how = "ok"
        /\ tasks' = [i \in DOMAIN tasks |->
              IF tasks[i].kind = "assignment" /\ tasks[i].borrowed = o
              THEN [tasks[i] EXCEPT !.dangling = TRUE, !.touched = TRUE] ELSE tasks[i]]
    BY <1>4, CallEnds DEF SetInPlace
  <2>2. value[o].type = v.type
    BY <1>4 DEF SameType
  <2>. HIDE DEF o
  <2>3. value' \in [Objs -> Value] /\ \A p \in Objs : value'[p].type = value[p].type
    <3>1. value'[o] = v /\ \A p \in Objs \ {o} : value'[p] = value[p]
      BY <1>2, <1>3, <2>1
    <3>2. value' \in [Objs -> Value]
      BY <1>2, <1>3, <2>1
    <3>. QED
      BY <2>2, <3>1, <3>2
  <2>4. ViewsTyped(tasks, value')
    BY <1>2, <2>3, ViewsKeep
  <2>5. /\ DOMAIN tasks' = DOMAIN tasks /\ tasks' = [i \in DOMAIN tasks' |-> tasks'[i]]
        /\ \A i \in DOMAIN tasks : tasks'[i] =
              IF tasks[i].kind = "assignment" /\ tasks[i].borrowed = o
              THEN [tasks[i] EXCEPT !.dangling = TRUE, !.touched = TRUE] ELSE tasks[i]
    BY <2>1
  <2>6. \A i \in DOMAIN tasks : tasks[i] \in Task
    BY <1>2, ElementOfSeq, LenProperties
  <2>7. ASSUME NEW i \in DOMAIN tasks
        PROVE  /\ tasks'[i] \in Task /\ tasks'[i].kind = tasks[i].kind
               /\ tasks'[i].borrowed = tasks[i].borrowed /\ tasks'[i].val = tasks[i].val
               /\ ~tasks'[i].dangling => ~tasks[i].dangling
    <3>. DEFINE t == tasks[i]
                u == tasks'[i]
    <3>1. t \in Task /\ u = IF t.kind = "assignment" /\ t.borrowed = o
                            THEN [t EXCEPT !.dangling = TRUE, !.touched = TRUE] ELSE t
      BY <2>5, <2>6
    <3>. HIDE DEF t, u
    <3>2. CASE u = t
      BY <3>1, <3>2 DEF t, u
    <3>3. CASE u = [t EXCEPT !.dangling = TRUE, !.touched = TRUE]
      <4>1. u \in Task
        BY <3>1, <3>3, MarkedTask
      <4>2. u.kind = t.kind /\ u.borrowed = t.borrowed /\ u.val = t.val /\ u.dangling = TRUE
        BY <3>1, <3>3 DEF Task
      <4>. QED
        BY <4>1, <4>2 DEF t, u
    <3>. QED
      BY <3>1, <3>2, <3>3
  <2>8. tasks' \in Seq(Task)
    BY <1>2, <2>5, <2>7, MappedTasks
  <2>9. LiveObjs(env, tasks') = LiveObjs(env, tasks)
    <3>1. DOMAIN tasks' = DOMAIN tasks /\ \A i \in DOMAIN tasks : tasks'[i].val = tasks[i].val
      BY <2>5, <2>7
    <3>. QED
      BY <3>1, LiveSame
  <2>10. ViewsTyped(tasks', value')
    <3>1. DOMAIN tasks' = DOMAIN tasks
      BY <2>5
    <3>. QED
      BY <2>4, <2>7, <3>1 DEF ViewsTyped, Viewed
  <2>11. ViewsLive(tasks', env')
    BY <1>1, <1>2, <2>5, <2>7, <2>9 DEF ViewsLive
  <2>12. TypeOK'
    <3>1. last'.how = "ok"
      BY <2>1
    <3>. QED
      BY <1>1, <2>3, <2>8, <3>1, BoundAssumption DEF TypeInv, TypeOK
  <2>. QED
    BY <2>10, <2>11, <2>12 DEF TypeInv
<1>5. CASE ~SameType(value[o], v)
  <2>1. last'.how = "bad_arg" /\ UNCHANGED <<value, tasks>>
    BY <1>5, CallEnds DEF SetInPlace
  <2>2. TypeOK'
    BY <1>1, <2>1, BoundAssumption DEF TypeInv, TypeOK
  <2>. QED
    BY <1>1, <2>1, <2>2 DEF TypeInv
<1>. QED
  BY <1>4, <1>5

\* An element that is added is an element.
LEMMA PushBackTypes ==
  ASSUME TypeInv, NEW n \in Names, NEW s \in Scalars, PushBack(n, s)
  PROVE  TypeInv'
<1>. DEFINE o == env[n]
            c == Head(FreshCells)
            d == Append(value[o].data, c)
<1>1. /\ changes < MaxChanges /\ changes' = changes + 1 /\ UNCHANGED <<env, tasks, mail, assigned, made>>
      /\ o # NoObj /\ value[o].type = "list" /\ FreshCells # <<>> /\ last'.how = "ok"
      /\ cell' = [cell EXCEPT ![c] = s] /\ value' = [value EXCEPT ![o].data = d]
  BY CallEnds DEF PushBack, Change
<1>2. /\ env \in [Names -> Objs \cup {NoObj}] /\ value \in [Objs -> Value]
      /\ cell \in [Cells -> Scalars] /\ ViewsTyped(tasks, value) /\ ViewsLive(tasks, env)
  BY DEF TypeInv, TypeOK
<1>3. o \in Objs /\ c \in Cells
  <2>1. c \in Cells
    BY <1>1, FreshSeq, HeadTailProperties
  <2>. QED
    BY <1>1, <1>2, <2>1
<1>4. d \in Seq(Cells)
  <2>1. value[o] \in Value
    BY <1>2, <1>3
  <2>2. value[o].data \in Seq(Cells)
    BY <1>1, <2>1, ValueTypes
  <2>. QED
    BY <1>3, <2>2, AppendProperties
<1>. HIDE DEF o, c, d
<1>5. value' \in [Objs -> Value] /\ \A p \in Objs : value'[p].type = value[p].type
  BY <1>1, <1>2, <1>3, <1>4, ListSet
<1>6. cell' \in [Cells -> Scalars]
  BY <1>1, <1>2
<1>7. TypeOK'
  BY <1>1, <1>5, <1>6, BoundAssumption DEF TypeInv, TypeOK
<1>8. ViewsTyped(tasks', value')
  BY <1>1, <1>2, <1>5, ViewsKeep
<1>. QED
  BY <1>1, <1>2, <1>7, <1>8 DEF TypeInv

-----------------------------------------------------------------------------
(* What a factory captures                                                  *)

\* An argument that passed the checks holds what its type says.
LEMMA ArgumentTypes ==
  ASSUME TypeOK, NEW kind \in Kinds, NEW args \in Arguments[kind],
         Counted(kind, args), Checks(kind, args), \A i \in DOMAIN args : env[args[i]] # NoObj,
         NEW i \in 1..Len(Signature[kind])
  PROVE  LET data == value[env[args[i]]].data
         IN  /\ env[args[i]] \in Objs
             /\ Signature[kind][i] = "list" => data \in Seq(Cells)
             /\ Signature[kind][i] = "int" => data \in Seq(Ints)
             /\ Signature[kind][i] = "str" => data \in Seq(Names) /\ value[env[args[i]]].type = "str"
<1>1. args \in Seq(Names) /\ Len(args) = Len(Signature[kind])
  BY ArgumentsAssumption DEF Counted
<1>2. i \in DOMAIN args /\ args[i] \in Names
  BY <1>1, LenProperties, ElementOfSeq
<1>3. env[args[i]] \in Objs /\ value[env[args[i]]] \in Value
  BY <1>2 DEF TypeOK
<1>4. Signature[kind][i] \in {"any", value[env[args[i]]].type}
  BY <1>2 DEF Checks
<1>. DEFINE v == value[env[args[i]]]
            g == Signature[kind][i]
<1>. HIDE DEF v, g
<1>5. /\ v.type = "list" => v.data \in Seq(Cells)
      /\ v.type = "int" => v.data \in Seq(Ints)
      /\ v.type = "str" => v.data \in Seq(Names)
  BY <1>3, ValueTypes DEF v
<1>6. g = "any" \/ g = v.type
  BY <1>4 DEF g, v
<1>7. /\ g = "list" => v.data \in Seq(Cells)
      /\ g = "int" => v.data \in Seq(Ints)
      /\ g = "str" => v.data \in Seq(Names) /\ v.type = "str"
  BY <1>5, <1>6
<1>. QED
  BY <1>3, <1>7 DEF g, v

\* Two texts in a row are a text.
LEMMA Texts ==
  \A r, s, t \in Seq(Names) : r \o s \in Seq(Names) /\ (r \o s) \o t \in Seq(Names)
<1>. QED
  BY ConcatProperties

\* A task's copies and shared elements are players, texts and elements.
LEMMA CapturedTypes ==
  ASSUME TypeOK, NEW kind \in Kinds, NEW args \in Arguments[kind],
         Counted(kind, args), Checks(kind, args), \A i \in DOMAIN args : env[args[i]] # NoObj
  PROVE  Captured(kind, args) \in Content
<1>. DEFINE list(i) == value[env[args[i]]].data
            g == Signature[kind]
            strings(i) == CopyVec(list(i), Names)
            ids == CASE kind \in AskKinds -> CopyVec(list(1), Ints)
                     [] kind = "scores" -> list(1)
                     [] OTHER -> <<>>
            body == CASE kind = "message" -> list(2)
                      [] kind \in {"input", "range"} -> list(2) \o list(3)
                      [] kind = "choice" -> list(2) \o list(3) \o strings(4)
                      [] kind = "scores" -> list(4) \o strings(2)
                      [] OTHER -> <<>>
            cells == CASE kind = "extend" -> list(2)
                       [] kind = "scores" -> list(3)
                       [] OTHER -> <<>>
<1>1. Captured(kind, args) = [ids |-> ids, body |-> body, cells |-> cells]
  BY DEF Captured
<1>2. \A i \in 1..Len(g) : /\ g[i] = "list" => list(i) \in Seq(Cells)
                           /\ g[i] = "int" => list(i) \in Seq(Ints)
                           /\ g[i] = "str" => list(i) \in Seq(Names)
  BY ArgumentTypes
<1>3. ASSUME NEW s \in Seq(Cells), NEW T PROVE CopyVec(s, T) \in Seq(T)
  BY CopyVecType, LenProperties
<1>4. <<>> \in Seq(Ints) /\ <<>> \in Seq(Names) /\ <<>> \in Seq(Cells)
  OBVIOUS
<1>. HIDE DEF g
<1>5. CASE kind = "message"
  <2>1. list(1) \in Seq(Cells) /\ list(2) \in Seq(Names)
    <3>1. g = <<"list", "str">>
      BY <1>5 DEF g, Signature
    <3>. QED
      BY <1>2, <3>1
  <2>2. ids = CopyVec(list(1), Ints) /\ body = list(2) /\ cells = <<>>
    BY <1>5 DEF AskKinds
  <2>. HIDE DEF list, ids, body, cells
  <2>. QED
    BY <1>1, <1>3, <1>4, <2>1, <2>2 DEF Content
<1>6. CASE kind \in {"input", "range"}
  <2>1. list(1) \in Seq(Cells) /\ list(2) \in Seq(Names) /\ list(3) \in Seq(Names)
    <3>1. CASE kind = "input"
      <4>1. g = <<"list", "str", "str">>
        BY <3>1 DEF g, Signature
      <4>. QED
        BY <1>2, <4>1
    <3>2. CASE kind = "range"
      <4>1. g = <<"list", "str", "str", "int", "int">>
        BY <3>2 DEF g, Signature
      <4>. QED
        BY <1>2, <4>1
    <3>. QED
      BY <1>6, <3>1, <3>2
  <2>2. ids = CopyVec(list(1), Ints) /\ body = list(2) \o list(3) /\ cells = <<>>
    BY <1>6 DEF AskKinds
  <2>. HIDE DEF list, ids, body, cells
  <2>3. body \in Seq(Names)
    BY <2>1, <2>2, Texts
  <2>4. ids \in Seq(Ints)
    BY <1>3, <2>1, <2>2
  <2>. QED
    BY <1>1, <1>4, <2>2, <2>3, <2>4 DEF Content
<1>7. CASE kind = "choice"
  <2>1. /\ list(1) \in Seq(Cells) /\ list(2) \in Seq(Names) /\ list(3) \in Seq(Names)
        /\ list(4) \in Seq(Cells)
    <3>1. g = <<"list", "str", "str", "list">>
      BY <1>7 DEF g, Signature
    <3>. QED
      BY <1>2, <3>1
  <2>2. /\ ids = CopyVec(list(1), Ints) /\ body = (list(2) \o list(3)) \o strings(4)
        /\ cells = <<>>
    BY <1>7 DEF AskKinds
  <2>3. strings(4) \in Seq(Names) /\ CopyVec(list(1), Ints) \in Seq(Ints)
    BY <1>3, <2>1
  <2>. HIDE DEF list, strings, ids, body, cells
  <2>4. body \in Seq(Names)
    BY <2>1, <2>2, <2>3, Texts
  <2>. QED
    BY <1>1, <1>4, <2>2, <2>3, <2>4 DEF Content
<1>8. CASE kind = "scores"
  <2>1. /\ list(1) \in Seq(Ints) /\ list(2) \in Seq(Cells) /\ list(3) \in Seq(Cells)
        /\ list(4) \in Seq(Names)
    <3>1. g = <<"int", "list", "list", "str">>
      BY <1>8 DEF g, Signature
    <3>. QED
      BY <1>2, <3>1
  <2>2. ids = list(1) /\ body = list(4) \o strings(2) /\ cells = list(3)
    BY <1>8 DEF AskKinds
  <2>3. strings(2) \in Seq(Names)
    BY <1>3, <2>1
  <2>. HIDE DEF list, strings, ids, body, cells
  <2>4. body \in Seq(Names)
    BY <2>1, <2>2, <2>3, Texts
  <2>. QED
    BY <1>1, <2>1, <2>2, <2>4 DEF Content
<1>9. CASE kind = "extend"
  <2>1. list(2) \in Seq(Cells)
    <3>1. g = <<"list", "list">>
      BY <1>9 DEF g, Signature
    <3>. QED
      BY <1>2, <3>1
  <2>2. ids = <<>> /\ body = <<>> /\ cells = list(2)
    BY <1>9 DEF AskKinds
  <2>. HIDE DEF list, ids, body, cells
  <2>. QED
    BY <1>1, <1>4, <2>1, <2>2 DEF Content
<1>10. CASE kind \in ListKinds \cup {"assignment"}
  <2>1. ids = <<>> /\ body = <<>> /\ cells = <<>>
    BY <1>10 DEF AskKinds, ListKinds
  <2>. HIDE DEF ids, body, cells
  <2>. QED
    BY <1>1, <1>4, <2>1 DEF Content
<1>. QED
  BY <1>5, <1>6, <1>7, <1>8, <1>9, <1>10 DEF Kinds, AskKinds

\* A new task is a task, with a view of a string that is in use where it is
\* an assignment.
LEMMA NewTaskTypes ==
  ASSUME TypeOK, NEW kind \in Kinds, NEW args \in Arguments[kind],
         Counted(kind, args), Checks(kind, args), \A i \in DOMAIN args : env[args[i]] # NoObj
  PROVE  LET t == NewTask(kind, args)
         IN  /\ t \in Task /\ Viewed(t, value)
             /\ t.kind = "assignment" => t.borrowed \in Bound(env)
<1>. DEFINE t == NewTask(kind, args)
            c == Captured(kind, args)
            b == IF kind \in Borrowers THEN env[args[1]] ELSE NoObj
            w == IF kind = "assignment" THEN env[args[2]] ELSE NoObj
<1>1. c \in Content
  BY CapturedTypes
<1>2. t = [kind |-> kind, borrowed |-> b, dangling |-> FALSE, val |-> w, own |-> c,
           args |-> args, given |-> c, touched |-> FALSE]
  BY DEF NewTask, Borrowers
<1>3. \A i \in 1..Len(Signature[kind]) : env[args[i]] \in Objs
  BY ArgumentTypes
<1>4. b \in Objs \cup {NoObj}
  <2>1. kind \in Borrowers => 1 \in 1..Len(Signature[kind])
    <3>. SUFFICES ASSUME kind \in Borrowers PROVE 1 \in 1..Len(Signature[kind])
      OBVIOUS
    <3>. DEFINE n == Len(Signature[kind])
    <3>1. n = 1 \/ n = 2
      BY DEF Signature, Borrowers, ListKinds
    <3>. HIDE DEF n
    <3>2. 1 \in 1..n
      BY <3>1
    <3>. QED
      BY <3>2 DEF n
  <2>. QED
    BY <1>3, <2>1
<1>5. w \in Objs \cup {NoObj}
  <2>1. kind = "assignment" => 2 \in 1..Len(Signature[kind])
    BY DEF Signature
  <2>. QED
    BY <1>3, <2>1
<1>6. args \in Seq(Names)
  BY ArgumentsAssumption
<1>7. kind = "assignment" => b \in Objs /\ value[b].type = "str" /\ b \in Bound(env)
  <2>. SUFFICES ASSUME kind = "assignment"
                PROVE  b \in Objs /\ value[b].type = "str" /\ b \in Bound(env)
    OBVIOUS
  <2>1. b = env[args[1]] /\ 1 \in 1..Len(Signature[kind]) /\ Signature[kind][1] = "str"
    BY DEF Signature, Borrowers
  <2>2. b \in Objs /\ value[b].type = "str"
    BY <2>1, ArgumentTypes
  <2>3. args[1] \in Names
    <3>1. Len(args) = Len(Signature[kind])
      BY DEF Counted
    <3>. QED
      BY <1>6, <2>1, <3>1, ElementOfSeq
  <2>. QED
    BY <2>1, <2>2, <2>3, ObjAssumption DEF Bound
<1>. HIDE DEF b, c, w, t
<1>8. t \in Task
  BY <1>1, <1>2, <1>4, <1>5, <1>6 DEF Task
<1>9. t.kind = kind /\ t.borrowed = b
  BY <1>2
<1>. QED
  BY <1>7, <1>8, <1>9 DEF Viewed, t

\* A factory adds a task, or none.
LEMMA CreateTypes ==
  ASSUME TypeInv, NEW kind \in Kinds, NEW args \in Arguments[kind], Create(kind, args)
  PROVE  TypeInv'
<1>. DEFINE null == \E i \in DOMAIN args : env[args[i]] = NoObj
            fits == Counted(kind, args) /\ ~null /\ Checks(kind, args)
            t == NewTask(kind, args)
<1>1. /\ made < MaxTasks /\ made' = made + 1 /\ UNCHANGED <<env, value, cell, mail, assigned, changes>>
      /\ tasks' = IF fits THEN Append(tasks, t) ELSE tasks
  BY DEF Create
<1>2. last'.how \in {"ok", "bad_arg", "undefined"}
  <2>1. \E how \in {"ok", "bad_arg", "undefined"} :
           last' = [NoCall EXCEPT !.op = "create", !.how = how]
    BY DEF Create
  <2>. QED
    BY <2>1, CallEnds
<1>3. tasks \in Seq(Task) /\ ViewsTyped(tasks, value) /\ ViewsLive(tasks, env)
  BY DEF TypeInv, TypeOK
<1>4. tasks' \in Seq(Task) /\ ViewsTyped(tasks', value) /\ ViewsLive(tasks', env)
  <2>1. CASE ~fits
    BY <1>1, <1>3, <2>1
  <2>2. CASE fits
    <3>1. t \in Task /\ Viewed(t, value) /\ (t.kind = "assignment" => t.borrowed \in Bound(env))
      BY <2>2, NewTaskTypes DEF TypeInv
    <3>2. tasks' = Append(tasks, t)
      BY <1>1, <2>2
    <3>. HIDE DEF t
    <3>3. /\ tasks' \in Seq(Task) /\ Len(tasks') = Len(tasks) + 1
          /\ \A i \in 1..Len(tasks) : tasks'[i] = tasks[i]
          /\ tasks'[Len(tasks) + 1] = t
      BY <1>3, <3>1, <3>2, AppendProperties
    <3>4. /\ Len(tasks) \in Nat /\ DOMAIN tasks = 1..Len(tasks)
          /\ DOMAIN tasks' = 1..(Len(tasks) + 1)
      BY <1>3, <3>3, LenProperties
    <3>5. /\ \A i \in DOMAIN tasks : i \in DOMAIN tasks' /\ tasks'[i] = tasks[i]
          /\ \A i \in DOMAIN tasks' : (i \in DOMAIN tasks /\ tasks'[i] = tasks[i]) \/ tasks'[i] = t
      BY <3>3, <3>4
    <3>6. LiveObjs(env, tasks) \subseteq LiveObjs(env, tasks')
      BY <3>5 DEF LiveObjs
    <3>7. Bound(env) \subseteq LiveObjs(env, tasks')
      BY DEF LiveObjs
    <3>8. ViewsTyped(tasks', value)
      BY <1>3, <3>1, <3>5 DEF ViewsTyped
    <3>9. ViewsLive(tasks', env)
      BY <1>3, <3>1, <3>5, <3>6, <3>7 DEF ViewsLive
    <3>. QED
      BY <3>3, <3>8, <3>9
  <2>. QED
    BY <2>1, <2>2
<1>5. TypeOK'
  <2>1. made' \in 0..MaxTasks
    BY <1>1, BoundAssumption DEF TypeInv, TypeOK
  <2>. QED
    BY <1>1, <1>2, <1>4, <2>1 DEF TypeInv, TypeOK
<1>. QED
  BY <1>1, <1>4, <1>5 DEF TypeInv

-----------------------------------------------------------------------------
(* What a task that runs leaves                                             *)

\* Every run is recorded, and makes and changes nothing else.
LEMMA RanTypes ==
  ASSUME NEW kinds, NEW how, NEW used, Ran(kinds, how, used)
  PROVE  tasks # <<>> /\ Task1.kind \in kinds /\ last'.how = how /\ UNCHANGED <<made, changes>>
<1>. QED
  BY DEF Ran

\* After a run that pops its task.
LEMMA PopTypeInv ==
  ASSUME TypeInv, tasks # <<>>, Pop, value' \in [Objs -> Value],
         \A o \in Objs : value'[o].type = value[o].type,
         cell' \in [Cells -> Scalars], mail' \in Seq(Message),
         last'.how \in {"ok", "bad_arg", "undefined"}, UNCHANGED <<made, changes>>
  PROVE  TypeInv'
<1>1. /\ UNCHANGED <<env, assigned>> /\ tasks' \in Seq(Task)
      /\ ViewsTyped(tasks', value') /\ ViewsLive(tasks', env')
  BY PopTypes
<1>2. TypeOK'
  BY <1>1 DEF TypeInv, TypeOK
<1>. QED
  BY <1>1, <1>2 DEF TypeInv

\* What a task on a borrowed list finds.
LEMMA BorrowedList ==
  ASSUME TypeInv, tasks # <<>>
  PROVE  /\ OnBorrowed \in {"ok", "bad_arg", "undefined"}
         /\ OnBorrowed = "ok" => value[Task1.borrowed].type = "list"
         /\ Task1 \in Task
<1>1. Task1 \in Task
  BY TailViews DEF TypeInv, TypeOK, Task1
<1>. QED
  BY <1>1 DEF OnBorrowed

\* A borrowed list gets other elements.
SetsData(o, d) == value' = [value EXCEPT ![o].data = d]

\* What a task borrowed has values of its type; one that borrowed nothing
\* changes none.
LEMMA BorrowedSet ==
  ASSUME TypeInv, NEW o, NEW d, value[o].type = "list", SetsData(o, d),
         o \in Objs => d \in Seq(Cells)
  PROVE  value' \in [Objs -> Value] /\ \A p \in Objs : value'[p].type = value[p].type
<1>1. value \in [Objs -> Value] /\ value' = [value EXCEPT ![o].data = d]
  BY DEF TypeInv, TypeOK, SetsData
<1>2. CASE o \in Objs
  <2>1. /\ [value EXCEPT ![o].data = d] \in [Objs -> Value]
        /\ \A p \in Objs : [value EXCEPT ![o].data = d][p].type = value[p].type
    BY <1>1, <1>2, ListSet
  <2>. QED
    BY <1>1, <2>1
<1>3. CASE o \notin Objs
  <2>1. value' = value
    BY <1>1, <1>3
  <2>. QED
    BY <1>1, <2>1
<1>. QED
  BY <1>2, <1>3

\* Elements in another order are elements.
LEMMA ReorderTypes ==
  ASSUME NEW s \in Seq(Cells)
  PROVE  Reverse(s) \in Seq(Cells) /\ Permutation(s) \subseteq Seq(Cells)
<1>. DEFINE n == Len(s)
<1>1. n \in Nat /\ DOMAIN s = 1..n /\ s \in [1..n -> Cells]
  BY LenProperties
<1>2. Reverse(s) = [i \in 1..n |-> s[(n - i) + 1]]
  BY DEF Reverse
<1>. HIDE DEF n
<1>3. \A i \in 1..n : (n - i) + 1 \in 1..n
  BY <1>1
<1>4. Reverse(s) \in [1..n -> Cells]
  BY <1>1, <1>2, <1>3
<1>5. Range(s) \subseteq Cells
  BY <1>1 DEF Range
<1>6. Permutation(s) \subseteq [1..n -> Cells]
  BY <1>1, <1>5 DEF Permutation
<1>7. [1..n -> Cells] \subseteq Seq(Cells)
  BY <1>1, SeqDef
<1>. QED
  BY <1>4, <1>6, <1>7

LEMMA RunReorderTypes == TypeInv /\ RunReorder => TypeInv'
<1>. SUFFICES ASSUME TypeInv, RunReorder PROVE TypeInv'
  OBVIOUS
<1>. DEFINE o == Task1.borrowed
<1>1. /\ tasks # <<>> /\ last'.how = OnBorrowed /\ UNCHANGED <<made, changes>> /\ Pop
      /\ UNCHANGED <<cell, mail>>
  BY RanTypes DEF RunReorder
<1>2. value \in [Objs -> Value]
  BY DEF TypeInv, TypeOK
<1>3. value' \in [Objs -> Value] /\ \A p \in Objs : value'[p].type = value[p].type
  <2>1. CASE OnBorrowed # "ok"
    BY <1>2, <2>1 DEF RunReorder
  <2>2. CASE OnBorrowed = "ok"
    <3>1. value[o].type = "list"
      BY <1>1, <2>2, BorrowedList
    <3>2. PICK p \in IF Task1.kind = "reverse" THEN {Reverse(value[o].data)}
                     ELSE Permutation(value[o].data) :
             value' = [value EXCEPT ![o].data = p]
      BY <2>2 DEF RunReorder
    <3>3. o \in Objs => p \in Seq(Cells)
      <4>1. o \in Objs => value[o].data \in Seq(Cells)
        BY <1>2, <3>1, ValueTypes
      <4>. HIDE DEF o
      <4>. QED
        BY <3>2, <4>1, ReorderTypes
    <3>4. SetsData(o, p)
      BY <3>2 DEF SetsData
    <3>. HIDE DEF o
    <3>. QED
      BY <1>2, <3>1, <3>3, <3>4, BorrowedSet
  <2>. QED
    BY <2>1, <2>2
<1>4. last'.how \in {"ok", "bad_arg", "undefined"}
  BY <1>1, BorrowedList
<1>5. cell' \in [Cells -> Scalars] /\ mail' \in Seq(Message)
  BY <1>1 DEF TypeInv, TypeOK
<1>. QED
  BY <1>1, <1>3, <1>4, <1>5, PopTypeInv

LEMMA RunExtendTypes == TypeInv /\ RunExtend => TypeInv'
<1>. SUFFICES ASSUME TypeInv, RunExtend PROVE TypeInv'
  OBVIOUS
<1>. DEFINE o == Task1.borrowed
            el == Elements(Task1)
            n == Len(el)
<1>1. /\ tasks # <<>> /\ last'.how = OnBorrowed /\ UNCHANGED <<made, changes>> /\ Pop
      /\ UNCHANGED mail
  BY RanTypes DEF RunExtend
<1>2. value \in [Objs -> Value] /\ cell \in [Cells -> Scalars] /\ mail \in Seq(Message)
  BY DEF TypeInv, TypeOK
<1>3. el \in Seq(Cells) /\ n \in Nat /\ \A i \in 1..n : el[i] \in Cells
  <2>1. Task1 \in Task
    BY <1>1, BorrowedList
  <2>2. el \in Seq(Cells)
    BY <2>1 DEF Elements, Task, Content
  <2>. HIDE DEF el
  <2>. QED
    BY <2>2, ElementOfSeq, LenProperties
<1>4. CASE OnBorrowed # "ok"
  <2>1. UNCHANGED <<cell, value>>
    BY <1>4 DEF RunExtend
  <2>2. last'.how \in {"ok", "bad_arg", "undefined"}
    BY <1>1, BorrowedList
  <2>. QED
    BY <1>1, <1>2, <2>1, <2>2, PopTypeInv
<1>5. CASE OnBorrowed = "ok"
  <2>. DEFINE d == value[o].data \o SubSeq(FreshCells, 1, n)
  <2>1. /\ n <= Len(FreshCells) /\ value' = [value EXCEPT ![o].data = d]
        /\ cell' = [c \in Cells |->
              IF \E i \in 1..n : FreshCells[i] = c
              THEN cell[el[CHOOSE i \in 1..n : FreshCells[i] = c]] ELSE cell[c]]
    BY <1>5 DEF RunExtend
  <2>2. value[o].type = "list"
    BY <1>1, <1>5, BorrowedList
  <2>. HIDE DEF el, n, o
  <2>3. cell' \in [Cells -> Scalars]
    <3>1. ASSUME NEW c \in Cells, \E i \in 1..n : FreshCells[i] = c
          PROVE  cell[el[CHOOSE i \in 1..n : FreshCells[i] = c]] \in Scalars
      <4>1. (CHOOSE i \in 1..n : FreshCells[i] = c) \in 1..n
        BY <3>1
      <4>. QED
        BY <1>2, <1>3, <4>1
    <3>. QED
      BY <1>2, <2>1, <3>1
  <2>4. o \in Objs => d \in Seq(Cells)
    <3>1. o \in Objs => value[o].data \in Seq(Cells)
      BY <1>2, <2>2, ValueTypes
    <3>2. SubSeq(FreshCells, 1, n) \in Seq(Cells)
      <4>1. \A i \in 1..n : FreshCells[i] \in Cells
        BY <1>3, <2>1, FreshSeq, ElementOfSeq, LenProperties
      <4>. QED
        BY <1>3, <2>1, <4>1, FreshSeq, SubSeqProperties
    <3>. QED
      BY <3>1, <3>2, ConcatProperties
  <2>. HIDE DEF d
  <2>5. value' \in [Objs -> Value] /\ \A p \in Objs : value'[p].type = value[p].type
    <3>1. SetsData(o, d)
      BY <2>1 DEF SetsData
    <3>. QED
      BY <1>2, <2>2, <2>4, <3>1, BorrowedSet
  <2>. QED
    BY <1>1, <1>2, <1>5, <2>3, <2>5, PopTypeInv
<1>. QED
  BY <1>4, <1>5

\* A message with what the task has is a message.
LEMMA MailTypes ==
  ASSUME NEW m \in Seq(Message), NEW i \in Seq(Ints), NEW b \in Seq(Names), NEW s \in Seq(Scalars)
  PROVE  Append(m, [ids |-> i, body |-> b, scores |-> s]) \in Seq(Message)
<1>1. [ids |-> i, body |-> b, scores |-> s] \in Message
  BY DEF Message
<1>. QED
  BY <1>1, AppendProperties

LEMMA RunAskTypes == TypeInv /\ RunAsk => TypeInv'
<1>. SUFFICES ASSUME TypeInv, RunAsk PROVE TypeInv'
  OBVIOUS
<1>. DEFINE p == Players(Task1)
<1>1. /\ tasks # <<>> /\ last'.how = (IF p = <<>> THEN "undefined" ELSE "ok")
      /\ UNCHANGED <<made, changes>> /\ Pop /\ UNCHANGED <<value, cell>>
      /\ mail' = IF p = <<>> THEN mail
                 ELSE Append(mail, [ids |-> p, body |-> Task1.own.body, scores |-> <<>>])
  BY RanTypes DEF RunAsk
<1>2. value \in [Objs -> Value] /\ cell \in [Cells -> Scalars] /\ mail \in Seq(Message)
  BY DEF TypeInv, TypeOK
<1>3. p \in Seq(Ints) /\ Task1.own.body \in Seq(Names)
  BY <1>1, BorrowedList DEF Players, Task, Content
<1>. HIDE DEF p
<1>4. mail' \in Seq(Message)
  <2>1. <<>> \in Seq(Scalars)
    OBVIOUS
  <2>. QED
    BY <1>1, <1>2, <1>3, <2>1, MailTypes
<1>5. last'.how \in {"ok", "bad_arg", "undefined"}
  BY <1>1
<1>. QED
  BY <1>1, <1>2, <1>4, <1>5, PopTypeInv

LEMMA RunScoresTypes == TypeInv /\ RunScores => TypeInv'
<1>. SUFFICES ASSUME TypeInv, RunScores PROVE TypeInv'
  OBVIOUS
<1>. DEFINE own == Task1.own
            s == CopyVec(own.cells, Scalars)
<1>1. /\ tasks # <<>> /\ last'.how = "ok" /\ UNCHANGED <<made, changes>> /\ Pop
      /\ UNCHANGED <<value, cell>>
      /\ mail' = Append(mail, [ids |-> own.ids, body |-> own.body, scores |-> s])
  BY RanTypes DEF RunScores
<1>2. value \in [Objs -> Value] /\ cell \in [Cells -> Scalars] /\ mail \in Seq(Message)
  BY DEF TypeInv, TypeOK
<1>3. own.ids \in Seq(Ints) /\ own.body \in Seq(Names) /\ own.cells \in Seq(Cells)
  BY <1>1, BorrowedList DEF Task, Content
<1>. HIDE DEF own
<1>4. s \in Seq(Scalars)
  BY <1>3, CopyVecType, LenProperties
<1>. HIDE DEF s
<1>5. mail' \in Seq(Message)
  BY <1>1, <1>2, <1>3, <1>4, MailTypes
<1>. QED
  BY <1>1, <1>2, <1>5, PopTypeInv

\* The name that is bound is the string the view shows.
LEMMA RunAssignmentTypes == TypeInv /\ RunAssignment => TypeInv'
<1>. SUFFICES ASSUME TypeInv, RunAssignment PROVE TypeInv'
  OBVIOUS
<1>. DEFINE t == Task1
            n == value[t.borrowed].data[1]
<1>1. /\ tasks # <<>> /\ t.kind = "assignment" /\ UNCHANGED <<made, changes>>
      /\ last'.how = (IF t.dangling THEN "undefined" ELSE "ok") /\ UNCHANGED <<value, cell, mail>>
  BY RanTypes DEF RunAssignment
<1>2. /\ value \in [Objs -> Value] /\ cell \in [Cells -> Scalars] /\ mail \in Seq(Message)
      /\ tasks \in Seq(Task) /\ ViewsTyped(tasks, value)
  BY DEF TypeInv, TypeOK
<1>3. t \in Task /\ Viewed(t, value) /\ Tail(tasks) \in Seq(Task) /\ ViewsTyped(Tail(tasks), value)
  BY <1>1, <1>2, TailViews DEF Task1
<1>4. CASE t.dangling
  <2>1. Pop /\ last'.how = "undefined"
    BY <1>1, <1>4 DEF RunAssignment
  <2>. HIDE DEF t
  <2>. QED
    BY <1>1, <1>2, <2>1, PopTypeInv
<1>5. CASE ~t.dangling
  <2>1. /\ env' = [env EXCEPT ![n] = t.val] /\ assigned' = assigned \cup {n}
        /\ tasks' = Loosen(Touch(Tail(tasks), n), env') /\ last'.how = "ok"
    BY <1>1, <1>5 DEF RunAssignment
  <2>2. n \in Names
    <3>1. t.borrowed \in Objs /\ value[t.borrowed].type = "str"
      BY <1>1, <1>3, <1>5 DEF Viewed
    <3>2. value[t.borrowed] \in Value
      BY <1>2, <3>1
    <3>. QED
      BY <3>1, <3>2, ValueTypes
  <2>3. t.val \in Objs \cup {NoObj}
    BY <1>3 DEF Task
  <2>. HIDE DEF n, t
  <2>4. Touch(Tail(tasks), n) \in Seq(Task) /\ ViewsTyped(Touch(Tail(tasks), n), value)
    BY <1>3, TouchViews
  <2>5. tasks' \in Seq(Task) /\ ViewsTyped(tasks', value) /\ ViewsLive(tasks', env')
    BY <2>1, <2>4, LoosenViews
  <2>6. env' \in [Names -> Objs \cup {NoObj}] /\ assigned' \subseteq Names
    BY <2>1, <2>2, <2>3 DEF TypeInv, TypeOK
  <2>7. TypeOK'
    BY <1>1, <2>1, <2>5, <2>6 DEF TypeInv, TypeOK
  <2>. QED
    BY <1>1, <2>5, <2>7 DEF TypeInv
<1>. QED
  BY <1>4, <1>5

\* Every call keeps the types.
LEMMA NextTypes == Inv /\ TypeInv /\ [Next]_vars => TypeInv'
<1>. SUFFICES ASSUME Inv, TypeInv, [Next]_vars PROVE TypeInv'
  OBVIOUS
<1>1. CASE UNCHANGED vars
  BY <1>1 DEF vars, TypeInv, TypeOK
<1>2. CASE Changes
  <2>1. \A m \in Names : env[m] # NoObj => value[env[m]] \in Value
    BY DEF TypeInv, TypeOK
  <2>2. ASSUME NEW n \in Names, NEW m \in Names, env[m] # NoObj,
               SetVariable(n, value[env[m]]) \/ SetInPlace(n, value[env[m]])
        PROVE  TypeInv'
    BY <2>1, <2>2, SetVariableTypes, SetInPlaceTypes
  <2>3. ASSUME NEW c \in Cells, NEW s \in Scalars, SetElement(c, s) PROVE TypeInv'
    <3>1. /\ UNCHANGED <<env, value, tasks, mail, assigned, made>> /\ last'.how = "ok"
          /\ changes < MaxChanges /\ changes' = changes + 1
          /\ cell' = [cell EXCEPT ![c] = s]
      BY <2>3, CallEnds DEF SetElement, Change
    <3>2. TypeOK'
      BY <3>1, BoundAssumption DEF TypeInv, TypeOK
    <3>. QED
      BY <3>1, <3>2 DEF TypeInv
  <2>4. CASE ClearAllMessages
    <3>1. /\ UNCHANGED <<env, value, cell, tasks, assigned, made>> /\ last'.how = "ok"
          /\ changes < MaxChanges /\ changes' = changes + 1 /\ mail' = <<>>
      BY <2>4, CallEnds DEF ClearAllMessages, Change
    <3>2. mail' \in Seq(Message)
      BY <3>1
    <3>3. TypeOK'
      BY <3>1, <3>2, BoundAssumption DEF TypeInv, TypeOK
    <3>. QED
      BY <3>1, <3>3 DEF TypeInv
  <2>. QED
    BY <1>2, <2>2, <2>3, <2>4, DropVariableTypes, PushBackTypes DEF Changes
<1>3. CASE CreateUnsupported
  <2>1. /\ UNCHANGED <<env, value, cell, tasks, mail, assigned, changes>> /\ last'.how = "bad_arg"
        /\ made < MaxTasks /\ made' = made + 1
    BY <1>3, CallEnds DEF CreateUnsupported
  <2>2. TypeOK'
    BY <2>1, BoundAssumption DEF TypeInv, TypeOK
  <2>. QED
    BY <2>1, <2>2 DEF TypeInv
<1>4. CASE \E kind \in Kinds : \E args \in Arguments[kind] : Create(kind, args)
  BY <1>4, CreateTypes
<1>. QED
  BY <1>1, <1>2, <1>3, <1>4, RunReorderTypes, RunExtendTypes, RunAskTypes,
     RunScoresTypes, RunAssignmentTypes DEF Next

-----------------------------------------------------------------------------
(* The theorems                                                             *)

\* Every call keeps the invariant.
LEMMA NextInv == Inv /\ [Next]_vars => Inv'
<1>. SUFFICES ASSUME Inv, [Next]_vars PROVE Inv'
  OBVIOUS
<1>1. CASE UNCHANGED vars
  BY <1>1 DEF vars, Inv, ValueOK, IndependentUnlessAssigned, CreatedTasksRun, BoundAtCreation
<1>2. CASE Changes
  <2>1. \A m \in Names : env[m] # NoObj => "type" \in DOMAIN value[env[m]]
    BY DEF Inv, Env, ValueOK
  <2>2. ASSUME NEW n \in Names, NEW m \in Names, env[m] # NoObj,
               SetVariable(n, value[env[m]]) \/ SetInPlace(n, value[env[m]])
        PROVE  Inv'
    BY <2>1, <2>2, SetVariableKeepsInv, SetInPlaceKeepsInv
  <2>3. ASSUME NEW c \in Cells, NEW s \in Scalars, SetElement(c, s) PROVE Inv'
    <3>1. UNCHANGED <<env, value, tasks, assigned>> /\ last'.op = "set"
      BY <2>3 DEF SetElement, NoCall
    <3>. QED
      BY <3>1, NoneRan, QuietKeepsInv
  <2>4. CASE ClearAllMessages
    <3>1. UNCHANGED <<env, value, tasks, assigned>> /\ last'.op = "clear"
      BY <2>4 DEF ClearAllMessages, NoCall
    <3>. QED
      BY <3>1, NoneRan, QuietKeepsInv
  <2>. QED
    BY <1>2, <2>2, <2>3, <2>4, DropVariableKeepsInv, PushBackKeepsInv DEF Changes
<1>3. CASE CreateUnsupported
  <2>1. UNCHANGED <<env, value, tasks, assigned>> /\ last'.op = "create"
    BY <1>3 DEF CreateUnsupported, NoCall
  <2>. QED
    BY <2>1, NoneRan, QuietKeepsInv
<1>4. CASE \E kind \in Kinds : \E args \in Arguments[kind] : Create(kind, args)
  BY <1>4, CreateKeepsInv
<1>. QED
  BY <1>1, <1>2, <1>3, <1>4, RunReorderKeepsInv, RunExtendKeepsInv, RunAskKeepsInv,
     RunScoresKeepsInv, RunAssignmentKeepsInv DEF Next

\* The invariant holds in every reachable state.
LEMMA InvAlways == Spec => []Inv
<1>. QED
  BY InitInv, NextInv, PTL DEF Spec

\* A task fails only where what it borrowed was changed, or where the source
\* does not look at what it is given.
THEOREM CreatedTasksRunHolds == Spec => []CreatedTasksRun
<1>1. Inv => CreatedTasksRun
  BY DEF Inv
<1>. QED
  BY InvAlways, <1>1, PTL

\* A task works with what its arguments held when it was made.
THEOREM BoundAtCreationHolds == Spec => []BoundAtCreation
<1>1. Inv => BoundAtCreation
  BY DEF Inv
<1>. QED
  BY InvAlways, <1>1, PTL

\* Names share a Variable only through assignments.
THEOREM IndependentHolds == Spec => []IndependentUnlessAssigned
<1>1. Inv => IndependentUnlessAssigned
  BY DEF Inv
<1>. QED
  BY InvAlways, <1>1, PTL

\* Every variable keeps its type: what a task copies are players, texts and
\* elements, and the name that an assignment binds is one.
THEOREM TypeCorrect == Spec => []TypeOK
<1>1. TypeInv => TypeOK
  BY DEF TypeInv
<1>. QED
  BY InitTypes, NextTypes, InvAlways, <1>1, PTL DEF Spec
=============================================================================
