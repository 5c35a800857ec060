--------------------------- MODULE EnvironmentMgr ---------------------------
(***************************************************************************)
(* The variable and control-flow environment of one game:                  *)
(* lib/variables/EnvironmentMgr.{hpp,cpp}.  A stack of scopes binds names  *)
(* to variables, a scope may carry the control flow of a rule node (a      *)
(* loop shares the list object it iterates over with the variable that     *)
(* names it), and a map of timers may set flags and exit scopes.           *)
(*                                                                         *)
(* The C++ deque has its innermost scope at the front; here it is the last *)
(* element of the sequence, so that scopes[k] keeps its index.             *)
(***************************************************************************)
EXTENDS Integers, Sequences, FiniteSets

CONSTANTS
    Names,        \* variable names
    Elems,        \* scalar values a list may hold
    ListIds,      \* identities of list objects (a shared_ptr<varType> each)
    Nodes,        \* control-flow rule nodes
    NodeType,     \* Nodes -> {"FOR", "PARALLEL", "MATCH"}
    DataSize,     \* Nodes -> number of entries of node->getData(), 3 for more
    LoopVar,      \* Nodes -> Names: data.at(1).at(0)
    ListVar,      \* Nodes -> Names: data.at(2).at(1)
    NextNode,     \* Nodes -> sibling
    ChildNode,    \* Nodes -> first node of the body
    TimerSpecs,   \* the Timer objects callers pass to enterScope
    NullNode, Unbound, NoList, NoFlag, NoTimer,
    MaxDepth,     \* bound: scopes on the stack
    MaxLen,       \* bound: elements of a list
    MaxTime       \* bound: seconds

TimerTypes == {"PAD", "STOP", "REGULAR"}
TimerIds == {t.id : t \in TimerSpecs}
NodeOrNull == Nodes \cup {NullNode}
Values == Elems \cup ListIds \cup BOOLEAN
Lists == UNION {[1..n -> Elems] : n \in 0..MaxLen}
Timer == [spec : TimerSpecs, scopeid : 1..MaxDepth, expire : Nat]

ASSUME NodeAssumption ==
    /\ NullNode \notin Nodes
    /\ NodeType \in [Nodes -> {"FOR", "PARALLEL", "MATCH"}]
    /\ DataSize \in [Nodes -> 0..3]
    /\ LoopVar \in [Nodes -> Names]
    /\ ListVar \in [Nodes -> Names]
    /\ NextNode \in [Nodes -> NodeOrNull]
    /\ ChildNode \in [Nodes -> NodeOrNull]

ASSUME ValueAssumption ==
    /\ Unbound \notin Values
    /\ NoList \notin ListIds
    /\ NoFlag \notin Names

ASSUME TimerAssumption ==
    /\ TimerSpecs \subseteq [id : Nat, type : TimerTypes, flag : Names \cup {NoFlag},
                             next : NodeOrNull, duration : Nat]
    /\ NoTimer \notin Timer

ASSUME BoundAssumption ==
    /\ MaxDepth \in Nat \ {0}
    /\ MaxLen \in Nat
    /\ MaxTime \in Nat

VARIABLES
    scopes,    \* std::deque<Scope>, outermost first
    timers,    \* std::map<int, Timer>
    lists,     \* contents of the list objects
    now,       \* the system clock, in seconds
    ret,       \* the node the last call returned
    block,     \* the shouldBlock the last exitScope set
    status,    \* "ok", or how the last call failed
    upd        \* the locals of a running updateTimers, and what it started from

vars == <<scopes, timers, lists, now, ret, block, status, upd>>

TimerMap == [TimerIds -> Timer \cup {NoTimer}]
Scope == [node : NodeOrNull, ctrl : BOOLEAN, vars : [Names -> Values \cup {Unbound}],
          range : ListIds \cup {NoList}, exiting : BOOLEAN, timer : TimerIds \cup {-1}]
Failures == {"out_of_range", "null_deref", "hang"}

-----------------------------------------------------------------------------
(* Variables *)

Nothing == [n \in Names |-> Unbound]
EmptyTimers == [i \in TimerIds |-> NoTimer]

Depth == Len(scopes)
Front == scopes[Depth]

Binders(ss, name) == {k \in 1..Len(ss) : ss[k].vars[name] # Unbound}
Nearest(ks) == CHOOSE k \in ks : \A j \in ks : j <= k

\* hasVar followed by Scope::getVariable.
LookupIn(ss, name) ==
    IF Binders(ss, name) = {} THEN Unbound ELSE ss[Nearest(Binders(ss, name))].vars[name]
Lookup(name) == LookupIn(scopes, name)

\* Plausible slip: always bind in the innermost scope.
SetInFront(ss, name, value) == [ss EXCEPT ![Len(ss)].vars[name] = value]

\* EnvironmentManager::setVariable: rebind where the name is already bound,
\* and only otherwise bind it in the innermost scope.
SetIn(ss, name, value) ==
    LET ks == Binders(ss, name)
        at == IF ks = {} THEN Len(ss) ELSE Nearest(ks)
    IN  [ss EXCEPT ![at].vars[name] = value]

\* A list object that no variable and no loop refers to any more.
FreeLists ==
    {l \in ListIds : \A k \in 1..Depth :
        /\ scopes[k].range # l
        /\ \A n \in Names : scopes[k].vars[n] # l}

-----------------------------------------------------------------------------
(* Control flow *)

IsLoop(n) == NodeType[n] \in {"FOR", "PARALLEL"}

\* ControlFlow::getNext: only loops have a body to go to.
GetNext(n) == IF n # NullNode /\ IsLoop(n) THEN ChildNode[n] ELSE NullNode

\* The range the ControlFlow constructor keeps: shared with the variable.
RangeOf(n) ==
    IF n # NullNode /\ DataSize[n] = 3 /\ Lookup(ListVar[n]) \in ListIds
    THEN Lookup(ListVar[n])
    ELSE NoList

\* How the ControlFlow constructor fails: data.at(2) of a two-entry node
\* throws, and the variable of a three-entry node is dereferenced unchecked.
ConstructorFailure(n) ==
    CASE n # NullNode /\ DataSize[n] = 2 -> "out_of_range"
      [] n # NullNode /\ DataSize[n] = 3 /\ Lookup(ListVar[n]) = Unbound -> "null_deref"
      [] OTHER -> "ok"

\* The scope enterScope pushes, and a slip that builds it without its node.
BareScope(n, timer) ==
    [node |-> NullNode, ctrl |-> FALSE, vars |-> Nothing, range |-> NoList,
     exiting |-> TRUE, timer |-> timer]
NewScope(n, timer) ==
    [node |-> n, ctrl |-> TRUE, vars |-> Nothing, range |-> RangeOf(n),
     exiting |-> TRUE, timer |-> timer]

Fail(how) ==
    /\ status' = how
    /\ UNCHANGED <<scopes, timers, lists, now, ret, block, upd>>

\* ListObjUtils::remove_at(range, 0), and a slip that takes the last element.
RemoveLast(l) == SubSeq(l, 1, Len(l) - 1)
RemoveFirst(l) == Tail(l)

\* The loop is left once its list is empty after the removal; a slip that
\* looks at the list before it.
ExitsLate(l) == l = <<>>
Exits(l) == RemoveFirst(l) = <<>>

\* ControlFlow::updateLoop on the innermost scope of ss: bind the loop
\* variable to the first element and take it off the shared list.  An empty
\* list changes nothing; the body is returned in either case.
UpdateLoop(ss) ==
    LET top == ss[Len(ss)]
        l == lists[top.range]
    IN  IF top.range = NoList
        THEN /\ status' = "null_deref"
             /\ scopes' = ss
             /\ UNCHANGED <<lists, ret>>
        ELSE /\ ret' = GetNext(top.node)
             /\ UNCHANGED status
             /\ IF l = <<>>
                THEN scopes' = ss /\ UNCHANGED lists
                ELSE /\ lists' = [lists EXCEPT ![top.range] = RemoveFirst(l)]
                     /\ scopes' = [SetIn(ss, LoopVar[top.node], Head(l))
                                     EXCEPT ![Len(ss)].exiting = Exits(l)]

-----------------------------------------------------------------------------
(* Operations.  The class is single threaded: while updateTimers runs no    *)
(* other call does, and a call that crashed or threw ends the game.         *)

Ready == status = "ok" /\ ~upd.active

\* The constructor pushes one scope that has no control flow.
BaseScope ==
    [node |-> NullNode, ctrl |-> FALSE, vars |-> Nothing, range |-> NoList,
     exiting |-> TRUE, timer |-> -1]

Idle == [active |-> FALSE, firing |-> EmptyTimers, last |-> 0, jump |-> NullNode,
         from |-> 0, took |-> EmptyTimers]

Init ==
    /\ scopes = <<BaseScope>>
    /\ timers = EmptyTimers
    /\ lists = [l \in ListIds |-> <<>>]
    /\ now = 0
    /\ ret = NullNode
    /\ block = FALSE
    /\ status = "ok"
    /\ upd = Idle

\* setVariable with a scalar, or with a Variable that shares its list
\* (AssignmentTask hands over the shared_ptr it was given).
SetVariable(name, value) ==
    /\ Ready
    /\ value \in ListIds => value \notin FreeLists
    /\ scopes' = SetIn(scopes, name, value)
    /\ UNCHANGED <<timers, lists, now, ret, block, status, upd>>

\* setVariable with a list the caller built: a new list object.
SetList(name, content) ==
    /\ Ready
    /\ FreeLists # {}
    /\ LET l == CHOOSE f \in FreeLists : TRUE
       IN  /\ scopes' = SetIn(scopes, name, l)
           /\ lists' = [lists EXCEPT ![l] = content]
    /\ UNCHANGED <<timers, now, ret, block, status, upd>>

\* ExtendTask with one element: push_back on the shared list object.
ExtendList(name, e) ==
    /\ Ready
    /\ Lookup(name) \in ListIds
    /\ Len(lists[Lookup(name)]) < MaxLen
    /\ lists' = [lists EXCEPT ![Lookup(name)] = Append(@, e)]
    /\ UNCHANGED <<scopes, timers, now, ret, block, status, upd>>

\* enterScope(node): a node that is the innermost scope's own node is the
\* next iteration of its loop; any other node opens a scope.
EnterScope(n) ==
    /\ Ready
    /\ IF Front.ctrl /\ Front.node = n
       THEN UpdateLoop(scopes) /\ UNCHANGED <<timers, now, block, upd>>
       ELSE /\ Depth < MaxDepth
            /\ \/ /\ ConstructorFailure(n) # "ok"
                  /\ Fail(ConstructorFailure(n))
               \/ /\ ConstructorFailure(n) = "ok"
                  /\ IF n # NullNode /\ IsLoop(n)
                     THEN UpdateLoop(Append(scopes, NewScope(n, -1)))
                     ELSE /\ scopes' = Append(scopes, NewScope(n, -1))
                          /\ ret' = GetNext(n)
                          /\ UNCHANGED <<lists, status>>
                  /\ UNCHANGED <<timers, now, block, upd>>

\* The scopes before the timed scope is pushed: the flag is lowered there.
LowerFlag(t) == IF t.flag = NoFlag THEN scopes ELSE SetIn(scopes, t.flag, FALSE)

\* Plausible slip: the scope pushed before the flag is lowered.
PushThenLower(n, t) ==
    LET pushed == Append(scopes, NewScope(n, t.id))
    IN  IF t.flag = NoFlag THEN pushed ELSE SetIn(pushed, t.flag, FALSE)
LowerThenPush(n, t) == Append(LowerFlag(t), NewScope(n, t.id))

\* timer.scopeid: the number of scopes outside the timed one.
OutsideOff == Depth - 1
Outside == Depth

\* enterScope(node, timer): the timer replaces any other of its id.
EnterTimedScope(n, t) ==
    /\ Ready
    /\ Depth < MaxDepth
    /\ \/ /\ ConstructorFailure(n) # "ok"
          /\ Fail(ConstructorFailure(n))
       \/ /\ ConstructorFailure(n) = "ok"
          /\ scopes' = LowerThenPush(n, t)
          /\ timers' = [timers EXCEPT ![t.id] =
                          [spec |-> t, scopeid |-> Outside, expire |-> now + t.duration]]
          /\ UNCHANGED <<lists, now, ret, block, status, upd>>

IsExpired(timer) == now > timer.expire

\* exitScope(shouldBlock): the timer of the scope is looked at first and
\* dropped unless it pads or has a flag; then a loop that is not done goes
\* back to its node with its variables cleared, and any other scope is
\* popped, whatever shouldBlock says.  The outermost scope has no control
\* flow and is never popped.
ExitScope ==
    LET timer == IF Front.timer \in TimerIds THEN timers[Front.timer] ELSE NoTimer
        padding == timer # NoTimer /\ timer.spec.type = "PAD" /\ ~IsExpired(timer)
    IN  /\ Ready
        /\ block' = padding
        /\ timers' = IF timer # NoTimer /\ ~padding /\ timer.spec.flag = NoFlag
                     THEN [timers EXCEPT ![Front.timer] = NoTimer]
                     ELSE timers
        /\ \/ /\ ~Front.ctrl
              /\ ret' = NullNode
              /\ UNCHANGED <<scopes, status>>
           \/ /\ Front.ctrl /\ ~Front.exiting
              /\ scopes' = [scopes EXCEPT ![Depth].vars = Nothing]
              /\ ret' = Front.node
              /\ UNCHANGED status
           \/ /\ Front.ctrl /\ Front.exiting
              /\ IF Front.node = NullNode
                 THEN status' = "null_deref" /\ UNCHANGED <<scopes, ret>>
                 ELSE /\ scopes' = SubSeq(scopes, 1, Depth - 1)
                      /\ ret' = NextNode[Front.node]
                      /\ UNCHANGED status
        /\ UNCHANGED <<lists, now, upd>>

-----------------------------------------------------------------------------
(* updateTimers: take every timer off the map, then handle them in the      *)
(* order of their ids.  "from" and "took" record what the call started from.*)

UpdateTimers ==
    /\ Ready
    /\ upd' = [active |-> TRUE, firing |-> timers, last |-> Depth, jump |-> NullNode,
               from |-> Depth, took |-> timers]
    /\ timers' = EmptyTimers
    /\ UNCHANGED <<scopes, lists, now, ret, block, status>>

Firing == {i \in TimerIds : upd.firing[i] # NoTimer}

\* A flag is raised where it is bound, or in the innermost scope.
RaiseFlag(t) == IF t.flag = NoFlag THEN scopes ELSE SetIn(scopes, t.flag, TRUE)

\* The forced exits of a STOP timer: they never pop the outermost scope, so
\* a scopeid of 0 would spin, and a scope without a node has no next node.
Unwind(ss, scopeid) ==
    IF \E k \in (scopeid + 1)..Len(ss) : ss[k].ctrl /\ ss[k].node = NullNode THEN "null_deref"
    ELSE IF scopeid = 0 /\ ss # <<>> THEN "hang" ELSE "ok"

\* Plausible slip: the innermost STOP timer wins instead of the outermost.
OutermostSoFarFlipped(timer) == upd.last < timer.scopeid
OutermostSoFar(timer) == upd.last > timer.scopeid

FireTimer ==
    /\ status = "ok" /\ upd.active
    /\ \E i \in Firing :
        LET timer == upd.firing[i]
            raised == RaiseFlag(timer.spec)
            outcome == Unwind(raised, timer.scopeid)
            wins == timer.spec.type = "STOP" /\ OutermostSoFar(timer)
        IN  /\ \A j \in Firing : i <= j
            /\ scopes' = IF timer.spec.type = "STOP" /\ outcome = "ok" /\ timer.scopeid < Len(raised)
                         THEN SubSeq(raised, 1, timer.scopeid)
                         ELSE raised
            /\ status' = IF timer.spec.type = "STOP" THEN outcome ELSE "ok"
            /\ upd' = [upd EXCEPT !.firing[i] = NoTimer,
                                  !.jump = IF wins THEN timer.spec.next ELSE @,
                                  !.last = IF wins THEN timer.scopeid ELSE @]
    /\ UNCHANGED <<timers, lists, now, ret, block>>

UpdateReturns ==
    /\ status = "ok" /\ upd.active
    /\ Firing = {}
    /\ ret' = upd.jump
    /\ upd' = Idle
    /\ UNCHANGED <<scopes, timers, lists, now, block, status>>

Tick ==
    /\ status = "ok"
    /\ now < MaxTime
    /\ now' = now + 1
    /\ UNCHANGED <<scopes, timers, lists, ret, block, status, upd>>

Next ==
    \/ \E name \in Names, value \in Values : SetVariable(name, value)
    \/ \E name \in Names, content \in Lists : SetList(name, content)
    \/ \E name \in Names, e \in Elems : ExtendList(name, e)
    \/ \E n \in NodeOrNull : EnterScope(n)
    \/ \E n \in NodeOrNull, t \in TimerSpecs : EnterTimedScope(n, t)
    \/ ExitScope
    \/ UpdateTimers
    \/ FireTimer
    \/ UpdateReturns
    \/ Tick

Spec == Init /\ [][Next]_vars

-----------------------------------------------------------------------------
(* Properties *)

\* Type invariant.
TypeOK ==
    /\ scopes \in Seq(Scope)
    /\ Len(scopes) \in 1..MaxDepth
    /\ timers \in TimerMap
    /\ lists \in [ListIds -> Seq(Elems)]
    /\ now \in 0..MaxTime
    /\ ret \in NodeOrNull
    /\ block \in BOOLEAN
    /\ status \in {"ok"} \cup Failures
    /\ upd \in [active : BOOLEAN, firing : TimerMap, last : Nat, jump : NodeOrNull,
                from : Nat, took : TimerMap]

\* The scope pushed by the constructor is never popped, whatever sequence of
\* exits and timers runs, and it is the only one exitScope refuses to pop:
\* global variables survive, and scopes.empty() never holds.
GlobalScopeStays == \A k \in 1..Depth : scopes[k].ctrl <=> k > 1

\* A name is bound in at most one scope: setVariable, the loop variable and
\* timer flags all rebind the existing variable, so what getVariable finds
\* does not depend on which scope is searched first.
NoShadowing ==
    \A name \in Names : \A j, k \in Binders(scopes, name) : j = k

\* timers whose scope is still the one they were started with.
Attached(map) ==
    {i \in TimerIds : /\ map[i] # NoTimer
                      /\ map[i].scopeid < Depth
                      /\ scopes[map[i].scopeid + 1].timer = i}

\* The flag of a running timer is bound outside the scope it times, so the
\* rules after that scope can read it once a STOP timer has exited it; no
\* loop that clears its variables and no exit in between takes it away.
FlagOutlivesScope ==
    \A i \in Attached(timers) :
        timers[i].spec.flag # NoFlag =>
            \E k \in 1..timers[i].scopeid : scopes[k].vars[timers[i].spec.flag] # Unbound

\* The forced exits of updateTimers always come to an end: no timer, not even
\* one whose scope is long gone, asks for more scopes to be exited than can be.
UnwindingEnds == status # "hang"

\* STOP timers taken by the current updateTimers and already handled that had
\* a scope to exit when it started.
Handled ==
    {i \in TimerIds : /\ upd.took[i] # NoTimer
                      /\ upd.firing[i] = NoTimer
                      /\ upd.took[i].spec.type = "STOP"
                      /\ upd.took[i].scopeid < upd.from}

\* updateTimers jumps to the node of the outermost scope that a STOP timer
\* exits (of two timers for that depth, the lower id), it leaves exactly the
\* scopes outside that one, and it neither jumps nor exits anything when no
\* STOP timer has a scope to exit; whatever the order of the timers' ids.
JumpMatchesUnwinding ==
    upd.active /\ status = "ok" =>
        \/ Handled = {} /\ upd.jump = NullNode /\ Depth = upd.from
        \/ \E i \in Handled :
              /\ upd.jump = upd.took[i].spec.next
              /\ Depth = upd.took[i].scopeid
              /\ \A j \in Handled :
                    \/ upd.took[i].scopeid < upd.took[j].scopeid
                    \/ upd.took[i].scopeid = upd.took[j].scopeid /\ i <= j

-----------------------------------------------------------------------------
(* What a comment says of updateTimers and the code does not do.            *)

\* The scopes a STOP timer exits end with the one that has that timer ("exit
\* scopes up to one with timer", EnvironmentMgr.cpp:161).
StopExitsItsOwnScope ==
    \A i \in Firing :
        /\ upd.firing[i].spec.type = "STOP"
        /\ \A j \in Firing : i <= j
        /\ upd.firing[i].scopeid < Depth
        => scopes[upd.firing[i].scopeid + 1].timer = i
=============================================================================
