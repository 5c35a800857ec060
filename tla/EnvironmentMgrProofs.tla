------------------------ MODULE EnvironmentMgrProofs ------------------------
(***************************************************************************)
(* Proofs about EnvironmentMgr, for every set of names, values, nodes and  *)
(* timers and every bound, and at the end about RuleWalk, for every tree   *)
(* of rules that is walked through it.                                     *)
(***************************************************************************)
EXTENDS RuleWalk, SequenceTheorems, TLAPS

\* A stack of scopes in which no name is bound twice.
Unique(ss) == \A name \in Names : \A j, k \in Binders(ss, name) : j = k

\* tt is ss with name bound to value in scope "at", the only one to bind it.
Placed(ss, tt, at, name, value) ==
    /\ tt = [ss EXCEPT ![at].vars[name] = value]
    /\ \A k \in 1..Len(ss) : k # at => ss[k].vars[name] = Unbound

\* setVariable changes one binding of one scope, and no other scope binds
\* the name afterwards.
LEMMA SetInPlace ==
    ASSUME NEW ss \in Seq(Scope), Len(ss) >= 1, Unique(ss),
           NEW name \in Names, NEW value
    PROVE  \E at \in 1..Len(ss) : Placed(ss, SetIn(ss, name, value), at, name, value)
<1> DEFINE ks == Binders(ss, name)
<1>1. CASE ks = {}
  <2>1. SetIn(ss, name, value) = [ss EXCEPT ![Len(ss)].vars[name] = value]
    BY <1>1 DEF SetIn
  <2>2. \A k \in 1..Len(ss) : ss[k].vars[name] = Unbound
    BY <1>1 DEF Binders
  <2>3. Len(ss) \in 1..Len(ss)
    OBVIOUS
  <2> QED
    BY <2>1, <2>2, <2>3 DEF Placed
<1>2. CASE ks # {}
  <2>1. PICK at \in 1..Len(ss) : at \in ks
    BY <1>2 DEF Binders
  <2>2. \A k \in ks : k = at
    BY <2>1 DEF Unique
  <2>3. Nearest(ks) = at
    <3>1. \A j \in ks : j <= at
      BY <2>1, <2>2
    <3>2. Nearest(ks) \in ks
      BY <2>1, <3>1 DEF Nearest
    <3> QED
      BY <2>2, <3>2
  <2>4. SetIn(ss, name, value) = [ss EXCEPT ![at].vars[name] = value]
    BY <1>2, <2>3 DEF SetIn
  <2>5. \A k \in 1..Len(ss) : k # at => ss[k].vars[name] = Unbound
    BY <2>2 DEF Binders
  <2> QED
    BY <2>4, <2>5 DEF Placed
<1> QED
  BY <1>1, <1>2

\* setVariable keeps the stack well formed, keeps its depth and everything
\* but one binding, unbinds nothing, and never binds a name twice.
LEMMA SetInKeeps ==
    ASSUME NEW ss \in Seq(Scope), Len(ss) >= 1, Unique(ss),
           NEW name \in Names, NEW value \in Values
    PROVE  LET tt == SetIn(ss, name, value)
           IN  /\ tt \in Seq(Scope)
               /\ Len(tt) = Len(ss)
               /\ Unique(tt)
               /\ \A k \in 1..Len(ss) :
                    /\ tt[k].node = ss[k].node
                    /\ tt[k].ctrl = ss[k].ctrl
                    /\ tt[k].timer = ss[k].timer
                    /\ tt[k].range = ss[k].range
                    /\ \A n \in Names : ss[k].vars[n] # Unbound => tt[k].vars[n] # Unbound
               /\ \E k \in 1..Len(ss) : tt[k].vars[name] # Unbound
<1> DEFINE tt == SetIn(ss, name, value)
<1>0. value # Unbound
  BY ValueAssumption
<1>a. PICK at \in 1..Len(ss) : Placed(ss, tt, at, name, value)
  BY SetInPlace
<1>1. /\ tt = [ss EXCEPT ![at].vars[name] = value]
      /\ \A k \in 1..Len(ss) : k # at => ss[k].vars[name] = Unbound
  BY <1>a DEF Placed
<1>2. \A k \in 1..Len(ss) : ss[k] \in Scope
  OBVIOUS
<1> DEFINE nv == [ss[at].vars EXCEPT ![name] = value]
           ns == [ss[at] EXCEPT !.vars = nv]
<1>3. nv \in [Names -> Values \cup {Unbound}]
  BY <1>2 DEF Scope
<1>4. /\ ns \in Scope
      /\ ns.vars = nv
      /\ ns.node = ss[at].node /\ ns.ctrl = ss[at].ctrl
      /\ ns.timer = ss[at].timer /\ ns.range = ss[at].range
  BY <1>2, <1>3 DEF Scope
<1>5. tt = [ss EXCEPT ![at] = ns]
  BY <1>1, <1>2 DEF Scope
<1> HIDE DEF nv, ns, tt
<1>6. /\ tt \in Seq(Scope) /\ Len(tt) = Len(ss)
      /\ tt[at] = ns
      /\ \A k \in 1..Len(ss) : k # at => tt[k] = ss[k]
  BY <1>4, <1>5
<1>7. \A n \in Names : nv[n] = IF n = name THEN value ELSE ss[at].vars[n]
  BY <1>2 DEF nv, Scope
<1>8. \A k \in 1..Len(ss) : \A n \in Names :
         /\ tt[k].vars[n] # Unbound => (ss[k].vars[n] # Unbound \/ (k = at /\ n = name))
         /\ ss[k].vars[n] # Unbound => tt[k].vars[n] # Unbound
  BY <1>0, <1>4, <1>6, <1>7
<1>9. Unique(tt)
  <2> SUFFICES ASSUME NEW n \in Names, NEW j \in Binders(tt, n), NEW k \in Binders(tt, n)
               PROVE  j = k
    BY DEF Unique
  <2>1. /\ j \in 1..Len(ss) /\ tt[j].vars[n] # Unbound
        /\ k \in 1..Len(ss) /\ tt[k].vars[n] # Unbound
    BY <1>6 DEF Binders
  <2>2. CASE n = name
    BY <1>1, <1>8, <2>1, <2>2
  <2>3. CASE n # name
    BY <1>8, <2>1, <2>3 DEF Unique, Binders
  <2> QED
    BY <2>2, <2>3
<1>10. tt[at].vars[name] # Unbound
  BY <1>0, <1>4, <1>6, <1>7
<1> QED
  BY <1>4, <1>6, <1>8, <1>9, <1>10 DEF tt

-----------------------------------------------------------------------------
(* The stack *)

\* What every stack of scopes satisfies.
WellFormed(ss) ==
    /\ ss \in Seq(Scope)
    /\ Len(ss) \in 1..MaxDepth
    /\ Unique(ss)
    /\ \A k \in 1..Len(ss) : ss[k].ctrl <=> k > 1
    /\ \A k \in 1..Len(ss) : ss[k].range # NoList => ss[k].node # NullNode

\* setVariable, for bindings, loop variables and flags.
LEMMA SetKeepsStack ==
    ASSUME NEW ss, WellFormed(ss), NEW name \in Names, NEW value \in Values
    PROVE  /\ WellFormed(SetIn(ss, name, value))
           /\ Len(SetIn(ss, name, value)) = Len(ss)
<1> DEFINE tt == SetIn(ss, name, value)
<1>1. /\ tt \in Seq(Scope) /\ Len(tt) = Len(ss) /\ Unique(tt)
      /\ \A k \in 1..Len(ss) : /\ tt[k].node = ss[k].node
                               /\ tt[k].ctrl = ss[k].ctrl
                               /\ tt[k].range = ss[k].range
  BY SetInKeeps, BoundAssumption DEF WellFormed
<1> HIDE DEF tt
<1>2. WellFormed(tt)
  BY <1>1 DEF WellFormed
<1> QED
  BY <1>1, <1>2 DEF tt

\* enterScope pushes a scope with control flow and no variables.
LEMMA PushKeepsStack ==
    ASSUME NEW ss, WellFormed(ss), Len(ss) < MaxDepth,
           NEW s \in Scope, s.ctrl, s.vars = Nothing,
           s.range # NoList => s.node # NullNode
    PROVE  WellFormed(Append(ss, s)) /\ Len(Append(ss, s)) = Len(ss) + 1
<1> DEFINE tt == Append(ss, s)
<1>1. /\ tt \in Seq(Scope) /\ Len(tt) = Len(ss) + 1
      /\ tt[Len(ss) + 1] = s
      /\ \A k \in 1..Len(ss) : tt[k] = ss[k]
  BY DEF WellFormed
<1>2. Len(ss) \in 1..MaxDepth /\ MaxDepth \in Nat
  BY BoundAssumption DEF WellFormed
<1> HIDE DEF tt
<1>3. \A n \in Names : Binders(tt, n) = Binders(ss, n)
  <2> TAKE n \in Names
  <2>1. tt[Len(ss) + 1].vars[n] = Unbound
    BY <1>1 DEF Nothing
  <2> QED
    BY <1>1, <1>2, <2>1 DEF Binders
<1>4. Unique(tt)
  BY <1>3 DEF Unique, WellFormed
<1>5. \A k \in 1..Len(tt) : tt[k].ctrl <=> k > 1
  BY <1>1, <1>2 DEF WellFormed
<1>6. \A k \in 1..Len(tt) : tt[k].range # NoList => tt[k].node # NullNode
  BY <1>1, <1>2 DEF WellFormed
<1>7. WellFormed(tt)
  BY <1>1, <1>2, <1>4, <1>5, <1>6 DEF WellFormed
<1> QED
  BY <1>1, <1>7 DEF tt

\* exitScope and the forced exits of updateTimers keep an outer part of it.
LEMMA PopKeepsStack ==
    ASSUME NEW ss, WellFormed(ss), NEW d \in 1..Len(ss)
    PROVE  WellFormed(SubSeq(ss, 1, d)) /\ Len(SubSeq(ss, 1, d)) = d
<1> DEFINE tt == SubSeq(ss, 1, d)
<1>1. /\ tt \in Seq(Scope) /\ Len(tt) = d
      /\ \A k \in 1..d : tt[k] = ss[k]
  BY DEF WellFormed
<1>2. Len(ss) \in 1..MaxDepth /\ MaxDepth \in Nat
  BY BoundAssumption DEF WellFormed
<1> HIDE DEF tt
<1>3. \A n \in Names : Binders(tt, n) \subseteq Binders(ss, n)
  BY <1>1, <1>2 DEF Binders
<1>4. Unique(tt)
  BY <1>3 DEF Unique, WellFormed
<1>5. WellFormed(tt)
  BY <1>1, <1>2, <1>4 DEF WellFormed
<1> QED
  BY <1>1, <1>5 DEF tt

\* A scope replaced by one that binds no more and has the same control flow.
LEMMA ReplaceKeepsStack ==
    ASSUME NEW ss, WellFormed(ss), NEW at \in 1..Len(ss), NEW s \in Scope,
           s.ctrl = ss[at].ctrl, s.node = ss[at].node, s.range = ss[at].range,
           \A n \in Names : s.vars[n] # Unbound => ss[at].vars[n] # Unbound
    PROVE  WellFormed([ss EXCEPT ![at] = s])
<1> DEFINE tt == [ss EXCEPT ![at] = s]
<1>1. /\ tt \in Seq(Scope) /\ Len(tt) = Len(ss)
      /\ tt[at] = s
      /\ \A k \in 1..Len(ss) : k # at => tt[k] = ss[k]
  BY DEF WellFormed
<1> HIDE DEF tt
<1>2. \A n \in Names : Binders(tt, n) \subseteq Binders(ss, n)
  BY <1>1 DEF Binders
<1>3. Unique(tt)
  BY <1>2 DEF Unique, WellFormed
<1>4. WellFormed(tt)
  BY <1>1, <1>3 DEF WellFormed
<1> QED
  BY <1>4 DEF tt

-----------------------------------------------------------------------------
(* The invariant of the whole class.  NoShadowing is not inductive without  *)
(* the types, and UnwindingEnds needs every timer to have a scope outside   *)
(* the one it times, which the stack provides by never being empty.         *)

Inv ==
    /\ TypeOK
    /\ WellFormed(scopes)
    /\ UnwindingEnds

\* The constructor leaves one scope, without control flow, and no timers.
LEMMA InitInv == Init => Inv
<1> SUFFICES ASSUME Init PROVE Inv
  OBVIOUS
<1>1. BaseScope \in Scope /\ BaseScope.vars = Nothing /\ ~BaseScope.ctrl
      /\ BaseScope.range = NoList
  BY DEF BaseScope, Scope, NodeOrNull, Nothing
<1>2. EmptyTimers \in TimerMap
  BY DEF EmptyTimers, TimerMap
<1>3. TypeOK
  <2>1. scopes \in Seq(Scope) /\ Len(scopes) \in 1..MaxDepth
    BY <1>1, BoundAssumption DEF Init
  <2>2. lists \in [ListIds -> Seq(Elems)] /\ now \in 0..MaxTime
    BY BoundAssumption DEF Init
  <2>3. upd \in [active : BOOLEAN, firing : TimerMap, last : Nat, jump : NodeOrNull,
                 from : Nat, took : TimerMap]
    BY <1>2 DEF Init, Idle, NodeOrNull
  <2> QED
    BY <1>2, <2>1, <2>2, <2>3 DEF Init, TypeOK, NodeOrNull
<1>4. /\ Len(scopes) = 1 /\ scopes[1] = BaseScope
  BY DEF Init
<1>5. Unique(scopes)
  BY <1>4 DEF Unique, Binders
<1>6. WellFormed(scopes)
  BY <1>1, <1>3, <1>4, <1>5 DEF WellFormed, TypeOK
<1> QED
  BY <1>3, <1>6 DEF Inv, Init, UnwindingEnds

\* The scope enterScope pushes.
LEMMA NewScopeType ==
    ASSUME Inv, NEW n \in NodeOrNull, NEW i \in TimerIds \cup {-1}
    PROVE  /\ NewScope(n, i) \in Scope
           /\ NewScope(n, i).ctrl
           /\ NewScope(n, i).vars = Nothing
           /\ NewScope(n, i).range # NoList => NewScope(n, i).node # NullNode
           /\ NewScope(n, i).timer = i
<1>1. RangeOf(n) \in ListIds \cup {NoList} /\ (RangeOf(n) # NoList => n # NullNode)
  BY DEF RangeOf
<1>2. Nothing \in [Names -> Values \cup {Unbound}]
  BY DEF Nothing
<1> QED
  BY <1>1, <1>2 DEF NewScope, Scope

\* A loop step keeps the stack well formed, whether it starts, goes on or is
\* blind, and changes no depth.
LEMMA UpdateLoopKeeps ==
    ASSUME Inv, status = "ok", NEW ss, WellFormed(ss), UpdateLoop(ss)
    PROVE  /\ WellFormed(scopes') /\ Len(scopes') = Len(ss)
           /\ lists' \in [ListIds -> Seq(Elems)]
           /\ ret' \in NodeOrNull
           /\ status' \in {"ok", "null_deref"}
<1> DEFINE top == ss[Len(ss)]
           l == lists[top.range]
<1>0. top \in Scope /\ Len(ss) \in 1..Len(ss)
  BY DEF WellFormed
<1>1. CASE top.range = NoList
  BY <1>1 DEF UpdateLoop, Inv, TypeOK
<1>2. CASE top.range # NoList
  <2>1. top.range \in ListIds /\ top.node \in Nodes
    BY <1>0, <1>2 DEF WellFormed, Scope, NodeOrNull
  <2>2. l \in Seq(Elems)
    BY <2>1 DEF Inv, TypeOK
  <2>3. GetNext(top.node) \in NodeOrNull
    BY <2>1, NodeAssumption DEF GetNext, NodeOrNull
  <2>4. ret' = GetNext(top.node) /\ status' = "ok"
    BY <1>2 DEF UpdateLoop
  <2>5. CASE l = <<>>
    <3>1. scopes' = ss /\ lists' = lists
      BY <1>2, <2>5 DEF UpdateLoop
    <3> QED
      BY <2>3, <2>4, <3>1 DEF Inv, TypeOK
  <2>6. CASE l # <<>>
    <3> DEFINE mm == SetIn(ss, LoopVar[top.node], Head(l))
               ns == [mm[Len(ss)] EXCEPT !.exiting = Exits(l)]
    <3>1. /\ lists' = [lists EXCEPT ![top.range] = RemoveFirst(l)]
          /\ scopes' = [mm EXCEPT ![Len(ss)].exiting = Exits(l)]
      BY <1>2, <2>6 DEF UpdateLoop
    <3>2. Head(l) \in Values /\ RemoveFirst(l) \in Seq(Elems)
      BY <2>2, <2>6 DEF Values, RemoveFirst
    <3>3. LoopVar[top.node] \in Names
      BY <2>1, NodeAssumption
    <3>4. WellFormed(mm) /\ Len(mm) = Len(ss)
      BY <3>2, <3>3, SetKeepsStack
    <3> HIDE DEF mm
    <3>5. mm[Len(ss)] \in Scope
      BY <1>0, <3>4 DEF WellFormed
    <3>6. Exits(l) \in BOOLEAN
      BY DEF Exits
    <3>7. /\ ns \in Scope
          /\ ns.ctrl = mm[Len(ss)].ctrl /\ ns.node = mm[Len(ss)].node
          /\ ns.range = mm[Len(ss)].range /\ ns.vars = mm[Len(ss)].vars
      BY <3>5, <3>6 DEF Scope
    <3>8. scopes' = [mm EXCEPT ![Len(ss)] = ns]
      BY <3>1
    <3> HIDE DEF ns
    <3>9. WellFormed(scopes')
      BY <1>0, <3>4, <3>7, <3>8, ReplaceKeepsStack
    <3>10. Len(scopes') = Len(ss)
      BY <3>4, <3>8 DEF WellFormed
    <3>11. lists' \in [ListIds -> Seq(Elems)]
      BY <2>1, <3>1, <3>2 DEF Inv, TypeOK
    <3> QED
      BY <2>3, <2>4, <3>9, <3>10, <3>11
  <2> QED
    BY <2>5, <2>6
<1> QED
  BY <1>1, <1>2

\* What a step has to establish of the variables other than the stack.
LEMMA InvFromParts ==
    ASSUME WellFormed(scopes'), timers' \in TimerMap,
           lists' \in [ListIds -> Seq(Elems)], now' \in 0..MaxTime,
           ret' \in NodeOrNull, block' \in BOOLEAN,
           status' \in {"ok", "out_of_range", "null_deref"},
           upd' \in [active : BOOLEAN, firing : TimerMap, last : Nat, jump : NodeOrNull,
                     from : Nat, took : TimerMap]
    PROVE  Inv'
<1>1. TypeOK'
  BY DEF TypeOK, WellFormed, Failures
<1>2. UnwindingEnds'
  BY DEF UnwindingEnds
<1> QED
  BY <1>1, <1>2 DEF Inv

\* A failed constructor leaves everything but the status alone.
LEMMA FailKeeps ==
    ASSUME Inv, NEW n \in NodeOrNull, ConstructorFailure(n) # "ok",
           Fail(ConstructorFailure(n))
    PROVE  Inv'
<1>1. ConstructorFailure(n) \in {"ok", "out_of_range", "null_deref"}
  BY DEF ConstructorFailure
<1>2. WellFormed(scopes')
  BY DEF Fail, Inv
<1> QED
  BY <1>1, <1>2, InvFromParts DEF Fail, Inv, TypeOK

\* setVariable keeps the invariant: it rebinds in place.
LEMMA SetVariableInv ==
    ASSUME Inv, NEW name \in Names, NEW value \in Values, SetVariable(name, value)
    PROVE  Inv'
<1>1. WellFormed(scopes')
  BY SetKeepsStack DEF SetVariable, Inv
<1> QED
  BY <1>1, InvFromParts DEF SetVariable, Ready, Inv, TypeOK

\* setVariable with a new list keeps the invariant: no loop has that list yet.
LEMMA SetListInv ==
    ASSUME Inv, NEW name \in Names, NEW content \in Lists, SetList(name, content)
    PROVE  Inv'
<1>1. PICK l \in ListIds : /\ scopes' = SetIn(scopes, name, l)
                           /\ lists' = [lists EXCEPT ![l] = content]
  BY DEF SetList, FreeLists
<1>2. l \in Values
  BY DEF Values
<1>3. WellFormed(scopes')
  BY <1>1, <1>2, SetKeepsStack DEF Inv
<1>4. content \in Seq(Elems)
  BY DEF Lists
<1>5. lists' \in [ListIds -> Seq(Elems)]
  BY <1>1, <1>4 DEF Inv, TypeOK
<1> QED
  BY <1>3, <1>5, InvFromParts DEF SetList, Ready, Inv, TypeOK

\* ExtendTask keeps the invariant: it changes the contents of a list only.
LEMMA ExtendListInv ==
    ASSUME Inv, NEW name \in Names, NEW e \in Elems, ExtendList(name, e)
    PROVE  Inv'
<1>1. lists' \in [ListIds -> Seq(Elems)]
  BY DEF ExtendList, Inv, TypeOK
<1>2. WellFormed(scopes')
  BY DEF ExtendList, Inv
<1> QED
  BY <1>1, <1>2, InvFromParts DEF ExtendList, Ready, Inv, TypeOK

\* enterScope(node) keeps the invariant, as a new scope, as the next iteration
\* of a loop and when the constructor of the control flow fails.
LEMMA EnterScopeInv ==
    ASSUME Inv, NEW n \in NodeOrNull, EnterScope(n)
    PROVE  Inv'
<1>0. WellFormed(scopes) /\ status = "ok"
  BY DEF Inv, EnterScope, Ready
<1>1. CASE Front.ctrl /\ Front.node = n
  <2>1. UpdateLoop(scopes) /\ UNCHANGED <<timers, now, block, upd>>
    BY <1>1 DEF EnterScope
  <2>2. /\ WellFormed(scopes')
        /\ lists' \in [ListIds -> Seq(Elems)] /\ ret' \in NodeOrNull
        /\ status' \in {"ok", "null_deref"}
    BY <1>0, <2>1, UpdateLoopKeeps
  <2> QED
    BY <2>1, <2>2, InvFromParts DEF Inv, TypeOK
<1>2. CASE ~(Front.ctrl /\ Front.node = n)
  <2>1. CASE ConstructorFailure(n) # "ok"
    BY <1>2, <2>1, FailKeeps DEF EnterScope
  <2>2. CASE ConstructorFailure(n) = "ok"
    <3> DEFINE tt == Append(scopes, NewScope(n, -1))
    <3>1. Len(scopes) < MaxDepth /\ UNCHANGED <<timers, now, block, upd>>
      BY <1>2, <2>2 DEF EnterScope, Depth
    <3>2. WellFormed(tt)
      BY <1>0, <3>1, NewScopeType, PushKeepsStack
    <3>3. CASE n # NullNode /\ IsLoop(n)
      <4>1. UpdateLoop(tt)
        BY <1>2, <2>2, <3>3 DEF EnterScope
      <4> HIDE DEF tt
      <4>2. /\ WellFormed(scopes')
            /\ lists' \in [ListIds -> Seq(Elems)] /\ ret' \in NodeOrNull
            /\ status' \in {"ok", "null_deref"}
        BY <1>0, <3>2, <4>1, UpdateLoopKeeps
      <4> QED
        BY <3>1, <4>2, InvFromParts DEF Inv, TypeOK
    <3>4. CASE ~(n # NullNode /\ IsLoop(n))
      <4>1. scopes' = tt /\ ret' = GetNext(n) /\ UNCHANGED <<lists, status>>
        BY <1>2, <2>2, <3>4 DEF EnterScope
      <4>2. GetNext(n) = NullNode
        BY <3>4 DEF GetNext
      <4> QED
        BY <1>0, <3>1, <3>2, <4>1, <4>2, InvFromParts DEF Inv, TypeOK, NodeOrNull
    <3> QED
      BY <3>3, <3>4
  <2> QED
    BY <2>1, <2>2
<1> QED
  BY <1>1, <1>2

\* enterScope(node, timer) keeps the invariant: the flag is lowered first, and
\* the scopes outside the new one are at least one.
LEMMA EnterTimedScopeInv ==
    ASSUME Inv, NEW n \in NodeOrNull, NEW t \in TimerSpecs, EnterTimedScope(n, t)
    PROVE  Inv'
<1>0. WellFormed(scopes) /\ status = "ok" /\ Len(scopes) < MaxDepth
  BY DEF Inv, EnterTimedScope, Ready, Depth
<1>1. CASE ConstructorFailure(n) # "ok"
  BY <1>1, FailKeeps DEF EnterTimedScope
<1>2. CASE ConstructorFailure(n) = "ok"
  <2>1. /\ scopes' = Append(LowerFlag(t), NewScope(n, t.id))
        /\ timers' = [timers EXCEPT ![t.id] =
                        [spec |-> t, scopeid |-> Depth, expire |-> now + t.duration]]
        /\ UNCHANGED <<lists, now, ret, block, status, upd>>
    BY <1>2 DEF EnterTimedScope, LowerThenPush, Outside
  <2>2. t.id \in TimerIds /\ t.flag \in Names \cup {NoFlag} /\ t.duration \in Nat
    BY TimerAssumption DEF TimerIds
  <2>3. WellFormed(LowerFlag(t)) /\ Len(LowerFlag(t)) = Len(scopes)
    <3>1. FALSE \in Values
      BY DEF Values
    <3> QED
      BY <1>0, <2>2, <3>1, SetKeepsStack DEF LowerFlag
  <2>4. WellFormed(scopes')
    <3>1. /\ NewScope(n, t.id) \in Scope /\ NewScope(n, t.id).ctrl
          /\ NewScope(n, t.id).vars = Nothing
          /\ NewScope(n, t.id).range # NoList => NewScope(n, t.id).node # NullNode
      BY <2>2, NewScopeType
    <3> QED
      BY <1>0, <2>1, <2>3, <3>1, PushKeepsStack
  <2>5. [spec |-> t, scopeid |-> Depth, expire |-> now + t.duration] \in Timer
    BY <1>0, <2>2 DEF Timer, Depth, WellFormed, Inv, TypeOK
  <2>6. timers' \in TimerMap
    BY <2>1, <2>2, <2>5 DEF Inv, TypeOK, TimerMap
  <2> QED
    BY <1>0, <2>1, <2>4, <2>6, InvFromParts DEF Inv, TypeOK
<1> QED
  BY <1>1, <1>2

\* exitScope keeps the invariant: what it pops has control flow, so it is not
\* the global scope, and what it clears binds no more than before.
LEMMA ExitScopeInv ==
    ASSUME Inv, ExitScope
    PROVE  Inv'
<1>0. WellFormed(scopes) /\ status = "ok" /\ Front \in Scope
  BY DEF Inv, ExitScope, Ready, WellFormed, Front, Depth
<1>1. UNCHANGED <<lists, now, upd>> /\ block' \in BOOLEAN
  BY DEF ExitScope
<1>2. timers' \in TimerMap
  <2>1. \/ timers' = timers
        \/ Front.timer \in TimerIds /\ timers' = [timers EXCEPT ![Front.timer] = NoTimer]
    BY DEF ExitScope
  <2> QED
    BY <2>1 DEF Inv, TypeOK, TimerMap
<1>3. CASE ~Front.ctrl
  <2>1. ret' = NullNode /\ UNCHANGED <<scopes, status>>
    BY <1>3 DEF ExitScope
  <2> QED
    BY <1>0, <1>1, <1>2, <2>1, InvFromParts DEF Inv, TypeOK, NodeOrNull
<1>4. CASE Front.ctrl /\ ~Front.exiting
  <2> DEFINE ns == [Front EXCEPT !.vars = Nothing]
  <2>1. ret' = Front.node /\ UNCHANGED status
        /\ scopes' = [scopes EXCEPT ![Len(scopes)].vars = Nothing]
    BY <1>4 DEF ExitScope, Depth
  <2>2. /\ ns \in Scope /\ ns.ctrl = Front.ctrl /\ ns.node = Front.node
        /\ ns.range = Front.range /\ ns.vars = Nothing
    BY <1>0 DEF Scope, Nothing
  <2>3. scopes' = [scopes EXCEPT ![Len(scopes)] = ns]
    BY <2>1 DEF Front, Depth
  <2> HIDE DEF ns
  <2>4. Len(scopes) \in 1..Len(scopes) /\ \A n \in Names : ns.vars[n] = Unbound
    BY <1>0, <2>2 DEF WellFormed, Nothing
  <2>5. WellFormed(scopes')
    BY <1>0, <2>2, <2>3, <2>4, ReplaceKeepsStack DEF Front, Depth
  <2>6. ret' \in NodeOrNull
    BY <1>0, <2>1 DEF Scope
  <2> QED
    BY <1>0, <1>1, <1>2, <2>1, <2>5, <2>6, InvFromParts DEF Inv, TypeOK
<1>5. CASE Front.ctrl /\ Front.exiting
  <2>1. CASE Front.node = NullNode
    <3>1. status' = "null_deref" /\ UNCHANGED <<scopes, ret>>
      BY <1>5, <2>1 DEF ExitScope
    <3> QED
      BY <1>0, <1>1, <1>2, <3>1, InvFromParts DEF Inv, TypeOK
  <2>2. CASE Front.node # NullNode
    <3>1. /\ scopes' = SubSeq(scopes, 1, Len(scopes) - 1)
          /\ ret' = NextNode[Front.node] /\ UNCHANGED status
      BY <1>5, <2>2 DEF ExitScope, Depth
    <3>2. Len(scopes) - 1 \in 1..Len(scopes)
      BY <1>0, <1>5 DEF WellFormed, Front, Depth
    <3>3. WellFormed(scopes')
      BY <1>0, <3>1, <3>2, PopKeepsStack
    <3>4. ret' \in NodeOrNull
      BY <1>0, <2>2, <3>1, NodeAssumption DEF Scope, NodeOrNull
    <3> QED
      BY <1>0, <1>1, <1>2, <3>1, <3>3, <3>4, InvFromParts DEF Inv, TypeOK
  <2> QED
    BY <2>1, <2>2
<1> QED
  BY <1>3, <1>4, <1>5

\* Facts about the timer that fires.
LEMMA FiringTimer ==
    ASSUME Inv, NEW i \in Firing
    PROVE  /\ i \in TimerIds
           /\ upd.firing[i] \in Timer
           /\ upd.firing[i].scopeid \in 1..MaxDepth
           /\ upd.firing[i].spec.flag \in Names \cup {NoFlag}
           /\ upd.firing[i].spec.next \in NodeOrNull
<1>1. i \in TimerIds /\ upd.firing[i] \in Timer
  BY DEF Firing, Inv, TypeOK, TimerMap
<1>2. upd.firing[i].spec \in TimerSpecs /\ upd.firing[i].scopeid \in 1..MaxDepth
  BY <1>1 DEF Timer
<1> QED
  BY <1>1, <1>2, TimerAssumption

\* Raising a flag is setVariable.
LEMMA RaiseKeepsStack ==
    ASSUME Inv, NEW i \in Firing
    PROVE  /\ WellFormed(RaiseFlag(upd.firing[i].spec))
           /\ Len(RaiseFlag(upd.firing[i].spec)) = Len(scopes)
<1>1. TRUE \in Values
  BY DEF Values
<1>2. upd.firing[i].spec.flag \in Names \cup {NoFlag}
  BY FiringTimer
<1> QED
  BY <1>1, <1>2, SetKeepsStack DEF RaiseFlag, Inv

\* One timer of updateTimers keeps the invariant: its forced exits stop at a
\* depth of at least one.
LEMMA FireTimerInv ==
    ASSUME Inv, FireTimer
    PROVE  Inv'
<1>1. PICK i \in Firing :
        LET timer == upd.firing[i]
            raised == RaiseFlag(timer.spec)
            outcome == Unwind(raised, timer.scopeid)
            wins == timer.spec.type = "STOP" /\ OutermostSoFar(timer)
        IN  /\ \A j \in Firing : i <= j
            /\ scopes' = IF timer.spec.type = "STOP" /\ outcome = "ok" /\ timer.scopeid < Len(raised)
                         THEN SubSeq(raised, 1, timer.scopeid)
                         ELSE raised
            /\ status' = IF timer.spec.type = "STOP" THEN outcome ELSE "ok"
            /\ upd' = [upd EXCEPT !.firing[i] = NoTimer,
                                  !.jump = IF wins THEN timer.spec.next ELSE @,
                                  !.last = IF wins THEN timer.scopeid ELSE @]
  BY DEF FireTimer
<1> DEFINE timer == upd.firing[i]
           raised == RaiseFlag(timer.spec)
           outcome == Unwind(raised, timer.scopeid)
<1>2. /\ i \in TimerIds /\ timer.scopeid \in 1..MaxDepth
      /\ timer.spec.next \in NodeOrNull
  BY FiringTimer
<1>3. WellFormed(raised) /\ Len(raised) = Len(scopes)
  BY RaiseKeepsStack
<1>4. UNCHANGED <<timers, lists, now, ret, block>>
  BY DEF FireTimer
<1>5. WellFormed(scopes')
  <2>1. \/ scopes' = raised
        \/ timer.scopeid < Len(raised) /\ scopes' = SubSeq(raised, 1, timer.scopeid)
    BY <1>1
  <2> HIDE DEF timer, raised
  <2>2. timer.scopeid < Len(raised) => timer.scopeid \in 1..Len(raised)
    BY <1>2, <1>3 DEF WellFormed
  <2> QED
    BY <1>3, <2>1, <2>2, PopKeepsStack
<1>6. status' \in {"ok", "null_deref"}
  <2>1. outcome \in {"ok", "null_deref"}
    <3> HIDE DEF raised
    <3>1. timer.scopeid # 0
      BY <1>2
    <3> QED
      BY <3>1 DEF Unwind
  <2> QED
    BY <1>1, <2>1
<1>7. upd' \in [active : BOOLEAN, firing : TimerMap, last : Nat, jump : NodeOrNull,
                from : Nat, took : TimerMap]
  <2>1. [upd.firing EXCEPT ![i] = NoTimer] \in TimerMap
    BY <1>2 DEF Inv, TypeOK, TimerMap
  <2>2. PICK a \in Nat, b \in NodeOrNull :
           upd' = [upd EXCEPT !.firing = [upd.firing EXCEPT ![i] = NoTimer],
                              !.jump = b, !.last = a]
    <3>1. upd.last \in Nat /\ upd.jump \in NodeOrNull
      BY DEF Inv, TypeOK
    <3>2. timer.scopeid \in Nat
      BY <1>2
    <3>3. CASE timer.spec.type = "STOP" /\ OutermostSoFar(timer)
      BY <1>1, <1>2, <3>2, <3>3
    <3>4. CASE ~(timer.spec.type = "STOP" /\ OutermostSoFar(timer))
      BY <1>1, <3>1, <3>4
    <3> QED
      BY <3>3, <3>4
  <2> QED
    BY <2>1, <2>2 DEF Inv, TypeOK
<1> QED
  BY <1>4, <1>5, <1>6, <1>7, InvFromParts DEF Inv, TypeOK

\* Every step of the class keeps the invariant.
LEMMA NextInv == Inv /\ [Next]_vars => Inv'
<1> SUFFICES ASSUME Inv, [Next]_vars PROVE Inv'
  OBVIOUS
<1>1. ASSUME NEW name \in Names, NEW value \in Values, SetVariable(name, value) PROVE Inv'
  BY <1>1, SetVariableInv
<1>2. ASSUME NEW name \in Names, NEW content \in Lists, SetList(name, content) PROVE Inv'
  BY <1>2, SetListInv
<1>3. ASSUME NEW name \in Names, NEW e \in Elems, ExtendList(name, e) PROVE Inv'
  BY <1>3, ExtendListInv
<1>4. ASSUME NEW n \in NodeOrNull, EnterScope(n) PROVE Inv'
  BY <1>4, EnterScopeInv
<1>5. ASSUME NEW n \in NodeOrNull, NEW t \in TimerSpecs, EnterTimedScope(n, t) PROVE Inv'
  BY <1>5, EnterTimedScopeInv
<1>6. CASE ExitScope
  BY <1>6, ExitScopeInv
<1>7. CASE UpdateTimers
  <2>1. EmptyTimers \in TimerMap
    BY DEF EmptyTimers, TimerMap
  <2>2. upd' \in [active : BOOLEAN, firing : TimerMap, last : Nat, jump : NodeOrNull,
                  from : Nat, took : TimerMap]
    BY <1>7 DEF UpdateTimers, Inv, TypeOK, Depth, NodeOrNull
  <2>3. WellFormed(scopes')
    BY <1>7 DEF UpdateTimers, Inv
  <2> QED
    BY <1>7, <2>1, <2>2, <2>3, InvFromParts DEF UpdateTimers, Ready, Inv, TypeOK
<1>8. CASE FireTimer
  BY <1>8, FireTimerInv
<1>9. CASE UpdateReturns
  <2>1. EmptyTimers \in TimerMap
    BY DEF EmptyTimers, TimerMap
  <2>2. upd' \in [active : BOOLEAN, firing : TimerMap, last : Nat, jump : NodeOrNull,
                  from : Nat, took : TimerMap]
    BY <1>9, <2>1 DEF UpdateReturns, Idle, NodeOrNull
  <2>3. WellFormed(scopes') /\ ret' \in NodeOrNull
    BY <1>9 DEF UpdateReturns, Inv, TypeOK
  <2> QED
    BY <1>9, <2>2, <2>3, InvFromParts DEF UpdateReturns, Inv, TypeOK
<1>10. CASE Tick
  <2>1. now' \in 0..MaxTime
    BY <1>10, BoundAssumption DEF Tick, Inv, TypeOK
  <2>2. WellFormed(scopes')
    BY <1>10 DEF Tick, Inv
  <2> QED
    BY <1>10, <2>1, <2>2, InvFromParts DEF Tick, Inv, TypeOK
<1>11. CASE UNCHANGED vars
  BY <1>11 DEF vars, Inv, TypeOK, WellFormed, Unique, Binders, UnwindingEnds
<1> QED
  BY <1>1, <1>2, <1>3, <1>4, <1>5, <1>6, <1>7, <1>8, <1>9, <1>10, <1>11 DEF Next

\* The invariant holds in every state of the class.
LEMMA InvAlways == Spec => []Inv
  BY InitInv, NextInv, PTL DEF Spec

\* Every call of EnvironmentMgr keeps the types of its state.
THEOREM TypeCorrect == Spec => []TypeOK
<1>1. Inv => TypeOK
  BY DEF Inv
<1> QED
  BY <1>1, InvAlways, PTL

\* setVariable, loop variables and timer flags never bind a name in two scopes.
THEOREM NoShadowingHolds == Spec => []NoShadowing
<1>1. Inv => NoShadowing
  BY DEF Inv, WellFormed, Unique, NoShadowing
<1> QED
  BY <1>1, InvAlways, PTL

\* No exit and no timer pops the global scope, and exitScope refuses no other.
THEOREM GlobalScopeStaysHolds == Spec => []GlobalScopeStays
<1>1. Inv => GlobalScopeStays
  BY DEF Inv, WellFormed, GlobalScopeStays, Depth
<1> QED
  BY <1>1, InvAlways, PTL

\* The forced exits of updateTimers always end.
THEOREM UnwindingEndsHolds == Spec => []UnwindingEnds
<1>1. Inv => UnwindingEnds
  BY DEF Inv
<1> QED
  BY <1>1, InvAlways, PTL

-----------------------------------------------------------------------------
(* The flags of running timers                                              *)

\* FlagOutlivesScope of any stack and any map of timers.
FlagsKept(ss, tm) ==
    \A i \in TimerIds :
        /\ tm[i] # NoTimer
        /\ tm[i].scopeid < Len(ss)
        /\ ss[tm[i].scopeid + 1].timer = i
        /\ tm[i].spec.flag # NoFlag
        => \E k \in 1..tm[i].scopeid : ss[k].vars[tm[i].spec.flag] # Unbound

\* tt has the scopes of ss or the outer ones of them, with the timers they
\* had, and unbinds nothing except in the innermost one that is left.
Outer(ss, tt) ==
    /\ Len(tt) \in Nat /\ Len(ss) \in Nat /\ Len(tt) <= Len(ss)
    /\ \A k \in 1..Len(tt) :
          /\ tt[k].timer = ss[k].timer
          /\ k < Len(tt) =>
                \A n \in Names : ss[k].vars[n] # Unbound => tt[k].vars[n] # Unbound

\* Whatever happens to the scopes inside the one a timer has, its flag stays.
LEMMA OuterKeepsFlags ==
    ASSUME NEW ss, NEW tt, NEW tm \in TimerMap, FlagsKept(ss, tm), Outer(ss, tt)
    PROVE  FlagsKept(tt, tm)
<1> SUFFICES ASSUME NEW i \in TimerIds, tm[i] # NoTimer, tm[i].scopeid < Len(tt),
                    tt[tm[i].scopeid + 1].timer = i, tm[i].spec.flag # NoFlag
             PROVE  \E k \in 1..tm[i].scopeid : tt[k].vars[tm[i].spec.flag] # Unbound
  BY DEF FlagsKept
<1> DEFINE d == tm[i].scopeid
           flag == tm[i].spec.flag
<1>1. tm[i] \in Timer
  BY DEF TimerMap
<1>2. d \in Nat /\ flag \in Names
  BY <1>1, TimerAssumption, BoundAssumption DEF Timer
<1>3. d < Len(ss) /\ ss[d + 1].timer = i
  BY <1>2 DEF Outer
<1>4. PICK k \in 1..d : ss[k].vars[flag] # Unbound
  BY <1>3 DEF FlagsKept
<1>5. k \in 1..Len(tt) /\ k < Len(tt)
  BY <1>2 DEF Outer
<1>6. tt[k].vars[flag] # Unbound
  BY <1>2, <1>4, <1>5 DEF Outer
<1> QED
  BY <1>6

\* A new scope has no timer that was there before it.
LEMMA PushKeepsFlags ==
    ASSUME NEW ss \in Seq(Scope), NEW tm \in TimerMap, FlagsKept(ss, tm), NEW s \in Scope,
           s.timer # -1 =>
              /\ tm[s.timer].scopeid = Len(ss)
              /\ tm[s.timer].spec.flag # NoFlag =>
                    \E k \in 1..Len(ss) : ss[k].vars[tm[s.timer].spec.flag] # Unbound
    PROVE  FlagsKept(Append(ss, s), tm)
<1> DEFINE tt == Append(ss, s)
<1>1. /\ Len(ss) \in Nat /\ Len(tt) = Len(ss) + 1 /\ tt[Len(ss) + 1] = s
      /\ \A k \in 1..Len(ss) : tt[k] = ss[k]
  OBVIOUS
<1> HIDE DEF tt
<1> SUFFICES ASSUME NEW i \in TimerIds, tm[i] # NoTimer, tm[i].scopeid < Len(tt),
                    tt[tm[i].scopeid + 1].timer = i, tm[i].spec.flag # NoFlag
             PROVE  \E k \in 1..tm[i].scopeid : tt[k].vars[tm[i].spec.flag] # Unbound
  BY DEF FlagsKept, tt
<1> DEFINE d == tm[i].scopeid
<1>2. tm[i] \in Timer /\ d \in Nat
  BY BoundAssumption DEF TimerMap, Timer
<1>3. CASE d = Len(ss)
  <2>1. s.timer = i /\ i # -1
    BY <1>1, <1>3, TimerAssumption DEF TimerIds
  <2> QED
    BY <1>1, <1>3, <2>1
<1>4. CASE d < Len(ss)
  <2>1. ss[d + 1].timer = i
    BY <1>1, <1>2, <1>4
  <2>2. PICK k \in 1..d : ss[k].vars[tm[i].spec.flag] # Unbound
    BY <1>4, <2>1 DEF FlagsKept
  <2>3. tt[k] = ss[k]
    <3>1. k \in 1..Len(ss)
      BY <1>1, <1>2, <1>4
    <3> QED
      BY <1>1, <3>1
  <2> QED
    BY <2>2, <2>3
<1>5. d = Len(ss) \/ d < Len(ss)
  BY <1>1, <1>2
<1> QED
  BY <1>3, <1>4, <1>5

\* setVariable unbinds nothing.
LEMMA SetIsOuter ==
    ASSUME NEW ss, WellFormed(ss), NEW name \in Names, NEW value \in Values
    PROVE  /\ Outer(ss, SetIn(ss, name, value))
           /\ \E k \in 1..Len(ss) : SetIn(ss, name, value)[k].vars[name] # Unbound
<1> DEFINE tt == SetIn(ss, name, value)
<1>1. ss \in Seq(Scope) /\ Len(ss) >= 1 /\ Len(ss) \in Nat /\ Unique(ss)
  BY BoundAssumption DEF WellFormed
<1>2. /\ Len(tt) = Len(ss)
      /\ \A k \in 1..Len(ss) :
            /\ tt[k].timer = ss[k].timer
            /\ \A n \in Names : ss[k].vars[n] # Unbound => tt[k].vars[n] # Unbound
      /\ \E k \in 1..Len(ss) : tt[k].vars[name] # Unbound
  BY <1>1, SetInKeeps
<1> HIDE DEF tt
<1> QED
  BY <1>1, <1>2 DEF Outer, tt

\* A scope that keeps its timer may lose its variables if it is the innermost.
LEMMA FrontIsOuter ==
    ASSUME NEW ss, WellFormed(ss), NEW s, s.timer = ss[Len(ss)].timer
    PROVE  Outer(ss, [ss EXCEPT ![Len(ss)] = s])
<1> DEFINE tt == [ss EXCEPT ![Len(ss)] = s]
<1>1. ss \in Seq(Scope) /\ Len(ss) >= 1 /\ Len(ss) \in Nat
  BY BoundAssumption DEF WellFormed
<1>2. /\ Len(tt) = Len(ss) /\ tt[Len(ss)] = s
      /\ \A k \in 1..Len(ss) : k # Len(ss) => tt[k] = ss[k]
  BY <1>1
<1> HIDE DEF tt
<1> QED
  BY <1>1, <1>2 DEF Outer, tt

\* Popping leaves the outer scopes as they are.
LEMMA PopIsOuter ==
    ASSUME NEW ss, WellFormed(ss), NEW d \in 1..Len(ss)
    PROVE  Outer(ss, SubSeq(ss, 1, d))
<1> DEFINE tt == SubSeq(ss, 1, d)
<1>1. Len(tt) = d /\ Len(ss) \in Nat /\ \A k \in 1..d : tt[k] = ss[k]
  BY BoundAssumption DEF WellFormed
<1> HIDE DEF tt
<1> QED
  BY <1>1 DEF Outer, tt

\* One of these steps after another.
LEMMA OuterOfOuter ==
    ASSUME NEW ss, NEW tt, NEW uu, Outer(ss, tt), Outer(tt, uu), Len(tt) = Len(ss)
    PROVE  Outer(ss, uu)
  BY DEF Outer

\* A loop step binds its variable and keeps every other binding.
LEMMA UpdateLoopIsOuter ==
    ASSUME Inv, NEW ss, WellFormed(ss), UpdateLoop(ss)
    PROVE  Outer(ss, scopes')
<1> DEFINE top == ss[Len(ss)]
           l == lists[top.range]
<1>0. /\ top \in Scope /\ Len(ss) \in 1..Len(ss) /\ Len(ss) \in Nat
  BY BoundAssumption DEF WellFormed
<1>1. CASE top.range = NoList \/ l = <<>>
  <2>1. scopes' = ss
    BY <1>1 DEF UpdateLoop
  <2> QED
    BY <1>0, <2>1 DEF Outer
<1>2. CASE top.range # NoList /\ l # <<>>
  <2> DEFINE mm == SetIn(ss, LoopVar[top.node], Head(l))
             ns == [mm[Len(ss)] EXCEPT !.exiting = Exits(l)]
  <2>1. top.range \in ListIds /\ top.node \in Nodes
    BY <1>0, <1>2 DEF WellFormed, Scope, NodeOrNull
  <2>2. l \in Seq(Elems) /\ LoopVar[top.node] \in Names
    BY <2>1, NodeAssumption DEF Inv, TypeOK
  <2>3. Head(l) \in Values
    BY <1>2, <2>2 DEF Values
  <2>4. WellFormed(mm) /\ Len(mm) = Len(ss) /\ Outer(ss, mm)
    BY <2>2, <2>3, SetKeepsStack, SetIsOuter
  <2>5. scopes' = [mm EXCEPT ![Len(ss)] = ns]
    BY <1>2 DEF UpdateLoop
  <2> HIDE DEF mm
  <2>6. ns.timer = mm[Len(ss)].timer
    <3>1. mm[Len(ss)] \in Scope
      BY <1>0, <2>4 DEF WellFormed
    <3> QED
      BY <3>1 DEF Scope
  <2> HIDE DEF ns
  <2>7. Outer(mm, [mm EXCEPT ![Len(mm)] = ns])
    BY <2>4, <2>6, FrontIsOuter
  <2> QED
    BY <2>4, <2>5, <2>7, OuterOfOuter
<1> QED
  BY <1>1, <1>2

\* A call that leaves the timers alone and changes the stack in such a way.
LEMMA OuterStepKeepsFlags ==
    ASSUME Inv, FlagsKept(scopes, timers), Outer(scopes, scopes'), UNCHANGED timers
    PROVE  FlagsKept(scopes', timers')
<1>1. timers \in TimerMap
  BY DEF Inv, TypeOK
<1> QED
  BY <1>1, OuterKeepsFlags

\* A call that leaves the stack alone.
LEMMA SameIsOuter == ASSUME NEW ss, WellFormed(ss) PROVE Outer(ss, ss)
<1>1. Len(ss) \in Nat
  BY BoundAssumption DEF WellFormed
<1> QED
  BY <1>1 DEF Outer

\* Timers that are taken off the map promise nothing.
LEMMA FewerTimersKeepFlags ==
    ASSUME NEW ss, NEW tm, FlagsKept(ss, tm), NEW um,
           \A i \in TimerIds : um[i] = NoTimer \/ um[i] = tm[i]
    PROVE  FlagsKept(ss, um)
<1> SUFFICES ASSUME NEW i \in TimerIds, um[i] # NoTimer, um[i].scopeid < Len(ss),
                    ss[um[i].scopeid + 1].timer = i, um[i].spec.flag # NoFlag
             PROVE  \E k \in 1..um[i].scopeid : ss[k].vars[um[i].spec.flag] # Unbound
  BY DEF FlagsKept
<1>1. um[i] = tm[i]
  OBVIOUS
<1> QED
  BY <1>1 DEF FlagsKept

\* enterScope(node): the new scope has no timer.
LEMMA EnterScopeKeepsFlags ==
    ASSUME Inv, FlagsKept(scopes, timers), NEW n \in NodeOrNull, EnterScope(n)
    PROVE  FlagsKept(scopes', timers')
<1>0. WellFormed(scopes) /\ timers \in TimerMap
  BY DEF Inv, TypeOK
<1>1. CASE Front.ctrl /\ Front.node = n
  <2>1. UpdateLoop(scopes) /\ UNCHANGED timers
    BY <1>1 DEF EnterScope
  <2> QED
    BY <1>0, <2>1, UpdateLoopIsOuter, OuterStepKeepsFlags
<1>2. CASE ~(Front.ctrl /\ Front.node = n)
  <2>1. CASE ConstructorFailure(n) # "ok"
    <3>1. UNCHANGED <<scopes, timers>>
      BY <1>2, <2>1 DEF EnterScope, Fail
    <3> QED
      BY <3>1
  <2>2. CASE ConstructorFailure(n) = "ok"
    <3> DEFINE s == NewScope(n, -1)
               tt == Append(scopes, s)
    <3>1. Len(scopes) < MaxDepth /\ UNCHANGED timers
      BY <1>2, <2>2 DEF EnterScope, Depth
    <3>2. /\ s \in Scope /\ s.ctrl /\ s.vars = Nothing /\ s.timer = -1
          /\ s.range # NoList => s.node # NullNode
      BY NewScopeType
    <3>3. UpdateLoop(tt) \/ scopes' = tt
      BY <1>2, <2>2 DEF EnterScope
    <3> HIDE DEF s
    <3>4. WellFormed(tt)
      BY <1>0, <3>1, <3>2, PushKeepsStack
    <3>5. FlagsKept(tt, timers)
      <4>1. scopes \in Seq(Scope)
        BY <1>0 DEF WellFormed
      <4> QED
        BY <1>0, <3>2, <4>1, PushKeepsFlags
    <3> HIDE DEF tt
    <3>6. Outer(tt, scopes')
      BY <3>3, <3>4, UpdateLoopIsOuter, SameIsOuter
    <3> QED
      BY <1>0, <3>1, <3>5, <3>6, OuterKeepsFlags
  <2> QED
    BY <2>1, <2>2
<1> QED
  BY <1>1, <1>2

\* enterScope(node, timer): the flag is lowered, and so bound, outside the
\* scope that is pushed, and a timer it replaces is forgotten.
LEMMA EnterTimedScopeKeepsFlags ==
    ASSUME Inv, FlagsKept(scopes, timers), NEW n \in NodeOrNull, NEW t \in TimerSpecs,
           EnterTimedScope(n, t)
    PROVE  FlagsKept(scopes', timers')
<1>0. WellFormed(scopes) /\ timers \in TimerMap /\ Len(scopes) < MaxDepth /\ Inv'
  BY EnterTimedScopeInv DEF Inv, TypeOK, EnterTimedScope, Depth
<1>1. CASE ConstructorFailure(n) # "ok"
  <2>1. UNCHANGED <<scopes, timers>>
    BY <1>1 DEF EnterTimedScope, Fail
  <2> QED
    BY <2>1
<1>2. CASE ConstructorFailure(n) = "ok"
  <2> DEFINE low == LowerFlag(t)
             s == NewScope(n, t.id)
             new == [spec |-> t, scopeid |-> Len(scopes), expire |-> now + t.duration]
  <2>1. /\ scopes' = Append(low, s)
        /\ timers' = [timers EXCEPT ![t.id] = new]
    BY <1>2 DEF EnterTimedScope, LowerThenPush, Outside, Depth
  <2>2. t.id \in TimerIds /\ t.id # -1 /\ t.flag \in Names \cup {NoFlag}
    BY TimerAssumption DEF TimerIds
  <2>3. s \in Scope /\ s.timer = t.id
    BY <2>2, NewScopeType
  <2>4. /\ WellFormed(low) /\ Outer(scopes, low) /\ Len(low) = Len(scopes)
        /\ t.flag # NoFlag => \E k \in 1..Len(scopes) : low[k].vars[t.flag] # Unbound
    <3>1. FALSE \in Values
      BY DEF Values
    <3> QED
      BY <1>0, <2>2, <3>1, SetKeepsStack, SetIsOuter, SameIsOuter DEF LowerFlag
  <2>5. /\ timers'[t.id] = new
        /\ \A i \in TimerIds \ {t.id} : timers'[i] = timers[i]
    BY <1>0, <2>1, <2>2 DEF TimerMap
  <2>6. timers' \in TimerMap
    BY <1>0 DEF Inv, TypeOK
  <2> HIDE DEF low, s
  <2>7. FlagsKept(low, timers)
    BY <1>0, <2>4, OuterKeepsFlags
  <2>8. FlagsKept(low, timers')
    <3> SUFFICES ASSUME NEW i \in TimerIds, timers'[i] # NoTimer,
                        timers'[i].scopeid < Len(low),
                        low[timers'[i].scopeid + 1].timer = i,
                        timers'[i].spec.flag # NoFlag
                 PROVE  \E k \in 1..timers'[i].scopeid :
                           low[k].vars[timers'[i].spec.flag] # Unbound
      BY DEF FlagsKept
    <3>1. i # t.id
      <4>1. Len(low) \in Nat
        BY <2>4 DEF Outer
      <4> QED
        BY <2>4, <2>5, <4>1
    <3>2. timers'[i] = timers[i]
      BY <2>5, <3>1
    <3> QED
      BY <2>7, <3>2 DEF FlagsKept
  <2>9. /\ timers'[s.timer].scopeid = Len(low)
        /\ timers'[s.timer].spec.flag # NoFlag =>
              \E k \in 1..Len(low) : low[k].vars[timers'[s.timer].spec.flag] # Unbound
    BY <2>3, <2>4, <2>5
  <2>10. low \in Seq(Scope)
    BY <2>4 DEF WellFormed
  <2> QED
    BY <2>1, <2>3, <2>6, <2>8, <2>9, <2>10, PushKeepsFlags
<1> QED
  BY <1>1, <1>2

\* exitScope: only variables of the innermost scope go, and no flag is there.
LEMMA ExitScopeKeepsFlags ==
    ASSUME Inv, FlagsKept(scopes, timers), ExitScope
    PROVE  FlagsKept(scopes', timers')
<1>0. /\ WellFormed(scopes) /\ timers \in TimerMap
      /\ Front = scopes[Len(scopes)] /\ Front \in Scope
  BY DEF Inv, TypeOK, WellFormed, Front, Depth
<1>1. \A i \in TimerIds : timers'[i] = NoTimer \/ timers'[i] = timers[i]
  <2>1. \/ timers' = timers
        \/ Front.timer \in TimerIds /\ timers' = [timers EXCEPT ![Front.timer] = NoTimer]
    BY DEF ExitScope
  <2> QED
    BY <1>0, <2>1 DEF TimerMap
<1>2. FlagsKept(scopes, timers')
  BY <1>1, FewerTimersKeepFlags
<1>3. Outer(scopes, scopes')
  <2>1. CASE scopes' = scopes
    BY <1>0, <2>1, SameIsOuter
  <2>2. CASE scopes' = [scopes EXCEPT ![Depth].vars = Nothing]
    <3> DEFINE s == [Front EXCEPT !.vars = Nothing]
    <3>1. scopes' = [scopes EXCEPT ![Len(scopes)] = s]
      BY <2>2 DEF Front, Depth
    <3>2. s.timer = scopes[Len(scopes)].timer
      BY <1>0 DEF Scope
    <3> HIDE DEF s
    <3> QED
      BY <1>0, <3>1, <3>2, FrontIsOuter
  <2>3. CASE Front.ctrl /\ scopes' = SubSeq(scopes, 1, Depth - 1)
    <3>1. Len(scopes) - 1 \in 1..Len(scopes)
      BY <1>0, <2>3, BoundAssumption DEF WellFormed
    <3> QED
      BY <1>0, <2>3, <3>1, PopIsOuter DEF Depth
  <2> QED
    BY <2>1, <2>2, <2>3 DEF ExitScope
<1>4. timers' \in TimerMap
  BY ExitScopeInv DEF Inv, TypeOK
<1> QED
  BY <1>2, <1>3, <1>4, OuterKeepsFlags

\* What one timer does to the stack: its flag is raised, and a STOP timer
\* whose scope is there leaves the scopes outside that one.
LEMMA FireTimerLeaves ==
    ASSUME Inv, FireTimer
    PROVE  \E i \in Firing :
              LET timer == upd.firing[i]
                  stops == timer.spec.type = "STOP"
              IN  /\ \A j \in Firing : i <= j
                  /\ Outer(scopes, scopes')
                  /\ status' = "ok" =>
                        Len(scopes') = IF stops /\ timer.scopeid < Len(scopes)
                                       THEN timer.scopeid ELSE Len(scopes)
                  /\ upd' = [upd EXCEPT !.firing[i] = NoTimer,
                               !.jump = IF stops /\ upd.last > timer.scopeid
                                        THEN timer.spec.next ELSE @,
                               !.last = IF stops /\ upd.last > timer.scopeid
                                        THEN timer.scopeid ELSE @]
<1>1. PICK i \in Firing :
        LET timer == upd.firing[i]
            raised == RaiseFlag(timer.spec)
            outcome == Unwind(raised, timer.scopeid)
            wins == timer.spec.type = "STOP" /\ OutermostSoFar(timer)
        IN  /\ \A j \in Firing : i <= j
            /\ scopes' = IF timer.spec.type = "STOP" /\ outcome = "ok" /\ timer.scopeid < Len(raised)
                         THEN SubSeq(raised, 1, timer.scopeid)
                         ELSE raised
            /\ status' = IF timer.spec.type = "STOP" THEN outcome ELSE "ok"
            /\ upd' = [upd EXCEPT !.firing[i] = NoTimer,
                                  !.jump = IF wins THEN timer.spec.next ELSE @,
                                  !.last = IF wins THEN timer.scopeid ELSE @]
  BY DEF FireTimer
<1> DEFINE timer == upd.firing[i]
           raised == RaiseFlag(timer.spec)
           outcome == Unwind(raised, timer.scopeid)
           stops == timer.spec.type = "STOP"
<1>2. /\ timer.scopeid \in 1..MaxDepth
      /\ timer.spec.flag \in Names \cup {NoFlag}
      /\ WellFormed(raised) /\ Len(raised) = Len(scopes) /\ Len(scopes) \in Nat
  BY FiringTimer, RaiseKeepsStack, BoundAssumption DEF WellFormed
<1>3. Outer(scopes, raised)
  <2>1. TRUE \in Values /\ WellFormed(scopes)
    BY DEF Values, Inv
  <2> QED
    BY <1>2, <2>1, SetIsOuter, SameIsOuter DEF RaiseFlag
<1>4. /\ scopes' = IF stops /\ outcome = "ok" /\ timer.scopeid < Len(scopes)
                   THEN SubSeq(raised, 1, timer.scopeid) ELSE raised
      /\ status' = IF stops THEN outcome ELSE "ok"
  BY <1>1, <1>2
<1>5. upd' = [upd EXCEPT !.firing[i] = NoTimer,
                !.jump = IF stops /\ upd.last > timer.scopeid THEN timer.spec.next ELSE @,
                !.last = IF stops /\ upd.last > timer.scopeid THEN timer.scopeid ELSE @]
  BY <1>1 DEF OutermostSoFar
<1> HIDE DEF timer, raised, outcome, stops
<1>6. CASE scopes' = raised /\ ~(stops /\ outcome = "ok" /\ timer.scopeid < Len(scopes))
  <2>1. status' = "ok" => ~(stops /\ timer.scopeid < Len(scopes))
    BY <1>4, <1>6
  <2> QED
    BY <1>1, <1>2, <1>3, <1>5, <1>6, <2>1 DEF timer, stops
<1>7. CASE /\ stops /\ outcome = "ok" /\ timer.scopeid < Len(scopes)
           /\ scopes' = SubSeq(raised, 1, timer.scopeid)
  <2>1. timer.scopeid \in 1..Len(raised)
    BY <1>2, <1>7
  <2>2. Outer(raised, scopes') /\ Len(scopes') = timer.scopeid
    BY <1>2, <1>7, <2>1, PopIsOuter, PopKeepsStack
  <2>3. Outer(scopes, scopes')
    BY <1>2, <1>3, <2>2, OuterOfOuter
  <2> QED
    BY <1>1, <1>5, <1>7, <2>2, <2>3 DEF timer, stops
<1> QED
  BY <1>4, <1>6, <1>7

\* The flag of a running timer is bound outside the scope it times, after
\* every call and between the timers of updateTimers.
LEMMA FlagsStep == Inv /\ FlagsKept(scopes, timers) /\ [Next]_vars
                      => FlagsKept(scopes', timers')
<1> SUFFICES ASSUME Inv, FlagsKept(scopes, timers), [Next]_vars
             PROVE  FlagsKept(scopes', timers')
  OBVIOUS
<1>0. WellFormed(scopes)
  BY DEF Inv
<1>1. ASSUME NEW name \in Names, NEW value \in Values, SetVariable(name, value)
      PROVE  FlagsKept(scopes', timers')
  <2>1. scopes' = SetIn(scopes, name, value) /\ UNCHANGED timers
    BY <1>1 DEF SetVariable
  <2> QED
    BY <1>0, <2>1, SetIsOuter, OuterStepKeepsFlags
<1>2. ASSUME NEW name \in Names, NEW content \in Lists, SetList(name, content)
      PROVE  FlagsKept(scopes', timers')
  <2>1. PICK l \in ListIds : scopes' = SetIn(scopes, name, l)
    BY <1>2 DEF SetList, FreeLists
  <2>2. l \in Values /\ UNCHANGED timers
    BY <1>2 DEF Values, SetList
  <2> QED
    BY <1>0, <2>1, <2>2, SetIsOuter, OuterStepKeepsFlags
<1>3. ASSUME NEW name \in Names, NEW e \in Elems, ExtendList(name, e)
      PROVE  FlagsKept(scopes', timers')
  BY <1>3 DEF ExtendList
<1>4. ASSUME NEW n \in NodeOrNull, EnterScope(n) PROVE FlagsKept(scopes', timers')
  BY <1>4, EnterScopeKeepsFlags
<1>5. ASSUME NEW n \in NodeOrNull, NEW t \in TimerSpecs, EnterTimedScope(n, t)
      PROVE  FlagsKept(scopes', timers')
  BY <1>5, EnterTimedScopeKeepsFlags
<1>6. CASE ExitScope
  BY <1>6, ExitScopeKeepsFlags
<1>7. CASE UpdateTimers
  <2>1. UNCHANGED scopes /\ \A i \in TimerIds : timers'[i] = NoTimer
    BY <1>7 DEF UpdateTimers, EmptyTimers
  <2> QED
    BY <2>1, FewerTimersKeepFlags
<1>8. CASE FireTimer
  <2>1. Outer(scopes, scopes')
    BY <1>8, FireTimerLeaves
  <2>2. UNCHANGED timers
    BY <1>8 DEF FireTimer
  <2> QED
    BY <2>1, <2>2, OuterStepKeepsFlags
<1>9. CASE UNCHANGED <<scopes, timers>>
  BY <1>9
<1> QED
  BY <1>1, <1>2, <1>3, <1>4, <1>5, <1>6, <1>7, <1>8, <1>9
     DEF Next, UpdateReturns, Tick, vars

\* The flag that the rules after a timed scope read is bound as long as its
\* timer runs.
THEOREM FlagOutlivesScopeHolds == Spec => []FlagOutlivesScope
<1>1. Init => FlagsKept(scopes, timers)
  BY DEF Init, EmptyTimers, FlagsKept
<1>2. FlagsKept(scopes, timers) => FlagOutlivesScope
  BY DEF FlagsKept, FlagOutlivesScope, Attached, Depth
<1>3. FlagsKept(scopes, timers)' <=> FlagsKept(scopes', timers')
  BY DEF FlagsKept
<1> QED
  BY <1>1, <1>2, <1>3, FlagsStep, InvAlways, PTL DEF Spec

-----------------------------------------------------------------------------
(* Where updateTimers jumps                                                 *)

\* While updateTimers runs, the timers it has handled are the first ones it
\* took, and it knows how many scopes are left: JumpMatchesUnwinding says
\* nothing of either, and the next timer is compared with both.
Unwinding ==
    upd.active /\ status = "ok" =>
        /\ \A i \in Firing : upd.firing[i] = upd.took[i]
        /\ \A i \in Handled, j \in Firing : i < j
        /\ upd.last = Depth
        /\ JumpMatchesUnwinding

\* The next timer in the order of their ids keeps it so, whether or not it
\* stops anything, and whether or not its scope is there any more.
LEMMA FireTimerKeepsUnwinding ==
    ASSUME Inv, Unwinding, FireTimer
    PROVE  Unwinding'
<1> SUFFICES ASSUME status' = "ok"
             PROVE  /\ (\A i \in Firing : upd.firing[i] = upd.took[i])'
                    /\ (\A i \in Handled, j \in Firing : i < j)'
                    /\ (upd.last = Depth)'
                    /\ JumpMatchesUnwinding'
  BY DEF Unwinding
<1>1. status = "ok" /\ upd.active
  BY DEF FireTimer
<1>2. PICK i \in Firing :
          LET timer == upd.firing[i]
              stops == timer.spec.type = "STOP"
          IN  /\ \A j \in Firing : i <= j
              /\ Outer(scopes, scopes')
              /\ status' = "ok" =>
                    Len(scopes') = IF stops /\ timer.scopeid < Len(scopes)
                                   THEN timer.scopeid ELSE Len(scopes)
              /\ upd' = [upd EXCEPT !.firing[i] = NoTimer,
                           !.jump = IF stops /\ upd.last > timer.scopeid
                                    THEN timer.spec.next ELSE @,
                           !.last = IF stops /\ upd.last > timer.scopeid
                                    THEN timer.scopeid ELSE @]
  BY FireTimerLeaves
<1> DEFINE timer == upd.took[i]
           wins == timer.spec.type = "STOP" /\ timer.scopeid < Len(scopes)
<1>3. /\ \A j \in Firing : upd.firing[j] = upd.took[j]
      /\ \A h \in Handled, j \in Firing : h < j
      /\ upd.last = Depth /\ JumpMatchesUnwinding
  BY <1>1 DEF Unwinding
<1>4. /\ i \in TimerIds /\ timer \in Timer /\ timer.scopeid \in Nat
      /\ timer # NoTimer /\ upd.firing[i] = timer
  BY <1>2, <1>3, FiringTimer, BoundAssumption DEF Firing
<1>5. upd \in [active : BOOLEAN, firing : TimerMap, last : Nat, jump : NodeOrNull,
               from : Nat, took : TimerMap]
      /\ Len(scopes) \in Nat /\ upd.last = Len(scopes) /\ TimerIds \subseteq Nat
  BY <1>3, TimerAssumption, BoundAssumption DEF Inv, TypeOK, Depth, TimerIds
<1>6. /\ Len(scopes') = IF wins THEN timer.scopeid ELSE Len(scopes)
      /\ upd' = [upd EXCEPT !.firing[i] = NoTimer,
                   !.jump = IF wins THEN timer.spec.next ELSE @,
                   !.last = IF wins THEN timer.scopeid ELSE @]
  BY <1>2, <1>4, <1>5
<1> HIDE DEF wins
<1>7. /\ upd'.took = upd.took /\ upd'.from = upd.from /\ upd'.active
      /\ upd'.jump = (IF wins THEN timer.spec.next ELSE upd.jump)
      /\ upd'.last = (IF wins THEN timer.scopeid ELSE upd.last)
      /\ upd'.firing[i] = NoTimer
      /\ \A j \in TimerIds \ {i} : upd'.firing[j] = upd.firing[j]
  BY <1>1, <1>4, <1>5, <1>6 DEF TimerMap
<1>8. Firing' = Firing \ {i}
  BY <1>7 DEF Firing
<1>9. Handled' = Handled \cup (IF timer.spec.type = "STOP" /\ timer.scopeid < upd.from
                               THEN {i} ELSE {})
  BY <1>3, <1>4, <1>7 DEF Handled, Firing
<1>10. \A j \in Firing \ {i} : i < j
  BY <1>2, <1>4, <1>5 DEF Firing
<1>11. (upd.last = Depth)'
  BY <1>5, <1>6, <1>7 DEF Depth
<1>12. JumpMatchesUnwinding'
  <2>1. CASE wins
    <3>1. timer.scopeid < Len(scopes) /\ timer.spec.type = "STOP"
      BY <2>1 DEF wins
    <3>2. /\ timer.scopeid < upd.from
          /\ \A h \in Handled : timer.scopeid < upd.took[h].scopeid
      <4>1. CASE Handled = {} /\ Len(scopes) = upd.from
        BY <3>1, <4>1
      <4>2. ASSUME NEW h \in Handled, Len(scopes) = upd.took[h].scopeid,
                   \A j \in Handled : upd.took[h].scopeid <= upd.took[j].scopeid
            PROVE  /\ timer.scopeid < upd.from
                   /\ \A j \in Handled : timer.scopeid < upd.took[j].scopeid
        <5>1. upd.took[h].scopeid < upd.from
          BY DEF Handled
        <5>2. \A j \in Handled : upd.took[j].scopeid \in Nat
          BY <1>5, BoundAssumption DEF Handled, TimerMap, Timer
        <5> QED
          BY <1>4, <1>5, <3>1, <4>2, <5>1, <5>2
      <4>3. \A j \in Handled : upd.took[j].scopeid \in Nat
        BY <1>5, BoundAssumption DEF Handled, TimerMap, Timer
      <4> QED
        BY <1>1, <1>3, <4>1, <4>2, <4>3 DEF JumpMatchesUnwinding, Depth
    <3>3. Handled' = Handled \cup {i}
      BY <1>9, <3>1, <3>2
    <3>4. /\ upd'.jump = upd'.took[i].spec.next
          /\ Len(scopes') = upd'.took[i].scopeid
      BY <1>6, <1>7, <2>1
    <3>5. \A j \in Handled' : \/ upd'.took[i].scopeid < upd'.took[j].scopeid
                              \/ upd'.took[i].scopeid = upd'.took[j].scopeid /\ i <= j
      BY <1>4, <1>5, <1>7, <3>2, <3>3
    <3> QED
      BY <3>3, <3>4, <3>5 DEF JumpMatchesUnwinding, Depth
  <2>2. CASE ~wins
    <3>1. Len(scopes') = Len(scopes) /\ upd'.jump = upd.jump
      BY <1>6, <1>7, <2>2
    <3>2. CASE Handled = {} /\ upd.jump = NullNode /\ Len(scopes) = upd.from
      <4>1. Handled' = {}
        BY <1>9, <2>2, <3>2 DEF wins
      <4> QED
        BY <1>7, <3>1, <3>2, <4>1 DEF JumpMatchesUnwinding, Depth
    <3>3. ASSUME NEW h \in Handled,
                 upd.jump = upd.took[h].spec.next, Len(scopes) = upd.took[h].scopeid,
                 \A j \in Handled :
                    \/ upd.took[h].scopeid < upd.took[j].scopeid
                    \/ upd.took[h].scopeid = upd.took[j].scopeid /\ h <= j
          PROVE  JumpMatchesUnwinding'
      <4>1. h \in Handled' /\ h < i
        BY <1>3, <1>9
      <4>2. ASSUME i \in Handled', i \notin Handled
            PROVE  \/ upd.took[h].scopeid < timer.scopeid
                   \/ upd.took[h].scopeid = timer.scopeid /\ h <= i
        <5>1. timer.spec.type = "STOP"
          BY <1>9, <4>2
        <5>2. ~(timer.scopeid < Len(scopes))
          BY <2>2, <5>1 DEF wins
        <5>3. h \in Nat /\ i \in Nat
          BY <1>4, <1>5 DEF Handled
        <5> QED
          BY <1>4, <1>5, <3>3, <4>1, <5>2, <5>3
      <4>3. \A j \in Handled' : \/ upd.took[h].scopeid < upd.took[j].scopeid
                                \/ upd.took[h].scopeid = upd.took[j].scopeid /\ h <= j
        BY <1>9, <3>3, <4>2
      <4> QED
        BY <1>7, <3>1, <3>3, <4>1, <4>3 DEF JumpMatchesUnwinding, Depth
    <3> QED
      BY <1>1, <1>3, <3>2, <3>3 DEF JumpMatchesUnwinding, Depth
  <2> QED
    BY <2>1, <2>2
<1>13. (\A j \in Firing : upd.firing[j] = upd.took[j])'
  BY <1>3, <1>7, <1>8 DEF Firing
<1>14. (\A h \in Handled, j \in Firing : h < j)'
  BY <1>3, <1>8, <1>9, <1>10
<1> QED
  BY <1>11, <1>12, <1>13, <1>14

\* Every step keeps it: updateTimers starts with nothing handled.
LEMMA UnwindingStep == Inv /\ Unwinding /\ [Next]_vars => Unwinding'
<1> SUFFICES ASSUME Inv, Unwinding, [Next]_vars PROVE Unwinding'
  OBVIOUS
<1>1. CASE UpdateTimers
  <2>1. /\ upd'.firing = timers /\ upd'.took = timers /\ upd'.last = Depth
        /\ upd'.from = Depth /\ upd'.jump = NullNode /\ scopes' = scopes
    BY <1>1 DEF UpdateTimers
  <2>2. Handled' = {}
    BY <2>1 DEF Handled
  <2> QED
    BY <2>1, <2>2 DEF Unwinding, JumpMatchesUnwinding, Depth
<1>2. CASE FireTimer
  BY <1>2, FireTimerKeepsUnwinding
<1>3. CASE UpdateReturns
  BY <1>3 DEF UpdateReturns, Idle, Unwinding
<1>4. CASE Ready /\ UNCHANGED upd
  BY <1>4 DEF Ready, Unwinding
<1>5. CASE UNCHANGED <<scopes, status, upd>>
  BY <1>5 DEF Unwinding, Firing, Handled, JumpMatchesUnwinding, Depth
<1>6. ASSUME NEW n \in NodeOrNull, EnterScope(n) PROVE Ready /\ UNCHANGED upd
  BY <1>6 DEF EnterScope, Fail
<1>7. ASSUME NEW n \in NodeOrNull, NEW t \in TimerSpecs, EnterTimedScope(n, t)
      PROVE  Ready /\ UNCHANGED upd
  BY <1>7 DEF EnterTimedScope, Fail
<1> QED
  BY <1>1, <1>2, <1>3, <1>4, <1>5, <1>6, <1>7
     DEF Next, SetVariable, SetList, ExtendList, ExitScope, Tick, vars

\* updateTimers jumps behind the outermost scope that a STOP timer exits, and
\* leaves exactly the scopes outside it, whatever the order of the ids.
THEOREM JumpMatchesUnwindingHolds == Spec => []JumpMatchesUnwinding
<1>1. Init => Unwinding
  BY DEF Init, Idle, Unwinding
<1>2. Unwinding => JumpMatchesUnwinding
  BY DEF Unwinding, JumpMatchesUnwinding
<1> QED
  BY <1>1, <1>2, UnwindingStep, InvAlways, PTL DEF Spec

-----------------------------------------------------------------------------
(* Walking the rules                                                        *)

\* The element a loop takes goes from one sequence to the other.
LEMMA ElementTaken ==
    ASSUME NEW s \in Seq(Elems), NEW t \in Seq(Elems), t # <<>>
    PROVE  /\ Head(t) \in Elems /\ Tail(t) \in Seq(Elems)
           /\ Append(s, Head(t)) \in Seq(Elems)
           /\ Append(s, Head(t)) \o Tail(t) = s \o t
<1>1. Head(t) \in Elems /\ Tail(t) \in Seq(Elems) /\ Append(s, Head(t)) \in Seq(Elems)
  BY HeadTailProperties
<1>2. Append(s, Head(t)) = s \o <<Head(t)>>
  BY <1>1, AppendIsConcat
<1>3. t = <<Head(t)>> \o Tail(t)
  BY <1>1
<1>4. (s \o <<Head(t)>>) \o Tail(t) = s \o (<<Head(t)>> \o Tail(t))
  BY <1>1, ConcatAssociative
<1> QED
  BY <1>1, <1>2, <1>3, <1>4

\* The element a task appends is the last of both.
LEMMA ElementAdded ==
    ASSUME NEW s \in Seq(Elems), NEW t \in Seq(Elems), NEW e \in Elems
    PROVE  Append(s \o t, e) = s \o Append(t, e)
<1>1. s \o t \in Seq(Elems) /\ <<e>> \in Seq(Elems)
  BY ConcatProperties
<1>2. Append(s \o t, e) = (s \o t) \o <<e>> /\ Append(t, e) = t \o <<e>>
  BY <1>1, AppendIsConcat
<1>3. (s \o t) \o <<e>> = s \o (t \o <<e>>)
  BY <1>1, ConcatAssociative
<1> QED
  BY <1>2, <1>3

\* What setVariable wrote is what getVariable reads, from any stack that has
\* the same variables.
LEMMA ReadsBack ==
    ASSUME NEW ss, WellFormed(ss), NEW name \in Names, NEW value \in Values,
           NEW uu, Len(uu) = Len(ss),
           \A k \in 1..Len(ss) : uu[k].vars = SetIn(ss, name, value)[k].vars
    PROVE  LookupIn(uu, name) = value
<1> DEFINE tt == SetIn(ss, name, value)
<1>1. ss \in Seq(Scope) /\ Len(ss) >= 1 /\ Len(ss) \in Nat /\ Unique(ss)
  BY BoundAssumption DEF WellFormed
<1>2. PICK at \in 1..Len(ss) : Placed(ss, tt, at, name, value)
  BY <1>1, SetInPlace
<1>3. /\ tt = [ss EXCEPT ![at].vars[name] = value]
      /\ \A k \in 1..Len(ss) : k # at => ss[k].vars[name] = Unbound
  BY <1>2 DEF Placed
<1>4. tt[at].vars[name] = value
  <2>1. ss[at] \in Scope
    BY <1>1
  <2> QED
    BY <1>1, <1>3, <2>1 DEF Scope
<1>5. \A k \in 1..Len(ss) : k # at => tt[k].vars[name] = Unbound
  BY <1>1, <1>3
<1> HIDE DEF tt
<1>6. /\ uu[at].vars[name] = value /\ value # Unbound
      /\ \A k \in 1..Len(ss) : k # at => uu[k].vars[name] = Unbound
  BY <1>4, <1>5, ValueAssumption DEF tt
<1>7. Binders(uu, name) = {at}
  BY <1>6 DEF Binders
<1>8. Nearest({at}) = at
  BY <1>1 DEF Nearest
<1> QED
  BY <1>6, <1>7, <1>8 DEF LookupIn

\* A loop step takes the first element of the loop's list, which is then what
\* its variable holds, or it takes none.
LEMMA UpdateLoopTakes ==
    ASSUME Inv, status = "ok", NEW ss, WellFormed(ss), UpdateLoop(ss)
    PROVE  LET top == ss[Len(ss)]
               l == lists[top.range]
           IN  /\ Len(scopes') = Len(ss)
               /\ \A k \in 1..Len(ss) : /\ scopes'[k].node = ss[k].node
                                        /\ scopes'[k].range = ss[k].range
                                        /\ k < Len(ss) => scopes'[k].exiting = ss[k].exiting
               /\ \/ UNCHANGED lists /\ (status' = "ok" => l = <<>>)
                  \/ /\ status' = "ok" /\ top.range \in ListIds /\ l \in Seq(Elems) /\ l # <<>>
                     /\ lists' = [lists EXCEPT ![top.range] = Tail(l)]
                     /\ LookupIn(scopes', LoopVar[top.node]) = Head(l)
<1> DEFINE top == ss[Len(ss)]
           l == lists[top.range]
<1>0. top \in Scope /\ Len(ss) \in 1..Len(ss) /\ ss \in Seq(Scope)
  BY DEF WellFormed
<1>1. CASE top.range = NoList \/ l = <<>>
  <2>1. scopes' = ss /\ UNCHANGED lists /\ (status' = "ok" => l = <<>>)
    BY <1>1 DEF UpdateLoop
  <2> QED
    BY <2>1
<1>2. CASE top.range # NoList /\ l # <<>>
  <2> DEFINE name == LoopVar[top.node]
             mm == SetIn(ss, name, Head(l))
             ns == [mm[Len(ss)] EXCEPT !.exiting = Exits(l)]
  <2>1. top.range \in ListIds /\ top.node \in Nodes
    BY <1>0, <1>2 DEF WellFormed, Scope, NodeOrNull
  <2>2. l \in Seq(Elems) /\ name \in Names
    BY <2>1, NodeAssumption DEF Inv, TypeOK
  <2>3. Head(l) \in Values
    BY <1>2, <2>2 DEF Values
  <2>4. /\ WellFormed(mm) /\ Len(mm) = Len(ss)
        /\ \A k \in 1..Len(ss) : mm[k].node = ss[k].node /\ mm[k].range = ss[k].range
    <3>1. Len(ss) >= 1 /\ Unique(ss)
      BY BoundAssumption DEF WellFormed
    <3> QED
      BY <1>0, <2>2, <2>3, <3>1, SetKeepsStack, SetInKeeps
  <2>5. \A k \in 1..Len(ss) : mm[k].exiting = ss[k].exiting
    <3>1. PICK at \in 1..Len(ss) : Placed(ss, mm, at, name, Head(l))
      BY <1>0, <2>2, SetInPlace DEF WellFormed
    <3>2. mm = [ss EXCEPT ![at].vars[name] = Head(l)] /\ ss[at] \in Scope
      BY <1>0, <3>1 DEF Placed
    <3>3. mm = [ss EXCEPT ![at] = [ss[at] EXCEPT !.vars[name] = Head(l)]]
      BY <3>2
    <3>4. [ss[at] EXCEPT !.vars[name] = Head(l)].exiting = ss[at].exiting
      BY <3>2 DEF Scope
    <3> HIDE DEF mm
    <3> QED
      BY <1>0, <3>3, <3>4
  <2>6. /\ scopes' = [mm EXCEPT ![Len(ss)] = ns] /\ status' = "ok"
        /\ lists' = [lists EXCEPT ![top.range] = Tail(l)]
    BY <1>2 DEF UpdateLoop, RemoveFirst
  <2> HIDE DEF mm, name
  <2>7. mm[Len(ss)] \in Scope /\ mm \in Seq(Scope)
    BY <1>0, <2>4 DEF WellFormed
  <2>8. /\ ns.vars = mm[Len(ss)].vars /\ ns.node = mm[Len(ss)].node
        /\ ns.range = mm[Len(ss)].range
    BY <2>7 DEF Scope
  <2> HIDE DEF ns
  <2>9. /\ Len(scopes') = Len(ss) /\ scopes'[Len(ss)] = ns
        /\ \A k \in 1..Len(ss) : k # Len(ss) => scopes'[k] = mm[k]
    BY <1>0, <2>4, <2>6, <2>7
  <2>10. \A k \in 1..Len(ss) : scopes'[k].vars = mm[k].vars
    BY <2>8, <2>9
  <2>11. LookupIn(scopes', name) = Head(l)
    BY <2>2, <2>3, <2>9, <2>10, ReadsBack DEF mm
  <2> HIDE DEF top, l
  <2>12. \A k \in 1..Len(ss) : /\ scopes'[k].node = ss[k].node
                               /\ scopes'[k].range = ss[k].range
                               /\ k < Len(ss) => scopes'[k].exiting = ss[k].exiting
    BY <2>4, <2>5, <2>8, <2>9
  <2> QED
    BY <1>2, <2>1, <2>2, <2>6, <2>9, <2>11, <2>12 DEF name, top, l
<1> QED
  BY <1>1, <1>2

\* Every scope but the global one is of a rule.  Those that have a scope
\* inside them are of loops, and so is the innermost one while it has a body
\* to execute or has not been left: enterScope goes on with a scope that is
\* there for loops only.
WalkStack ==
    \A k \in 2..Depth :
        /\ scopes[k].node \in Nodes
        /\ k < Depth \/ cursor # NullNode \/ ~scopes[k].exiting => IsLoop(scopes[k].node)

WalkInv ==
    /\ Inv
    /\ cursor \in NodeOrNull
    /\ given \in [ListIds -> Seq(Elems)] /\ visited \in [ListIds -> Seq(Elems)]
    /\ WalkStack
    /\ ElementsVisitedOnce

\* Game setup binds names to lists in the global scope.
LEMMA WalkInitInv == WalkInit => WalkInv
<1> SUFFICES ASSUME WalkInit PROVE WalkInv
  OBVIOUS
<1>1. PICK bindings \in Globals : scopes = <<[BaseScope EXCEPT !.vars = bindings]>>
  BY DEF WalkInit
<1> DEFINE s == [BaseScope EXCEPT !.vars = bindings]
<1>2. /\ s \in Scope /\ ~s.ctrl /\ s.range = NoList
      /\ scopes \in Seq(Scope) /\ Len(scopes) = 1 /\ scopes[1] = s
  <2>1. s \in Scope /\ ~s.ctrl /\ s.range = NoList
    BY WalkAssumption DEF BaseScope, Scope, NodeOrNull
  <2> HIDE DEF s
  <2> QED
    BY <1>1, <2>1 DEF s
<1> HIDE DEF s
<1>3. WellFormed(scopes)
  <2>1. Unique(scopes)
    BY <1>2 DEF Unique, Binders
  <2> QED
    BY <1>2, <2>1, BoundAssumption DEF WellFormed
<1>4. lists \in [ListIds -> Seq(Elems)] /\ given = lists
  <2>1. lists \in [ListIds -> Lists] /\ given = lists
    BY WalkAssumption DEF WalkInit
  <2>2. Lists \subseteq Seq(Elems)
    BY DEF Lists
  <2> QED
    BY <2>1, <2>2
<1>5. EmptyTimers \in TimerMap
  BY DEF EmptyTimers, TimerMap
<1>6. upd \in [active : BOOLEAN, firing : TimerMap, last : Nat, jump : NodeOrNull,
               from : Nat, took : TimerMap]
  BY <1>5 DEF WalkInit, Idle, NodeOrNull
<1>7. Inv
  <2>1. /\ timers \in TimerMap /\ now \in 0..MaxTime /\ ret \in NodeOrNull
        /\ block \in BOOLEAN /\ status = "ok"
    <3>1. /\ timers = EmptyTimers /\ now = 0 /\ ret = NullNode /\ block = FALSE
          /\ status = "ok"
      BY DEF WalkInit
    <3>2. 0 \in 0..MaxTime
      BY BoundAssumption
    <3> QED
      BY <1>5, <3>1, <3>2 DEF NodeOrNull
  <2>2. TypeOK
    BY <1>2, <1>3, <1>4, <1>6, <2>1 DEF TypeOK, WellFormed
  <2> QED
    BY <1>3, <2>1, <2>2 DEF Inv, UnwindingEnds
<1>8. WalkStack
  BY <1>2 DEF WalkStack, Depth
<1>9. /\ visited \in [ListIds -> Seq(Elems)]
      /\ \A l \in ListIds : visited[l] = <<>> /\ lists[l] \in Seq(Elems)
  BY <1>4 DEF WalkInit
<1>10. ElementsVisitedOnce
  <2>1. \A l \in ListIds : visited[l] \o lists[l] = lists[l]
    BY <1>9, ConcatEmptySeq
  <2> QED
    BY <1>4, <2>1 DEF ElementsVisitedOnce
<1> QED
  BY <1>4, <1>7, <1>8, <1>9, <1>10, WalkAssumption DEF WalkInv, WalkInit

\* A loop step of the walk: the element that leaves the list is recorded.
LEMMA LoopStepRecords ==
    ASSUME WalkInv, status = "ok", IsLoop(cursor), NEW ss, WellFormed(ss),
           ss[Len(ss)].node = cursor, UpdateLoop(ss), EnterBody
    PROVE  visited' \in [ListIds -> Seq(Elems)] /\ ElementsVisitedOnce'
<1> DEFINE r == ss[Len(ss)].range
           t == lists[r]
<1>1. /\ Inv /\ given \in [ListIds -> Seq(Elems)] /\ visited \in [ListIds -> Seq(Elems)]
      /\ ElementsVisitedOnce /\ lists \in [ListIds -> Seq(Elems)]
  BY DEF WalkInv, Inv, TypeOK
<1>2. /\ Len(scopes') = Len(ss) /\ scopes'[Len(ss)].range = r
      /\ \/ UNCHANGED lists /\ (status' = "ok" => t = <<>>)
         \/ /\ status' = "ok" /\ r \in ListIds /\ t \in Seq(Elems) /\ t # <<>>
            /\ lists' = [lists EXCEPT ![r] = Tail(t)]
            /\ LookupIn(scopes', LoopVar[cursor]) = Head(t)
  <2>1. Len(ss) \in 1..Len(ss)
    BY DEF WellFormed
  <2> QED
    BY <1>1, <2>1, UpdateLoopTakes
<1>3. /\ given' = given
      /\ visited' = IF status' = "ok" /\ t # <<>>
                    THEN [visited EXCEPT ![r] = Append(@, LookupIn(scopes', LoopVar[cursor]))]
                    ELSE visited
  BY <1>2 DEF EnterBody
<1> HIDE DEF r, t
<1>4. CASE visited' = visited /\ UNCHANGED lists
  BY <1>1, <1>3, <1>4 DEF ElementsVisitedOnce
<1>5. CASE /\ r \in ListIds /\ t \in Seq(Elems) /\ t # <<>>
           /\ lists' = [lists EXCEPT ![r] = Tail(t)]
           /\ visited' = [visited EXCEPT ![r] = Append(@, Head(t))]
  <2>1. /\ Head(t) \in Elems /\ Append(visited[r], Head(t)) \in Seq(Elems)
        /\ Append(visited[r], Head(t)) \o Tail(t) = visited[r] \o t
    BY <1>1, <1>5, ElementTaken
  <2>2. visited' \in [ListIds -> Seq(Elems)]
    BY <1>1, <1>5, <2>1
  <2>3. /\ visited'[r] = Append(visited[r], Head(t)) /\ lists'[r] = Tail(t)
        /\ \A l \in ListIds \ {r} : visited'[l] = visited[l] /\ lists'[l] = lists[l]
    BY <1>1, <1>5
  <2>4. visited'[r] \o lists'[r] = visited[r] \o lists[r]
    BY <2>1, <2>3 DEF t
  <2>5. \A l \in ListIds : visited'[l] \o lists'[l] = visited[l] \o lists[l]
    BY <2>3, <2>4
  <2> QED
    BY <1>1, <1>3, <2>2, <2>5 DEF ElementsVisitedOnce
<1> QED
  BY <1>2, <1>3, <1>4, <1>5

\* One iteration, or the first visit of a rule.
LEMMA EnterBodyKeeps == ASSUME WalkInv, EnterBody PROVE WalkInv'
<1>0. /\ Inv /\ WellFormed(scopes) /\ status = "ok" /\ cursor \in Nodes
      /\ cursor \in NodeOrNull /\ cursor # NullNode /\ EnterScope(cursor)
      /\ given' = given /\ cursor' = ret' /\ WalkStack
  BY DEF WalkInv, Inv, EnterBody, EnterScope, Ready, NodeOrNull
<1>1. Inv' /\ cursor' \in NodeOrNull
  <2>1. Inv'
    BY <1>0, EnterScopeInv
  <2> QED
    BY <1>0, <2>1 DEF Inv, TypeOK
<1>2. /\ scopes \in Seq(Scope) /\ Len(scopes) \in Nat /\ Depth = Len(scopes)
      /\ Front = scopes[Len(scopes)]
      /\ \A k \in 2..Len(scopes) : scopes[k].node \in Nodes /\ IsLoop(scopes[k].node)
  BY <1>0, BoundAssumption DEF WellFormed, Depth, Front, WalkStack
<1>3. ASSUME visited' = visited, UNCHANGED lists
      PROVE  visited' \in [ListIds -> Seq(Elems)] /\ ElementsVisitedOnce'
  BY <1>0, <1>3 DEF WalkInv, ElementsVisitedOnce
<1>4. CASE Front.ctrl /\ Front.node = cursor
  <2>1. UpdateLoop(scopes)
    BY <1>0, <1>4 DEF EnterScope
  <2>2. IsLoop(cursor)
    <3>1. Len(scopes) > 1
      BY <1>0, <1>2, <1>4 DEF WellFormed
    <3> QED
      BY <1>2, <1>4, <3>1
  <2>3. visited' \in [ListIds -> Seq(Elems)] /\ ElementsVisitedOnce'
    BY <1>0, <1>2, <1>4, <2>1, <2>2, LoopStepRecords
  <2>4. WalkStack'
    <3>1. /\ Len(scopes') = Len(scopes)
          /\ \A k \in 1..Len(scopes) : scopes'[k].node = scopes[k].node
      BY <1>0, <2>1, UpdateLoopTakes
    <3> QED
      BY <1>2, <3>1 DEF WalkStack, Depth, IsLoop
  <2> QED
    BY <1>0, <1>1, <2>3, <2>4 DEF WalkInv
<1>5. CASE ~(Front.ctrl /\ Front.node = cursor) /\ ConstructorFailure(cursor) # "ok"
  <2>1. UNCHANGED <<scopes, lists>> /\ status' # "ok"
    BY <1>0, <1>5 DEF EnterScope, Fail
  <2>2. visited' = visited
    BY <2>1 DEF EnterBody
  <2>3. WalkStack'
    BY <1>2, <2>1 DEF WalkStack, Depth, IsLoop
  <2> QED
    BY <1>0, <1>1, <1>3, <2>1, <2>2, <2>3 DEF WalkInv
<1>6. CASE ~(Front.ctrl /\ Front.node = cursor) /\ ConstructorFailure(cursor) = "ok"
  <2> DEFINE s == NewScope(cursor, -1)
             tt == Append(scopes, s)
  <2>1. /\ s \in Scope /\ s.ctrl /\ s.vars = Nothing /\ s.node = cursor /\ s.exiting = TRUE
        /\ s.range # NoList => s.node # NullNode
    BY <1>0, NewScopeType DEF NewScope
  <2>2. IF IsLoop(cursor) THEN UpdateLoop(tt)
                          ELSE scopes' = tt /\ ret' = GetNext(cursor) /\ UNCHANGED lists
    BY <1>0, <1>6 DEF EnterScope
  <2>3. Len(scopes) < MaxDepth
    BY <1>0, <1>6 DEF EnterScope, Depth
  <2> HIDE DEF s
  <2>4. /\ WellFormed(tt) /\ Len(tt) = Len(scopes) + 1 /\ tt[Len(tt)] = s
        /\ \A k \in 1..Len(scopes) : tt[k] = scopes[k]
    <3>1. WellFormed(tt) /\ Len(tt) = Len(scopes) + 1
      BY <1>0, <2>1, <2>3, PushKeepsStack
    <3> QED
      BY <1>2, <2>1, <3>1
  <2> HIDE DEF tt
  <2>5. CASE IsLoop(cursor)
    <3>1. visited' \in [ListIds -> Seq(Elems)] /\ ElementsVisitedOnce'
      <4>1. tt[Len(tt)].node = cursor /\ UpdateLoop(tt)
        BY <2>1, <2>2, <2>4, <2>5
      <4> QED
        BY <1>0, <2>4, <2>5, <4>1, LoopStepRecords
    <3>2. /\ Len(scopes') = Len(tt)
          /\ \A k \in 1..Len(tt) : scopes'[k].node = tt[k].node
      BY <1>0, <2>2, <2>4, <2>5, UpdateLoopTakes
    <3>3. \A k \in 2..Len(tt) : tt[k].node \in Nodes /\ IsLoop(tt[k].node)
      BY <1>0, <1>2, <2>1, <2>4, <2>5
    <3>4. WalkStack'
      BY <1>2, <2>4, <3>2, <3>3 DEF WalkStack, Depth, IsLoop
    <3> QED
      BY <1>0, <1>1, <3>1, <3>4 DEF WalkInv
  <2>6. CASE ~IsLoop(cursor)
    <3>1. scopes' = tt /\ cursor' = NullNode /\ UNCHANGED lists /\ visited' = visited
      BY <1>0, <2>2, <2>6 DEF GetNext, EnterBody
    <3>2. \A k \in 2..Len(tt) : /\ tt[k].node \in Nodes
                                /\ k < Len(tt) => IsLoop(tt[k].node)
                                /\ k = Len(tt) => tt[k].exiting = TRUE
      BY <1>0, <1>2, <2>1, <2>4
    <3>3. WalkStack'
      BY <1>2, <2>4, <3>1, <3>2 DEF WalkStack, Depth, IsLoop
    <3> QED
      BY <1>0, <1>1, <1>3, <3>1, <3>3 DEF WalkInv
  <2> QED
    BY <2>5, <2>6
<1> QED
  BY <1>4, <1>5, <1>6

\* The end of a body: back to the loop it is of, or on behind it.
LEMMA LeaveBodyKeeps == ASSUME WalkInv, LeaveBody PROVE WalkInv'
<1>0. /\ Inv /\ WellFormed(scopes) /\ cursor = NullNode /\ Depth > 1 /\ ExitScope
      /\ cursor' = ret' /\ UNCHANGED <<given, visited, lists>> /\ WalkStack
  BY DEF WalkInv, Inv, LeaveBody, ExitScope
<1>1. Inv' /\ cursor' \in NodeOrNull
  <2>1. Inv'
    BY <1>0, ExitScopeInv
  <2> QED
    BY <1>0, <2>1 DEF Inv, TypeOK
<1>2. ElementsVisitedOnce'
  BY <1>0 DEF WalkInv, ElementsVisitedOnce
<1>3. /\ scopes \in Seq(Scope) /\ Len(scopes) \in Nat /\ Depth = Len(scopes)
      /\ Len(scopes) > 1 /\ Front = scopes[Len(scopes)]
      /\ Front \in Scope /\ Front.ctrl /\ Front.node \in Nodes
      /\ ~Front.exiting => IsLoop(Front.node)
      /\ \A k \in 2..Len(scopes) : /\ scopes[k].node \in Nodes
                                   /\ k < Len(scopes) => IsLoop(scopes[k].node)
  BY <1>0, BoundAssumption DEF WellFormed, Depth, Front, WalkStack
<1>4. CASE ~Front.exiting
  <2> DEFINE s == [Front EXCEPT !.vars = Nothing]
  <2>1. scopes' = [scopes EXCEPT ![Len(scopes)] = s]
    BY <1>0, <1>3, <1>4 DEF ExitScope
  <2>2. s.node = Front.node
    BY <1>3 DEF Scope
  <2> HIDE DEF s
  <2>3. /\ Len(scopes') = Len(scopes) /\ scopes'[Len(scopes)] = s
        /\ \A k \in 1..Len(scopes) : k # Len(scopes) => scopes'[k] = scopes[k]
    BY <1>3, <2>1
  <2>4. \A k \in 2..Len(scopes') : scopes'[k].node \in Nodes /\ IsLoop(scopes'[k].node)
    BY <1>3, <1>4, <2>2, <2>3
  <2>5. WalkStack'
    BY <2>4 DEF WalkStack, Depth, IsLoop
  <2> QED
    BY <1>0, <1>1, <1>2, <2>5 DEF WalkInv
<1>5. CASE Front.exiting
  <2>1. scopes' = SubSeq(scopes, 1, Len(scopes) - 1)
    <3>1. Front.node # NullNode
      BY <1>3, NodeAssumption
    <3> QED
      BY <1>0, <1>3, <1>5, <3>1 DEF ExitScope
  <2>2. /\ Len(scopes') = Len(scopes) - 1
        /\ \A k \in 1..Len(scopes') : scopes'[k] = scopes[k]
    BY <1>3, <2>1
  <2>3. \A k \in 2..Len(scopes') : scopes'[k].node \in Nodes /\ IsLoop(scopes'[k].node)
    BY <1>3, <2>2
  <2>4. WalkStack'
    BY <2>3 DEF WalkStack, Depth, IsLoop
  <2> QED
    BY <1>0, <1>1, <1>2, <2>4 DEF WalkInv
<1> QED
  BY <1>4, <1>5

\* An element that a task appends is one more to visit.
LEMMA ExtendKeeps ==
    ASSUME WalkInv, NEW name \in Names, NEW e \in Elems, Extend(name, e)
    PROVE  WalkInv'
<1> DEFINE r == Lookup(name)
<1>1. /\ Inv /\ ExtendList(name, e) /\ UNCHANGED <<cursor, visited, scopes>>
      /\ r \in ListIds
      /\ given' = [given EXCEPT ![r] = Append(@, e)]
      /\ lists' = [lists EXCEPT ![r] = Append(@, e)]
      /\ given \in [ListIds -> Seq(Elems)] /\ visited \in [ListIds -> Seq(Elems)]
      /\ lists \in [ListIds -> Seq(Elems)] /\ cursor \in NodeOrNull
      /\ WalkStack /\ ElementsVisitedOnce
  BY DEF WalkInv, Inv, TypeOK, Extend, ExtendList
<1>2. Inv'
  BY <1>1, ExtendListInv
<1> HIDE DEF r
<1>3. /\ given'[r] = Append(given[r], e) /\ lists'[r] = Append(lists[r], e)
      /\ \A l \in ListIds \ {r} : given'[l] = given[l] /\ lists'[l] = lists[l]
      /\ given' \in [ListIds -> Seq(Elems)]
  BY <1>1
<1>4. given'[r] = visited[r] \o lists'[r]
  <2>1. given[r] = visited[r] \o lists[r]
    BY <1>1 DEF ElementsVisitedOnce
  <2>2. Append(visited[r] \o lists[r], e) = visited[r] \o Append(lists[r], e)
    <3>1. visited[r] \in Seq(Elems) /\ lists[r] \in Seq(Elems)
      BY <1>1
    <3> QED
      BY <3>1, ElementAdded
  <2> QED
    BY <1>3, <2>1, <2>2
<1>5. \A l \in ListIds : given'[l] = visited[l] \o lists'[l]
  BY <1>1, <1>3, <1>4 DEF ElementsVisitedOnce
<1>6. ElementsVisitedOnce'
  BY <1>1, <1>5 DEF ElementsVisitedOnce
<1>7. WalkStack'
  BY <1>1 DEF WalkStack, Depth, IsLoop
<1> QED
  BY <1>1, <1>2, <1>3, <1>6, <1>7 DEF WalkInv

\* Every step of the walk keeps its invariant.
LEMMA WalkNextInv == WalkInv /\ [WalkNext]_walkVars => WalkInv'
<1> SUFFICES ASSUME WalkInv, [WalkNext]_walkVars PROVE WalkInv'
  OBVIOUS
<1>1. CASE EnterBody
  BY <1>1, EnterBodyKeeps
<1>2. CASE LeaveBody
  BY <1>2, LeaveBodyKeeps
<1>3. ASSUME NEW name \in Names, NEW e \in Elems, Extend(name, e) PROVE WalkInv'
  BY <1>3, ExtendKeeps
<1>4. CASE UNCHANGED walkVars
  <2>1. Inv'
    BY <1>4, NextInv DEF WalkInv, walkVars
  <2>2. WalkStack' /\ ElementsVisitedOnce'
    BY <1>4 DEF WalkInv, WalkStack, Depth, IsLoop, ElementsVisitedOnce, walkVars, vars
  <2> QED
    BY <1>4, <2>1, <2>2 DEF WalkInv, walkVars
<1> QED
  BY <1>1, <1>2, <1>3, <1>4 DEF WalkNext, Rest

\* However loops are nested and share their lists, and whatever their bodies
\* append, no element is visited twice or lost.
THEOREM ElementsVisitedOnceHolds == WalkSpec => []ElementsVisitedOnce
<1>1. WalkInv => ElementsVisitedOnce
  BY DEF WalkInv
<1> QED
  BY <1>1, WalkInitInv, WalkNextInv, PTL DEF WalkSpec
=============================================================================
