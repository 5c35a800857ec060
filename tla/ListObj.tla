------------------------------ MODULE ListObj ------------------------------
(***************************************************************************)
(* List variables and what may be done to them: ListObjUtils and           *)
(* VariableUtils (lib/variables/Variables.{hpp,cpp}) and the tasks that     *)
(* change a list (lib/taskFactory/SocialGamingTaskFactory.cpp).            *)
(*                                                                         *)
(* A Variable shares the varType it holds with its copies, so a list is a  *)
(* sequence of cells, the varType objects, and two positions may hold the  *)
(* same cell.  "ext" is a Variable that a caller has at hand.              *)
(***************************************************************************)
EXTENDS Integers, Sequences, FiniteSets, SequencesExt

CONSTANTS
    ListNames,    \* the list variables
    Cells,        \* varType objects
    NoCell,       \* a null shared_ptr
    Ints, Strs,   \* scalar values: ints and strings
    MaxSize       \* bound: elements of a list

ASSUME CellAssumption == NoCell \notin Cells
ASSUME ValueAssumption == Ints \cap Strs = {}
ASSUME SizeAssumption == MaxSize \in Nat

VARIABLES
    list,      \* list name -> sequence of cells
    heap,      \* cell -> its value
    ext,       \* the cell of the caller's Variable, or NoCell
    lent,      \* history: cells inserted as a Variable, not as a value
    call,      \* the last call: its name, its list, its index
    outcome    \* how it ended

vars == <<list, heap, ext, lent, call, outcome>>

Scalars == Ints \cup Strs
Outcomes == {"ok", "true", "false", "null", "out_of_range", "bad_arg", "undefined"}
Calls == {"none", "push_back", "insert_at", "remove_at", "remove", "get_at", "contains",
          "compare", "reverse", "shuffle", "extend", "set", "new"}
Index == -(MaxSize + 1)..(MaxSize + 1)

SameType(v, w) == (v \in Ints) = (w \in Ints)

InUse == {ext} \cup UNION {Range(list[l]) : l \in ListNames}
Free == Cells \ InUse

\* A call that undefined behaviour followed has no successor.
Ready == outcome # "undefined"

\* make_shared of a new varType.
NewCell(c, v) == heap' = [heap EXCEPT ![c] = v] /\ lent' = lent \ {c}

Done(name, l, i, how) ==
    call' = [op |-> name, list |-> l, index |-> i] /\ outcome' = how

Init ==
    /\ list = [l \in ListNames |-> <<>>]
    /\ heap \in [Cells -> Scalars] /\ \A c, d \in Cells : heap[c] = heap[d]
    /\ ext = NoCell
    /\ lent = {}
    /\ \E l \in ListNames : call = [op |-> "none", list |-> l, index |-> 0]
    /\ outcome = "ok"

-----------------------------------------------------------------------------
(* Positions.  A position of the model counts from 1.                       *)

\* insert_helper: a negative index counts from the end.  What is below -size
\* is refused by its absolute value, so the first "size" of them are not.
FromEnd(s, i) == IF i < 0 THEN Len(s) + i ELSE i
Abs(i) == IF i < 0 THEN -i ELSE i
InsertOutcome(s, i) ==
    LET t == FromEnd(s, i)
    IN  IF Abs(t) > Len(s) THEN "out_of_range" ELSE IF t < 0 THEN "undefined" ELSE "ok"

\* remove_at: too large an index is ignored, and size itself erases end().
RemoveAtOutcome(s, i) ==
    CASE Abs(i) > Len(s) -> "ok"
      [] i = Len(s) -> "undefined"
      [] OTHER -> "ok"

\* get_at: too large an index gives a null pointer, and size itself throws.
GetAtOutcome(s, i) ==
    CASE Abs(i) > Len(s) -> "null"
      [] i = Len(s) -> "out_of_range"
      [] OTHER -> "ok"

-----------------------------------------------------------------------------
(* Operations *)

\* Plausible slip: a null shared_ptr pushed.
PushNull(s, v, c) == Append(s, NoCell)

\* push_back makes a Variable of its own for the value.
PushBackOf(s, v, c) == Append(s, c)
PushBack(l, v) ==
    /\ Ready /\ Len(list[l]) < MaxSize
    /\ \E c \in Free :
         /\ list' = [list EXCEPT ![l] = PushBackOf(@, v, c)]
         /\ NewCell(c, v)
    /\ Done("push_back", l, 0, "ok")
    /\ UNCHANGED ext

InsertOf(s, i, c) == InsertAt(s, FromEnd(s, i) + 1, c)

\* insert_at with a value, and with a Variable, whose cell is shared.
InsertValueAt(l, v, i) ==
    /\ Ready /\ Len(list[l]) < MaxSize
    /\ LET how == InsertOutcome(list[l], i)
       IN  /\ IF how = "ok"
              THEN \E c \in Free :
                     /\ list' = [list EXCEPT ![l] = InsertOf(@, i, c)]
                     /\ NewCell(c, v)
              ELSE UNCHANGED <<list, heap, lent>>
           /\ Done("insert_at", l, i, how)
    /\ UNCHANGED ext

InsertVariableAt(l, i) ==
    /\ Ready /\ ext # NoCell /\ Len(list[l]) < MaxSize
    /\ LET how == InsertOutcome(list[l], i)
       IN  /\ IF how = "ok"
              THEN /\ list' = [list EXCEPT ![l] = InsertOf(@, i, ext)]
                   /\ lent' = lent \cup {ext}
              ELSE UNCHANGED <<list, lent>>
           /\ Done("insert_at", l, i, how)
    /\ UNCHANGED <<heap, ext>>

RemoveAtIndex(l, i) ==
    /\ Ready
    /\ LET how == RemoveAtOutcome(list[l], i)
       IN  /\ list' = IF how = "ok" /\ Abs(i) <= Len(list[l])
                      THEN [list EXCEPT ![l] = RemoveAt(@, FromEnd(@, i) + 1)]
                      ELSE list
           /\ Done("remove_at", l, i, how)
    /\ UNCHANGED <<heap, ext, lent>>

\* Plausible slip: taken off the wrong end.
RemoveBack(s, n) == SubSeq(s, 1, Len(s) - n)
RemoveFront(s, n) == SubSeq(s, n + 1, Len(s))

\* remove: a count below 0 returns; any other call ends in the throw, also
\* after it has erased.
RemoveN(l, n) ==
    /\ Ready
    /\ IF n < 0
       THEN UNCHANGED list /\ Done("remove", l, n, "ok")
       ELSE /\ list' = IF n <= Len(list[l])
                       THEN [list EXCEPT ![l] = RemoveFront(@, n)] ELSE list
            /\ Done("remove", l, n, "bad_arg")
    /\ UNCHANGED <<heap, ext, lent>>

\* get_at hands out the element itself.
GetAt(l, i) ==
    /\ Ready
    /\ LET how == GetAtOutcome(list[l], i)
       IN  /\ ext' = CASE how = "ok" -> list[l][FromEnd(list[l], i) + 1]
                       [] how = "null" -> NoCell
                       [] OTHER -> ext
           /\ Done("get_at", l, i, how)
    /\ UNCHANGED <<list, heap, lent>>

\* contains: isEqual throws at the first element of another type, unless an
\* equal one comes before it.
ContainsValue(l, v) ==
    /\ Ready
    /\ LET s == list[l]
           stops == {k \in 1..Len(s) : heap[s[k]] = v \/ ~SameType(heap[s[k]], v)}
       IN  Done("contains", l, 0,
                IF stops = {} THEN "false"
                ELSE IF heap[s[CHOOSE k \in stops : \A j \in stops : k <= j]] = v
                THEN "true" ELSE "bad_arg")
    /\ UNCHANGED <<list, heap, ext, lent>>

\* compare of two lists: both are taken from the first one.
CompareLists(l, m) ==
    /\ Ready
    /\ LET list1 == list[l]
           list2 == list[l]
       IN  Done("compare", l, 0,
                IF \A k \in 1..Len(list1) : heap[list1[k]] = heap[list2[k]]
                THEN "true" ELSE "false")
    /\ UNCHANGED <<list, heap, ext, lent>>

\* ReverseTask and ShuffleTask.
ReverseList(l) ==
    /\ Ready
    /\ list' = [list EXCEPT ![l] = Reverse(@)]
    /\ Done("reverse", l, 0, "ok")
    /\ UNCHANGED <<heap, ext, lent>>

Permuted(s) ==
    {[k \in 1..Len(s) |-> s[p[k]]] :
        p \in {f \in [1..Len(s) -> 1..Len(s)] : \A j, k \in 1..Len(s) : j # k => f[j] # f[k]}}
ShuffleList(l) ==
    /\ Ready
    /\ \E s \in Permuted(list[l]) : list' = [list EXCEPT ![l] = s]
    /\ Done("shuffle", l, 0, "ok")
    /\ UNCHANGED <<heap, ext, lent>>

\* Plausible slip: the elements of the source shared.
ExtendShared(s, cs, source) == s \o source
ExtendOf(s, cs, source) == s \o cs

\* ExtendTask holds its own vector of the source's elements and pushes a
\* copy of each, also when a list is extended by itself.
Extend(l, m) ==
    /\ Ready /\ Len(list[l]) + Len(list[m]) <= MaxSize
    /\ \E cs \in [1..Len(list[m]) -> Free] :
         /\ IsInjective(cs)
         /\ list' = [list EXCEPT ![l] = ExtendOf(@, cs, list[m])]
         /\ heap' = [c \in Cells |->
                       IF c \in Range(cs)
                       THEN heap[list[m][CHOOSE k \in DOMAIN cs : cs[k] = c]]
                       ELSE heap[c]]
         /\ lent' = lent \ Range(cs)
    /\ Done("extend", l, 0, "ok")
    /\ UNCHANGED ext

\* makeVar, and Variable::set, which never changes the type.
NewVariable(v) ==
    /\ Ready
    /\ \E c \in Free : ext' = c /\ NewCell(c, v)
    /\ Done("new", call.list, 0, "ok")
    /\ UNCHANGED list

SetVariable(v) ==
    /\ Ready /\ ext # NoCell
    /\ IF SameType(heap[ext], v)
       THEN heap' = [heap EXCEPT ![ext] = v] /\ Done("set", call.list, 0, "ok")
       ELSE UNCHANGED heap /\ Done("set", call.list, 0, "bad_arg")
    /\ UNCHANGED <<list, ext, lent>>

Next ==
    \/ \E l \in ListNames, v \in Scalars : PushBack(l, v) \/ ContainsValue(l, v)
    \/ \E l \in ListNames, v \in Scalars, i \in Index : InsertValueAt(l, v, i)
    \/ \E l \in ListNames, i \in Index :
         InsertVariableAt(l, i) \/ RemoveAtIndex(l, i) \/ RemoveN(l, i) \/ GetAt(l, i)
    \/ \E l \in ListNames : ReverseList(l) \/ ShuffleList(l)
    \/ \E l, m \in ListNames : Extend(l, m) \/ CompareLists(l, m)
    \/ \E v \in Scalars : NewVariable(v) \/ SetVariable(v)

Spec == Init /\ [][Next]_vars

-----------------------------------------------------------------------------
(* Properties *)

\* Type invariant.
TypeOK ==
    /\ \A l \in ListNames : list[l] \in Seq(Cells) /\ Len(list[l]) <= MaxSize
    /\ heap \in [Cells -> Scalars]
    /\ ext \in Cells \cup {NoCell}
    /\ lent \subseteq Cells
    /\ call.op \in Calls /\ call.list \in ListNames
    /\ outcome \in Outcomes

\* Positions share a value only if a Variable was inserted there: values
\* pushed, inserted or extended from another list are copies, so setting one
\* element through get_at changes no other element of this or another list.
CopiesAreIndependent ==
    \A l, m \in ListNames : \A j \in 1..Len(list[l]), k \in 1..Len(list[m]) :
        list[l][j] = list[m][k] /\ <<l, j>> # <<m, k>> => list[l][j] \in lent

Subsequence(s, t) ==
    \E f \in [1..Len(s) -> 1..Len(t)] :
        /\ \A j, k \in 1..Len(s) : j < k => f[j] < f[k]
        /\ \A k \in 1..Len(s) : s[k] = t[f[k]]

\* What a step keeps of the order of each list.
KeepsOrder ==
    \A l \in ListNames :
        /\ call'.op \notin {"reverse", "shuffle"} =>
             Subsequence(list[l], list'[l]) \/ Subsequence(list'[l], list[l])
        /\ call'.op = "remove" => IsSuffix(list'[l], list[l])
        /\ \A i \in 0..MaxSize :
             /\ call' = [op |-> "insert_at", list |-> l, index |-> i]
             /\ Len(list'[l]) > Len(list[l])
             => /\ GetAtOutcome(list'[l], i) = "ok"
                /\ RemoveAt(list'[l], FromEnd(list'[l], i) + 1) = list[l]

\* No call but reverse and shuffle changes the order of what stays: of the
\* list before and the list after, one is a subsequence of the other.
\* remove takes the given number of elements off the front or nothing.  What
\* is inserted at a valid index that counts from the front is what get_at
\* gives for it, and every other element keeps its place in order.
OrderIsKept == [][KeepsOrder]_vars
=============================================================================
