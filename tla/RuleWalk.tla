------------------------------ MODULE RuleWalk ------------------------------
(***************************************************************************)
(* The way a game's rules are walked through EnvironmentMgr, as the loop   *)
(* test drives it (lib/variables/tests/EnvMgr_test.cpp): enterScope on a    *)
(* control-flow node, exitScope at the end of a body, and on to whichever  *)
(* node the call returned.  ExtendTask may append to a list at any time.   *)
(***************************************************************************)
EXTENDS EnvironmentMgr

CONSTANTS
    Root,          \* the first rule
    Globals,       \* the ways game setup may bind names to list objects
    Contents,      \* the contents the lists may have when the rules start
    MaxGiven       \* bound: elements a list holds over time

ASSUME WalkAssumption ==
    /\ Root \in NodeOrNull
    /\ Globals \subseteq [Names -> Values \cup {Unbound}]
    /\ Contents \subseteq [ListIds -> Lists]

VARIABLES
    cursor,     \* the node to be executed next
    given,      \* history: everything each list ever held, in order
    visited     \* history: the elements loops took off each list, in order

walkVars == <<vars, cursor, given, visited>>

WalkInit ==
    /\ \E content \in Contents : lists = content /\ given = content
    /\ \E bindings \in Globals : scopes = <<[BaseScope EXCEPT !.vars = bindings]>>
    /\ timers = EmptyTimers
    /\ now = 0 /\ ret = NullNode /\ block = FALSE /\ status = "ok" /\ upd = Idle
    /\ cursor = Root
    /\ visited = [l \in ListIds |-> <<>>]

\* One iteration: the loop's list and the element it takes, if it has one.
EnterBody ==
    /\ cursor # NullNode
    /\ EnterScope(cursor)
    /\ LET l == scopes'[Len(scopes')].range
       IN  visited' = IF status' = "ok" /\ IsLoop(cursor) /\ lists[l] # <<>>
                      THEN [visited EXCEPT ![l] = Append(@, LookupIn(scopes', LoopVar[cursor]))]
                      ELSE visited
    /\ cursor' = ret'
    /\ UNCHANGED given

LeaveBody ==
    /\ cursor = NullNode
    /\ Depth > 1
    /\ ExitScope
    /\ cursor' = ret'
    /\ UNCHANGED <<given, visited>>

Finished == cursor = NullNode /\ Depth = 1

\* ExtendTask of some rule.
Extend(name, e) ==
    /\ ~Finished
    /\ ExtendList(name, e)
    /\ Len(given[Lookup(name)]) < MaxGiven
    /\ given' = [given EXCEPT ![Lookup(name)] = Append(@, e)]
    /\ UNCHANGED <<cursor, visited>>

\* The rules are over; the driver makes no more calls.
Rest == Finished /\ UNCHANGED walkVars

Walk == EnterBody \/ LeaveBody

WalkNext ==
    \/ EnterBody
    \/ LeaveBody
    \/ \E name \in Names, e \in Elems : Extend(name, e)
    \/ Rest

\* The driver does not stop between two rules.
WalkSpec == WalkInit /\ [][WalkNext]_walkVars /\ WF_walkVars(Walk)

-----------------------------------------------------------------------------
(* Properties *)

\* Every element a list ever held is visited at most once, in the order of
\* the list, and is still there if no loop visited it: nested loops that
\* share a list object, aliases of it and appends in a body neither repeat
\* nor lose an element.
ElementsVisitedOnce ==
    \A l \in ListIds : given[l] = visited[l] \o lists[l]

\* No two global names share a list object.
Unshared ==
    \A m, n \in Names :
        scopes[1].vars[m] = scopes[1].vars[n] /\ scopes[1].vars[m] # Unbound => m = n

\* The rules come to an end if no two names share a list: each loop is left
\* after finitely many iterations, whatever ExtendTask appends within its
\* bound, even where an exhausted list has a loop enter its body once more.
\* (A loop that empties the list of the loop around it keeps that one going
\* for ever: updateLoop on an empty list returns the body and does not exit.)
RulesEnd == Unshared => <>Finished
=============================================================================
