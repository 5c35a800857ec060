---------------------------- MODULE MCRuleWalk ----------------------------
(***************************************************************************)
(* Instances of RuleWalk for TLC: a loop "a" with a parallel loop "b" in   *)
(* its body, then a loop "c" over the list of "b".                         *)
(***************************************************************************)
EXTENDS RuleWalk

CONSTANTS l1, l2

MCNodes == {"a", "b", "c"}
MCNodeType == [n \in Nodes |-> IF n = "b" THEN "PARALLEL" ELSE "FOR"]
MCDataSize == [n \in Nodes |-> 3]
MCLoopVar == [n \in Nodes |-> IF n = "a" THEN "x" ELSE "y"]
MCListVar == [n \in Nodes |-> IF n = "a" THEN "rounds" ELSE "players"]
MCNextNode == [n \in Nodes |-> IF n = "a" THEN "c" ELSE NullNode]
MCChildNode == [n \in Nodes |-> IF n = "a" THEN "b" ELSE NullNode]

\* Each list variable has a list object of its own.
DistinctLists ==
    [n \in Names |-> IF n = "rounds" THEN l1 ELSE IF n = "players" THEN l2 ELSE Unbound]

\* Both names share one object, as after an assignment of one to the other.
SharedLists ==
    [n \in Names |-> IF n \in {"rounds", "players"} THEN l1 ELSE Unbound]

MCGlobals == {DistinctLists, SharedLists}
MCContents == [ListIds -> Lists]
=============================================================================
