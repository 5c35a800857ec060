-------------------------- MODULE MCEnvironmentMgr --------------------------
(***************************************************************************)
(* Instances of EnvironmentMgr for TLC.  The rule nodes are a loop over the*)
(* list variable "l" and a match behind it; list elements are Booleans,    *)
(* like the flags of timers.                                               *)
(***************************************************************************)
EXTENDS EnvironmentMgr

MCNodes == {"loop", "match"}
MCNodeType == [n \in Nodes |-> IF n = "loop" THEN "FOR" ELSE "MATCH"]
MCDataSize == [n \in Nodes |-> IF n = "loop" THEN 3 ELSE 1]
MCLoopVar == [n \in Nodes |-> "x"]
MCListVar == [n \in Nodes |-> IF n = "loop" THEN "l" ELSE "x"]
MCNextNode == [n \in Nodes |-> IF n = "loop" THEN "match" ELSE NullNode]
MCChildNode == [n \in Nodes |-> IF n = "loop" THEN "match" ELSE NullNode]

TimerSpec(id, type, flag, next, duration) ==
    [id |-> id, type |-> type, flag |-> flag, next |-> next, duration |-> duration]

\* Two ids, so that ids and depths may disagree in order; a flag that two
\* timers share; one id that a STOP and a PAD timer replace one another under.
MCTimers == {TimerSpec(1, "STOP", "x", "match", 0),
             TimerSpec(2, "STOP", NoFlag, NullNode, 0),
             TimerSpec(2, "PAD", "x", NullNode, 0)}
=============================================================================
