-------------------------- MODULE HttpConversation --------------------------
(***************************************************************************)
(* What an HTTP/1.1 peer may expect of a connection: requests and answers  *)
(* alternate, one at a time, an answer does end, and after an upgrade      *)
(* nothing of HTTP is left on the socket.  "spoilt" is a connection that   *)
(* was told that its target is illegal; nothing is promised to it.         *)
(***************************************************************************)
CONSTANT Sessions
VARIABLE stage

Stages == {"idle", "reading", "answering", "spoilt", "down"}

Init == stage = [s \in Sessions |-> "idle"]

Move(s, from, to) == stage[s] \in from /\ stage' = [stage EXCEPT ![s] = to]

Connect(s) == Move(s, {"idle"}, "reading")
Request(s) == Move(s, {"reading"}, "answering")
Spoil(s) == Move(s, {"reading"}, "spoilt")
Answer(s) == \E to \in {"reading", "idle"} : Move(s, {"answering"}, to)
Leave(s) == Move(s, {"reading", "spoilt"}, "idle")

\* The server ends, with every connection.
GoDown == stage' = [s \in Sessions |-> "down"]

Next ==
    \/ \E s \in Sessions :
         Connect(s) \/ Request(s) \/ Spoil(s) \/ Answer(s) \/ Leave(s)
    \/ GoDown

Spec ==
    /\ Init /\ [][Next]_stage
    /\ \A s \in Sessions : WF_stage(Answer(s) \/ (stage[s] = "answering" /\ GoDown))
=============================================================================
