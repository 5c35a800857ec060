---------------------------- MODULE FifoChannel ----------------------------
(***************************************************************************)
(* What a process may expect of the queue it reads from an Ambassador: a   *)
(* message is refused or accepted when it is sent, accepted messages come  *)
(* out once each in the order they went in, and they do come out if the    *)
(* reader stays and keeps asking.  A reader that comes finds what earlier  *)
(* ones left; what it took and did not give goes with it.                  *)
(***************************************************************************)
EXTENDS Sequences

CONSTANT Msgs
VARIABLES open, pipe, out

vars == <<open, pipe, out>>

Closed == ~open /\ pipe = <<>> /\ out = <<>>

Init == Closed

Come == ~open /\ open' /\ pipe' \in Seq(Msgs) /\ out' = <<>>

Go == open /\ Closed'

Accept(m) == open /\ pipe' = Append(pipe, m) /\ UNCHANGED <<open, out>>

Deliver ==
    /\ open /\ pipe # <<>>
    /\ out' = Append(out, Head(pipe))
    /\ pipe' = Tail(pipe)
    /\ UNCHANGED open

Next == Come \/ Go \/ Deliver \/ \E m \in Msgs : Accept(m)

Spec == Init /\ [][Next]_vars /\ WF_vars(Deliver)
=============================================================================
