---------------------------- MODULE MCGameTasks ----------------------------
(***************************************************************************)
(* Instance of GameTasks for TLC: two lists, a string that names one of    *)
(* them, an integer; every kind of task with arguments that fit, with the  *)
(* same list twice, and with ones of the wrong type.                       *)
(***************************************************************************)
EXTENDS GameTasks, TLC

CONSTANTS x, y, s, i, c1, c2

MCInitially ==
    x :> [type |-> "list", data |-> <<c1>>] @@ y :> [type |-> "list", data |-> <<c2>>]
        @@ s :> [type |-> "str", data |-> <<x>>] @@ i :> [type |-> "int", data |-> <<1>>]

MCArguments ==
    [reverse |-> {<<x>>, <<s>>, <<x, y>>}, shuffle |-> {<<x>>},
     extend |-> {<<x, x>>, <<x, y>>, <<y, x>>, <<x, s>>},
     input |-> {<<x, s, s>>}, choice |-> {<<x, s, s, y>>}, range |-> {<<x, s, s, i, i>>},
     message |-> {<<x, s>>, <<s, x>>},
     scores |-> {<<i, x, y, s>>},
     assignment |-> {<<s, y>>, <<s, x>>, <<s, i>>}]
=============================================================================
