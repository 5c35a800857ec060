---------------------------- MODULE MCEventLoop ----------------------------
(***************************************************************************)
(* Instance of EventLoop for TLC: every game of up to MaxTasks tasks, and  *)
(* the shape of the one the source builds.                                 *)
(***************************************************************************)
EXTENDS EventLoop

CONSTANT MaxTasks

MCPrograms ==
    UNION {[1..n -> TaskTypes] : n \in 0..MaxTasks}
      \cup {<<"EXECUTABLE", "EXECUTABLE", "SERVER_MSG_CONTINUE", "SERVER_MSG_CONTINUE",
              "SERVER_MSG_WAIT", "SERVER_DISPLAY_MSG">>}
=============================================================================
