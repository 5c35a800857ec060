---------------------------- MODULE MCGameServer ----------------------------
(***************************************************************************)
(* Instance of GameServer for TLC: addresses are interchangeable.          *)
(***************************************************************************)
EXTENDS GameServer, TLC

ConnSymmetry == Permutations(Conns)
=============================================================================
