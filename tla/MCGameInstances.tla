-------------------------- MODULE MCGameInstances --------------------------
(***************************************************************************)
(* Instance of GameInstances for TLC: games are interchangeable.           *)
(***************************************************************************)
EXTENDS GameInstances

GameSymmetry == Permutations(Games)
=============================================================================
