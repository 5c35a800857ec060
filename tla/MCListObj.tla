----------------------------- MODULE MCListObj -----------------------------
(***************************************************************************)
(* Instance of ListObj for TLC: cells and lists are interchangeable.       *)
(***************************************************************************)
EXTENDS ListObj

ListSymmetry == Permutations(Cells) \cup Permutations(ListNames)
=============================================================================
