------------------------------ MODULE MCJournal ------------------------------
(***************************************************************************)
(* Instances of Journal for TLC.                                           *)
(***************************************************************************)
EXTENDS Journal, TLC

CONSTANTS a1, a2

Symmetry == Permutations(Calls)
============================================================================
