------------------------------ MODULE MCCaching ------------------------------
(***************************************************************************)
(* Instances of Caching for TLC.                                           *)
(***************************************************************************)
EXTENDS Caching, TLC

CONSTANTS p1, p2, a1, a2
============================================================================
