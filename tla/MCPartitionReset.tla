-------------------------- MODULE MCPartitionReset --------------------------
(***************************************************************************)
(* Instances of PartitionReset for TLC: two races, one in the overlap of   *)
(* the two windows that reach the clock, and one or two resets at any time.*)
(***************************************************************************)
EXTENDS PartitionReset, TLC

CONSTANTS i1, i2, m1, m2, m3, r1, r2

MCStart == r1 :> 0 @@ r2 :> 2
MCFinish == r1 :> 1 @@ r2 :> 3

Symmetry == Permutations(Invocations) \cup Permutations(Messages)
============================================================================
