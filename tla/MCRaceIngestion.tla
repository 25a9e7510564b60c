-------------------------- MODULE MCRaceIngestion --------------------------
(***************************************************************************)
(* Instances of RaceIngestion for TLC.  The driver joined at 0 and first   *)
(* asks at 4, with a window of 4 and a buffer of 2: one round reaches 4    *)
(* and queues another, which starts at 2 and reaches the clock.  The       *)
(* results of r2 to r4 may appear after a search has passed their finish;  *)
(* r4 shares its start with r2.                                            *)
(***************************************************************************)
EXTENDS RaceIngestion, TLC

CONSTANTS i1, i2, m1, m2, m3, m4, r1, r2, r3, r4

MCStart == r1 :> 0 @@ r2 :> 2 @@ r3 :> 3 @@ r4 :> 2
MCFinish == r1 :> 1 @@ r2 :> 3 @@ r3 :> 4 @@ r4 :> 3

MCStartOf == [r \in Races |-> MCStart[r]]
MCFinishOf == [r \in Races |-> MCFinish[r]]

Symmetry == Permutations(Invocations) \cup Permutations(Messages)
============================================================================
