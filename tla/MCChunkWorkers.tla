--------------------------- MODULE MCChunkWorkers ---------------------------
(***************************************************************************)
(* An instance of ChunkWorkers for TLC.  Races r1 and r2 share their       *)
(* start, so that two workers can pass the check with one key; r2 is not   *)
(* recent, r3 is a team event and r4 has no result of the driver.  A race  *)
(* stored before it is checked is one of r1 and r2 after the other.        *)
(***************************************************************************)
EXTENDS ChunkWorkers, TLC

CONSTANTS w1, w2, r1, r2, r3, r4

MCStartOf ==
  [r \in Races |-> (r1 :> 1 @@ r2 :> 1 @@ r3 :> 3 @@ r4 :> 4)[r]]
============================================================================
