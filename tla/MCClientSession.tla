--------------------------- MODULE MCClientSession ---------------------------
(***************************************************************************)
(* Instances of ClientSession for TLC.  One kind of reference data stands  *)
(* for the three; two places hold a request for ingestion and its          *)
(* repetition after a refresh; three sockets are one in use, one closing   *)
(* and an orphan, of which the run with every failure has two at a time.   *)
(***************************************************************************)
EXTENDS ClientSession

CONSTANTS r1, s1, s2, c1, c2, c3
============================================================================
