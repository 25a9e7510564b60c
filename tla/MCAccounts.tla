----------------------------- MODULE MCAccounts -----------------------------
(***************************************************************************)
(* Instances of Login and WebSocket for TLC.                               *)
(***************************************************************************)
EXTENDS WebSocket, TLC

CONSTANTS d1, d2, c1, c2, a1, a2, i1, i2

Symmetry ==
  Permutations(Drivers) \cup Permutations(Conns) \cup Permutations(Calls) \cup Permutations(Invs)
============================================================================
