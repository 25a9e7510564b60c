-------------------------- MODULE SerialIngestion --------------------------
(***************************************************************************)
(* What the ingestion of a driver promises to the rest of the system, with *)
(* no lock, queue, window or clock in it: rounds happen one at a time, a   *)
(* race is stored once and only by a round, and races_ingested_to moves    *)
(* only forward and only over races that are all stored.                   *)
(***************************************************************************)
EXTENDS Integers

CONSTANTS Invocations, Races, Skipped, StartTime, FinishTime, MemberSince, Buffer

VARIABLES
  workers,      \* the invocation running a round, if there is one
  sessions,     \* the races stored
  ingestedTo    \* races_ingested_to

vars == <<workers, sessions, ingestedTo>>

Stored(r) == \E s \in sessions : StartTime[s] = StartTime[r]

CoveredUpTo(t) ==
  \A r \in Races \ Skipped :
    MemberSince <= FinishTime[r] /\ FinishTime[r] <= t => Stored(r)

Init ==
  /\ workers = {}
  /\ sessions = {}
  /\ ingestedTo = -1

Begin ==
  /\ workers = {}
  /\ \E i \in Invocations : workers' = {i}
  /\ UNCHANGED <<sessions, ingestedTo>>

Store(r) ==
  /\ workers # {}
  /\ r \notin Skipped /\ ~Stored(r)
  /\ sessions' = sessions \cup {r}
  /\ UNCHANGED <<workers, ingestedTo>>

Advance ==
  /\ workers # {}
  /\ ingestedTo' >= ingestedTo
  /\ CoveredUpTo(ingestedTo' - Buffer)
  /\ UNCHANGED <<workers, sessions>>

\* A round ends, in whatever way: done, failed, out of time or crashed.
End ==
  /\ workers # {}
  /\ workers' = {}
  /\ UNCHANGED <<sessions, ingestedTo>>

Next == Begin \/ (\E r \in Races : Store(r)) \/ Advance \/ End

Spec == Init /\ [][Next]_vars
============================================================================
