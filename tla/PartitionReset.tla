--------------------------- MODULE PartitionReset ---------------------------
(***************************************************************************)
(* DELETE /driver/{id}/races beside the ingestion: DeleteDriverRaces       *)
(* queries the keys of the driver's partition, deletes every row but info  *)
(* in batches that are not atomic, and then resets the info row.  It takes *)
(* no lock; the ingestion_lock row is one of the rows it deletes.          *)
(***************************************************************************)
EXTENDS RaceIngestion

CONSTANTS
  PageSize,     \* rows one Query page returns (1 MB in DynamoDB)
  MaxResets     \* bound of the model

ASSUME ResetAssumption == PageSize \in Nat /\ MaxResets \in Nat

VARIABLES
  reset,        \* the request being served and the keys left to delete
  clean,        \* the last reset to touch the partition ended, overlapped by
                \* no round, with all keys on its page and every delete
                \* processed, and no round has started from a replica that
                \* had not seen it (history)
  resets        \* requests so far, at most MaxResets

resetVars == <<reset, clean, resets>>
allVars == <<vars, resetVars>>

NoReset == [pc |-> "idle", lockKey |-> FALSE, rows |-> {}, quiet |-> FALSE]

RoundUnderWay == \E i \in Invocations : InCritical(i)

ResetInit == Init /\ reset = NoReset /\ clean = TRUE /\ resets = 0

\* The keys of one Query page, in sort-key order: the lock row is among them,
\* and the sessions of the earliest start times.
Page ==
  {r \in sessions :
     Cardinality({s \in sessions : StartTime[s] < StartTime[r]}) < PageSize}

QueryPartition ==
  /\ resets < MaxResets
  /\ reset.pc = "idle"
  /\ resets' = resets + 1
  /\ reset' = [pc |-> "deleting", lockKey |-> (lock # NoLock), rows |-> Page,
               quiet |-> ~RoundUnderWay /\ Page = sessions]
  /\ UNCHANGED <<vars, clean>>

DeleteLockRow ==
  /\ reset.pc = "deleting"
  /\ reset.lockKey
  /\ lock' = NoLock
  /\ reset' = [reset EXCEPT !.lockKey = FALSE]
  /\ clean' = FALSE
  /\ UNCHANGED <<now, published, ingestedTo, ingestedBefore, sessions, sessionCount,
                 msgs, inv, request, staleTold, requests, faults, resets>>

DeleteSessionRow(r) ==
  /\ reset.pc = "deleting"
  /\ r \in reset.rows
  /\ sessions' = {s \in sessions : StartTime[s] # StartTime[r]}
  /\ reset' = [reset EXCEPT !.rows = @ \ {r}]
  /\ clean' = FALSE
  /\ UNCHANGED <<now, published, lock, ingestedTo, ingestedBefore, sessionCount,
                 msgs, inv, request, staleTold, requests, faults, resets>>

\* BatchWriteItem leaves some deletes unprocessed, and says so in an answer
\* that is not looked at.
LeaveUnprocessed ==
  /\ reset.pc = "deleting"
  /\ Fault("call")
  /\ \/ reset.lockKey /\ reset' = [reset EXCEPT !.lockKey = FALSE, !.quiet = FALSE]
     \/ \E r \in reset.rows :
          reset' = [reset EXCEPT !.rows = @ \ {r}, !.quiet = FALSE]
  /\ UNCHANGED <<now, published, store, msgs, inv, request, staleTold, requests,
                 clean, resets>>

\* A batch fails, or the API Lambda dies: the rows deleted stay deleted.
ResetFails ==
  /\ reset.pc = "deleting"
  /\ Fault("call")
  /\ reset' = NoReset
  /\ UNCHANGED <<now, published, store, msgs, inv, request, staleTold, requests,
                 clean, resets>>

\* Mutant: races_ingested_to survives the reset.
ResetInfoMutant ==
  /\ reset.pc = "deleting"
  /\ ~reset.lockKey /\ reset.rows = {}
  /\ sessionCount' = 0
  /\ clean' = reset.quiet
  /\ reset' = NoReset
  /\ UNCHANGED <<now, published, lock, ingestedTo, ingestedBefore, sessions, msgs,
                 inv, request, staleTold, requests, faults, resets>>

\* Every key found is deleted: "REMOVE races_ingested_to SET session_count = 0".
ResetInfo ==
  /\ reset.pc = "deleting"
  /\ ~reset.lockKey /\ reset.rows = {}
  /\ ingestedTo' = Never /\ ingestedBefore' = ingestedTo
  /\ sessionCount' = 0
  /\ clean' = reset.quiet
  /\ reset' = NoReset
  /\ UNCHANGED <<now, published, lock, sessions, msgs, inv, request, staleTold,
                 requests, faults, resets>>

ResetNext ==
  \/ QueryPartition \/ DeleteLockRow \/ LeaveUnprocessed \/ ResetFails \/ ResetInfo
  \/ \E r \in Races : DeleteSessionRow(r)

\* The eventually consistent GetDriver of this step gets the watermark of before
\* the reset: its window starts where the rows of older races are gone.
ReadsOldWatermark(i) ==
  /\ ingestedBefore > ingestedTo
  /\ inv[i].pc = "driver" /\ inv'[i].pc = "search"
  /\ inv'[i].from # RangeBegin(ingestedTo)

\* A step of the ingestion; a round under way disturbs a reset in progress.
IngestionStep ==
  /\ Next
  /\ reset' = [reset EXCEPT !.quiet = @ /\ ~RoundUnderWay']
  /\ clean' = (clean /\ \A i \in Invocations : ~ReadsOldWatermark(i))
  /\ UNCHANGED resets

ResetSpec == ResetInit /\ [][IngestionStep \/ ResetNext]_allVars

----------------------------------------------------------------------------
(* Properties.                                                             *)

\* A reset that no round overlapped, whose page held every key and whose batches
\* were processed whole leaves a partition the ingestion is right about: nothing
\* lost behind the watermark and an exact session_count.  A reset that failed
\* half way, was overlapped, or left rows is healed by one that was not.
CleanPartitionConsistent == clean => NoLostRace /\ SessionCountExact

\* A round on a clean partition is alone, a reset in progress or not: resets
\* break the lock only of rounds they overlap.
CleanMutualExclusion == clean => MutualExclusion

============================================================================
