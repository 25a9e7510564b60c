------------------------ MODULE PartitionReset_proofs ------------------------
(***************************************************************************)
(* Theorems about a deletion of the driver's races beside the ingestion,   *)
(* for every value of the constants.  They rest on what RaceIngestion's    *)
(* own steps keep (LeaseStep, CoverStep, SessionStep): while clean holds   *)
(* no deletion has come between, and the reset that makes it hold leaves   *)
(* the partition as the ingestion finds it at first.                       *)
(***************************************************************************)
EXTENDS PartitionReset, RaceIngestion_proofs

Reset == [pc : {"idle", "deleting"}, lockKey : BOOLEAN, rows : SUBSET Races,
          quiet : BOOLEAN]

ResetTypeOK ==
  /\ TypeOK
  /\ reset \in Reset
  /\ clean \in BOOLEAN
  /\ resets \in Nat

\* What holds of invocations, results and workers whatever is deleted.
ActiveInv ==
  \A i \in Invocations :
    Active(i) => inv[i].started <= now /\ now <= inv[i].started + LambdaTimeout

\* The watermark is a time whatever window it comes from.
WatermarkInv ==
  /\ ingestedTo \in Nat \cup {Never} /\ ingestedBefore \in Nat \cup {Never}
  /\ \A i \in Invocations : inv[i].pc \in Searching => inv[i].to \in Nat

SavingInv == \A i \in Invocations : inv[i].saving \cap Skipped = {}

\* A request that may still end undisturbed has no round beside it, and every row
\* there is waits for its deletion.
QuietInv ==
  reset.quiet => /\ \A i \in Invocations : ~InCritical(i)
                 /\ sessions \subseteq reset.rows

\* On a clean partition everything holds that holds without deletions.
CleanInv == clean => LeaseInv /\ CoverInv /\ SessionInv

ResetInv ==
  /\ ActiveInv /\ WatermarkInv /\ PublishedInTime /\ SavingInv
  /\ QuietInv /\ CleanInv

----------------------------------------------------------------------------
(* The ingestion's own steps.                                               *)

\* No step of the ingestion outlives its timeout, whatever lock it holds.
LEMMA ActiveStep ==
  ASSUME TypeOK, ActiveInv, [Next]_vars
  PROVE  ActiveInv'
<1> USE DEF ActiveInv, Active
<1>1. ASSUME inv' = inv, now' = now PROVE ActiveInv'
  BY <1>1
<1>2. CASE Tick
  BY <1>2, TimesAssumption DEF Tick, TypeOK, Invocation
<1>3. ASSUME NEW i \in Invocations, now' = now,
             \A j \in Invocations : j # i => inv'[j] = inv[j],
             \/ inv'[i].pc = "idle"
             \/ inv'[i].started = now
             \/ Active(i) /\ inv'[i].started = inv[i].started
      PROVE  ActiveInv'
  BY <1>3, TimesAssumption DEF TypeOK, Invocation
<1>4. ASSUME NEW i \in Invocations, NEW r \in Races, SaveRace(i, r)
      PROVE  ActiveInv'
  BY <1>4 DEF SaveRace, Become, TypeOK, Invocation
<1>5. ASSUME NEW i \in Invocations, UpdateDriverRacesIngestedTo(i)
      PROVE  ActiveInv'
  BY <1>5 DEF UpdateDriverRacesIngestedTo, Goto, Become, TypeOK, Invocation
<1>6. QED
  BY <1>1, <1>2, <1>3, <1>4, <1>5, StepKinds

\* Results appear in time and workers never hold a race to be skipped.
LEMMA EnvironmentStep ==
  ASSUME TypeOK, PublishedInTime, SavingInv, [Next]_vars
  PROVE  PublishedInTime' /\ SavingInv'
<1> USE DEF PublishedInTime, SavingInv
<1>1. ASSUME inv' = inv, now' = now, published \subseteq published'
      PROVE  PublishedInTime' /\ SavingInv'
  BY <1>1
<1>2. CASE Tick
  BY <1>2 DEF Tick
<1>3. ASSUME NEW i \in Invocations, UNCHANGED <<now, published>>,
             \A j \in Invocations : j # i => inv'[j] = inv[j],
             inv'[i].saving \subseteq inv[i].saving \cup (Races \ Skipped)
      PROVE  PublishedInTime' /\ SavingInv'
  BY <1>3
<1>4. ASSUME NEW i \in Invocations, NEW r \in Races, SaveRace(i, r)
      PROVE  PublishedInTime' /\ SavingInv'
  BY <1>4 DEF SaveRace, Become, TypeOK, Invocation
<1>5. ASSUME NEW i \in Invocations, UpdateDriverRacesIngestedTo(i)
      PROVE  PublishedInTime' /\ SavingInv'
  BY <1>5 DEF UpdateDriverRacesIngestedTo, Goto, Become, TypeOK, Invocation
<1>6. QED
  BY <1>1, <1>2, <1>3, <1>4, <1>5, StepKinds

\* The watermark moves to the end of a window, which is a time.
LEMMA WatermarkStep ==
  ASSUME TypeOK, WatermarkInv, [Next]_vars
  PROVE  WatermarkInv'
<1> USE DEF WatermarkInv
<1>1. ASSUME inv' = inv, ingestedTo' = ingestedTo, ingestedBefore' = ingestedBefore
      PROVE  WatermarkInv'
  BY <1>1
<1>2. CASE Tick
  BY <1>2 DEF Tick
<1>3. ASSUME NEW i \in Invocations, UNCHANGED <<ingestedTo, ingestedBefore>>,
             \A j \in Invocations : j # i => inv'[j] = inv[j],
             inv'[i].pc \in Searching => inv[i].pc \in Searching /\ inv'[i].to = inv[i].to
      PROVE  WatermarkInv'
  BY <1>3
<1>4. ASSUME NEW i \in Invocations, UNCHANGED <<ingestedTo, ingestedBefore>>,
             \A j \in Invocations : j # i => inv'[j] = inv[j], GetDriver(i)
      PROVE  WatermarkInv'
  <2>1. PICK w \in {ingestedTo, ingestedBefore} : inv'[i].to = RangeEnd(w)
    BY <1>4 DEF GetDriver, Become, TypeOK, Invocation
  <2>2. RangeEnd(w) \in Nat
    BY TimesAssumption, WindowAssumption DEF RangeEnd, RangeBegin, Never, TypeOK
  <2>3. QED
    BY <1>4, <2>1, <2>2
<1>5. ASSUME NEW i \in Invocations, NEW r \in Races, SaveRace(i, r)
      PROVE  WatermarkInv'
  BY <1>5 DEF SaveRace, Become, TypeOK, Invocation
<1>6. ASSUME NEW i \in Invocations, UpdateDriverRacesIngestedTo(i)
      PROVE  WatermarkInv'
  BY <1>6 DEF UpdateDriverRacesIngestedTo, Searching, Goto, Become, TypeOK, Invocation
<1>7. QED
  BY <1>1, <1>2, <1>3, <1>4, <1>5, <1>6, StepKinds

\* Only a round stores a row.
LEMMA NoRoundNoRow ==
  ASSUME TypeOK, [Next]_vars, \A i \in Invocations : ~InCritical(i)
  PROVE  sessions' = sessions
<1>1. ASSUME NEW i \in Invocations, NEW r \in Races, SaveRace(i, r) PROVE FALSE
  BY <1>1 DEF SaveRace, InCritical, CriticalPcs
<1>2. ASSUME NEW i \in Invocations, UpdateDriverRacesIngestedTo(i)
      PROVE  sessions' = sessions
  BY <1>2 DEF UpdateDriverRacesIngestedTo
<1>3. QED
  BY <1>1, <1>2, StepKinds

\* A step of the ingestion beside a reset keeps the invariant.
LEMMA IngestionKeeps ==
  ASSUME ResetTypeOK, ResetInv, IngestionStep
  PROVE  ResetTypeOK' /\ ResetInv'
<1>1. TypeOK /\ [Next]_vars
  BY DEF ResetTypeOK, IngestionStep
<1>2. TypeOK'
  BY <1>1, TypeStep
<1>3. reset' \in Reset /\ reset'.rows = reset.rows
      /\ reset'.quiet = (reset.quiet /\ ~RoundUnderWay')
  BY DEF IngestionStep, ResetTypeOK, Reset
<1>4. ResetTypeOK'
  BY <1>2, <1>3 DEF ResetTypeOK, IngestionStep
<1>5. ActiveInv' /\ WatermarkInv' /\ PublishedInTime' /\ SavingInv'
  BY <1>1, ActiveStep, WatermarkStep, EnvironmentStep DEF ResetInv
<1>6. QuietInv'
  BY <1>1, <1>3, NoRoundNoRow DEF ResetInv, QuietInv, RoundUnderWay
<1>7. ASSUME clean' PROVE (LeaseInv /\ CoverInv /\ SessionInv)'
  <2>1. clean /\ \A i \in Invocations : ~ReadsOldWatermark(i)
    BY <1>7 DEF IngestionStep
  <2>2. ReadsNoLostWatermark
    BY <2>1 DEF ReadsNoLostWatermark, ReadsOldWatermark, ResetTypeOK, TypeOK
  <2>3. LeaseInv /\ CoverInv /\ SessionInv
    BY <2>1 DEF ResetInv, CleanInv
  <2>4. QED
    BY <1>1, <2>2, <2>3, LeaseStep, CoverStep, SessionStep
<1>8. CleanInv'
  BY <1>7 DEF CleanInv
<1>9. QED
  BY <1>4, <1>5, <1>6, <1>8 DEF ResetInv

----------------------------------------------------------------------------
(* The steps of the reset.                                                  *)

\* A step that leaves clock, results and invocations alone keeps what does not
\* depend on the rows.
LEMMA RowsDoNotMatter ==
  ASSUME ResetInv, UNCHANGED <<now, published, inv>>,
         \/ UNCHANGED <<ingestedTo, ingestedBefore>>
         \/ ingestedTo' = Never /\ ingestedBefore' = ingestedTo
  PROVE  ActiveInv' /\ WatermarkInv' /\ PublishedInTime' /\ SavingInv'
BY DEF ResetInv, ActiveInv, WatermarkInv, Active, PublishedInTime, SavingInv

\* A step that leaves the rows alone too keeps what clean promises.
LEMMA CleanKept ==
  ASSUME CleanInv, UNCHANGED <<now, published, store, inv>>, clean' = clean
  PROVE  CleanInv'
<1>1. LeaseInv => LeaseInv'
  BY DEF store, LeaseInv, MutualExclusion, InCritical, Active
<1>2. CoverInv => CoverInv'
  BY DEF store, CoverInv, LagOK, RangeBegin, NoLostRace, PublishedInTime, WindowOK,
         HandledOK, CoveredUpTo, Stored
<1>3. SessionInv => SessionInv'
  BY DEF store, SessionInv, SessionCountExact
<1>4. QED
  BY <1>1, <1>2, <1>3 DEF CleanInv

\* Every step of the reset keeps the invariant.
LEMMA ResetKeeps ==
  ASSUME ResetTypeOK, ResetInv, ResetNext
  PROVE  ResetTypeOK' /\ ResetInv'
<1> USE DEF ResetTypeOK
<1>1. CASE QueryPartition
  <2>1. UNCHANGED vars
    BY <1>1 DEF QueryPartition
  <2>2. UNCHANGED <<now, published, store, inv>> /\ clean' = clean
    BY <1>1, <2>1 DEF QueryPartition, vars
  <2>3. TypeOK'
    BY <2>1, TypeStep
  <2>4. Page \subseteq sessions /\ Page \subseteq Races
    BY DEF Page, TypeOK
  <2>5. reset' = [pc |-> "deleting", lockKey |-> (lock # NoLock), rows |-> Page,
                  quiet |-> ~RoundUnderWay /\ Page = sessions]
    BY <1>1 DEF QueryPartition
  <2>6. reset' \in Reset
    BY <2>4, <2>5 DEF Reset
  <2>7. resets' \in Nat
    BY <1>1 DEF QueryPartition
  <2>8. QuietInv'
    BY <2>2, <2>5 DEF QuietInv, RoundUnderWay, InCritical, store
  <2>9. QED
    BY <2>2, <2>3, <2>6, <2>7, <2>8, RowsDoNotMatter, CleanKept DEF store, ResetInv
<1>2. CASE DeleteLockRow
  <2>1. UNCHANGED <<now, published, inv, sessions, ingestedTo, ingestedBefore>> /\ ~clean'
    BY <1>2 DEF DeleteLockRow
  <2>2. reset' \in Reset /\ reset'.quiet = reset.quiet /\ reset'.rows = reset.rows
    BY <1>2 DEF DeleteLockRow, Reset
  <2>3. ResetTypeOK'
    <3>1. TypeOK'
      BY <1>2 DEF DeleteLockRow, TypeOK, NoLock
    <3>2. QED
      BY <1>2, <2>2, <3>1 DEF DeleteLockRow
  <2>4. QuietInv'
    BY <2>1, <2>2 DEF ResetInv, QuietInv, InCritical
  <2>5. QED
    BY <2>1, <2>3, <2>4, RowsDoNotMatter DEF ResetInv, CleanInv
<1>3. ASSUME NEW r \in Races, DeleteSessionRow(r) PROVE ResetTypeOK' /\ ResetInv'
  <2>1. UNCHANGED <<now, published, inv, ingestedTo, ingestedBefore>> /\ ~clean'
    BY <1>3 DEF DeleteSessionRow
  <2>2. /\ reset' \in Reset /\ reset'.quiet = reset.quiet
        /\ reset'.rows = reset.rows \ {r}
        /\ sessions' = {s \in sessions : StartTime[s] # StartTime[r]}
    BY <1>3 DEF DeleteSessionRow, Reset
  <2>3. ResetTypeOK'
    BY <1>3, <2>1, <2>2 DEF DeleteSessionRow, TypeOK
  <2>4. QuietInv'
    BY <2>1, <2>2 DEF ResetInv, QuietInv, InCritical
  <2>5. QED
    BY <2>1, <2>3, <2>4, RowsDoNotMatter DEF ResetInv, CleanInv
<1>4. CASE LeaveUnprocessed
  <2>1. UNCHANGED <<now, published, store, inv>> /\ clean' = clean
    BY <1>4 DEF LeaveUnprocessed
  <2>2. reset' \in Reset /\ reset'.quiet = FALSE
    BY <1>4 DEF LeaveUnprocessed, Reset
  <2>3. ResetTypeOK'
    <3>1. Fault("call")
      BY <1>4 DEF LeaveUnprocessed
    <3>2. faults' \in Nat
      BY <3>1 DEF TypeOK, Fault
    <3>3. TypeOK'
      BY <1>4, <3>2 DEF LeaveUnprocessed, TypeOK, store
    <3>4. QED
      BY <1>4, <2>2, <3>3 DEF LeaveUnprocessed
  <2>4. QED
    BY <2>1, <2>2, <2>3, RowsDoNotMatter, CleanKept DEF store, ResetInv, QuietInv
<1>5. CASE ResetFails
  <2>1. UNCHANGED <<now, published, store, inv>> /\ clean' = clean
    BY <1>5 DEF ResetFails
  <2>2. reset' \in Reset /\ reset'.quiet = FALSE
    BY <1>5 DEF ResetFails, NoReset, Reset
  <2>3. ResetTypeOK'
    BY <1>5, <2>2 DEF ResetFails, TypeOK, store, Fault
  <2>4. QED
    BY <2>1, <2>2, <2>3, RowsDoNotMatter, CleanKept DEF store, ResetInv, QuietInv
<1>6. CASE ResetInfo
  <2>1. /\ UNCHANGED <<now, published, lock, sessions, inv>>
        /\ ingestedTo' = Never /\ sessionCount' = 0 /\ clean' = reset.quiet
        /\ ingestedBefore' = ingestedTo /\ reset.rows = {}
    BY <1>6 DEF ResetInfo
  <2>2. reset' \in Reset /\ reset'.quiet = FALSE
    BY <1>6 DEF ResetInfo, NoReset, Reset
  <2>3. ResetTypeOK'
    BY <1>6, <2>2 DEF ResetInfo, TypeOK, Never, Reset
  <2>4. ActiveInv' /\ WatermarkInv' /\ PublishedInTime' /\ SavingInv' /\ QuietInv'
    BY <2>1, <2>2, RowsDoNotMatter DEF QuietInv
  <2>5. ASSUME reset.quiet PROVE (LeaseInv /\ CoverInv /\ SessionInv)'
    <3>1. sessions' = {} /\ \A i \in Invocations : ~InCritical(i)'
      BY <2>1, <2>5 DEF ResetInv, QuietInv, InCritical
    <3>2. LeaseInv'
      BY <2>4, <3>1 DEF LeaseInv, ActiveInv, MutualExclusion
    <3>3. ingestedBefore' <= ingestedTo' => LagOK'
      <4>1. /\ ingestedTo' = Never /\ ingestedBefore' \in Nat \cup {Never}
            /\ now' \in Nat
        BY <2>1, <2>4 DEF WatermarkInv, TypeOK
      <4>2. ASSUME ingestedBefore' <= ingestedTo' PROVE ingestedBefore' = Never
        BY <4>1, <4>2 DEF Never
      <4>3. QED
        BY <4>1, <4>2, TimesAssumption DEF LagOK, RangeBegin, Never
    <3>4. CoverInv'
      BY <2>1, <2>4, <3>1, <3>3
      DEF CoverInv, NoLostRace, Searching, InCritical, CriticalPcs
    <3>5. SessionInv'
      BY <2>1, <2>4, <3>1, FS_EmptySet DEF SessionInv, SessionCountExact, SavingInv
    <3>6. QED
      BY <3>2, <3>4, <3>5
  <2>6. QED
    BY <2>1, <2>3, <2>4, <2>5 DEF ResetInv, CleanInv
<1>7. QED
  BY <1>1, <1>2, <1>3, <1>4, <1>5, <1>6 DEF ResetNext

----------------------------------------------------------------------------
(* The theorems.                                                            *)

\* The invariant holds from the first state on.
LEMMA ResetInvariant == ResetSpec => [](ResetTypeOK /\ ResetInv)
<1>1. ResetInit => ResetTypeOK /\ ResetInv
  <2> SUFFICES ASSUME ResetInit PROVE ResetTypeOK /\ ResetInv
    OBVIOUS
  <2>1. Init /\ reset = NoReset /\ clean = TRUE /\ resets = 0
    BY DEF ResetInit
  <2>2. TypeOK /\ LeaseInv /\ CoverInv /\ SessionInv
    BY <2>1, InitTypes, InitLease, InitCover, InitSession
  <2>3. ResetTypeOK
    BY <2>1, <2>2 DEF ResetTypeOK, Reset, NoReset
  <2>4. QuietInv
    BY <2>1 DEF QuietInv, NoReset
  <2>5. WatermarkInv
    BY <2>1 DEF Init, WatermarkInv, Idle, Searching
  <2>6. QED
    BY <2>2, <2>3, <2>4, <2>5
    DEF ResetInv, CleanInv, LeaseInv, ActiveInv, CoverInv, SessionInv, SavingInv
<1>2. ResetTypeOK /\ ResetInv /\ [IngestionStep \/ ResetNext]_allVars
        => ResetTypeOK' /\ ResetInv'
  <2> SUFFICES ASSUME ResetTypeOK, ResetInv, UNCHANGED allVars
               PROVE  ResetTypeOK' /\ ResetInv'
    BY IngestionKeeps, ResetKeeps
  <2>1. UNCHANGED vars /\ UNCHANGED resetVars
    BY DEF allVars
  <2>2. UNCHANGED <<now, published, store, inv>> /\ UNCHANGED <<reset, clean, resets>>
    BY <2>1 DEF vars, resetVars
  <2>3. ResetTypeOK'
    BY <2>1, <2>2, TypeStep DEF ResetTypeOK
  <2>4. QuietInv'
    BY <2>2 DEF ResetInv, QuietInv, InCritical, store
  <2>5. QED
    BY <2>2, <2>3, <2>4, RowsDoNotMatter, CleanKept DEF store, ResetInv
<1>3. QED
  BY <1>1, <1>2, PTL DEF ResetSpec

\* Every variable keeps its type, whatever is deleted beside the ingestion.
THEOREM ResetTypeCorrect == ResetSpec => []ResetTypeOK
BY ResetInvariant, PTL

\* A reset that nothing disturbed leaves a partition on which no race is lost
\* behind the watermark and the rows are counted exactly, however many resets
\* were disturbed, failed or left rows before it.
THEOREM CleanPartitionHolds == ResetSpec => []CleanPartitionConsistent
<1>1. ResetInv => CleanPartitionConsistent
  BY DEF ResetInv, CleanInv, CleanPartitionConsistent, CoverInv, SessionInv
<1>2. QED
  BY <1>1, ResetInvariant, PTL

\* And rounds on it exclude each other, although the deletion takes no lock.
THEOREM CleanMutualExclusionHolds == ResetSpec => []CleanMutualExclusion
<1>1. ResetInv => CleanMutualExclusion
  BY DEF ResetInv, CleanInv, CleanMutualExclusion, LeaseInv
<1>2. QED
  BY <1>1, ResetInvariant, PTL
============================================================================
