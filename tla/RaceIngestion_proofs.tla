------------------------ MODULE RaceIngestion_proofs ------------------------
(***************************************************************************)
(* Theorems about RaceIngestion for every value of its constants.          *)
(***************************************************************************)
EXTENDS RaceIngestion, FiniteSetTheorems, TLAPS

\* Every step keeps the types.
LEMMA TypeStep == TypeOK /\ [Next]_vars => TypeOK'
<1> SUFFICES ASSUME TypeOK, [Next]_vars PROVE TypeOK'
  OBVIOUS
<1> USE MessagesAssumption, TimesAssumption, RacesAssumption DEF TypeOK
<1>1. ASSUME NEW m \in Messages, Enqueue(m) PROVE TypeOK'
  <2>1. Sent \in Message
    BY DEF Sent, Message
  <2>2. msgs' \in [Messages -> Message]
    BY <2>1, <1>1 DEF Enqueue
  <2>3. LockFree(now) \in BOOLEAN
    BY DEF LockFree
  <2>4. QED
    BY <1>1, <2>1, <2>2, <2>3 DEF Enqueue, Fault, store
<1>2. ASSUME NEW m \in Messages, Redrive(m) PROVE TypeOK'
  BY <1>2 DEF Redrive, Message, store
<1>3. ASSUME NEW i \in Invocations, NEW m \in Messages,
             Receive(i, m) \/ ReceiveAgain(i, m)
      PROVE  TypeOK'
  <2>1. Idle \in Invocation
    BY DEF Idle, Invocation, Pcs
  <2>2. Invoked(m) \in Invocation
    BY <2>1 DEF Invoked, Invocation, Pcs
  <2>3. inv' \in [Invocations -> Invocation]
    BY <2>2, <1>3 DEF Receive, ReceiveAgain, Fault, Become
  <2>4. msgs[m] \in Message /\ msgs[m].receives + 1 \in 0 .. MaxReceives
    BY <1>3 DEF Receive, ReceiveAgain, Deliverable, Message
  <2>5. now + Visibility \in Int
    OBVIOUS
  <2>6. Received(msgs[m]) \in Message
    BY <2>4, <2>5 DEF Received, Message
  <2>7. msgs' \in [Messages -> Message]
    BY <2>6, <1>3 DEF Receive, ReceiveAgain
  <2>8. QED
    BY <1>3, <2>1, <2>2, <2>3, <2>4, <2>5, <2>6, <2>7 DEF Receive, ReceiveAgain, Fault, store
<1>4. ASSUME NEW i \in Invocations, AcquireIngestionLock(i) PROVE TypeOK'
  BY <1>4 DEF AcquireIngestionLock, LockedUntil, Goto, Become, Invocation,
    Pcs, CriticalPcs, store
<1>5. ASSUME NEW i \in Invocations, GetDriver(i) PROVE TypeOK'
  <2>1. \A w \in Int :
          RangeBegin(w) \in Int /\ RangeEnd(w) \in Int /\ WillBeUpToDate(w) \in BOOLEAN
    BY DEF RangeBegin, RangeEnd, WillBeUpToDate
  <2>2. inv[i] \in Invocation
    OBVIOUS
  <2>3. \A w \in Int :
          [inv[i] EXCEPT !.pc = "search", !.from = RangeBegin(w), !.to = RangeEnd(w),
                         !.upToDate = WillBeUpToDate(w)] \in Invocation
    BY <2>1, <2>2 DEF Invocation, Pcs, CriticalPcs
  <2>4. inv' \in [Invocations -> Invocation]
    <3>1. PICK w \in Int :
            Become(i, [inv[i] EXCEPT !.pc = "search", !.from = RangeBegin(w),
                                     !.to = RangeEnd(w),
                                     !.upToDate = WillBeUpToDate(w)])
      BY <1>5 DEF GetDriver
    <3>2. QED
      BY <2>3, <3>1 DEF Become
  <2>5. faults' \in Nat
    BY <1>5 DEF GetDriver, Fault
  <2>6. QED
    BY <1>5, <2>4, <2>5 DEF GetDriver, store
<1>6. ASSUME NEW i \in Invocations, Search(i) PROVE TypeOK'
  <2>1. SearchSeriesResults(inv[i].from, inv[i].to) \in SUBSET Races
    BY DEF SearchSeriesResults
  <2>2. inv[i] \in Invocation
    OBVIOUS
  <2>3. [inv[i] EXCEPT !.pc = "races", !.todo =
    SearchSeriesResults(inv[i].from, inv[i].to)] \in Invocation
    BY <2>1, <2>2 DEF Invocation, Pcs, CriticalPcs
  <2>4. inv' \in [Invocations -> Invocation]
    BY <2>3, <1>6 DEF Search, Become
  <2>5. QED
    BY <1>6, <2>1, <2>2, <2>3, <2>4 DEF Search, store
<1>7. ASSUME NEW i \in Invocations, NEW r \in Races, CheckRace(i, r) PROVE
  TypeOK'
  <2>1. inv[i] \in Invocation
    OBVIOUS
  <2>2. inv[i].todo \ {r} \in SUBSET Races /\ inv[i].saving \cup {r} \in
    SUBSET Races
    BY <2>1 DEF Invocation
  <2>3. \A save \in BOOLEAN :
          [inv[i] EXCEPT !.todo = @ \ {r},
                         !.saving = IF save THEN @ \cup {r} ELSE @] \in Invocation
    BY <2>1, <2>2 DEF Invocation
  <2>4. inv' \in [Invocations -> Invocation]
    BY <2>3, <1>7 DEF CheckRace, Become
  <2>5. faults' \in Nat
    BY <1>7 DEF CheckRace, Fault
  <2>6. QED
    BY <1>7, <2>4, <2>5 DEF CheckRace, store
<1>8. ASSUME NEW i \in Invocations, NEW r \in Races, SaveRace(i, r) PROVE
  TypeOK'
  <2>1. inv[i] \in Invocation
    OBVIOUS
  <2>2. [inv[i] EXCEPT !.saving = @ \ {r}] \in Invocation
    BY <2>1 DEF Invocation
  <2>3. inv' \in [Invocations -> Invocation]
    BY <2>2, <1>8 DEF SaveRace, Become
  <2>4. QED
    BY <1>8, <2>1, <2>2, <2>3 DEF SaveRace, SaveDriverSessions, store
<1>9. ASSUME NEW i \in Invocations, NEW r \in Races, SaveConflict(i, r)
  PROVE TypeOK'
  <2>1. inv[i] \in Invocation
    OBVIOUS
  <2>2. [inv[i] EXCEPT !.pc = "failed", !.todo = {}, !.saving = {},
    !.unauthorized = FALSE] \in Invocation
    BY <2>1 DEF Invocation, Pcs, CriticalPcs
  <2>3. inv' \in [Invocations -> Invocation]
    BY <2>2, <1>9 DEF SaveConflict, GiveUp, Become
  <2>4. QED
    BY <1>9, <2>1, <2>2, <2>3 DEF SaveConflict, store
<1>10. ASSUME NEW i \in Invocations, UpdateDriverRacesIngestedTo(i) PROVE
  TypeOK'
  BY <1>10 DEF UpdateDriverRacesIngestedTo, Goto, Become, Invocation, Pcs,
    CriticalPcs, store
<1>11. ASSUME NEW i \in Invocations, NotifyChunk(i) PROVE TypeOK'
  <2>1. inv[i] \in Invocation
    OBVIOUS
  <2>2. \A pc \in {"ack", "release"} : [inv[i] EXCEPT !.pc = pc] \in Invocation
    BY <2>1 DEF Invocation, Pcs, CriticalPcs
  <2>3. inv' \in [Invocations -> Invocation]
    BY <2>2, <1>11 DEF NotifyChunk, Goto, Become
  <2>4. QED
    BY <1>11, <2>3 DEF NotifyChunk, store
<1>12. ASSUME NEW i \in Invocations, ReleaseBeforeNextRound(i) PROVE TypeOK'
  BY <1>12 DEF ReleaseBeforeNextRound, NoLock, Goto, Become, Invocation,
    Pcs, CriticalPcs, store
<1>13. ASSUME NEW i \in Invocations, NEW m \in Messages, PublishNextRound(i,
  m) PROVE TypeOK'
  <2>1. Sent \in Message
    BY DEF Sent, Message
  <2>2. msgs' \in [Messages -> Message]
    BY <2>1, <1>13 DEF PublishNextRound
  <2>3. inv[i] \in Invocation
    OBVIOUS
  <2>4. [inv[i] EXCEPT !.pc = "ack"] \in Invocation
    BY <2>3 DEF Invocation, Pcs, CriticalPcs
  <2>5. inv' \in [Invocations -> Invocation]
    BY <2>4, <1>13 DEF PublishNextRound, Goto, Become
  <2>6. QED
    BY <1>13, <2>2, <2>5 DEF PublishNextRound, store
<1>14. ASSUME NEW i \in Invocations, ReleaseAfterError(i) PROVE TypeOK'
  <2>1. inv[i] \in Invocation
    OBVIOUS
  <2>2. \A pc \in {"stale", "nack"} : [inv[i] EXCEPT !.pc = pc] \in Invocation
    BY <2>1 DEF Invocation, Pcs, CriticalPcs
  <2>3. inv' \in [Invocations -> Invocation]
    BY <2>2, <1>14 DEF ReleaseAfterError, Goto, Become
  <2>4. QED
    BY <1>14, <2>3 DEF ReleaseAfterError, NoLock, store
<1>15. ASSUME NEW i \in Invocations, NotifyStaleCredentials(i) PROVE TypeOK'
  BY <1>15 DEF NotifyStaleCredentials, Goto, Become, Invocation, Pcs,
    CriticalPcs, store
<1>16. ASSUME NEW i \in Invocations, DeadlineExceeded(i) PROVE TypeOK'
  BY <1>16 DEF DeadlineExceeded, Goto, Become, Invocation, Pcs, CriticalPcs,
    store
<1>17. ASSUME NEW i \in Invocations, Ack(i) PROVE TypeOK'
  <2>1. NoMsg \in Message /\ Idle \in Invocation
    BY DEF NoMsg, Message, Idle, Invocation, Pcs
  <2>2. msgs' \in [Messages -> Message]
    BY <2>1, <1>17 DEF Ack
  <2>3. inv' \in [Invocations -> Invocation]
    BY <2>1, <1>17 DEF Ack, Become
  <2>4. QED
    BY <1>17, <2>1, <2>2, <2>3 DEF Ack, store
<1>18. ASSUME NEW i \in Invocations, Nack(i) PROVE TypeOK'
  <2>1. Idle \in Invocation
    BY DEF Idle, Invocation, Pcs
  <2>2. msgs' \in [Messages -> Message]
    <3>1. CASE msgs[inv[i].msg].state = "queued" /\ inv[i].msg \in Messages
      <4>1. msgs[inv[i].msg] \in Message
        BY <3>1
      <4>2. \A t \in Int : [msgs[inv[i].msg] EXCEPT !.visibleAt = t] \in Message
        BY <4>1 DEF Message
      <4>3. msgs[inv[i].msg].receives \in Int
        BY <4>1 DEF Message
      <4>4. now + (msgs[inv[i].msg].receives - 1) * Backoff \in Int
        BY <4>3
      <4>5. QED
        BY <1>18, <3>1, <4>2, <4>4 DEF Nack
    <3>2. CASE msgs[inv[i].msg].state # "queued"
      BY <1>18, <3>2 DEF Nack
    <3>3. CASE inv[i].msg \notin Messages
      BY <1>18, <3>3 DEF Nack
    <3>4. QED
      BY <3>1, <3>2, <3>3
  <2>3. inv' \in [Invocations -> Invocation]
    BY <2>1, <1>18 DEF Nack, Become
  <2>4. QED
    BY <1>18, <2>1, <2>2, <2>3 DEF Nack, store
<1>19. ASSUME NEW i \in Invocations, NEW u \in BOOLEAN, FailRound(i, u)
  PROVE TypeOK'
  <2>1. inv[i] \in Invocation
    OBVIOUS
  <2>2. [inv[i] EXCEPT !.pc = "failed", !.todo = {}, !.saving = {},
    !.unauthorized = u] \in Invocation
    BY <2>1 DEF Invocation, Pcs, CriticalPcs
  <2>3. inv' \in [Invocations -> Invocation]
    BY <2>2, <1>19 DEF FailRound, GiveUp, Become
  <2>4. QED
    BY <1>19, <2>1, <2>2, <2>3 DEF FailRound, Fault, store
<1>20. ASSUME NEW i \in Invocations, ReleaseFails(i) PROVE TypeOK'
  BY <1>20 DEF ReleaseFails, Fault, Goto, Become, Invocation, Pcs,
    CriticalPcs, store
<1>21. ASSUME NEW i \in Invocations, CallFails(i) PROVE TypeOK'
  BY <1>21 DEF CallFails, Fault, Goto, Become, Invocation, Pcs, CriticalPcs,
    store
<1>22. ASSUME NEW i \in Invocations, AcquireAnswerLost(i) PROVE TypeOK'
  BY <1>22 DEF AcquireAnswerLost, Fault, LockedUntil, Goto, Become,
    Invocation, Pcs, CriticalPcs, store
<1>23. ASSUME NEW i \in Invocations, Crash(i) PROVE TypeOK'
  BY <1>23 DEF Crash, Fault, Become, Idle, Invocation, Pcs, store
<1>24. ASSUME NEW r \in Races, PublishResult(r) PROVE TypeOK'
  BY <1>24 DEF PublishResult, store
<1>25. ASSUME ExpireLockRow PROVE TypeOK'
  BY <1>25 DEF ExpireLockRow, NoLock, store
<1>26. ASSUME Tick PROVE TypeOK'
  BY <1>26 DEF Tick, Fault, store
<1>27. ASSUME UNCHANGED vars PROVE TypeOK'
  BY <1>27 DEF vars, store
<1>28. QED
  BY <1>1, <1>2, <1>3, <1>4, <1>5, <1>6, <1>7, <1>8, <1>9, <1>10, <1>11,
    <1>12, <1>13, <1>14, <1>15, <1>16, <1>17, <1>18, <1>19, <1>20, <1>21,
    <1>22, <1>23, <1>24, <1>25, <1>26, <1>27 DEF Next, Delivery, Round,
    Failure, Environment

\* The first state is of the types.
LEMMA InitTypes == Init => TypeOK
<1>1. NoMsg \in Message /\ Idle \in Invocation
  BY TimesAssumption DEF NoMsg, Message, Idle, Invocation, Pcs
<1>2. ASSUME Init PROVE request \in [at : Int, free : BOOLEAN]
  BY <1>2 DEF Init, Never
<1>3. ASSUME Init PROVE /\ msgs \in [Messages -> Message]
                        /\ inv \in [Invocations -> Invocation]
  BY <1>1, <1>3 DEF Init
<1>4. ASSUME Init PROVE /\ now \in Nat /\ published \in SUBSET Races
                        /\ lock \in Int
                        /\ ingestedTo \in Int /\ ingestedBefore \in Int
                        /\ sessions \in SUBSET Races /\ sessionCount \in Nat
  BY <1>4, TimesAssumption DEF Init, NoLock, Never
<1>5. ASSUME Init PROVE staleTold \in BOOLEAN /\ requests \in Nat /\ faults \in Nat
  BY <1>5 DEF Init
<1>6. QED
  BY <1>2, <1>3, <1>4, <1>5 DEF TypeOK

\* Every variable keeps its type.
THEOREM TypeCorrect == Spec => []TypeOK
<1>1. Init => TypeOK
  BY InitTypes
<1>2. QED
  BY <1>1, TypeStep, PTL DEF Spec

----------------------------------------------------------------------------
(* Mutual exclusion.  The row names no owner, so the argument is by time: a *)
(* round runs only while its invocation may, and until then the lock it put *)
(* has not expired and nobody else can have removed or replaced it.         *)

\* A running invocation is within its timeout, and one in its critical section
\* is covered by a lock that outlives that timeout.
LeaseInv ==
  /\ \A i \in Invocations :
       Active(i) => inv[i].started <= now /\ now <= inv[i].started + LambdaTimeout
  /\ \A i \in Invocations : InCritical(i) => lock >= inv[i].started + LockDuration
  /\ MutualExclusion

\* A step that moves one invocation, keeps its start and the lock, and does not
\* bring it into its critical section.
LEMMA LeaseFrame ==
  ASSUME TypeOK, LeaseInv, NEW i \in Invocations, NEW v, Become(i, v),
         lock' = lock, now' = now,
         v.pc = "idle" \/ (Active(i) /\ v.started = inv[i].started),
         v.pc \in CriticalPcs => InCritical(i)
  PROVE  LeaseInv'
<1> USE DEF TypeOK, Become, InCritical, Active
<1>1. \A j \in Invocations : inv'[j] = IF j = i THEN v ELSE inv[j]
  OBVIOUS
<1>2. \A j \in Invocations :
        Active(j)' => inv'[j].started <= now' /\ now' <= inv'[j].started + LambdaTimeout
  BY <1>1 DEF LeaseInv, CriticalPcs
<1>3. \A j \in Invocations : InCritical(j)' => lock' >= inv'[j].started + LockDuration
  BY <1>1 DEF LeaseInv, CriticalPcs
<1>4. MutualExclusion'
  BY <1>1 DEF LeaseInv, MutualExclusion
<1>5. QED
  BY <1>2, <1>3, <1>4 DEF LeaseInv

\* While a round runs its lock has not expired, so no other can be taken.
LEMMA LeaseHeld ==
  ASSUME TypeOK, LeaseInv, NEW i \in Invocations, InCritical(i)
  PROVE  lock # NoLock /\ lock > now /\ \A t \in Int : t <= now => ~LockFree(t)
BY TimesAssumption, LeaseAssumption
DEF TypeOK, LeaseInv, InCritical, Active, CriticalPcs, LockFree, NoLock, Invocation

\* The holder releases: no invocation is in its critical section any more.
LEMMA LeaseRelease ==
  ASSUME TypeOK, LeaseInv, NEW i \in Invocations, NEW v, Become(i, v),
         InCritical(i), now' = now, v.started = inv[i].started,
         v.pc \notin CriticalPcs
  PROVE  LeaseInv'
<1> USE DEF TypeOK, Become, InCritical, Active
<1>1. \A j \in Invocations : inv'[j] = IF j = i THEN v ELSE inv[j]
  OBVIOUS
<1>2. \A j \in Invocations : ~InCritical(j)'
  BY <1>1 DEF LeaseInv, MutualExclusion
<1>3. \A j \in Invocations :
        Active(j)' => inv'[j].started <= now' /\ now' <= inv'[j].started + LambdaTimeout
  BY <1>1 DEF LeaseInv, CriticalPcs
<1>4. QED
  BY <1>2, <1>3 DEF LeaseInv, MutualExclusion

\* Every step keeps the lease: the Lambda timeout ends a round before its lock.
LEMMA LeaseStep == TypeOK /\ LeaseInv /\ [Next]_vars => LeaseInv'
<1> SUFFICES ASSUME TypeOK, LeaseInv, [Next]_vars PROVE LeaseInv'
  OBVIOUS
<1>1. ASSUME UNCHANGED <<now, lock, inv>> PROVE LeaseInv'
  BY <1>1 DEF LeaseInv, MutualExclusion, InCritical, Active
<1>2. ASSUME NEW m \in Messages, Enqueue(m) PROVE LeaseInv'
  BY <1>1, <1>2 DEF Enqueue, Fault, store
<1>3. ASSUME NEW m \in Messages, Redrive(m) PROVE LeaseInv'
  BY <1>1, <1>3 DEF Redrive, store
<1>4. ASSUME NEW i \in Invocations, NEW m \in Messages,
             Receive(i, m) \/ ReceiveAgain(i, m)
      PROVE  LeaseInv'
  <2>1. \A j \in Invocations : inv'[j] = IF j = i THEN Invoked(m) ELSE inv[j]
    BY <1>4 DEF TypeOK, Receive, ReceiveAgain, Fault, Become
  <2>2. Invoked(m).pc = "acquire" /\ Invoked(m).started = now
    BY DEF Invoked, Idle
  <2>3. \A j \in Invocations : InCritical(j)' => InCritical(j) /\ j # i
    BY <2>1, <2>2 DEF InCritical, CriticalPcs
  <2>4. QED
    BY <1>4, <2>1, <2>2, <2>3, TimesAssumption
    DEF TypeOK, Receive, ReceiveAgain, Fault, store, LeaseInv, MutualExclusion, InCritical, Active
<1>5. ASSUME NEW i \in Invocations, AcquireIngestionLock(i) PROVE LeaseInv'
  <2>1. CASE lock' = lock /\ Goto(i, "ack")
    <3>1. Become(i, [inv[i] EXCEPT !.pc = "ack"])
      BY <2>1 DEF Goto
    <3>2. QED
      BY <1>5, <2>1, <3>1, LeaseFrame
      DEF AcquireIngestionLock, CriticalPcs, Active, TypeOK, Invocation
  <2>2. CASE \E t \in inv[i].started .. now :
               LockFree(t) /\ lock' = LockedUntil(t) /\ Goto(i, "driver")
    <3> PICK t \in inv[i].started .. now :
               LockFree(t) /\ lock' = LockedUntil(t) /\ Goto(i, "driver")
      BY <2>2
    <3>1. \A j \in Invocations : ~InCritical(j)
      BY LeaseHeld DEF TypeOK, Invocation
    <3>2. \A j \in Invocations :
            inv'[j] = IF j = i THEN [inv[i] EXCEPT !.pc = "driver"] ELSE inv[j]
      BY DEF Goto, Become, TypeOK
    <3>3. inv'[i].started = inv[i].started /\ Active(i)
      BY <1>5, <3>2 DEF AcquireIngestionLock, TypeOK, Invocation, Active
    <3>4. now' = now /\ lock' >= inv[i].started + LockDuration
      BY <1>5, TimesAssumption
      DEF AcquireIngestionLock, LockedUntil, TypeOK, Invocation
    <3>5. QED
      BY <3>1, <3>2, <3>3, <3>4
      DEF LeaseInv, MutualExclusion, InCritical, Active
  <2>3. QED
    BY <1>5, <2>1, <2>2 DEF AcquireIngestionLock
<1>6. ASSUME NEW i \in Invocations, GetDriver(i) PROVE LeaseInv'
  <2>1. PICK w : Become(i, [inv[i] EXCEPT !.pc = "search", !.from = RangeBegin(w),
                                          !.to = RangeEnd(w),
                                          !.upToDate = WillBeUpToDate(w)])
    BY <1>6 DEF GetDriver
  <2>2. QED
    BY <1>6, <2>1, LeaseFrame DEF GetDriver, store, CriticalPcs, InCritical,
      Active, Running, TypeOK, Invocation
<1>7. ASSUME NEW i \in Invocations, Search(i) PROVE LeaseInv'
  <2>1. Become(i, [inv[i] EXCEPT !.pc = "races", !.todo =
    SearchSeriesResults(inv[i].from, inv[i].to)])
    BY <1>7 DEF Search, Goto, GiveUp
  <2>2. QED
    BY <1>7, <2>1, LeaseFrame DEF Search, store, CriticalPcs, InCritical,
      Active, Running, TypeOK, Invocation
<1>8. ASSUME NEW i \in Invocations, NEW r \in Races, CheckRace(i, r) PROVE
  LeaseInv'
  <2>1. PICK save \in BOOLEAN :
          Become(i, [inv[i] EXCEPT !.todo = @ \ {r},
                                   !.saving = IF save THEN @ \cup {r} ELSE @])
    BY <1>8 DEF CheckRace
  <2>2. QED
    BY <1>8, <2>1, LeaseFrame DEF CheckRace, store, CriticalPcs, InCritical,
      Active, Running, TypeOK, Invocation
<1>9. ASSUME NEW i \in Invocations, NEW r \in Races, SaveRace(i, r) PROVE
  LeaseInv'
  <2>1. Become(i, [inv[i] EXCEPT !.saving = @ \ {r}])
    BY <1>9 DEF SaveRace, Goto, GiveUp
  <2>2. QED
    BY <1>9, <2>1, LeaseFrame DEF SaveRace, store, CriticalPcs, InCritical,
      Active, Running, TypeOK, Invocation
<1>10. ASSUME NEW i \in Invocations, NEW r \in Races, SaveConflict(i, r)
  PROVE LeaseInv'
  <2>1. Become(i, [inv[i] EXCEPT !.pc = "failed", !.todo = {}, !.saving =
    {}, !.unauthorized = FALSE])
    BY <1>10 DEF SaveConflict, Goto, GiveUp
  <2>2. QED
    BY <1>10, <2>1, LeaseFrame DEF SaveConflict, store, CriticalPcs,
      InCritical, Active, Running, TypeOK, Invocation
<1>11. ASSUME NEW i \in Invocations, UpdateDriverRacesIngestedTo(i) PROVE
  LeaseInv'
  <2>1. Become(i, [inv[i] EXCEPT !.pc = "notify"])
    BY <1>11 DEF UpdateDriverRacesIngestedTo, Goto, GiveUp
  <2>2. QED
    BY <1>11, <2>1, LeaseFrame DEF UpdateDriverRacesIngestedTo, store,
      CriticalPcs, InCritical, Active, Running, TypeOK, Invocation
<1>12. ASSUME NEW i \in Invocations, NotifyChunk(i) PROVE LeaseInv'
  <2>1. Become(i, [inv[i] EXCEPT !.pc = IF inv[i].upToDate THEN "ack" ELSE
    "release"])
    BY <1>12 DEF NotifyChunk, Goto, GiveUp
  <2>2. QED
    BY <1>12, <2>1, LeaseFrame DEF NotifyChunk, store, CriticalPcs,
      InCritical, Active, Running, TypeOK, Invocation
<1>13. ASSUME NEW i \in Invocations, ReleaseBeforeNextRound(i) PROVE
  LeaseInv'
  <2>1. Become(i, [inv[i] EXCEPT !.pc = "publish"])
    BY <1>13 DEF ReleaseBeforeNextRound, Goto, GiveUp
  <2>2. QED
    BY <1>13, <2>1, LeaseRelease DEF ReleaseBeforeNextRound, store,
      CriticalPcs, InCritical, Active, Running, TypeOK, Invocation
<1>14. ASSUME NEW i \in Invocations, NEW m \in Messages, PublishNextRound(i,
  m) PROVE LeaseInv'
  <2>1. Become(i, [inv[i] EXCEPT !.pc = "ack"])
    BY <1>14 DEF PublishNextRound, Goto, GiveUp
  <2>2. QED
    BY <1>14, <2>1, LeaseFrame DEF PublishNextRound, store, CriticalPcs,
      InCritical, Active, Running, TypeOK, Invocation
<1>15. ASSUME NEW i \in Invocations, ReleaseAfterError(i) PROVE LeaseInv'
  <2>1. Become(i, [inv[i] EXCEPT !.pc = IF inv[i].unauthorized THEN "stale"
    ELSE "nack"])
    BY <1>15 DEF ReleaseAfterError, Goto, GiveUp
  <2>2. QED
    BY <1>15, <2>1, LeaseRelease DEF ReleaseAfterError, store, CriticalPcs,
      InCritical, Active, Running, TypeOK, Invocation
<1>16. ASSUME NEW i \in Invocations, NotifyStaleCredentials(i) PROVE
  LeaseInv'
  <2>1. Become(i, [inv[i] EXCEPT !.pc = "ack"])
    BY <1>16 DEF NotifyStaleCredentials, Goto, GiveUp
  <2>2. QED
    BY <1>16, <2>1, LeaseFrame DEF NotifyStaleCredentials, store,
      CriticalPcs, InCritical, Active, Running, TypeOK, Invocation
<1>17. ASSUME NEW i \in Invocations, DeadlineExceeded(i) PROVE LeaseInv'
  <2>1. Become(i, [inv[i] EXCEPT !.pc = IF inv[i].unauthorized THEN "ack"
    ELSE "nack"])
    BY <1>17 DEF DeadlineExceeded, Goto, GiveUp
  <2>2. QED
    BY <1>17, <2>1, LeaseFrame DEF DeadlineExceeded, store, CriticalPcs,
      InCritical, Active, Running, TypeOK, Invocation
<1>18. ASSUME NEW i \in Invocations, Ack(i) PROVE LeaseInv'
  <2>1. Become(i, Idle)
    BY <1>18 DEF Ack, Goto, GiveUp
  <2>2. QED
    BY <1>18, <2>1, LeaseFrame DEF Ack, store, Idle, CriticalPcs,
      InCritical, Active, Running, TypeOK, Invocation
<1>19. ASSUME NEW i \in Invocations, Nack(i) PROVE LeaseInv'
  <2>1. Become(i, Idle)
    BY <1>19 DEF Nack, Goto, GiveUp
  <2>2. QED
    BY <1>19, <2>1, LeaseFrame DEF Nack, store, Idle, CriticalPcs,
      InCritical, Active, Running, TypeOK, Invocation
<1>20. ASSUME NEW i \in Invocations, NEW u \in BOOLEAN, FailRound(i, u)
  PROVE LeaseInv'
  <2>1. Become(i, [inv[i] EXCEPT !.pc = "failed", !.todo = {}, !.saving =
    {}, !.unauthorized = u])
    BY <1>20 DEF FailRound, Goto, GiveUp
  <2>2. QED
    BY <1>20, <2>1, LeaseFrame DEF FailRound, store, CriticalPcs,
      InCritical, Active, Running, TypeOK, Invocation
<1>21. ASSUME NEW i \in Invocations, ReleaseFails(i) PROVE LeaseInv'
  <2>1. Become(i, [inv[i] EXCEPT !.pc = IF inv[i].unauthorized THEN "stale"
    ELSE "nack"])
    BY <1>21 DEF ReleaseFails, Goto, GiveUp
  <2>2. QED
    BY <1>21, <2>1, LeaseFrame DEF ReleaseFails, store, CriticalPcs,
      InCritical, Active, Running, TypeOK, Invocation
<1>22. ASSUME NEW i \in Invocations, CallFails(i) PROVE LeaseInv'
  <2>1. Become(i, [inv[i] EXCEPT !.pc = "nack"])
    BY <1>22 DEF CallFails, Goto, GiveUp
  <2>2. QED
    BY <1>22, <2>1, LeaseFrame DEF CallFails, store, CriticalPcs,
      InCritical, Active, Running, TypeOK, Invocation
<1>23. ASSUME NEW i \in Invocations, AcquireAnswerLost(i) PROVE LeaseInv'
  <2>1. \A j \in Invocations : ~InCritical(j)
    BY <1>23, LeaseHeld DEF AcquireAnswerLost, TypeOK, Invocation
  <2>2. PICK pc \in {"ack", "nack"} : Goto(i, pc)
    BY <1>23 DEF AcquireAnswerLost
  <2>3. \A j \in Invocations :
          inv'[j] = IF j = i THEN [inv[i] EXCEPT !.pc = pc] ELSE inv[j]
    BY <2>2 DEF Goto, Become, TypeOK
  <2>4. inv'[i].started = inv[i].started /\ inv'[i].pc = pc /\ Active(i) /\ now' = now
    BY <1>23, <2>3 DEF AcquireAnswerLost, TypeOK, Invocation, Active
  <2>5. QED
    BY <2>1, <2>3, <2>4 DEF LeaseInv, MutualExclusion, InCritical, Active, CriticalPcs
<1>24. ASSUME NEW i \in Invocations, Crash(i) PROVE LeaseInv'
  <2>1. Become(i, Idle)
    BY <1>24 DEF Crash, Goto, GiveUp
  <2>2. QED
    BY <1>24, <2>1, LeaseFrame DEF Crash, store, Idle, CriticalPcs,
      InCritical, Active, Running, TypeOK, Invocation
<1>25. ASSUME NEW r \in Races, PublishResult(r) PROVE LeaseInv'
  BY <1>1, <1>25 DEF PublishResult, store
<1>26. ASSUME ExpireLockRow PROVE LeaseInv'
  <2>1. \A j \in Invocations : ~InCritical(j)
    BY <1>26, LeaseHeld DEF ExpireLockRow, TypeOK
  <2>2. QED
    BY <1>26, <2>1
    DEF ExpireLockRow, LeaseInv, MutualExclusion, InCritical, Active
<1>27. ASSUME Tick PROVE LeaseInv'
  <2>1. now' = now + 1 /\ inv' = inv /\ lock' = lock
    BY <1>27 DEF Tick, store
  <2>2. \A j \in Invocations :
          Active(j) => inv[j].started <= now /\ now < inv[j].started + LambdaTimeout
    BY <1>27 DEF Tick, LeaseInv
  <2>3. \A j \in Invocations :
          Active(j) => inv[j].started <= now + 1 /\ now + 1 <= inv[j].started + LambdaTimeout
    BY <2>2, TimesAssumption DEF TypeOK, Invocation
  <2>4. QED
    BY <2>1, <2>3 DEF LeaseInv, MutualExclusion, InCritical, Active
<1>28. QED
  BY <1>1, <1>2, <1>3, <1>4, <1>5, <1>6, <1>7, <1>8, <1>9, <1>10, <1>11,
    <1>12, <1>13, <1>14, <1>15, <1>16, <1>17, <1>18, <1>19, <1>20, <1>21,
    <1>22, <1>23, <1>24, <1>25, <1>26, <1>27 DEF Next, Delivery, Round,
    Failure, Environment, vars, store

\* No round runs at first.
LEMMA InitLease == Init => LeaseInv
BY DEF Init, LeaseInv, MutualExclusion, Active, InCritical, Idle, CriticalPcs

\* The lease holds in every reachable state.
LEMMA LeaseInvariant == Spec => []LeaseInv
<1>1. Init => LeaseInv
  BY InitLease
<1>2. QED
  BY <1>1, LeaseStep, TypeCorrect, PTL DEF Spec

\* At most one round at a time, for any number of invocations and messages and
\* any faults, as long as the Lambda timeout is below the lock duration.
THEOREM MutualExclusionHolds == Spec => []MutualExclusion
<1>1. LeaseInv => MutualExclusion
  BY DEF LeaseInv
<1>2. QED
  BY <1>1, LeaseInvariant, PTL

\* The endpoint answers 429 for as long as a round runs.
THEOREM RequestsRefused == Spec => []RequestsRefusedDuringRound
<1>1. TypeOK /\ LeaseInv => RequestsRefusedDuringRound
  BY LeaseHeld DEF RequestsRefusedDuringRound, Blocked
<1>2. QED
  BY <1>1, TypeCorrect, LeaseInvariant, PTL

----------------------------------------------------------------------------
(* What a step may do to the rows of the driver, whoever takes it.          *)

\* A round has fixed its window and not yet moved the watermark.
Searching == {"search", "races"}

\* Only the save of a race and the update of the watermark touch what the
\* ingestion promises; every other step moves one invocation, or none.
LEMMA StepKinds ==
  ASSUME TypeOK, [Next]_vars
  PROVE  \/ /\ UNCHANGED <<inv, sessions, sessionCount, ingestedTo>>
            /\ published \subseteq published'
            /\ \/ now' = now /\ ingestedBefore' = ingestedBefore
               \/ Tick
         \/ \E i \in Invocations :
              /\ UNCHANGED <<now, published, ingestedBefore, sessions, sessionCount,
                            ingestedTo>>
              /\ \A j \in Invocations : j # i => inv'[j] = inv[j]
              /\ inv'[i].saving \subseteq
                   inv[i].saving \cup (Races \ Skipped)
              /\ \/ inv'[i].pc = "idle"
                 \/ inv'[i].started = now
                 \/ Active(i) /\ inv'[i].started = inv[i].started
              /\ \/ GetDriver(i)
                 \/ inv'[i].pc \in Searching
                      => inv[i].pc \in Searching /\ inv'[i].to = inv[i].to
         \/ \E i \in Invocations, r \in Races : SaveRace(i, r)
         \/ \E i \in Invocations : UpdateDriverRacesIngestedTo(i)
<1> DEFINE Kept == /\ UNCHANGED <<inv, sessions, sessionCount, ingestedTo>>
                   /\ published \subseteq published'
                   /\ \/ now' = now /\ ingestedBefore' = ingestedBefore
                      \/ Tick
           Moved(i) == /\ UNCHANGED <<now, published, ingestedBefore, sessions,
                                     sessionCount, ingestedTo>>
                       /\ \A j \in Invocations : j # i => inv'[j] = inv[j]
                       /\ inv'[i].saving \subseteq
                            inv[i].saving \cup (Races \ Skipped)
                       /\ \/ inv'[i].pc = "idle"
                          \/ inv'[i].started = now
                          \/ Active(i) /\ inv'[i].started = inv[i].started
                       /\ \/ GetDriver(i)
                          \/ inv'[i].pc \in Searching
                               => inv[i].pc \in Searching /\ inv'[i].to = inv[i].to
<1>1. ASSUME NEW m \in Messages, Enqueue(m) PROVE Kept
  BY <1>1 DEF Enqueue, Fault, store
<1>2. ASSUME NEW m \in Messages, Redrive(m) PROVE Kept
  BY <1>2 DEF Redrive, store
<1>3. ASSUME NEW i \in Invocations, NEW m \in Messages,
               Receive(i, m) \/ ReceiveAgain(i, m)
        PROVE  Moved(i)
  <2>1. /\ Become(i, Invoked(m))
       /\ UNCHANGED <<now, published, ingestedBefore, sessions, sessionCount, ingestedTo>>
    BY <1>3 DEF Receive, ReceiveAgain, store
  <2>2. inv' = [inv EXCEPT ![i] = Invoked(m)] /\ inv \in [Invocations -> Invocation]
    BY <2>1 DEF Become, TypeOK
  <2>3. inv'[i] = Invoked(m) /\ \A j \in Invocations : j # i => inv'[j] = inv[j]
    BY <2>2
  <2>4. Invoked(m).saving = {} /\ Invoked(m).started = now /\ Invoked(m).pc = "acquire"
    BY DEF Invoked, Idle
  <2>5. QED
    BY <2>1, <2>3, <2>4 DEF Searching
<1>4. ASSUME NEW i \in Invocations, AcquireIngestionLock(i) PROVE Moved(i)
  <2>1. PICK pc \in {"driver", "ack"} : Become(i, [inv[i] EXCEPT !.pc = pc])
    BY <1>4 DEF AcquireIngestionLock, Goto
  <2>2. QED
    BY <1>4, <2>1 DEF AcquireIngestionLock, Become, Searching, Active, Running,
    TypeOK, Invocation
<1>5. ASSUME NEW i \in Invocations, GetDriver(i) PROVE Moved(i)
  <2>1. PICK w : Become(i, [inv[i] EXCEPT !.pc = "search", !.from = RangeBegin(w),
                                          !.to = RangeEnd(w),
                                          !.upToDate = WillBeUpToDate(w)])
    BY <1>5 DEF GetDriver
  <2>2. UNCHANGED <<now, published, ingestedBefore, sessions, sessionCount, ingestedTo>>
    BY <1>5 DEF GetDriver, store
  <2>3. /\ \A j \in Invocations : j # i => inv'[j] = inv[j]
        /\ inv'[i].saving = inv[i].saving /\ inv'[i].started = inv[i].started
    BY <2>1 DEF Become, TypeOK, Invocation
  <2>4. Active(i)
    BY <1>5 DEF GetDriver, Active
  <2>5. QED
    BY <1>5, <2>2, <2>3, <2>4
<1>6. ASSUME NEW i \in Invocations, Search(i) PROVE Moved(i)
  BY <1>6 DEF Search, store, Goto, GiveUp, Become, Searching, Active, Running,
    TypeOK, Invocation
<1>7. ASSUME NEW i \in Invocations, NEW r \in Races, CheckRace(i, r) PROVE
  Moved(i)
  BY <1>7 DEF CheckRace, store, Goto, GiveUp, Become, Searching, Active, Running,
    TypeOK, Invocation
<1>8. ASSUME NEW i \in Invocations, NEW r \in Races, SaveConflict(i, r) PROVE
  Moved(i)
  BY <1>8 DEF SaveConflict, store, Goto, GiveUp, Become, Searching, Active, Running,
    TypeOK, Invocation
<1>9. ASSUME NEW i \in Invocations, NotifyChunk(i) PROVE Moved(i)
  BY <1>9 DEF NotifyChunk, store, Goto, GiveUp, Become, Searching, Active, Running,
    TypeOK, Invocation
<1>10. ASSUME NEW i \in Invocations, ReleaseBeforeNextRound(i) PROVE Moved(i)
  BY <1>10 DEF ReleaseBeforeNextRound, store, Goto, GiveUp, Become, Searching, Active,
    Running, TypeOK, Invocation
<1>11. ASSUME NEW i \in Invocations, NEW m \in Messages, PublishNextRound(i,
  m) PROVE Moved(i)
  BY <1>11 DEF PublishNextRound, store, Goto, GiveUp, Become, Searching, Active,
    Running, TypeOK, Invocation
<1>12. ASSUME NEW i \in Invocations, ReleaseAfterError(i) PROVE Moved(i)
  BY <1>12 DEF ReleaseAfterError, store, Goto, GiveUp, Become, Searching, Active,
    Running, TypeOK, Invocation
<1>13. ASSUME NEW i \in Invocations, NotifyStaleCredentials(i) PROVE Moved(i)
  BY <1>13 DEF NotifyStaleCredentials, store, Goto, GiveUp, Become, Searching, Active,
    Running, TypeOK, Invocation
<1>14. ASSUME NEW i \in Invocations, DeadlineExceeded(i) PROVE Moved(i)
  BY <1>14 DEF DeadlineExceeded, store, Goto, GiveUp, Become, Searching, Active,
    Running, TypeOK, Invocation
<1>15. ASSUME NEW i \in Invocations, Ack(i) PROVE Moved(i)
  BY <1>15 DEF Ack, store, Goto, GiveUp, Become, Idle, Searching, Active, Running,
    TypeOK, Invocation
<1>16. ASSUME NEW i \in Invocations, Nack(i) PROVE Moved(i)
  BY <1>16 DEF Nack, store, Goto, GiveUp, Become, Idle, Searching, Active, Running,
    TypeOK, Invocation
<1>17. ASSUME NEW i \in Invocations, NEW u \in BOOLEAN, FailRound(i, u) PROVE
  Moved(i)
  BY <1>17 DEF FailRound, store, Goto, GiveUp, Become, Searching, Active, Running,
    TypeOK, Invocation
<1>18. ASSUME NEW i \in Invocations, ReleaseFails(i) PROVE Moved(i)
  BY <1>18 DEF ReleaseFails, store, Goto, GiveUp, Become, Searching, Active, Running,
    TypeOK, Invocation
<1>19. ASSUME NEW i \in Invocations, CallFails(i) PROVE Moved(i)
  BY <1>19 DEF CallFails, store, Goto, GiveUp, Become, Searching, Active, Running,
    TypeOK, Invocation
<1>20. ASSUME NEW i \in Invocations, AcquireAnswerLost(i) PROVE Moved(i)
  <2>1. PICK pc \in {"ack", "nack"} : Become(i, [inv[i] EXCEPT !.pc = pc])
    BY <1>20 DEF AcquireAnswerLost, Goto
  <2>2. QED
    BY <1>20, <2>1 DEF AcquireAnswerLost, Become, Searching, Active, Running,
    TypeOK, Invocation
<1>21. ASSUME NEW i \in Invocations, Crash(i) PROVE Moved(i)
  BY <1>21 DEF Crash, store, Goto, GiveUp, Become, Idle, Searching, Active, Running,
    TypeOK, Invocation
<1>22. ASSUME NEW r \in Races, PublishResult(r) PROVE Kept
  BY <1>22 DEF PublishResult, store
<1>23. ASSUME ExpireLockRow PROVE Kept
  BY <1>23 DEF ExpireLockRow, store
<1>24. ASSUME Tick PROVE Kept
  BY <1>24 DEF Tick, store
<1>25. CASE UNCHANGED vars
  BY <1>25 DEF vars, store
<1>26. QED
  BY <1>1, <1>2, <1>3, <1>4, <1>5, <1>6, <1>7, <1>8, <1>9, <1>10, <1>11,
    <1>12, <1>13, <1>14, <1>15, <1>16, <1>17, <1>18, <1>19, <1>20, <1>21,
    <1>22, <1>23, <1>24, <1>25 DEF Next, Delivery, Round, Failure, Environment

----------------------------------------------------------------------------
(* No race is lost.  Below the watermark less the buffer everything is       *)
(* stored; a round keeps what it needs to extend that to the end of its      *)
(* window: where the window starts, and that every result it was given is    *)
(* stored or still to be handled.                                            *)

\* A round's window starts where everything before is stored, and ends at or
\* after the watermark, strictly after it if another round will follow one that
\* read the watermark; the next window, from any reading, reaches that end.
WindowOK(v) ==
  /\ v.to \in Nat /\ v.to <= now /\ v.to >= ingestedTo
  /\ ~v.upToDate /\ v.from = RangeBegin(ingestedTo) => v.to > ingestedTo
  /\ v.from = MemberSince \/ CoveredUpTo(v.from)
  /\ v.to <= RangeBegin(ingestedTo) + Window
  /\ ingestedTo = Never => v.to >= v.started \/ v.to = MemberSince + Window

\* A lagging replica is one update behind: the window that starts from what it
\* holds reaches the watermark, and reaches no further than the window that
\* starts from the watermark.
LagOK ==
  /\ ingestedBefore = Never \/ ingestedBefore \in Nat
  /\ ingestedTo <= RangeBegin(ingestedBefore) + Window
  /\ \/ ingestedBefore = ingestedTo
     \/ RangeBegin(ingestedBefore) <= RangeBegin(ingestedTo)
     \/ now <= RangeBegin(ingestedTo) + Window

\* Every race of the window that had to be published by the search is stored
\* or still with the workers.
HandledOK(v) ==
  \A r \in Races \ Skipped :
    v.from <= FinishTime[r] /\ FinishTime[r] <= v.to - Buffer
      => r \in v.todo \cup v.saving \/ Stored(r)

\* A result appears within MaxLag of the finish.
PublishedInTime ==
  \A r \in Races : FinishTime[r] + MaxLag <= now => r \in published

CoverInv ==
  /\ ingestedTo = Never \/ (ingestedTo \in Nat /\ ingestedTo <= now)
  /\ ingestedBefore <= ingestedTo => LagOK
  /\ NoLostRace
  /\ PublishedInTime
  /\ \A i \in Invocations : inv[i].pc \in Searching => WindowOK(inv[i])
  /\ \A i \in Invocations : inv[i].pc = "races" => HandledOK(inv[i])

\* No round of this step starts from a reading that is ahead of the watermark, as
\* a replica may be of one that was reset; without resets there is none.
ReadsNoLostWatermark ==
  \/ ingestedBefore <= ingestedTo
  \/ \A i \in Invocations :
       inv[i].pc = "driver" /\ inv'[i].pc = "search"
         => inv'[i].from = RangeBegin(ingestedTo)

\* Sessions are only added: what is stored stays stored.
LEMMA StoredKept ==
  ASSUME sessions \subseteq sessions'
  PROVE  /\ \A r : Stored(r) => Stored(r)'
         /\ \A t : CoveredUpTo(t) => CoveredUpTo(t)'
<1>1. \A r : Stored(r) => Stored(r)'
  BY DEF Stored
<1>2. QED
  BY <1>1 DEF CoveredUpTo

\* A step that moves one invocation without moving the watermark, keeps its
\* window if it is still searching, and drops no race that is not stored.
LEMMA CoverFrame ==
  ASSUME TypeOK, CoverInv, NEW i \in Invocations, NEW v, Become(i, v),
         now' = now, published' = published, ingestedTo' = ingestedTo,
         ingestedBefore' = ingestedBefore, sessions \subseteq sessions',
         v.pc \in Searching => /\ inv[i].pc = v.pc /\ v.started = inv[i].started
                               /\ v.from = inv[i].from /\ v.to = inv[i].to
                               /\ v.upToDate = inv[i].upToDate,
         v.pc = "races" => \A r \in inv[i].todo \cup inv[i].saving :
                             \/ r \in v.todo \cup v.saving
                             \/ r \in Skipped
                             \/ \E s \in sessions' : StartTime[s] = StartTime[r]
  PROVE  CoverInv'
<1>1. \A j \in Invocations : inv'[j] = IF j = i THEN v ELSE inv[j]
  BY DEF TypeOK, Become
<1>2. /\ \A r : Stored(r) => Stored(r)'
      /\ \A t : CoveredUpTo(t) => CoveredUpTo(t)'
  BY StoredKept
<1>3. /\ ingestedTo' = Never \/ (ingestedTo' \in Nat /\ ingestedTo' <= now')
      /\ ingestedBefore' <= ingestedTo' => LagOK'
      /\ NoLostRace'
      /\ PublishedInTime'
  BY <1>2 DEF CoverInv, LagOK, RangeBegin, NoLostRace, PublishedInTime
<1>4. ASSUME NEW j \in Invocations, inv'[j].pc \in Searching
      PROVE  WindowOK(inv[j])'
  <2>1. /\ inv[j].pc \in Searching
        /\ inv'[j].from = inv[j].from /\ inv'[j].to = inv[j].to
        /\ inv'[j].upToDate = inv[j].upToDate
        /\ inv'[j].started = inv[j].started
    BY <1>1, <1>4
  <2>2. WindowOK(inv[j])
    BY <2>1 DEF CoverInv
  <2>3. CoveredUpTo(inv[j].from) => CoveredUpTo(inv[j].from)'
    <3>1. ASSUME CoveredUpTo(inv[j].from) PROVE CoveredUpTo(inv[j].from)'
      BY <1>2, <2>1, <3>1 DEF CoveredUpTo
    <3>2. QED
      BY <3>1
  <2>4. QED
    BY <2>1, <2>2, <2>3 DEF WindowOK, RangeBegin
<1>5. ASSUME NEW j \in Invocations, inv'[j].pc = "races"
      PROVE  HandledOK(inv[j])'
  <2>1. /\ inv[j].pc = "races"
        /\ inv'[j].from = inv[j].from /\ inv'[j].to = inv[j].to
    BY <1>1, <1>5 DEF Searching
  <2>2. HandledOK(inv[j])
    BY <2>1 DEF CoverInv
  <2>3. \A r \in inv[j].todo \cup inv[j].saving :
          r \in inv'[j].todo \cup inv'[j].saving \/ r \in Skipped \/ Stored(r)'
    BY <1>1, <1>5 DEF Stored
  <2>4. QED
    BY <1>2, <2>1, <2>2, <2>3 DEF HandledOK
<1>6. QED
  BY <1>3, <1>4, <1>5 DEF CoverInv

\* Every step keeps what a round knows about its window and what is stored.
LEMMA CoverStep ==
  TypeOK /\ LeaseInv /\ CoverInv /\ [Next]_vars /\ ReadsNoLostWatermark => CoverInv'
<1> SUFFICES ASSUME TypeOK, LeaseInv, CoverInv, [Next]_vars, ReadsNoLostWatermark
             PROVE  CoverInv'
  OBVIOUS
<1>1. ASSUME UNCHANGED <<now, published, ingestedTo, ingestedBefore, sessions, inv>>
      PROVE  CoverInv'
  BY <1>1 DEF CoverInv, LagOK, RangeBegin, NoLostRace, PublishedInTime, WindowOK,
              HandledOK, CoveredUpTo, Stored
<1>2. ASSUME NEW m \in Messages, Enqueue(m) PROVE CoverInv'
  BY <1>1, <1>2 DEF Enqueue, Fault, store
<1>3. ASSUME NEW m \in Messages, Redrive(m) PROVE CoverInv'
  BY <1>1, <1>3 DEF Redrive, store
<1>4. ASSUME NEW i \in Invocations, NEW m \in Messages,
             Receive(i, m) \/ ReceiveAgain(i, m)
      PROVE  CoverInv'
  <2>1. Become(i, Invoked(m))
    BY <1>4 DEF Receive, ReceiveAgain, Fault, Goto, GiveUp
  <2>2. QED
    BY <1>4, <2>1, CoverFrame DEF Receive, ReceiveAgain, Fault, store, Invoked, Idle,
      CriticalPcs, Searching, TypeOK, Invocation
<1>5. ASSUME NEW i \in Invocations, AcquireIngestionLock(i) PROVE CoverInv'
  <2>1. PICK pc \in {"driver", "ack"} : Become(i, [inv[i] EXCEPT !.pc = pc])
    BY <1>5 DEF AcquireIngestionLock, Goto
  <2>2. [inv[i] EXCEPT !.pc = pc].pc = pc
    BY DEF TypeOK, Invocation
  <2>3. QED
    BY <1>5, <2>1, <2>2, CoverFrame DEF AcquireIngestionLock, Searching
<1>6. ASSUME NEW i \in Invocations, GetDriver(i) PROVE CoverInv'
  <2> DEFINE Started(w) == [inv[i] EXCEPT !.pc = "search", !.from = RangeBegin(w),
                                         !.to = RangeEnd(w),
                                         !.upToDate = WillBeUpToDate(w)]
  <2>0. PICK u \in {ingestedTo, ingestedBefore} : Become(i, Started(u))
    BY <1>6 DEF GetDriver
  <2>1. PICK w \in {ingestedTo, ingestedBefore} :
          /\ w = ingestedTo \/ ingestedBefore <= ingestedTo
          /\ Become(i, Started(w))
    <3>1. CASE u = ingestedTo \/ ingestedBefore <= ingestedTo
      BY <2>0, <3>1
    <3>2. CASE ~(ingestedBefore <= ingestedTo)
      <4>1. inv'[i].pc = "search" /\ inv'[i].from = RangeBegin(u)
        BY <2>0 DEF Become, TypeOK, Invocation
      <4>2. inv[i].pc = "driver"
        BY <1>6 DEF GetDriver
      <4>3. RangeBegin(u) = RangeBegin(ingestedTo)
        BY <3>2, <4>1, <4>2 DEF ReadsNoLostWatermark
      <4>4. Started(u) = Started(ingestedTo)
        BY <4>3 DEF RangeEnd, WillBeUpToDate
      <4>5. QED
        BY <2>0, <4>4
    <3>3. QED
      BY <3>1, <3>2
  <2>2. \A j \in Invocations : j # i => inv'[j] = inv[j]
    BY <2>1 DEF Become, TypeOK
  <2>3. /\ inv'[i].pc = "search" /\ inv'[i].started = inv[i].started
        /\ inv'[i].from = RangeBegin(w) /\ inv'[i].to = RangeEnd(w)
        /\ inv'[i].upToDate = WillBeUpToDate(w)
    BY <2>1 DEF Become, TypeOK, Invocation
  <2>4. UNCHANGED <<now, published, ingestedTo, ingestedBefore, sessions>>
    BY <1>6 DEF GetDriver, store
  <2>5. /\ w \in Int
        /\ w = Never \/ w \in Nat
        /\ w <= ingestedTo /\ ingestedTo <= RangeBegin(w) + Window
        /\ ingestedTo = Never \/ (ingestedTo \in Nat /\ ingestedTo <= now)
        /\ \/ RangeBegin(w) <= RangeBegin(ingestedTo)
           \/ now <= RangeBegin(ingestedTo) + Window
    BY <2>1, TimesAssumption, WindowAssumption
    DEF CoverInv, LagOK, RangeBegin, TypeOK, Never
  <2>6. inv[i].started \in Nat /\ inv[i].started <= now
    BY <1>6 DEF GetDriver, LeaseInv, Active, TypeOK, Invocation
  <2>7. /\ RangeEnd(w) \in Nat /\ RangeEnd(w) <= now /\ RangeEnd(w) >= ingestedTo
        /\ RangeEnd(w) <= RangeBegin(ingestedTo) + Window
    BY <2>5, TimesAssumption, WindowAssumption
    DEF RangeEnd, RangeBegin, TypeOK, Never
  <2>8. ~WillBeUpToDate(w) /\ RangeBegin(w) = RangeBegin(ingestedTo)
          => RangeEnd(w) > ingestedTo
    BY <2>5, TimesAssumption, WindowAssumption
    DEF RangeEnd, RangeBegin, WillBeUpToDate, TypeOK, Never
  <2>9. ingestedTo = Never
          => RangeEnd(w) >= inv[i].started \/ RangeEnd(w) = MemberSince + Window
    BY <2>5, <2>6, TimesAssumption DEF RangeEnd, RangeBegin, TypeOK, Never
  <2>10. RangeBegin(w) = MemberSince \/ CoveredUpTo(RangeBegin(w))
    <3>1. CASE w = Never
      BY <3>1 DEF RangeBegin
    <3>2. CASE w \in Nat
      <4>1. ingestedTo # Never /\ RangeBegin(w) = w - Buffer
            /\ w - Buffer <= ingestedTo - Buffer
        BY <2>5, <3>2, TimesAssumption DEF RangeBegin, Never, TypeOK
      <4>2. CoveredUpTo(ingestedTo - Buffer)
        BY <4>1 DEF CoverInv, NoLostRace
      <4>3. \A r \in Races : FinishTime[r] \in Nat
        BY RacesAssumption
      <4>4. QED
        BY <2>5, <3>2, <4>1, <4>2, <4>3, TimesAssumption DEF CoveredUpTo, TypeOK
    <3>3. QED
      BY <2>5, <3>1, <3>2
  <2>11. WindowOK(inv[i])'
    BY <2>3, <2>4, <2>7, <2>8, <2>9, <2>10 DEF WindowOK, RangeBegin, CoveredUpTo, Stored
  <2>12. \A j \in Invocations : j # i /\ inv'[j].pc \in Searching => WindowOK(inv[j])'
    BY <2>2, <2>4 DEF CoverInv, WindowOK, RangeBegin, CoveredUpTo, Stored
  <2>13. \A j \in Invocations : inv'[j].pc = "races" => HandledOK(inv[j])'
    BY <2>2, <2>3, <2>4 DEF CoverInv, HandledOK, Stored
  <2>14. QED
    BY <2>4, <2>11, <2>12, <2>13
    DEF CoverInv, LagOK, RangeBegin, NoLostRace, PublishedInTime, CoveredUpTo, Stored
<1>7. ASSUME NEW i \in Invocations, Search(i) PROVE CoverInv'
  <2>1. \A j \in Invocations : j # i => inv'[j] = inv[j]
    BY <1>7 DEF Search, Become, TypeOK
  <2>2. /\ inv[i].pc = "search" /\ inv'[i].from = inv[i].from
        /\ inv'[i].to = inv[i].to /\ inv'[i].upToDate = inv[i].upToDate
        /\ inv'[i].todo = SearchSeriesResults(inv[i].from, inv[i].to)
        /\ inv'[i].started = inv[i].started
    BY <1>7 DEF Search, Become, TypeOK, Invocation
  <2>3. UNCHANGED <<now, published, ingestedTo, ingestedBefore, sessions>>
    BY <1>7 DEF Search, store
  <2>4. WindowOK(inv[i])
    BY <2>2 DEF CoverInv, Searching
  <2>5. HandledOK(inv[i])'
    <3> SUFFICES ASSUME NEW r \in Races \ Skipped,
                        inv[i].from <= FinishTime[r],
                        FinishTime[r] <= inv[i].to - Buffer
                 PROVE  r \in inv'[i].todo
      BY <2>2 DEF HandledOK
    <3>1. /\ FinishTime[r] \in Nat /\ inv[i].to \in Nat /\ now \in Nat
          /\ inv[i].to <= now
      BY <2>4, RacesAssumption DEF WindowOK, TypeOK
    <3>2. FinishTime[r] + MaxLag <= now /\ FinishTime[r] <= inv[i].to
      BY <3>1, TimesAssumption, LagAssumption
    <3>3. r \in published
      BY <3>2 DEF CoverInv, PublishedInTime
    <3>4. QED
      BY <2>2, <3>2, <3>3 DEF SearchSeriesResults
  <2>6. \A j \in Invocations : inv'[j].pc \in Searching => WindowOK(inv[j])'
    BY <2>1, <2>2, <2>3, <2>4 DEF CoverInv, WindowOK, RangeBegin, CoveredUpTo, Stored
  <2>7. \A j \in Invocations : inv'[j].pc = "races" => HandledOK(inv[j])'
    BY <2>1, <2>3, <2>5 DEF CoverInv, HandledOK, Stored
  <2>8. QED
    BY <2>3, <2>6, <2>7
    DEF CoverInv, LagOK, RangeBegin, NoLostRace, PublishedInTime, CoveredUpTo, Stored
<1>8. ASSUME NEW i \in Invocations, NEW r \in Races, CheckRace(i, r) PROVE
  CoverInv'
  <2> DEFINE w(save) == [inv[i] EXCEPT !.todo = @ \ {r},
                                       !.saving = IF save THEN @ \cup {r} ELSE @]
  <2>0. PICK save \in BOOLEAN :
          Become(i, w(save)) /\ (~save => r \in Skipped \/ Stored(r))
    BY <1>8 DEF CheckRace
  <2> DEFINE v == w(save)
  <2>1. Become(i, v)
    BY <2>0
  <2>2. /\ v.pc = inv[i].pc /\ v.from = inv[i].from /\ v.to = inv[i].to
        /\ v.upToDate = inv[i].upToDate /\ v.started = inv[i].started
        /\ v.todo = inv[i].todo \ {r} /\ inv[i].saving \subseteq v.saving
        /\ r \in v.saving \/ r \in Skipped \/ Stored(r)
    BY <2>0 DEF TypeOK, Invocation
  <2>3. UNCHANGED <<now, published, ingestedTo, ingestedBefore, sessions>>
    BY <1>8 DEF CheckRace, store
  <2>4. \A s \in inv[i].todo \cup inv[i].saving :
          \/ s \in v.todo \cup v.saving
          \/ s \in Skipped
          \/ \E q \in sessions' : StartTime[q] = StartTime[s]
    BY <2>2, <2>3 DEF Stored
  <2> HIDE DEF v
  <2>5. QED
    BY <2>1, <2>2, <2>3, <2>4, CoverFrame
<1>9. ASSUME NEW i \in Invocations, NEW r \in Races, SaveRace(i, r) PROVE
  CoverInv'
  <2>1. Become(i, [inv[i] EXCEPT !.saving = @ \ {r}])
    BY <1>9 DEF SaveRace, Goto, GiveUp
  <2>2. /\ inv[i].pc = "races" /\ r \in sessions' /\ sessions \subseteq sessions'
        /\ UNCHANGED <<now, published, ingestedTo, ingestedBefore>>
    BY <1>9 DEF SaveRace, SaveDriverSessions
  <2>3. QED
    BY <2>1, <2>2, CoverFrame DEF CriticalPcs, Searching, TypeOK, Invocation
<1>10. ASSUME NEW i \in Invocations, NEW r \in Races, SaveConflict(i, r)
  PROVE CoverInv'
  <2>1. Become(i, [inv[i] EXCEPT !.pc = "failed", !.todo = {}, !.saving =
    {}, !.unauthorized = FALSE])
    BY <1>10 DEF SaveConflict, Goto, GiveUp
  <2>2. QED
    BY <1>10, <2>1, CoverFrame DEF SaveConflict, store, CriticalPcs,
      Searching, TypeOK, Invocation
<1>11. ASSUME NEW i \in Invocations, UpdateDriverRacesIngestedTo(i) PROVE
  CoverInv'
  <2>1. \A j \in Invocations : j # i => inv'[j] = inv[j]
    BY <1>11 DEF UpdateDriverRacesIngestedTo, Goto, Become, TypeOK
  <2>2. inv[i].pc = "races" /\ inv[i].todo = {} /\ inv[i].saving = {}
    BY <1>11 DEF UpdateDriverRacesIngestedTo
  <2>3. /\ UNCHANGED <<now, published, sessions>>
        /\ ingestedTo' = inv[i].to /\ ingestedBefore' = ingestedTo
    BY <1>11 DEF UpdateDriverRacesIngestedTo
  <2>4. WindowOK(inv[i]) /\ HandledOK(inv[i])
    BY <2>2 DEF CoverInv, Searching
  <2>5. CoveredUpTo(inv[i].to - Buffer)
    <3> SUFFICES ASSUME NEW r \in Races \ Skipped, MemberSince <= FinishTime[r],
                        FinishTime[r] <= inv[i].to - Buffer
                 PROVE  Stored(r)
      BY DEF CoveredUpTo
    <3>1. CASE inv[i].from <= FinishTime[r]
      BY <2>2, <2>4, <3>1 DEF HandledOK
    <3>2. CASE FinishTime[r] <= inv[i].from /\ inv[i].from # MemberSince
      BY <2>4, <3>2 DEF WindowOK, CoveredUpTo
    <3>3. FinishTime[r] \in Nat /\ inv[i].from \in Int
      BY RacesAssumption DEF TypeOK, Invocation
    <3>4. QED
      BY <3>1, <3>2, <3>3, TimesAssumption
  <2>6. ingestedTo' \in Nat /\ ingestedTo' <= now' /\ NoLostRace'
    BY <2>3, <2>4, <2>5 DEF WindowOK, NoLostRace, CoveredUpTo, Stored
  <2>7. inv'[i].pc = "notify"
    BY <1>11 DEF UpdateDriverRacesIngestedTo, Goto, Become, TypeOK, Invocation
  <2>8. \A j \in Invocations : inv'[j].pc \notin Searching
    BY <2>1, <2>2, <2>7
    DEF LeaseInv, MutualExclusion, InCritical, CriticalPcs, Searching
  <2>9. LagOK'
    <3>1. /\ inv[i].to \in Nat /\ inv[i].started \in Nat /\ now \in Nat
          /\ ingestedTo = Never \/ ingestedTo \in Nat
          /\ ingestedTo <= inv[i].to /\ inv[i].to <= RangeBegin(ingestedTo) + Window
      BY <2>4 DEF WindowOK, CoverInv, TypeOK, Invocation
    <3>2. \/ RangeBegin(ingestedTo) <= RangeBegin(inv[i].to)
          \/ now <= RangeBegin(inv[i].to) + Window
      <4>1. CASE ingestedTo \in Nat
        BY <3>1, <4>1, TimesAssumption DEF RangeBegin, Never
      <4>2. CASE ingestedTo = Never /\ inv[i].to = MemberSince + Window
        BY <3>1, <4>2, TimesAssumption, WindowAssumption DEF RangeBegin, Never
      <4>3. CASE ingestedTo = Never /\ inv[i].to >= inv[i].started
        <5>1. now < inv[i].started + Deadline
          BY <1>11 DEF UpdateDriverRacesIngestedTo, Alive
        <5>2. QED
          BY <3>1, <4>3, <5>1, TimesAssumption, DeadlineAssumption
          DEF RangeBegin, Never
      <4>4. QED
        BY <2>4, <3>1, <4>1, <4>2, <4>3 DEF WindowOK
    <3>3. QED
      BY <2>3, <3>1, <3>2 DEF LagOK, RangeBegin
  <2>10. QED
    BY <2>3, <2>6, <2>8, <2>9 DEF CoverInv, PublishedInTime, Searching
<1>12. ASSUME NEW i \in Invocations, NotifyChunk(i) PROVE CoverInv'
  <2>1. Become(i, [inv[i] EXCEPT !.pc = IF inv[i].upToDate THEN "ack" ELSE
    "release"])
    BY <1>12 DEF NotifyChunk, Goto, GiveUp
  <2>2. QED
    BY <1>12, <2>1, CoverFrame DEF NotifyChunk, store, CriticalPcs,
      Searching, TypeOK, Invocation
<1>13. ASSUME NEW i \in Invocations, ReleaseBeforeNextRound(i) PROVE
  CoverInv'
  <2>1. Become(i, [inv[i] EXCEPT !.pc = "publish"])
    BY <1>13 DEF ReleaseBeforeNextRound, Goto, GiveUp
  <2>2. QED
    BY <1>13, <2>1, CoverFrame DEF ReleaseBeforeNextRound, store,
      CriticalPcs, Searching, TypeOK, Invocation
<1>14. ASSUME NEW i \in Invocations, NEW m \in Messages, PublishNextRound(i,
  m) PROVE CoverInv'
  <2>1. Become(i, [inv[i] EXCEPT !.pc = "ack"])
    BY <1>14 DEF PublishNextRound, Goto, GiveUp
  <2>2. QED
    BY <1>14, <2>1, CoverFrame DEF PublishNextRound, store, CriticalPcs,
      Searching, TypeOK, Invocation
<1>15. ASSUME NEW i \in Invocations, ReleaseAfterError(i) PROVE CoverInv'
  <2>1. Become(i, [inv[i] EXCEPT !.pc = IF inv[i].unauthorized THEN "stale"
    ELSE "nack"])
    BY <1>15 DEF ReleaseAfterError, Goto, GiveUp
  <2>2. QED
    BY <1>15, <2>1, CoverFrame DEF ReleaseAfterError, store, CriticalPcs,
      Searching, TypeOK, Invocation
<1>16. ASSUME NEW i \in Invocations, NotifyStaleCredentials(i) PROVE
  CoverInv'
  <2>1. Become(i, [inv[i] EXCEPT !.pc = "ack"])
    BY <1>16 DEF NotifyStaleCredentials, Goto, GiveUp
  <2>2. QED
    BY <1>16, <2>1, CoverFrame DEF NotifyStaleCredentials, store,
      CriticalPcs, Searching, TypeOK, Invocation
<1>17. ASSUME NEW i \in Invocations, DeadlineExceeded(i) PROVE CoverInv'
  <2>1. Become(i, [inv[i] EXCEPT !.pc = IF inv[i].unauthorized THEN "ack"
    ELSE "nack"])
    BY <1>17 DEF DeadlineExceeded, Goto, GiveUp
  <2>2. QED
    BY <1>17, <2>1, CoverFrame DEF DeadlineExceeded, store, CriticalPcs,
      Searching, TypeOK, Invocation
<1>18. ASSUME NEW i \in Invocations, Ack(i) PROVE CoverInv'
  <2>1. Become(i, Idle)
    BY <1>18 DEF Ack, Goto, GiveUp
  <2>2. QED
    BY <1>18, <2>1, CoverFrame DEF Ack, store, Idle, CriticalPcs, Searching,
      TypeOK, Invocation
<1>19. ASSUME NEW i \in Invocations, Nack(i) PROVE CoverInv'
  <2>1. Become(i, Idle)
    BY <1>19 DEF Nack, Goto, GiveUp
  <2>2. QED
    BY <1>19, <2>1, CoverFrame DEF Nack, store, Idle, CriticalPcs,
      Searching, TypeOK, Invocation
<1>20. ASSUME NEW i \in Invocations, NEW u \in BOOLEAN, FailRound(i, u)
  PROVE CoverInv'
  <2>1. Become(i, [inv[i] EXCEPT !.pc = "failed", !.todo = {}, !.saving =
    {}, !.unauthorized = u])
    BY <1>20 DEF FailRound, Goto, GiveUp
  <2>2. QED
    BY <1>20, <2>1, CoverFrame DEF FailRound, store, CriticalPcs, Searching,
      TypeOK, Invocation
<1>21. ASSUME NEW i \in Invocations, ReleaseFails(i) PROVE CoverInv'
  <2>1. Become(i, [inv[i] EXCEPT !.pc = IF inv[i].unauthorized THEN "stale"
    ELSE "nack"])
    BY <1>21 DEF ReleaseFails, Goto, GiveUp
  <2>2. QED
    BY <1>21, <2>1, CoverFrame DEF ReleaseFails, store, CriticalPcs,
      Searching, TypeOK, Invocation
<1>22. ASSUME NEW i \in Invocations, CallFails(i) PROVE CoverInv'
  <2>1. Become(i, [inv[i] EXCEPT !.pc = "nack"])
    BY <1>22 DEF CallFails, Goto, GiveUp
  <2>2. QED
    BY <1>22, <2>1, CoverFrame DEF CallFails, store, CriticalPcs, Searching,
      TypeOK, Invocation
<1>23. ASSUME NEW i \in Invocations, AcquireAnswerLost(i) PROVE CoverInv'
  <2>1. PICK pc \in {"ack", "nack"} : Become(i, [inv[i] EXCEPT !.pc = pc])
    BY <1>23 DEF AcquireAnswerLost, Goto
  <2>2. [inv[i] EXCEPT !.pc = pc].pc = pc
    BY DEF TypeOK, Invocation
  <2>3. QED
    BY <1>23, <2>1, <2>2, CoverFrame DEF AcquireAnswerLost, Searching
<1>24. ASSUME NEW i \in Invocations, Crash(i) PROVE CoverInv'
  <2>1. Become(i, Idle)
    BY <1>24 DEF Crash, Goto, GiveUp
  <2>2. QED
    BY <1>24, <2>1, CoverFrame DEF Crash, store, Idle, CriticalPcs,
      Searching, TypeOK, Invocation
<1>25. ASSUME NEW r \in Races, PublishResult(r) PROVE CoverInv'
  BY <1>25 DEF PublishResult, store, CoverInv, LagOK, RangeBegin, NoLostRace,
     PublishedInTime, WindowOK, HandledOK, CoveredUpTo, Stored
<1>26. ASSUME ExpireLockRow PROVE CoverInv'
  BY <1>1, <1>26 DEF ExpireLockRow, store
<1>27. ASSUME Tick PROVE CoverInv'
  <2>1. /\ now' = now + 1 /\ ingestedBefore' = ingestedTo
        /\ UNCHANGED <<published, ingestedTo, sessions, inv>>
    BY <1>27 DEF Tick, store
  <2>2. PublishedInTime'
    BY <1>27, <2>1 DEF Tick, PublishedInTime
  <2>3. /\ NoLostRace'
        /\ ingestedTo' = Never \/ (ingestedTo' \in Nat /\ ingestedTo' <= now')
    BY <2>1 DEF TypeOK, CoverInv, NoLostRace, CoveredUpTo, Stored
  <2>4. \A i \in Invocations : inv'[i].pc \in Searching => WindowOK(inv[i])'
    BY <2>1 DEF TypeOK, CoverInv, WindowOK, RangeBegin, CoveredUpTo, Stored
  <2>5. \A i \in Invocations : inv'[i].pc = "races" => HandledOK(inv[i])'
    BY <2>1 DEF CoverInv, HandledOK, Stored
  <2>6. LagOK'
    BY <2>1, TimesAssumption, WindowAssumption
    DEF TypeOK, CoverInv, LagOK, RangeBegin, Never
  <2>7. QED
    BY <2>2, <2>3, <2>4, <2>5, <2>6 DEF CoverInv
<1>28. QED
  BY <1>1, <1>2, <1>3, <1>4, <1>5, <1>6, <1>7, <1>8, <1>9, <1>10, <1>11,
    <1>12, <1>13, <1>14, <1>15, <1>16, <1>17, <1>18, <1>19, <1>20, <1>21,
    <1>22, <1>23, <1>24, <1>25, <1>26, <1>27 DEF Next, Delivery, Round,
    Failure, Environment, vars, store

\* What a replica holds is not after the watermark.
NeverAhead == ingestedBefore <= ingestedTo

\* No round has a window at first.
LEMMA InitCover == Init => CoverInv /\ NeverAhead
<1>1. ASSUME Init PROVE PublishedInTime
  BY <1>1 DEF Init, PublishedInTime
<1>2. ASSUME Init PROVE \A i \in Invocations : inv[i].pc = "idle"
  BY <1>2 DEF Init, Idle
<1>3. ASSUME Init PROVE LagOK /\ ingestedBefore <= ingestedTo
  BY <1>3, TimesAssumption DEF Init, LagOK, RangeBegin, Never
<1>4. QED
  BY <1>1, <1>2, <1>3 DEF Init, CoverInv, NeverAhead, NoLostRace, Searching

\* What a round knows of its window holds in every reachable state, and without
\* resets a replica is never ahead of the watermark.
LEMMA CoverInvariant == Spec => [](CoverInv /\ NeverAhead)
<1>1. Init => CoverInv /\ NeverAhead
  BY InitCover
<1>2. TypeOK /\ CoverInv /\ NeverAhead /\ [Next]_vars
        => ReadsNoLostWatermark /\ NeverAhead'
  <2> SUFFICES ASSUME TypeOK, CoverInv, NeverAhead, [Next]_vars
               PROVE  ingestedBefore' <= ingestedTo'
    BY DEF ReadsNoLostWatermark, NeverAhead
  <2>1. CASE UNCHANGED <<ingestedBefore, ingestedTo>>
    BY <2>1 DEF NeverAhead
  <2>2. CASE Tick
    BY <2>2 DEF Tick, TypeOK
  <2>3. ASSUME NEW i \in Invocations, NEW r \in Races, SaveRace(i, r)
        PROVE  ingestedBefore' <= ingestedTo'
    BY <2>3 DEF SaveRace, NeverAhead
  <2>4. ASSUME NEW i \in Invocations, UpdateDriverRacesIngestedTo(i)
        PROVE  ingestedBefore' <= ingestedTo'
    <3>1. WindowOK(inv[i])
      BY <2>4 DEF UpdateDriverRacesIngestedTo, CoverInv, Searching
    <3>2. QED
      BY <2>4, <3>1 DEF UpdateDriverRacesIngestedTo, WindowOK, TypeOK
  <2>5. QED
    BY <2>1, <2>2, <2>3, <2>4, StepKinds
<1>3. QED
  BY <1>1, <1>2, CoverStep, TypeCorrect, LeaseInvariant, PTL DEF Spec

\* No race of the driver is lost behind the watermark, whatever the races, the
\* interleaving of the invocations and the faults.
THEOREM NoLostRaceHolds == Spec => []NoLostRace
<1>1. CoverInv => NoLostRace
  BY DEF CoverInv
<1>2. QED
  BY <1>1, CoverInvariant, PTL

----------------------------------------------------------------------------
(* The count of the rows.                                                   *)

\* The rows have distinct keys, are counted exactly, and hold no race that is
\* to be skipped; nor does any worker.
SessionInv ==
  /\ SessionCountExact
  /\ sessions \cap Skipped = {}
  /\ \A i \in Invocations : inv[i].saving \cap Skipped = {}

\* Every step keeps the rows, their count and what the workers may save.
LEMMA SessionStep == TypeOK /\ SessionInv /\ [Next]_vars => SessionInv'
<1> SUFFICES ASSUME TypeOK, SessionInv, [Next]_vars PROVE SessionInv'
  OBVIOUS
<1>1. CASE UNCHANGED <<inv, sessions, sessionCount, ingestedTo>>
  BY <1>1 DEF SessionInv, SessionCountExact
<1>2. ASSUME NEW i \in Invocations,
             UNCHANGED <<sessions, sessionCount, ingestedTo>>,
             \A j \in Invocations : j # i => inv'[j] = inv[j],
             inv'[i].saving \subseteq inv[i].saving \cup (Races \ Skipped)
      PROVE  SessionInv'
  BY <1>2 DEF SessionInv, SessionCountExact
<1>3. ASSUME NEW i \in Invocations, NEW r \in Races, SaveRace(i, r)
      PROVE  SessionInv'
  <2>1. /\ ~Stored(r) /\ sessions' = sessions \cup {r}
        /\ sessionCount' = sessionCount + 1 /\ r \in inv[i].saving
    BY <1>3 DEF SaveRace, SaveDriverSessions
  <2>2. \A j \in Invocations : inv'[j].saving \subseteq inv[j].saving
    BY <1>3 DEF SaveRace, Become, TypeOK, Invocation
  <2>3. IsFiniteSet(sessions)
    BY RacesAssumption, FS_Subset DEF TypeOK
  <2>4. r \notin sessions
    BY <2>1 DEF Stored
  <2>5. Cardinality(sessions') = Cardinality(sessions) + 1
    BY <2>1, <2>3, <2>4, FS_AddElement
  <2>6. \A q, s \in sessions' : StartTime[q] = StartTime[s] => q = s
    BY <2>1 DEF Stored, SessionInv, SessionCountExact
  <2>7. sessions' \cap Skipped = {}
    BY <2>1 DEF SessionInv
  <2>8. QED
    BY <2>1, <2>2, <2>5, <2>6, <2>7 DEF SessionInv, SessionCountExact
<1>4. ASSUME NEW i \in Invocations, UpdateDriverRacesIngestedTo(i)
      PROVE  SessionInv'
  BY <1>4
  DEF UpdateDriverRacesIngestedTo, Goto, Become, TypeOK, Invocation, SessionInv,
      SessionCountExact
<1>5. QED
  BY <1>1, <1>2, <1>3, <1>4, StepKinds

\* No row is stored at first.
LEMMA InitSession == Init => SessionInv
BY FS_EmptySet DEF Init, SessionInv, SessionCountExact, Idle

\* The count is exact in every reachable state.
LEMMA SessionInvariant == Spec => []SessionInv
<1>1. Init => SessionInv
  BY InitSession
<1>2. QED
  BY <1>1, SessionStep, TypeCorrect, PTL DEF Spec

\* session_count is exact and keys are unique in every reachable state.
THEOREM SessionCountHolds == Spec => []SessionCountExact
<1>1. SessionInv => SessionCountExact
  BY DEF SessionInv
<1>2. QED
  BY <1>1, SessionInvariant, PTL

\* The update of the watermark, seen from the invariant of its round.
LEMMA UpdateMovesForward ==
  ASSUME TypeOK, CoverInv, NEW i \in Invocations, UpdateDriverRacesIngestedTo(i)
  PROVE  /\ ingestedTo' \in Nat
         /\ ingestedTo' >= ingestedTo
         /\ ~inv[i].upToDate /\ inv[i].from = RangeBegin(ingestedTo)
              => ingestedTo' > ingestedTo
<1>1. WindowOK(inv[i])
  BY DEF UpdateDriverRacesIngestedTo, CoverInv, Searching
<1>2. QED
  BY <1>1 DEF UpdateDriverRacesIngestedTo, WindowOK

\* races_ingested_to never moves back.
THEOREM WatermarkMonotoneHolds == Spec => WatermarkMonotone
<1>1. TypeOK /\ CoverInv /\ [Next]_vars => [ingestedTo' >= ingestedTo]_vars
  <2> SUFFICES ASSUME TypeOK, CoverInv, [Next]_vars PROVE ingestedTo' >= ingestedTo
    OBVIOUS
  <2>1. CASE ingestedTo' = ingestedTo
    BY <2>1 DEF TypeOK
  <2>2. CASE \E i \in Invocations : UpdateDriverRacesIngestedTo(i)
    BY <2>2, UpdateMovesForward
  <2>3. CASE \E i \in Invocations, r \in Races : SaveRace(i, r)
    BY <2>1, <2>3 DEF SaveRace
  <2>4. QED
    BY <2>1, <2>2, <2>3, StepKinds
<1>2. QED
  BY <1>1, TypeCorrect, CoverInvariant, PTL DEF Spec, WatermarkMonotone

\* A round that queues another one has moved the watermark strictly forward,
\* unless it missed the update of the round before.
THEOREM RecursionAdvancesHolds == Spec => RecursionAdvances
<1>1. TypeOK /\ CoverInv /\ [Next]_vars
        => [\A i \in Invocations :
              /\ UpdateDriverRacesIngestedTo(i) /\ ~inv[i].upToDate
              /\ inv[i].from = RangeBegin(ingestedTo)
              => ingestedTo' > ingestedTo]_vars
  BY UpdateMovesForward
<1>2. QED
  BY <1>1, TypeCorrect, CoverInvariant, PTL DEF Spec, RecursionAdvances

----------------------------------------------------------------------------
(* The refinement.                                                          *)

Workers == {i \in Invocations : InCritical(i)}

\* With at most one worker before and after, a step that moves one invocation
\* begins a round, ends one, or leaves the worker alone.
LEMMA WorkersStep ==
  ASSUME MutualExclusion, MutualExclusion', NEW i \in Invocations,
         \A j \in Invocations : j # i => inv'[j] = inv[j]
  PROVE  \/ Workers' = Workers
         \/ Workers = {} /\ Workers' = {i}
         \/ Workers = {i} /\ Workers' = {}
<1>1. \A j \in Invocations : j # i => (j \in Workers <=> j \in Workers')
  BY DEF Workers, InCritical
<1>2. /\ \A j, k \in Workers : j = k
      /\ \A j, k \in Workers' : j = k
  BY DEF MutualExclusion, Workers
<1>3. Workers \subseteq Invocations /\ Workers' \subseteq Invocations
  BY DEF Workers
<1>4. CASE i \in Workers /\ i \in Workers'
  BY <1>1, <1>3, <1>4
<1>5. CASE i \notin Workers /\ i \notin Workers'
  BY <1>1, <1>3, <1>5
<1>6. CASE i \in Workers /\ i \notin Workers'
  BY <1>1, <1>2, <1>3, <1>6
<1>7. CASE i \notin Workers /\ i \in Workers'
  BY <1>1, <1>2, <1>3, <1>7
<1>8. QED
  BY <1>4, <1>5, <1>6, <1>7

\* The pipeline of queue, lambdas and lock implements SerialIngestion.
THEOREM Implements == Spec => ImplementsSerialIngestion
<1>1. Init => Serial!Init
  BY DEF Init, Serial!Init, InCritical, Idle, CriticalPcs, Never
<1>2. ASSUME TypeOK, MutualExclusion, MutualExclusion', CoverInv, CoverInv',
             SessionInv, [Next]_vars
      PROVE  [Serial!Next]_(Serial!vars)
  <2> USE <1>2
  <2>1. CASE UNCHANGED <<inv, sessions, sessionCount, ingestedTo>>
    BY <2>1 DEF Serial!vars, InCritical
  <2>2. ASSUME NEW i \in Invocations,
               UNCHANGED <<sessions, sessionCount, ingestedTo>>,
               \A j \in Invocations : j # i => inv'[j] = inv[j]
        PROVE  [Serial!Next]_(Serial!vars)
    <3>1. \/ Workers' = Workers
          \/ Workers = {} /\ Workers' = {i}
          \/ Workers = {i} /\ Workers' = {}
      BY <2>2, WorkersStep
    <3>2. QED
      BY <2>2, <3>1 DEF Workers, Serial!Next, Serial!Begin, Serial!End, Serial!vars
  <2>3. ASSUME NEW i \in Invocations, NEW r \in Races, SaveRace(i, r)
        PROVE  [Serial!Next]_(Serial!vars)
    <3>1. /\ ~Stored(r) /\ sessions' = sessions \cup {r} /\ r \in inv[i].saving
          /\ inv[i].pc = "races" /\ ingestedTo' = ingestedTo
      BY <2>3 DEF SaveRace, SaveDriverSessions
    <3>2. \A j \in Invocations : inv'[j].pc = inv[j].pc
      BY <2>3 DEF SaveRace, Become, TypeOK, Invocation
    <3>3. Workers' = Workers /\ i \in Workers
      BY <3>1, <3>2 DEF Workers, InCritical, CriticalPcs
    <3>4. r \notin Skipped
      BY <3>1 DEF SessionInv
    <3>5. ~Serial!Stored(r)
      BY <3>1 DEF Stored, Serial!Stored
    <3>6. Serial!Store(r)
      BY <3>1, <3>3, <3>4, <3>5 DEF Workers, Serial!Store
    <3>7. QED
      BY <3>6 DEF Serial!Next
  <2>4. ASSUME NEW i \in Invocations, UpdateDriverRacesIngestedTo(i)
        PROVE  [Serial!Next]_(Serial!vars)
    <3>1. /\ inv[i].pc = "races" /\ sessions' = sessions
          /\ \A j \in Invocations : inv'[j].pc = IF j = i THEN "notify" ELSE inv[j].pc
      BY <2>4 DEF UpdateDriverRacesIngestedTo, Goto, Become, TypeOK, Invocation
    <3>2. Workers' = Workers /\ i \in Workers
      BY <3>1 DEF Workers, InCritical, CriticalPcs
    <3>3. ingestedTo' \in Nat /\ ingestedTo' >= ingestedTo
      BY <2>4, UpdateMovesForward
    <3>4. Serial!CoveredUpTo(ingestedTo' - Buffer)
      BY <3>1, <3>3
      DEF CoverInv, NoLostRace, Never, CoveredUpTo, Stored, Serial!CoveredUpTo,
          Serial!Stored
    <3>5. Serial!Advance
      BY <3>1, <3>2, <3>3, <3>4 DEF Workers, Serial!Advance
    <3>6. QED
      BY <3>5 DEF Serial!Next
  <2>5. QED
    BY <2>1, <2>2, <2>3, <2>4, StepKinds
<1>3. QED
  BY <1>1, <1>2, TypeCorrect, MutualExclusionHolds, CoverInvariant, SessionInvariant,
     PTL
  DEF Spec, ImplementsSerialIngestion, Serial!Spec
============================================================================
