--------------------------- MODULE RaceIngestion ---------------------------
(***************************************************************************)
(* The asynchronous race ingestion of one driver: the REST endpoint that   *)
(* queues a request, the SQS queue, the concurrent Lambda invocations that *)
(* run RaceProcessor.IngestRaces, the driver's DynamoDB partition, and     *)
(* iRacing, which publishes a race's result some time after its finish.    *)
(*                                                                         *)
(* One driver is enough: every key an ingestion reads or writes lies in    *)
(* the partition of its driver, and the lock is a row of that partition.   *)
(* A time is a whole number of seconds, as in the table; the clock of the  *)
(* API and of the Lambdas is the same.                                     *)
(***************************************************************************)
EXTENDS Integers, FiniteSets

CONSTANTS
  Invocations,    \* Lambda execution environments (reserved concurrency)
  Messages,       \* identities of the messages that can be in SQS at once
  NoMessage,      \* what an idle invocation works on
  Races,          \* subsessions iRacing knows of
  Skipped,        \* those never stored: team events, or no race result
  StartTime,      \* [Races -> Nat]: the sort key of the stored session
  FinishTime,     \* [Races -> Nat]: what the search window selects on
  MaxLag,         \* a result is searchable at most MaxLag after the finish
  MemberSince,    \* the driver's first day: the first window starts here
  Window,         \* searchWindowDuration
  Buffer,         \* the overlap of two successive windows (four hours)
  LockDuration,   \* INGESTION_LOCK_DURATION_SECONDS
  LambdaTimeout,  \* the invocation is killed this long after its start
  Deadline,       \* its context is cancelled this long after its start
  Visibility,     \* SQS visibility timeout
  Backoff,        \* step of LinearVisibilityTimeoutComputer
  MaxReceives,    \* maxReceiveCount of the redrive policy
  Faults,         \* the kinds of fault that may occur
  InitNow, MaxTime, MaxRequests, MaxFaults   \* bounds of the model

\* A call fails without effect; iRacing answers 401; the answer of the lock's put
\* is lost; the release fails; an invocation runs past its deadline; it dies; an
\* eventually consistent read misses a recent write; SQS delivers a message again.
FaultKinds == {"call", "unauthorized", "acquire", "release", "slow", "crash",
               "stale", "duplicate"}

ASSUME RacesAssumption ==
  /\ IsFiniteSet(Races)
  /\ Skipped \subseteq Races
  /\ StartTime \in [Races -> Nat]
  /\ FinishTime \in [Races -> Nat]

ASSUME MessagesAssumption == NoMessage \notin Messages

ASSUME TimesAssumption ==
  /\ MaxLag \in Nat /\ MemberSince \in Nat
  /\ Window \in Nat /\ Buffer \in Nat
  /\ LockDuration \in Nat /\ LambdaTimeout \in Nat /\ Deadline \in Nat
  /\ Visibility \in Nat /\ Backoff \in Nat /\ MaxReceives \in Nat
  /\ InitNow \in Nat /\ MaxTime \in Nat
  /\ MaxRequests \in Nat /\ MaxFaults \in Nat

ASSUME FaultsAssumption == Faults \subseteq FaultKinds

\* terraform: the Lambda timeout (300 s) is below the lock duration (900 s).
ASSUME LeaseAssumption == LambdaTimeout < LockDuration

\* The next window reaches past the last one (ten days against four hours).
ASSUME WindowAssumption == Buffer < Window

\* "give bit of a buffer": results appear within the overlap of two windows.
ASSUME LagAssumption == MaxLag <= Buffer

\* What a new window adds to the last one is longer than an invocation can take.
ASSUME DeadlineAssumption == Deadline <= Window - Buffer

NoLock == -1        \* no ingestion_lock row
Never  == -1        \* races_ingested_to is absent

VARIABLES
  now,          \* the clock
  published,    \* races the iRacing search returns
  lock,         \* locked_until of the ingestion_lock row, or NoLock
  ingestedTo,   \* races_ingested_to of the info row, or Never
  ingestedBefore, \* its value in a replica that lags behind
  sessions,     \* races whose session# row is stored
  sessionCount, \* session_count of the info row
  msgs,         \* the queue: the state of each message identity
  inv,          \* what each invocation is doing
  request,      \* the last request answered 202 (history)
  staleTold,    \* the client has been told that its credentials are stale
  requests,     \* requests answered 202 so far, at most MaxRequests
  faults        \* faults so far, at most MaxFaults

store == <<lock, ingestedTo, ingestedBefore, sessions, sessionCount>>
vars == <<now, published, store, msgs, inv, request, staleTold, requests, faults>>

----------------------------------------------------------------------------
(* The state of a message and of an invocation.                            *)

NoMsg == [state |-> "none", receives |-> 0, visibleAt |-> 0]

\* What SendMessage adds to the queue: visible at once, never received.
Sent == [state |-> "queued", receives |-> 0, visibleAt |-> now]

\* A received message is invisible for the visibility timeout.
Received(msg) == [msg EXCEPT !.receives = @ + 1, !.visibleAt = now + Visibility]

\* An environment that runs nothing, and one just invoked with a message.
Idle == [pc |-> "idle", msg |-> NoMessage, started |-> 0, from |-> 0, to |-> 0,
         upToDate |-> FALSE, todo |-> {}, saving |-> {}, unauthorized |-> FALSE]
Invoked(m) == [Idle EXCEPT !.pc = "acquire", !.msg = m, !.started = now]

Active(i) == inv[i].pc # "idle"

\* The handler is at work: it has not returned yet.
Running(i) == inv[i].pc \notin {"idle", "ack", "nack"}

\* The invocation's context is not done: its calls can still succeed.
Alive(i) == now < inv[i].started + Deadline

\* Between AcquireIngestionLock returning true and the lock's release or the
\* end of an up-to-date round: what the lock is there to make exclusive.
CriticalPcs == {"driver", "search", "races", "notify", "failed", "release"}
InCritical(i) == inv[i].pc \in CriticalPcs

\* The next state of an invocation; its next step, the rest unchanged; and the
\* end of a round by an error, with the races not saved yet given up.
Become(i, v) == inv' = [inv EXCEPT ![i] = v]
Goto(i, pc) == Become(i, [inv[i] EXCEPT !.pc = pc])
GiveUp(i, unauthorized) ==
  Become(i, [inv[i] EXCEPT !.pc = "failed", !.todo = {}, !.saving = {},
                           !.unauthorized = unauthorized])

\* A fault of this kind happens now.
Fault(kind) ==
  /\ kind \in Faults
  /\ faults < MaxFaults
  /\ faults' = faults + 1

\* An identity for a new message: not in the queue, held by no invocation.
Unused(m) ==
  /\ msgs[m].state = "none"
  /\ \A i \in Invocations : Active(i) => inv[i].msg # m

----------------------------------------------------------------------------
(* The driver's partition.                                                 *)

\* Mutant: the row is compared with the new locked_until instead of the clock.
LockFreeMutant(t) == lock = NoLock \/ lock < t + LockDuration

\* The condition of the conditional put: attribute_not_exists(pk) OR
\* locked_until < :now.
LockFree(t) == lock = NoLock \/ lock < t

\* Mutant: the row records when the lock was taken.
LockedUntilMutant(t) == t

LockedUntil(t) == t + LockDuration

\* GetDriver reports IngestionBlockedUntil only for a lock after the clock,
\* and the endpoint answers 429 only for one after the clock.
Blocked == lock # NoLock /\ lock > now

\* A session# row exists at the race's start time, the key of the row.
Stored(r) == \E s \in sessions : StartTime[s] = StartTime[r]

\* Mutant: the put is unconditional and replaces the row under its key.
SaveDriverSessionsMutant(r) ==
  /\ sessions' = {s \in sessions : StartTime[s] # StartTime[r]} \cup {r}
  /\ sessionCount' = sessionCount + 1

\* The transaction of SaveDriverSessions for one session: the put if absent
\* and the increment of session_count, together or not at all.
SaveDriverSessions(r) ==
  /\ ~Stored(r)
  /\ sessions' = sessions \cup {r}
  /\ sessionCount' = sessionCount + 1

\* Mutants: no overlap with the last window; the watermark is not used.
RangeBeginNoBuffer(w) == IF w = Never THEN MemberSince ELSE w
RangeBeginRestart(w) == MemberSince

\* The window of the next search, from the watermark w that was read.
RangeBegin(w) == IF w = Never THEN MemberSince ELSE w - Buffer
RangeEnd(w) == IF RangeBegin(w) + Window > now THEN now ELSE RangeBegin(w) + Window
WillBeUpToDate(w) == RangeBegin(w) + Window > now

\* The races the iRacing search returns for a window.
SearchSeriesResults(from, to) ==
  {r \in published : from <= FinishTime[r] /\ FinishTime[r] <= to}

----------------------------------------------------------------------------
Init ==
  /\ now = InitNow
  /\ published = {r \in Races : FinishTime[r] + MaxLag <= InitNow}
  /\ lock = NoLock
  /\ ingestedTo = Never /\ ingestedBefore = Never
  /\ sessions = {}
  /\ sessionCount = 0
  /\ msgs = [m \in Messages |-> NoMsg]
  /\ inv = [i \in Invocations |-> Idle]
  /\ request = [at |-> Never, free |-> TRUE]
  /\ staleTold = FALSE
  /\ requests = 0
  /\ faults = 0

----------------------------------------------------------------------------
(* The endpoint POST /ingestion/race.                                      *)

\* A request that is not answered 429 is queued and answered 202.  A delay
\* between the check and the send is a delay of the message in the queue.  The
\* read of the lock is eventually consistent: it may miss one just taken.
Enqueue(m) ==
  /\ requests < MaxRequests
  /\ IF Blocked THEN Fault("stale") ELSE faults' = faults
  /\ Unused(m)
  /\ msgs' = [msgs EXCEPT ![m] = Sent]
  /\ request' = [at |-> now, free |-> LockFree(now)]
  /\ requests' = requests + 1
  /\ UNCHANGED <<now, published, store, inv, staleTold>>

----------------------------------------------------------------------------
(* SQS and the Lambda runtime.                                             *)

Deliverable(m) ==
  /\ msgs[m].state = "queued"
  /\ msgs[m].visibleAt <= now
  /\ msgs[m].receives < MaxReceives

\* The poller receives a visible message and invokes the function with it.
Receive(i, m) ==
  /\ ~Active(i)
  /\ Deliverable(m)
  /\ msgs' = [msgs EXCEPT ![m] = Received(msgs[m])]
  /\ Become(i, Invoked(m))
  /\ UNCHANGED <<now, published, store, request, staleTold, requests, faults>>

\* A standard queue delivers at least once: a message may be received again
\* while it is invisible.
ReceiveAgain(i, m) ==
  /\ ~Active(i)
  /\ msgs[m].state = "queued"
  /\ msgs[m].visibleAt > now
  /\ msgs[m].receives < MaxReceives
  /\ Fault("duplicate")
  /\ msgs' = [msgs EXCEPT ![m] = Received(msgs[m])]
  /\ Become(i, Invoked(m))
  /\ UNCHANGED <<now, published, store, request, staleTold, requests>>

\* The redrive policy: a message received MaxReceives times goes to the DLQ.
Redrive(m) ==
  /\ msgs[m].state = "queued"
  /\ msgs[m].visibleAt <= now
  /\ msgs[m].receives = MaxReceives
  /\ msgs' = [msgs EXCEPT ![m] = [@ EXCEPT !.state = "dead"]]
  /\ UNCHANGED <<now, published, store, inv, request, staleTold, requests, faults>>

\* The function returned no error: the poller deletes the message.
Ack(i) ==
  /\ inv[i].pc = "ack"
  /\ msgs' = [msgs EXCEPT ![inv[i].msg] = IF @.state = "dead" THEN @ ELSE NoMsg]
  /\ Become(i, Idle)
  /\ UNCHANGED <<now, published, store, request, staleTold, requests, faults>>

\* The function returned an error: WithVisibilityResetOnError makes the
\* message visible again after a delay that grows with its receive count.
Nack(i) ==
  /\ inv[i].pc = "nack"
  /\ LET m == inv[i].msg
     IN  msgs' = IF msgs[m].state = "queued"
                   THEN [msgs EXCEPT ![m] =
                           [@ EXCEPT !.visibleAt =
                              now + (msgs[m].receives - 1) * Backoff]]
                   ELSE msgs
  /\ Become(i, Idle)
  /\ UNCHANGED <<now, published, store, request, staleTold, requests, faults>>

\* The execution environment dies, at any step or at the Lambda timeout: the
\* message stays invisible until its visibility timeout.
Crash(i) ==
  /\ Active(i)
  /\ Fault("crash")
  /\ Become(i, Idle)
  /\ UNCHANGED <<now, published, store, msgs, request, staleTold, requests>>

----------------------------------------------------------------------------
(* IngestRaces.                                                            *)

\* AcquireIngestionLock: the clock is read at t, the conditional put happens
\* now.  A lock held by another means the message is acknowledged.
AcquireIngestionLock(i) ==
  /\ inv[i].pc = "acquire"
  /\ Alive(i)
  /\ \E t \in inv[i].started .. now :
       IF LockFree(t)
         THEN /\ lock' = LockedUntil(t)
              /\ Goto(i, "driver")
         ELSE /\ lock' = lock
              /\ Goto(i, "ack")
  /\ UNCHANGED <<now, published, ingestedTo, ingestedBefore, sessions, sessionCount,
                 msgs, request, staleTold, requests, faults>>

\* The put is applied but its answer is lost.  The SDK's retry then fails the
\* condition (the lock is "held"), or the call ends in an error.
AcquireAnswerLost(i) ==
  /\ inv[i].pc = "acquire"
  /\ Alive(i)
  /\ Fault("acquire")
  /\ \E t \in inv[i].started .. now :
       /\ LockFree(t)
       /\ lock' = LockedUntil(t)
  /\ Goto(i, "ack") \/ Goto(i, "nack")
  /\ UNCHANGED <<now, published, ingestedTo, ingestedBefore, sessions, sessionCount,
                 msgs, request, staleTold, requests>>

\* doIngestRaces reads the driver's row and the clock and fixes the window.  The
\* read is eventually consistent: it may miss the update of the round before.
GetDriver(i) ==
  /\ inv[i].pc = "driver"
  /\ Alive(i)
  /\ \E w \in {ingestedTo, ingestedBefore} :
       /\ IF w = ingestedTo THEN faults' = faults ELSE Fault("stale")
       /\ Become(i, [inv[i] EXCEPT !.pc = "search", !.from = RangeBegin(w),
                                   !.to = RangeEnd(w), !.upToDate = WillBeUpToDate(w)])
  /\ UNCHANGED <<now, published, store, msgs, request, staleTold, requests>>

\* The search of the window; its results are handed to the workers.
Search(i) ==
  /\ inv[i].pc = "search"
  /\ Alive(i)
  /\ Become(i, [inv[i] EXCEPT
                   !.pc = "races",
                   !.todo = SearchSeriesResults(inv[i].from, inv[i].to)])
  /\ UNCHANGED <<now, published, store, msgs, request, staleTold, requests, faults>>

\* ingestRace up to the save: a team event, a race already stored and one
\* without a result of the driver are dropped.  The read of the session's row
\* may miss one just stored.
CheckRace(i, r) ==
  /\ inv[i].pc = "races"
  /\ Alive(i)
  /\ r \in inv[i].todo
  /\ \E save \in BOOLEAN :
       /\ save => r \notin Skipped
       /\ ~save => r \in Skipped \/ Stored(r)
       /\ IF save /\ Stored(r) THEN Fault("stale") ELSE faults' = faults
       /\ Become(i, [inv[i] EXCEPT !.todo = @ \ {r},
                                   !.saving = IF save THEN @ \cup {r} ELSE @])
  /\ UNCHANGED <<now, published, store, msgs, request, staleTold, requests>>

\* The save of one race by one of the workers.
SaveRace(i, r) ==
  /\ inv[i].pc = "races"
  /\ Alive(i)
  /\ r \in inv[i].saving
  /\ SaveDriverSessions(r)
  /\ Become(i, [inv[i] EXCEPT !.saving = @ \ {r}])
  /\ UNCHANGED <<now, published, lock, ingestedTo, ingestedBefore, msgs, request,
                 staleTold, requests, faults>>

\* The key was taken after the check, or the check missed it: the put fails its
\* condition, and one error fails the whole round.
SaveConflict(i, r) ==
  /\ inv[i].pc = "races"
  /\ Alive(i)
  /\ r \in inv[i].saving
  /\ Stored(r)
  /\ GiveUp(i, FALSE)
  /\ UNCHANGED <<now, published, store, msgs, request, staleTold, requests, faults>>

\* Every result is handled without an error: races_ingested_to is set to the
\* end of the window.
UpdateDriverRacesIngestedTo(i) ==
  /\ inv[i].pc = "races"
  /\ Alive(i)
  /\ inv[i].todo = {} /\ inv[i].saving = {}
  /\ ingestedTo' = inv[i].to /\ ingestedBefore' = ingestedTo
  /\ Goto(i, "notify")
  /\ UNCHANGED <<now, published, lock, sessions, sessionCount, msgs, request,
                 staleTold, requests, faults>>

\* Mutant: the next round is queued with the lock still held.
NotifyChunkMutant(i) ==
  /\ inv[i].pc = "notify"
  /\ Alive(i)
  /\ Goto(i, IF inv[i].upToDate THEN "ack" ELSE "publish")
  /\ UNCHANGED <<now, published, store, msgs, request, staleTold, requests, faults>>

\* The broadcast of ingestionChunkComplete.  An up-to-date round keeps its
\* lock (cooldown); another one releases it and queues the next round.
NotifyChunk(i) ==
  /\ inv[i].pc = "notify"
  /\ Alive(i)
  /\ Goto(i, IF inv[i].upToDate THEN "ack" ELSE "release")
  /\ UNCHANGED <<now, published, store, msgs, request, staleTold, requests, faults>>

ReleaseBeforeNextRound(i) ==
  /\ inv[i].pc = "release"
  /\ Alive(i)
  /\ lock' = NoLock
  /\ Goto(i, "publish")
  /\ UNCHANGED <<now, published, ingestedTo, ingestedBefore, sessions, sessionCount,
                 msgs, request, staleTold, requests, faults>>

PublishNextRound(i, m) ==
  /\ inv[i].pc = "publish"
  /\ Alive(i)
  /\ Unused(m)
  /\ msgs' = [msgs EXCEPT ![m] = Sent]
  /\ Goto(i, "ack")
  /\ UNCHANGED <<now, published, store, request, staleTold, requests, faults>>

----------------------------------------------------------------------------
(* Failures of IngestRaces.                                                *)

\* A call of doIngestRaces fails; the races not saved by then are left.
FailRound(i, unauthorized) ==
  /\ Running(i) /\ Alive(i)
  /\ Fault(IF unauthorized THEN "unauthorized" ELSE "call")
  /\ inv[i].pc \in (IF unauthorized THEN {"search", "races"}
                                    ELSE {"driver", "search", "races", "notify"})
  /\ GiveUp(i, unauthorized)
  /\ UNCHANGED <<now, published, store, msgs, request, staleTold, requests>>

\* "Release lock so SQS backoff can handle retry (or client can retry
\* immediately for stale credentials)".
ReleaseAfterError(i) ==
  /\ inv[i].pc = "failed"
  /\ Alive(i)
  /\ lock' = NoLock
  /\ Goto(i, IF inv[i].unauthorized THEN "stale" ELSE "nack")
  /\ UNCHANGED <<now, published, ingestedTo, ingestedBefore, sessions, sessionCount,
                 msgs, request, staleTold, requests, faults>>

\* The release fails: after an error that is only logged, before a next round
\* it is the error of the invocation.
ReleaseFails(i) ==
  /\ inv[i].pc \in {"failed", "release"}
  /\ Fault("release")
  /\ Goto(i, IF inv[i].unauthorized THEN "stale" ELSE "nack")
  /\ UNCHANGED <<now, published, store, msgs, request, staleTold, requests>>

\* notifyStaleCredentials; the message is acknowledged whatever comes of it.
NotifyStaleCredentials(i) ==
  /\ inv[i].pc = "stale"
  /\ Alive(i)
  /\ staleTold' = TRUE
  /\ Goto(i, "ack")
  /\ UNCHANGED <<now, published, store, msgs, request, requests, faults>>

\* The lock cannot be taken, or the next round cannot be queued, because the
\* call fails without effect.
CallFails(i) ==
  /\ inv[i].pc \in {"acquire", "publish"}
  /\ Fault("call")
  /\ Goto(i, "nack")
  /\ UNCHANGED <<now, published, store, msgs, request, staleTold, requests>>

\* The reduced deadline passes: every call fails from now on, the release of
\* the lock included, so the invocation returns its error with the lock held.
DeadlineExceeded(i) ==
  /\ Running(i)
  /\ ~Alive(i)
  /\ Goto(i, IF inv[i].unauthorized THEN "ack" ELSE "nack")
  /\ UNCHANGED <<now, published, store, msgs, request, staleTold, requests, faults>>

----------------------------------------------------------------------------
(* The environment.                                                        *)

\* iRacing publishes the result of a finished race.
PublishResult(r) ==
  /\ r \notin published
  /\ FinishTime[r] <= now
  /\ published' = published \cup {r}
  /\ UNCHANGED <<now, store, msgs, inv, request, staleTold, requests, faults>>

\* DynamoDB's TTL sweep removes an expired lock row, at some point.
ExpireLockRow ==
  /\ lock # NoLock /\ lock < now
  /\ lock' = NoLock
  /\ UNCHANGED <<now, published, ingestedTo, ingestedBefore, sessions, sessionCount,
                 msgs, inv, request, staleTold, requests, faults>>

\* Time passes, never past the Lambda timeout of a running invocation nor the
\* last moment of a result; replicas catch up.  An invocation that reaches its
\* deadline before its message is settled is the fault "slow".
Tick ==
  /\ now < MaxTime
  /\ \A r \in Races : FinishTime[r] + MaxLag <= now + 1 => r \in published
  /\ \A i \in Invocations : Active(i) => now < inv[i].started + LambdaTimeout
  /\ IF \A i \in Invocations : Active(i) => now + 1 < inv[i].started + Deadline
       THEN faults' = faults
       ELSE Fault("slow")
  /\ now' = now + 1
  /\ ingestedBefore' = ingestedTo
  /\ UNCHANGED <<published, lock, ingestedTo, sessions, sessionCount, msgs, inv,
                 request, staleTold, requests>>

----------------------------------------------------------------------------
Round(i) ==
  \/ AcquireIngestionLock(i) \/ GetDriver(i) \/ Search(i)
  \/ \E r \in Races : CheckRace(i, r) \/ SaveRace(i, r) \/ SaveConflict(i, r)
  \/ UpdateDriverRacesIngestedTo(i) \/ NotifyChunk(i)
  \/ ReleaseBeforeNextRound(i)
  \/ \E m \in Messages : PublishNextRound(i, m)
  \/ ReleaseAfterError(i) \/ NotifyStaleCredentials(i) \/ DeadlineExceeded(i)
  \/ Ack(i) \/ Nack(i)

Failure(i) ==
  \/ \E m \in Messages : ReceiveAgain(i, m)
  \/ \E unauthorized \in BOOLEAN : FailRound(i, unauthorized)
  \/ ReleaseFails(i) \/ CallFails(i) \/ AcquireAnswerLost(i) \/ Crash(i)

Delivery(m) == Redrive(m) \/ \E i \in Invocations : Receive(i, m)

Environment == (\E r \in Races : PublishResult(r)) \/ ExpireLockRow \/ Tick

Next ==
  \/ \E m \in Messages : Enqueue(m) \/ Delivery(m)
  \/ \E i \in Invocations : Round(i) \/ Failure(i)
  \/ Environment

Spec == Init /\ [][Next]_vars

\* The queue delivers and a running invocation goes on; requests, faults and
\* the clock owe nothing.
Fairness ==
  /\ \A i \in Invocations : WF_vars(Round(i))
  /\ \A m \in Messages : WF_vars(Delivery(m))

FairSpec == Spec /\ Fairness

----------------------------------------------------------------------------
(* Properties.                                                             *)

Pcs == CriticalPcs \cup {"idle", "acquire", "publish", "stale", "ack", "nack"}

Message == [state : {"none", "queued", "dead"}, receives : 0 .. MaxReceives,
            visibleAt : Int]

Invocation == [pc : Pcs, msg : Messages \cup {NoMessage}, started : Nat,
               from : Int, to : Int, upToDate : BOOLEAN,
               todo : SUBSET Races, saving : SUBSET Races,
               unauthorized : BOOLEAN]

\* The type of every variable: the rows of the partition, the queue and the
\* fields an invocation of IngestRaces carries from step to step.
TypeOK ==
  /\ now \in Nat
  /\ published \in SUBSET Races
  /\ lock \in Int
  /\ ingestedTo \in Int /\ ingestedBefore \in Int
  /\ sessions \in SUBSET Races
  /\ sessionCount \in Nat
  /\ msgs \in [Messages -> Message]
  /\ inv \in [Invocations -> Invocation]
  /\ request \in [at : Int, free : BOOLEAN]
  /\ staleTold \in BOOLEAN
  /\ requests \in Nat
  /\ faults \in Nat

\* "The ingestion lock prevents concurrent ingestion for the same driver":
\* at most one invocation is between a successful AcquireIngestionLock and
\* the end of its round, although the release deletes the row of whoever
\* holds it and the row names no owner.
MutualExclusion ==
  \A i, j \in Invocations : InCritical(i) /\ InCritical(j) => i = j

\* While a round runs the endpoint answers 429: the lock outlives every
\* invocation that took it.
RequestsRefusedDuringRound ==
  \A i \in Invocations : InCritical(i) => Blocked

\* Every race of the driver that finished by t is stored.
CoveredUpTo(t) ==
  \A r \in Races \ Skipped :
    MemberSince <= FinishTime[r] /\ FinishTime[r] <= t => Stored(r)

\* No race is lost behind the watermark: once races_ingested_to has passed a
\* race's finish by the buffer no later search returns that race, so it must
\* be stored by then, however late its result appeared within MaxLag.
NoLostRace == ingestedTo # Never => CoveredUpTo(ingestedTo - Buffer)

\* session_count is the number of session# rows and no two rows have one key,
\* whatever saves were attempted twice.
SessionCountExact ==
  /\ sessionCount = Cardinality(sessions)
  /\ \A r, s \in sessions : StartTime[r] = StartTime[s] => r = s

\* races_ingested_to never moves back, although the update is unconditional, its
\* value was fixed many calls before, from a read that may have missed the update
\* of the round before, and each window starts a buffer before the last one's end.
WatermarkMonotone == [][ingestedTo' >= ingestedTo]_vars

\* A round that will queue another one moves the watermark strictly forward,
\* unless it missed the update of the round before: the recursion makes progress
\* and so ends.
RecursionAdvances ==
  [][\A i \in Invocations :
       /\ UpdateDriverRacesIngestedTo(i) /\ ~inv[i].upToDate
       /\ inv[i].from = RangeBegin(ingestedTo)
       => ingestedTo' > ingestedTo]_vars

DeadLettered == \E m \in Messages : msgs[m].state = "dead"

\* A request answered 202 while the lambda's own test finds the lock free is
\* served: some chain of rounds brings the watermark to the time of the
\* request, although the request's message may be dropped for the lock and
\* its chain interleaves with other chains.  It may end instead in the DLQ or
\* in a stale-credentials notice.
AcceptedRequestServed ==
  \A t \in InitNow .. MaxTime :
    (request.at = t /\ request.free)
      ~> (ingestedTo >= t \/ DeadLettered \/ staleTold)

\* The pipeline implements its promise, the workers of a round being the
\* invocations in their critical section.
Serial == INSTANCE SerialIngestion
            WITH workers <- {i \in Invocations : InCritical(i)}

\* Every step of queue, lambdas, clock and faults is a step of one serial
\* ingestion or changes nothing it can see.
ImplementsSerialIngestion == Serial!Spec

============================================================================
