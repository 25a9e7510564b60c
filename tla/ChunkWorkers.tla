---------------------------- MODULE ChunkWorkers ----------------------------
(***************************************************************************)
(* The goroutines inside one round of doIngestRaces: the feeder (the       *)
(* function itself), the workers that take races from racesChan, and the   *)
(* collector that reads collectionChan and cancels the context at the      *)
(* first error.  Both channels are unbuffered, so a send and its receive   *)
(* are one step.  RaceIngestion knows this round as its actions CheckRace, *)
(* SaveRace, SaveConflict, FailRound, UpdateDriverRacesIngestedTo and      *)
(* NotifyChunk.                                                            *)
(***************************************************************************)
EXTENDS Integers, FiniteSets

CONSTANTS
  Workers,        \* the goroutines: raceConsumptionConcurrency of them
  NoWorker,       \* insertionMutex is free
  Races,          \* what the search returned
  NoRace,         \* what a worker works on between races
  TeamEvents,     \* races with DriverChanges
  NoResult,       \* races without a race session or a result of the driver
  Recent,         \* races newer than broadcastThreshold
  StartTime,      \* [Races -> Nat]: the key of the stored session
  StoredBefore,   \* races an earlier round has stored
  Expires,        \* may the invocation's deadline pass?
  MaxFailures     \* calls that fail with the context alive (bound)

ASSUME WorkersAssumption == Workers # {} /\ NoWorker \notin Workers

ASSUME ResultsAssumption ==
  /\ IsFiniteSet(Races)
  /\ NoRace \notin Races
  /\ TeamEvents \subseteq Races /\ NoResult \subseteq Races /\ Recent \subseteq Races
  /\ StoredBefore \subseteq Races
  /\ StartTime \in [Races -> Nat]
  /\ MaxFailures \in Nat

VARIABLES
  feeder,     \* where doIngestRaces is
  todo,       \* results not sent to racesChan yet
  worker,     \* what each worker is doing, with which race and error
  collector,  \* "receive", "done", or the error it has just received
  errs,       \* the kinds of the errors collected
  ctxDone,    \* the round's context is done
  mutex,      \* the worker holding insertionMutex, or NoWorker
  sessions,   \* races stored
  told,       \* races announced by raceIngested
  advanced,   \* races_ingested_to has been updated
  failed      \* the races given up, the kind of the error and the call (history)

vars == <<feeder, todo, worker, collector, errs, ctxDone, mutex, sessions, told,
          advanced, failed>>

Kinds == {"unauthorized", "other"}

\* The steps of a worker: waiting for a race, sending to the collector, calling.
Sends == {"sendRace", "sendNew", "sendError"}
Calls == {"results", "check", "save", "broadcast"}

Returned == feeder \in {"complete", "error"}
Draining == feeder \in {"drain", "update", "notify", "complete", "error"}

Stored(r) == \E s \in sessions : StartTime[s] = StartTime[r]

\* What the round is there to store.
Wanted == Races \ (TeamEvents \cup NoResult)

Selecting == [pc |-> "select", race |-> NoRace, kind |-> "other"]
At(w, pc) == worker[w].pc = pc
Goto(w, pc) == worker' = [worker EXCEPT ![w].pc = pc]
NextRace(w) == worker' = [worker EXCEPT ![w] = Selecting]

\* A worker has an error to send; the race is given up at this point.
GiveUp(w, kind, at) ==
  /\ worker' = [worker EXCEPT ![w].pc = "sendError", ![w].kind = kind]
  /\ failed' = failed \cup {[race |-> worker[w].race, kind |-> kind, at |-> at]}

\* A call may fail while the context is alive, or because it is done.
MayFail == ctxDone \/ Cardinality(failed) < MaxFailures

Init ==
  /\ feeder = "feed"
  /\ todo = Races
  /\ worker = [w \in Workers |-> Selecting]
  /\ collector = "receive"
  /\ errs = {}
  /\ ctxDone = FALSE
  /\ mutex = NoWorker
  /\ sessions = StoredBefore
  /\ told = {}
  /\ advanced = FALSE
  /\ failed = {}

----------------------------------------------------------------------------
(* The feeder and racesChan.                                               *)

\* "case racesChan <- race": some waiting worker receives it.  A team event is
\* skipped at once, before anything is sent to the collector.
Feed(r, w) ==
  /\ feeder = "feed"
  /\ r \in todo
  /\ At(w, "select")
  /\ todo' = todo \ {r}
  /\ IF r \in TeamEvents
       THEN UNCHANGED worker
       ELSE worker' = [worker EXCEPT ![w].pc = "sendRace", ![w].race = r]
  /\ UNCHANGED <<feeder, collector, errs, ctxDone, mutex, sessions, told,
                 advanced, failed>>

\* Mutant: the feeder does not look at the context.
CloseRacesMutant ==
  /\ feeder = "feed"
  /\ todo = {}
  /\ feeder' = "wait"
  /\ UNCHANGED <<todo, worker, collector, errs, ctxDone, mutex, sessions, told,
                 advanced, failed>>

\* All races are fed, or "case <-ctx.Done()": racesChan is closed.
CloseRaces ==
  /\ feeder = "feed"
  /\ todo = {} \/ ctxDone
  /\ feeder' = "wait"
  /\ UNCHANGED <<todo, worker, collector, errs, ctxDone, mutex, sessions, told,
                 advanced, failed>>

\* racesDone.Wait() and close(collectionChan).
CloseCollection ==
  /\ feeder = "wait"
  /\ \A w \in Workers : At(w, "done")
  /\ feeder' = "drain"
  /\ UNCHANGED <<todo, worker, collector, errs, ctxDone, mutex, sessions, told,
                 advanced, failed>>

\* collectorDone.Wait() and the test of errs.
TestErrors ==
  /\ feeder = "drain"
  /\ collector = "done"
  /\ feeder' = IF errs = {} THEN "update" ELSE "error"
  /\ UNCHANGED <<todo, worker, collector, errs, ctxDone, mutex, sessions, told,
                 advanced, failed>>

\* Mutant: the update is made with a context that cannot be done.
UpdateDriverRacesIngestedToMutant ==
  /\ feeder = "update"
  /\ advanced' = TRUE
  /\ feeder' = "notify"
  /\ UNCHANGED <<todo, worker, collector, errs, ctxDone, mutex, sessions, told, failed>>

\* A call with a context that is done fails.
UpdateDriverRacesIngestedTo ==
  /\ feeder = "update"
  /\ ~ctxDone
  /\ advanced' = TRUE
  /\ feeder' = "notify"
  /\ UNCHANGED <<todo, worker, collector, errs, ctxDone, mutex, sessions, told, failed>>

NotifyChunk ==
  /\ feeder = "notify"
  /\ feeder' = "complete"
  /\ UNCHANGED <<todo, worker, collector, errs, ctxDone, mutex, sessions, told,
                 advanced, failed>>

\* The update or the broadcast of ingestionChunkComplete fails.
FeederCallFails ==
  /\ feeder \in {"update", "notify"}
  /\ MayFail
  /\ feeder' = "error"
  /\ UNCHANGED <<todo, worker, collector, errs, ctxDone, mutex, sessions, told,
                 advanced, failed>>

----------------------------------------------------------------------------
(* A worker.                                                               *)

\* "case <-ctx.Done()", or racesChan is closed.
Leave(w) ==
  /\ At(w, "select")
  /\ ctxDone \/ feeder # "feed"
  /\ Goto(w, "done")
  /\ UNCHANGED <<feeder, todo, collector, errs, ctxDone, mutex, sessions, told,
                 advanced, failed>>

\* The collector receives a count: race or newRace.  A new race whose results
\* lack the driver ends here.
SendCount(w) ==
  /\ collector = "receive"
  /\ \/ At(w, "sendRace") /\ Goto(w, "results")
     \/ /\ At(w, "sendNew")
        /\ IF worker[w].race \in NoResult THEN NextRace(w) ELSE Goto(w, "lock")
  /\ UNCHANGED <<feeder, todo, collector, errs, ctxDone, mutex, sessions, told,
                 advanced, failed>>

GetSessionResults(w) ==
  /\ At(w, "results")
  /\ Goto(w, "check")
  /\ UNCHANGED <<feeder, todo, collector, errs, ctxDone, mutex, sessions, told,
                 advanced, failed>>

\* GetDriverSession: a race already stored is done.
GetDriverSession(w) ==
  /\ At(w, "check")
  /\ IF Stored(worker[w].race) THEN NextRace(w) ELSE Goto(w, "sendNew")
  /\ UNCHANGED <<feeder, todo, collector, errs, ctxDone, mutex, sessions, told,
                 advanced, failed>>

LockInsertion(w) ==
  /\ At(w, "lock")
  /\ mutex = NoWorker
  /\ mutex' = w
  /\ Goto(w, "save")
  /\ UNCHANGED <<feeder, todo, collector, errs, ctxDone, sessions, told, advanced,
                 failed>>

\* The transaction and the release of the mutex; a recent race is announced.
SaveDriverSessions(w) ==
  /\ At(w, "save")
  /\ ~Stored(worker[w].race)
  /\ sessions' = sessions \cup {worker[w].race}
  /\ mutex' = NoWorker
  /\ IF worker[w].race \in Recent THEN Goto(w, "broadcast") ELSE NextRace(w)
  /\ UNCHANGED <<feeder, todo, collector, errs, ctxDone, told, advanced, failed>>

\* The transaction has no effect: the key is taken, or the call fails.
SaveRefused(w) ==
  /\ Stored(worker[w].race) \/ MayFail
  /\ UNCHANGED sessions
  /\ GiveUp(w, "other", "save")

\* The transaction is applied, but its answer is lost or the context ends first.
SaveAnswerLost(w) ==
  /\ ~Stored(worker[w].race) /\ MayFail
  /\ sessions' = sessions \cup {worker[w].race}
  /\ GiveUp(w, "other", "saved")

\* Mutant: the error path returns without unlocking.
SaveFailsMutant(w) ==
  /\ At(w, "save")
  /\ SaveRefused(w) \/ SaveAnswerLost(w)
  /\ UNCHANGED <<feeder, todo, collector, errs, ctxDone, mutex, told, advanced>>

\* One error path for both: unlock, then report.
SaveFails(w) ==
  /\ At(w, "save")
  /\ SaveRefused(w) \/ SaveAnswerLost(w)
  /\ mutex' = NoWorker
  /\ UNCHANGED <<feeder, todo, collector, errs, ctxDone, told, advanced>>

Broadcast(w) ==
  /\ At(w, "broadcast")
  /\ told' = told \cup {worker[w].race}
  /\ NextRace(w)
  /\ UNCHANGED <<feeder, todo, collector, errs, ctxDone, mutex, sessions,
                 advanced, failed>>

\* Mutant: a failed broadcast is only logged.
CallFailsMutant(w, kind) ==
  /\ worker[w].pc \in Calls \ {"save"}
  /\ kind = "unauthorized" => At(w, "results")
  /\ MayFail
  /\ IF At(w, "broadcast")
       THEN NextRace(w) /\ UNCHANGED failed
       ELSE GiveUp(w, kind, worker[w].pc)
  /\ UNCHANGED <<feeder, todo, collector, errs, ctxDone, mutex, sessions, told,
                 advanced>>

\* Another call fails; only iRacing answers "unauthorized".
CallFails(w, kind) ==
  /\ worker[w].pc \in Calls \ {"save"}
  /\ kind = "unauthorized" => At(w, "results")
  /\ MayFail
  /\ GiveUp(w, kind, worker[w].pc)
  /\ UNCHANGED <<feeder, todo, collector, errs, ctxDone, mutex, sessions, told,
                 advanced>>

\* Mutant: the worker waits for the collector or for the context.
SendErrorMutant(w) ==
  /\ At(w, "sendError")
  /\ \/ collector = "receive" /\ collector' = worker[w].kind
     \/ ctxDone /\ UNCHANGED collector
  /\ NextRace(w)
  /\ UNCHANGED <<feeder, todo, errs, ctxDone, mutex, sessions, told, advanced, failed>>

SendError(w) ==
  /\ At(w, "sendError")
  /\ collector = "receive"
  /\ collector' = worker[w].kind
  /\ NextRace(w)
  /\ UNCHANGED <<feeder, todo, errs, ctxDone, mutex, sessions, told, advanced, failed>>

----------------------------------------------------------------------------
(* The collector, and the invocation's deadline.                           *)

\* "any errors == bail out": the error is kept and the context cancelled.
Bail ==
  /\ collector \in Kinds
  /\ errs' = errs \cup {collector}
  /\ ctxDone' = TRUE
  /\ collector' = "receive"
  /\ UNCHANGED <<feeder, todo, worker, mutex, sessions, told, advanced, failed>>

\* collectionChan is closed and empty.
CollectorDone ==
  /\ collector = "receive"
  /\ Draining
  /\ collector' = "done"
  /\ UNCHANGED <<feeder, todo, worker, errs, ctxDone, mutex, sessions, told,
                 advanced, failed>>

\* The deadline of the invocation's context passes.
DeadlinePasses ==
  /\ Expires /\ ~ctxDone /\ ~Returned
  /\ ctxDone' = TRUE
  /\ UNCHANGED <<feeder, todo, worker, collector, errs, mutex, sessions, told,
                 advanced, failed>>

----------------------------------------------------------------------------
FeederStep ==
  \/ \E r \in Races, w \in Workers : Feed(r, w)
  \/ CloseRaces \/ CloseCollection \/ TestErrors
  \/ UpdateDriverRacesIngestedTo \/ NotifyChunk \/ FeederCallFails

WorkerStep(w) ==
  \/ Leave(w) \/ SendCount(w) \/ GetSessionResults(w) \/ GetDriverSession(w)
  \/ LockInsertion(w) \/ SaveDriverSessions(w) \/ SaveFails(w) \/ Broadcast(w)
  \/ SendError(w)
  \/ \E kind \in Kinds : CallFails(w, kind)

CollectorStep == Bail \/ CollectorDone

\* The round is over.
Done == Returned /\ UNCHANGED vars

Next ==
  \/ FeederStep \/ (\E w \in Workers : WorkerStep(w)) \/ CollectorStep
  \/ DeadlinePasses \/ Done

Spec == Init /\ [][Next]_vars

\* The Go scheduler runs every goroutine that can run, and every call returns.
Fairness ==
  /\ WF_vars(FeederStep) /\ WF_vars(CollectorStep)
  /\ \A w \in Workers : WF_vars(WorkerStep(w))

FairSpec == Spec /\ Fairness

----------------------------------------------------------------------------
(* Properties.                                                             *)

Given == [race : Races, kind : Kinds, at : Calls \cup {"saved"}]

\* The type of every variable; a worker has a race exactly while it handles
\* one, and no team event or race without a result is ever stored or announced.
TypeOK ==
  /\ feeder \in {"feed", "wait", "drain", "update", "notify", "complete", "error"}
  /\ todo \in SUBSET Races
  /\ worker \in [Workers -> [pc : Sends \cup Calls \cup {"select", "lock", "done"},
                             race : Races \cup {NoRace}, kind : Kinds]]
  /\ \A w \in Workers :
       IF worker[w].pc \in {"select", "done"}
         THEN worker[w].race = NoRace
         ELSE worker[w].race \in Races \ TeamEvents
  /\ collector \in Kinds \cup {"receive", "done"}
  /\ errs \in SUBSET Kinds
  /\ ctxDone \in BOOLEAN
  /\ mutex \in Workers \cup {NoWorker}
  /\ sessions \in SUBSET (StoredBefore \cup Wanted)
  /\ told \in SUBSET (Wanted \cap Recent)
  /\ advanced \in BOOLEAN
  /\ failed \in SUBSET Given

\* Nothing is sent to a closed channel, which would panic: once racesDone.Wait
\* has returned every worker has, for good, and has left the mutex free; and
\* doIngestRaces returns only after the collector.
NothingAfterClose ==
  /\ Draining => mutex = NoWorker /\ \A w \in Workers : At(w, "done")
  /\ Returned => collector = "done"

\* races_ingested_to moves only over a window all of whose races are stored,
\* although a round can leave its loops with races unsent and with no error
\* collected, when the deadline passes.
AdvancedOnlyIfStored == advanced => \A r \in Wanted : Stored(r)

\* A round that moves the watermark has announced every recent race it stored:
\* nobody announces it later.
AnnouncedIfAdvanced == advanced => (sessions \ StoredBefore) \cap Recent \subseteq told

\* Every error of a worker reaches errs before it is tested, the ones after the
\* first too: a 401 is never hidden by the errors of the cancelled calls, so the
\* client is told of its stale credentials.
NoErrorLost ==
  feeder \in {"update", "notify", "complete", "error"}
    => errs = {f.kind : f \in failed}

\* doIngestRaces returns, whatever fails and wherever the workers are then: no
\* one is left waiting on a channel, on the mutex or in a Wait.
RoundEnds == <>Returned

\* The round as RaceIngestion has it: a race is to do until a worker has checked
\* it, and to be saved from then on; one given up stays where it was.  The end
\* of doIngestRaces is the failure, or the update and the notification.
Handling(w) == worker[w].race
LeftAt(pcs) ==
  {Handling(w) : w \in {v \in Workers : worker[v].pc \in pcs}}
    \cup {f.race : f \in {g \in failed : g.at \in pcs}}
AtomicRound ==
  [pc |-> CASE feeder = "notify" -> "notify"
            [] feeder = "complete" -> "ack"
            [] feeder = "error" -> "failed"
            [] OTHER -> "races",
   msg |-> "none", started |-> 0, from |-> 0, to |-> 0, upToDate |-> TRUE,
   todo |-> IF feeder = "error" THEN {}
            ELSE todo \cup LeftAt({"sendRace", "results", "check"}),
   saving |-> IF feeder = "error" THEN {}
              ELSE LeftAt({"sendNew", "lock", "save"}) \ NoResult,
   unauthorized |-> feeder = "error" /\ "unauthorized" \in errs]

Atomic == INSTANCE RaceIngestion WITH
  Invocations <- {"round"}, Messages <- {}, NoMessage <- "none",
  Skipped <- TeamEvents \cup NoResult, FinishTime <- [r \in Races |-> 0],
  MaxLag <- 0, MemberSince <- 0, Window <- 1, Buffer <- 0, LockDuration <- 2,
  LambdaTimeout <- 1, Deadline <- 1, Visibility <- 0, Backoff <- 0,
  MaxReceives <- 0, Faults <- {"call", "unauthorized"}, InitNow <- 0,
  MaxTime <- 0, MaxRequests <- 0, MaxFaults <- 1,
  now <- 0, published <- Races, lock <- 2,
  ingestedTo <- IF advanced THEN 0 ELSE -1, ingestedBefore <- -1,
  sessionCount <- Cardinality(sessions), msgs <- << >>,
  inv <- [i \in {"round"} |-> AtomicRound],
  request <- [at |-> 0, free |-> TRUE], staleTold <- FALSE, requests <- 0,
  faults <- IF feeder = "error" THEN 1 ELSE 0

\* Every step of the goroutines is a step of the round RaceIngestion describes,
\* or one it does not see.
ImplementsAtomicRound ==
  [][\/ \E r \in Races : Atomic!CheckRace("round", r) \/ Atomic!SaveRace("round", r)
     \/ Atomic!UpdateDriverRacesIngestedTo("round") \/ Atomic!NotifyChunk("round")
     \/ \E unauthorized \in BOOLEAN : Atomic!FailRound("round", unauthorized)]_(Atomic!vars)

============================================================================
