------------------------ MODULE ChunkWorkers_proofs ------------------------
(***************************************************************************)
(* Proofs about the goroutines of one round, for any number of workers and *)
(* any search results, any calls failing at any time and a deadline that   *)
(* may pass at any step; and that they implement the round RaceIngestion   *)
(* describes.                                                              *)
(***************************************************************************)
EXTENDS ChunkWorkers, FiniteSetTheorems, TLAPS

----------------------------------------------------------------------------
(* Types, and what a worker's position says of its race.                   *)

\* From the lock on a race has a result; a race being announced is stored and
\* recent.
Position(w) ==
  /\ worker[w].pc \in {"lock", "save", "broadcast"} => worker[w].race \notin NoResult
  /\ At(w, "broadcast") => worker[w].race \in Recent

TypeInv == TypeOK /\ \A w \in Workers : Position(w)

\* Initially every worker waits, and only the races stored before are stored.
LEMMA TypeInit == Init => TypeInv
<1> SUFFICES ASSUME Init PROVE TypeInv
  OBVIOUS
<1>1. \A w \in Workers : worker[w].pc = "select" /\ worker[w].race = NoRace
  BY DEF Init, Selecting
<1>2. worker \in [Workers -> [pc : Sends \cup Calls \cup {"select", "lock", "done"},
                             race : Races \cup {NoRace}, kind : Kinds]]
  BY DEF Init, Selecting, Kinds
<1>3. TypeOK
  BY <1>1, <1>2, ResultsAssumption DEF Init, TypeOK
<1>4. QED
  BY <1>1, <1>3 DEF TypeInv, Position, At

\* Every step keeps the types and the positions.
LEMMA TypeStep == TypeInv /\ [Next]_vars => TypeInv'
<1> SUFFICES ASSUME TypeInv, [Next]_vars PROVE TypeInv'
  OBVIOUS
<1> USE ResultsAssumption, WorkersAssumption DEF TypeInv, TypeOK, Position, At, Sends, Calls, Kinds
<1>1. ASSUME NEW r \in Races, NEW w \in Workers, Feed(r, w) PROVE TypeInv'
  BY <1>1 DEF Feed
<1>2. CASE CloseRaces
  BY <1>2 DEF CloseRaces
<1>3. CASE CloseCollection
  BY <1>3 DEF CloseCollection
<1>4. CASE TestErrors
  BY <1>4 DEF TestErrors
<1>5. CASE UpdateDriverRacesIngestedTo
  BY <1>5 DEF UpdateDriverRacesIngestedTo
<1>6. CASE NotifyChunk
  BY <1>6 DEF NotifyChunk
<1>7. CASE FeederCallFails
  BY <1>7 DEF FeederCallFails
<1>8. ASSUME NEW w \in Workers, Leave(w) PROVE TypeInv'
  BY <1>8 DEF Leave, Goto
<1>9. ASSUME NEW w \in Workers, SendCount(w) PROVE TypeInv'
  BY <1>9 DEF SendCount, Goto, NextRace, Selecting
<1>10. ASSUME NEW w \in Workers, GetSessionResults(w) PROVE TypeInv'
  BY <1>10 DEF GetSessionResults, Goto
<1>11. ASSUME NEW w \in Workers, GetDriverSession(w) PROVE TypeInv'
  BY <1>11 DEF GetDriverSession, Goto, NextRace, Selecting
<1>12. ASSUME NEW w \in Workers, LockInsertion(w) PROVE TypeInv'
  BY <1>12 DEF LockInsertion, Goto
<1>13. ASSUME NEW w \in Workers, SaveDriverSessions(w) PROVE TypeInv'
  BY <1>13 DEF SaveDriverSessions, Goto, NextRace, Selecting, Wanted
<1>14. ASSUME NEW w \in Workers, SaveFails(w) PROVE TypeInv'
  BY <1>14 DEF SaveFails, SaveRefused, SaveAnswerLost, GiveUp, Given, Wanted
<1>15. ASSUME NEW w \in Workers, Broadcast(w) PROVE TypeInv'
  BY <1>15 DEF Broadcast, NextRace, Selecting, Wanted
<1>16. ASSUME NEW w \in Workers, NEW kind \in Kinds, CallFails(w, kind) PROVE TypeInv'
  <2>1. worker[w].race \in Races \ TeamEvents /\ worker[w].pc \in Calls
    BY <1>16 DEF CallFails
  <2>2. failed' \in SUBSET Given
    BY <1>16, <2>1 DEF CallFails, GiveUp, Given
  <2>3. /\ worker' = [worker EXCEPT ![w].pc = "sendError", ![w].kind = kind]
        /\ UNCHANGED <<feeder, todo, collector, errs, ctxDone, mutex, sessions, told,
                       advanced>>
    BY <1>16 DEF CallFails, GiveUp
  <2>4. /\ worker'[w] = [worker[w] EXCEPT !.pc = "sendError", !.kind = kind]
        /\ \A v \in Workers : v # w => worker'[v] = worker[v]
    BY <2>3
  <2>5. worker' \in [Workers -> [pc : Sends \cup Calls \cup {"select", "lock", "done"},
                                race : Races \cup {NoRace}, kind : Kinds]]
    <3> HIDE DEF TypeInv, Kinds, Position
    <3>1. worker'[w] \in [pc : Sends \cup Calls \cup {"select", "lock", "done"},
                          race : Races \cup {NoRace}, kind : Kinds]
      <4>1. worker[w] \in [pc : Sends \cup Calls \cup {"select", "lock", "done"},
                          race : Races \cup {NoRace}, kind : Kinds]
        BY DEF TypeInv
      <4>2. kind \in Kinds
        BY <1>16
      <4>3. QED
        BY <2>4, <4>1, <4>2
    <3>2. worker \in [Workers -> [pc : Sends \cup Calls \cup {"select", "lock", "done"},
                                 race : Races \cup {NoRace}, kind : Kinds]]
      BY DEF TypeInv
    <3>3. worker' = [worker EXCEPT ![w] = worker'[w]]
      BY <2>3, <2>4, <3>2
    <3>4. QED
      BY <3>1, <3>2, <3>3
  <2>6. \A v \in Workers : Position(v)'
    BY <2>3, <2>4
  <2>7. QED
    BY <2>1, <2>2, <2>3, <2>4, <2>5, <2>6
<1>17. ASSUME NEW w \in Workers, SendError(w) PROVE TypeInv'
  BY <1>17 DEF SendError, NextRace, Selecting
<1>18. CASE Bail
  BY <1>18 DEF Bail
<1>19. CASE CollectorDone
  BY <1>19 DEF CollectorDone
<1>20. CASE DeadlinePasses
  BY <1>20 DEF DeadlinePasses
<1>21. CASE UNCHANGED vars
  BY <1>21 DEF vars
<1> HIDE DEF TypeInv, TypeOK, Position, At, Sends, Calls
<1>22. QED
  BY <1>1, <1>2, <1>3, <1>4, <1>5, <1>6, <1>7, <1>8, <1>9, <1>10, <1>11, <1>12,
     <1>13, <1>14, <1>15, <1>16, <1>17, <1>18, <1>19, <1>20, <1>21
     DEF Next, FeederStep, WorkerStep, CollectorStep, Done

\* Every reachable state has the declared types; no team event and no race
\* without a result of the driver is ever stored or announced.
THEOREM TypeCorrect == Spec => []TypeOK
<1>1. Spec => []TypeInv
  BY TypeInit, TypeStep, PTL DEF Spec
<1>2. TypeInv => TypeOK
  BY DEF TypeInv
<1>3. QED
  BY <1>1, <1>2, PTL

----------------------------------------------------------------------------
(* Channels, wait groups and the mutex.                                    *)

\* The mutex is held exactly by the worker that saves; past racesDone.Wait
\* every worker has returned, and past collectorDone.Wait the collector has.
CloseInv ==
  /\ \A w \in Workers : At(w, "save") <=> mutex = w
  /\ Draining => \A w \in Workers : At(w, "done")
  /\ feeder \in {"update", "notify", "complete", "error"} => collector = "done"
  /\ collector = "done" => Draining

\* The invariant holds before anything has been sent.
LEMMA CloseInit == Init => CloseInv
BY WorkersAssumption DEF Init, CloseInv, At, Selecting, Draining

\* Once every worker has returned no step of a worker is left.
LEMMA WorkersGone ==
  ASSUME CloseInv, Draining, NEW w \in Workers
  PROVE  ~WorkerStep(w)
<1>1. At(w, "done") /\ worker[w].pc = "done"
  BY DEF CloseInv, At
<1>2. QED
  BY <1>1 DEF WorkerStep, At, Leave, SendCount, GetSessionResults, GetDriverSession,
    LockInsertion, SaveDriverSessions, SaveFails, Broadcast, SendError, CallFails, Calls

\* A step of a worker keeps the mutex with whoever saves.
LEMMA WorkerKeepsMutex ==
  ASSUME TypeInv, CloseInv, NEW w \in Workers, WorkerStep(w)
  PROVE  \A v \in Workers : At(v, "save")' <=> mutex' = v
<1> DEFINE Goal == \A v \in Workers : At(v, "save")' <=> mutex' = v
<1>0. worker \in [Workers -> [pc : Sends \cup Calls \cup {"select", "lock", "done"},
                             race : Races \cup {NoRace}, kind : Kinds]]
  BY DEF TypeInv, TypeOK
<1>1. \A v \in Workers : worker[v].pc = "save" <=> mutex = v
  BY DEF CloseInv, At
<1>2. CASE Leave(w)
  BY <1>0, <1>1, <1>2 DEF Leave, Goto, At
<1>3. CASE SendCount(w)
  BY <1>0, <1>1, <1>3 DEF SendCount, Goto, NextRace, Selecting, At
<1>4. CASE GetSessionResults(w)
  BY <1>0, <1>1, <1>4 DEF GetSessionResults, Goto, At
<1>5. CASE GetDriverSession(w)
  BY <1>0, <1>1, <1>5 DEF GetDriverSession, Goto, NextRace, Selecting, At
<1>6. CASE LockInsertion(w)
  BY <1>0, <1>1, <1>6, WorkersAssumption DEF LockInsertion, Goto, At
<1>7. CASE SaveDriverSessions(w)
  BY <1>0, <1>1, <1>7, WorkersAssumption DEF SaveDriverSessions, Goto, NextRace, Selecting, At
<1>8. CASE SaveFails(w)
  <2>1. worker' = [worker EXCEPT ![w].pc = "sendError", ![w].kind = "other"] /\ mutex' = NoWorker
    BY <1>8 DEF SaveFails, SaveRefused, SaveAnswerLost, GiveUp
  <2>2. worker[w].pc = "save"
    BY <1>8 DEF SaveFails, At
  <2>3. QED
    BY <1>0, <1>1, <2>1, <2>2, WorkersAssumption DEF At
<1>9. CASE Broadcast(w)
  BY <1>0, <1>1, <1>9 DEF Broadcast, NextRace, Selecting, At
<1>10. CASE SendError(w)
  BY <1>0, <1>1, <1>10 DEF SendError, NextRace, Selecting, At
<1>11. ASSUME NEW kind \in Kinds, CallFails(w, kind) PROVE Goal
  <2>1. worker' = [worker EXCEPT ![w].pc = "sendError", ![w].kind = kind] /\ mutex' = mutex
    BY <1>11 DEF CallFails, GiveUp
  <2>2. worker[w].pc # "save"
    BY <1>11 DEF CallFails
  <2>3. QED
    BY <1>0, <1>1, <2>1, <2>2 DEF At
<1>12. QED
  BY <1>2, <1>3, <1>4, <1>5, <1>6, <1>7, <1>8, <1>9, <1>10, <1>11 DEF WorkerStep

\* A step of a worker leaves the feeder alone, and the collector but for an error
\* it receives.
LEMMA WorkerFrame ==
  ASSUME NEW w \in Workers, WorkerStep(w)
  PROVE  /\ UNCHANGED <<feeder, todo, errs, ctxDone, advanced>>
         /\ collector' # collector => collector = "receive" /\ collector' = worker[w].kind
BY DEF WorkerStep, Leave, SendCount, GetSessionResults, GetDriverSession, LockInsertion,
   SaveDriverSessions, SaveFails, Broadcast, SendError, CallFails

\* Every step keeps the invariant.
LEMMA CloseStep == TypeInv /\ CloseInv /\ [Next]_vars => CloseInv'
<1> SUFFICES ASSUME TypeInv, CloseInv, [Next]_vars PROVE CloseInv'
  OBVIOUS
<1>1. ASSUME NEW r \in Races, NEW w \in Workers, Feed(r, w) PROVE CloseInv'
  <2>1. feeder = "feed" /\ UNCHANGED <<feeder, collector, mutex>>
    BY <1>1 DEF Feed
  <2>2. \A v \in Workers : worker'[v].pc = "save" <=> worker[v].pc = "save"
    BY <1>1 DEF Feed, At, TypeInv, TypeOK
  <2>3. QED
    BY <2>1, <2>2 DEF CloseInv, Draining, At
<1>2. CASE CloseRaces
  BY <1>2 DEF CloseRaces, CloseInv, Draining, At
<1>3. CASE CloseCollection
  BY <1>3 DEF CloseCollection, CloseInv, Draining, At
<1>4. CASE TestErrors
  BY <1>4 DEF TestErrors, CloseInv, Draining, At
<1>5. CASE UpdateDriverRacesIngestedTo
  BY <1>5 DEF UpdateDriverRacesIngestedTo, CloseInv, Draining, At
<1>6. CASE NotifyChunk
  BY <1>6 DEF NotifyChunk, CloseInv, Draining, At
<1>7. CASE FeederCallFails
  BY <1>7 DEF FeederCallFails, CloseInv, Draining, At
<1>8. ASSUME NEW w \in Workers, WorkerStep(w) PROVE CloseInv'
  <2>1. ~Draining
    BY <1>8, WorkersGone
  <2>2. feeder' = feeder /\ collector' # "done"
    BY <1>8, <2>1, WorkerFrame DEF CloseInv, TypeInv, TypeOK, Kinds
  <2>3. QED
    BY <1>8, <2>1, <2>2, WorkerKeepsMutex DEF CloseInv, Draining
<1>9. CASE Bail
  BY <1>9 DEF Bail, CloseInv, Draining, At, Kinds
<1>10. CASE CollectorDone
  BY <1>10 DEF CollectorDone, CloseInv, Draining, At
<1>11. CASE DeadlinePasses
  BY <1>11 DEF DeadlinePasses, CloseInv, Draining, At
<1>12. CASE UNCHANGED vars
  BY <1>12 DEF vars, CloseInv, Draining, At
<1>13. QED
  BY <1>1, <1>2, <1>3, <1>4, <1>5, <1>6, <1>7, <1>8, <1>9, <1>10, <1>11, <1>12
     DEF Next, FeederStep, CollectorStep, Done

\* Nothing is sent to a closed channel, nothing is left running behind the
\* return of doIngestRaces, and the mutex is free by then.
THEOREM NothingAfterCloseHolds == Spec => []NothingAfterClose
<1>1. Spec => [](TypeInv /\ CloseInv)
  BY TypeInit, TypeStep, CloseInit, CloseStep, PTL DEF Spec
<1>2. TypeInv /\ CloseInv => NothingAfterClose
  BY WorkersAssumption DEF TypeInv, TypeOK, CloseInv, NothingAfterClose, Draining, Returned, At
<1>3. QED
  BY <1>1, <1>2, PTL

----------------------------------------------------------------------------
(* Who waits for whom.                                                     *)

\* What the feeder, a worker and the collector need to go on; a call needs nothing,
\* for it returns.
FeederCan ==
  \/ feeder = "feed" /\ (todo = {} \/ ctxDone)
  \/ feeder = "wait" /\ \A w \in Workers : At(w, "done")
  \/ feeder = "drain" /\ collector = "done"
  \/ feeder \in {"update", "notify"}

WorkerCan(w) ==
  \/ At(w, "select") /\ (ctxDone \/ feeder # "feed" \/ todo # {})
  \/ worker[w].pc \in Sends /\ collector = "receive"
  \/ At(w, "lock") /\ mutex = NoWorker
  \/ worker[w].pc \in Calls

CollectorCan == collector \in Kinds \/ (collector = "receive" /\ Draining)

\* ingestion/race-processor.go, doIngestRaces: until it returns, one of its
\* goroutines can go on.
SomebodyGoesOn ==
  ~Returned => FeederCan \/ CollectorCan \/ \E w \in Workers : WorkerCan(w)

\* A worker leaves the feeder only when there is nothing more to feed.
StayInv == \A w \in Workers : At(w, "done") => ctxDone \/ feeder # "feed"

LEMMA StayInit == Init => StayInv
BY DEF Init, StayInv, At, Selecting

\* A worker that goes on is done only if it leaves.
LEMMA OnlyLeaving ==
  ASSUME TypeInv, NEW w \in Workers, WorkerStep(w)
  PROVE  /\ \A v \in Workers : v # w => worker'[v] = worker[v]
         /\ worker'[w].pc = "done" => ctxDone \/ feeder # "feed"
<1>1. worker \in [Workers -> [pc : Sends \cup Calls \cup {"select", "lock", "done"},
                             race : Races \cup {NoRace}, kind : Kinds]]
  BY DEF TypeInv, TypeOK
<1>2. CASE Leave(w)
  BY <1>1, <1>2 DEF Leave, Goto
<1>3. CASE SendCount(w)
  BY <1>1, <1>3 DEF SendCount, Goto, NextRace, Selecting
<1>4. CASE GetSessionResults(w) \/ GetDriverSession(w)
  BY <1>1, <1>4 DEF GetSessionResults, GetDriverSession, Goto, NextRace, Selecting
<1>5. CASE LockInsertion(w) \/ SaveDriverSessions(w)
  BY <1>1, <1>5 DEF LockInsertion, SaveDriverSessions, Goto, NextRace, Selecting
<1>6. CASE Broadcast(w) \/ SendError(w)
  BY <1>1, <1>6 DEF Broadcast, SendError, NextRace, Selecting
<1>7. CASE SaveFails(w)
  BY <1>1, <1>7 DEF SaveFails, SaveRefused, SaveAnswerLost, GiveUp
<1>8. ASSUME NEW kind \in Kinds, CallFails(w, kind)
      PROVE  /\ \A v \in Workers : v # w => worker'[v] = worker[v]
             /\ worker'[w].pc = "done" => ctxDone \/ feeder # "feed"
  BY <1>1, <1>8 DEF CallFails, GiveUp
<1>9. QED
  BY <1>2, <1>3, <1>4, <1>5, <1>6, <1>7, <1>8 DEF WorkerStep

\* Every step keeps the invariant.
LEMMA StayStep == TypeInv /\ StayInv /\ [Next]_vars => StayInv'
<1> SUFFICES ASSUME TypeInv, StayInv, [Next]_vars PROVE StayInv'
  OBVIOUS
<1>1. ASSUME NEW r \in Races, NEW w \in Workers, Feed(r, w) PROVE StayInv'
  <2>1. \A v \in Workers : worker'[v].pc = "done" => worker[v].pc = "done"
    BY <1>1 DEF Feed, TypeInv, TypeOK
  <2>2. QED
    BY <1>1, <2>1 DEF Feed, StayInv, At
<1>2. CASE \/ CloseRaces \/ CloseCollection \/ TestErrors \/ UpdateDriverRacesIngestedTo
           \/ NotifyChunk \/ FeederCallFails
  BY <1>2 DEF CloseRaces, CloseCollection, TestErrors, UpdateDriverRacesIngestedTo,
              NotifyChunk, FeederCallFails, StayInv, At
<1>3. ASSUME NEW w \in Workers, WorkerStep(w) PROVE StayInv'
  BY <1>3, OnlyLeaving, WorkerFrame DEF StayInv, At
<1>4. CASE Bail \/ CollectorDone \/ DeadlinePasses
  BY <1>4 DEF Bail, CollectorDone, DeadlinePasses, StayInv, At
<1>5. CASE UNCHANGED vars
  BY <1>5 DEF vars, StayInv, At
<1>6. QED
  BY <1>1, <1>2, <1>3, <1>4, <1>5 DEF Next, FeederStep, CollectorStep, Done

\* Nobody waits for somebody who waits in turn, whatever failed and with any number of
\* workers at the channels, at the mutex and in the wait groups.
THEOREM SomebodyGoesOnHolds == Spec => []SomebodyGoesOn
<1>1. ASSUME TypeInv, CloseInv, StayInv PROVE SomebodyGoesOn
  <2> SUFFICES ASSUME ~Returned, ~FeederCan, ~CollectorCan
               PROVE  \E w \in Workers : WorkerCan(w)
    BY DEF SomebodyGoesOn
  <2>1. collector = "receive" /\ feeder \in {"feed", "wait"}
    BY <1>1 DEF TypeInv, TypeOK, CloseInv, CollectorCan, FeederCan, Draining, Returned
  <2>2. PICK w \in Workers : ~At(w, "done") /\ (feeder = "feed" => todo # {})
    <3>1. CASE feeder = "feed"
      BY <1>1, <3>1, WorkersAssumption DEF FeederCan, StayInv
    <3>2. CASE feeder = "wait"
      BY <3>2 DEF FeederCan
    <3>3. QED
      BY <2>1, <3>1, <3>2
  <2>3. CASE At(w, "lock") /\ mutex # NoWorker
    <3>1. mutex \in Workers /\ At(mutex, "save")
      BY <1>1, <2>3 DEF TypeInv, TypeOK, CloseInv
    <3>2. QED
      BY <3>1 DEF WorkerCan, At, Calls
  <2>4. CASE ~(At(w, "lock") /\ mutex # NoWorker)
    <3>1. worker[w].pc \in Sends \cup Calls \cup {"select", "lock"}
      BY <1>1, <2>2 DEF TypeInv, TypeOK, At
    <3>2. WorkerCan(w)
      BY <2>1, <2>2, <2>4, <3>1 DEF WorkerCan, At
    <3>3. QED
      BY <3>2
  <2>5. QED
    BY <2>3, <2>4
<1>2. Spec => [](TypeInv /\ CloseInv /\ StayInv)
  BY TypeInit, TypeStep, CloseInit, CloseStep, StayInit, StayStep, PTL DEF Spec
<1>3. QED
  BY <1>1, <1>2, PTL

----------------------------------------------------------------------------
(* What is left to do.                                                     *)

FeederLeft ==
  CASE feeder = "feed" -> 5 [] feeder = "wait" -> 4 [] feeder = "drain" -> 3
    [] feeder = "update" -> 2 [] feeder = "notify" -> 1 [] OTHER -> 0

Rank(pc) ==
  CASE pc = "sendRace" -> 9 [] pc = "results" -> 8 [] pc = "check" -> 7
    [] pc = "sendNew" -> 6 [] pc = "lock" -> 5 [] pc = "save" -> 4
    [] pc = "broadcast" -> 3 [] pc = "sendError" -> 2 [] pc = "select" -> 1
    [] OTHER -> 0

WorkerLeft(w) == Rank(worker[w].pc)

CollectorLeft == CASE collector = "done" -> 0 [] collector = "receive" -> 1 [] OTHER -> 2

\* ingestion/race-processor.go, doIngestRaces: every goroutine that goes on has less
\* left; a worker has more again only with a race that was not fed before, and the
\* collector only with an error that a worker has got rid of.
RoundNears ==
  /\ todo' \subseteq todo /\ FeederLeft' <= FeederLeft
  /\ FeederStep => todo' # todo \/ FeederLeft' < FeederLeft
  /\ CollectorStep => CollectorLeft' < CollectorLeft
  /\ \A w \in Workers : WorkerStep(w) => WorkerLeft(w)' < WorkerLeft(w)
  /\ \A w \in Workers : WorkerLeft(w)' > WorkerLeft(w) => todo' # todo
  /\ CollectorLeft' > CollectorLeft => \E w \in Workers : WorkerLeft(w)' < WorkerLeft(w)

LEMMA RankIs == \A pc : Rank(pc) \in Nat
BY DEF Rank

\* A step of a worker is its own, and brings it nearer its next race.
LEMMA WorkerNears ==
  ASSUME TypeInv, NEW w \in Workers, WorkerStep(w)
  PROVE  /\ \A v \in Workers : v # w => worker'[v] = worker[v]
         /\ WorkerLeft(w)' < WorkerLeft(w)
<1>1. worker \in [Workers -> [pc : Sends \cup Calls \cup {"select", "lock", "done"},
                             race : Races \cup {NoRace}, kind : Kinds]]
  BY DEF TypeInv, TypeOK
<1>2. \A v \in Workers : v # w => worker'[v] = worker[v]
  BY OnlyLeaving
<1>3. Rank(worker'[w].pc) < Rank(worker[w].pc)
  <2>1. CASE Leave(w)
    BY <1>1, <2>1 DEF Leave, Goto, At, Rank
  <2>2. CASE SendCount(w)
    BY <1>1, <2>2 DEF SendCount, Goto, NextRace, Selecting, At, Rank
  <2>3. CASE GetSessionResults(w)
    BY <1>1, <2>3 DEF GetSessionResults, Goto, At, Rank
  <2>4. CASE GetDriverSession(w)
    BY <1>1, <2>4 DEF GetDriverSession, Goto, NextRace, Selecting, At, Rank
  <2>5. CASE LockInsertion(w)
    BY <1>1, <2>5 DEF LockInsertion, Goto, At, Rank
  <2>6. CASE SaveDriverSessions(w)
    BY <1>1, <2>6 DEF SaveDriverSessions, Goto, NextRace, Selecting, At, Rank
  <2>7. CASE SaveFails(w)
    BY <1>1, <2>7 DEF SaveFails, SaveRefused, SaveAnswerLost, GiveUp, At, Rank
  <2>8. CASE Broadcast(w) \/ SendError(w)
    BY <1>1, <2>8 DEF Broadcast, SendError, NextRace, Selecting, At, Rank
  <2>9. ASSUME NEW kind \in Kinds, CallFails(w, kind)
        PROVE  Rank(worker'[w].pc) < Rank(worker[w].pc)
    BY <1>1, <2>9 DEF CallFails, GiveUp, Calls, At, Rank
  <2>10. QED
    BY <2>1, <2>2, <2>3, <2>4, <2>5, <2>6, <2>7, <2>8, <2>9 DEF WorkerStep
<1>4. QED
  BY <1>2, <1>3 DEF WorkerLeft

\* Races are fed once and each takes a worker nine steps at most, so with finitely many
\* workers a round in which somebody always goes on comes to its end.
THEOREM RoundNearsHolds == Spec => [][RoundNears]_vars
<1>1. ASSUME TypeInv, [Next]_vars, ~UNCHANGED vars PROVE RoundNears
  <2>0. /\ FeederLeft \in Nat /\ CollectorLeft \in Nat
        /\ \A w \in Workers : WorkerLeft(w) \in Nat /\ WorkerLeft(w)' \in Nat
    BY RankIs DEF FeederLeft, CollectorLeft, WorkerLeft
  <2>1. ASSUME NEW r \in Races, NEW w \in Workers, Feed(r, w)
        PROVE  RoundNears
    <3>1. todo' \subseteq todo /\ todo' # todo /\ FeederLeft' = FeederLeft
          /\ CollectorLeft' = CollectorLeft
      BY <2>1 DEF Feed, FeederLeft, CollectorLeft
    <3>2. \A v \in Workers : ~WorkerStep(v)
      BY <3>1, WorkerFrame
    <3>3. ~CollectorStep
      BY <3>1 DEF CollectorStep, Bail, CollectorDone
    <3>4. QED
      BY <2>0, <3>1, <3>2, <3>3 DEF RoundNears
  <2>2. CASE \/ CloseRaces \/ CloseCollection \/ TestErrors
             \/ UpdateDriverRacesIngestedTo \/ NotifyChunk \/ FeederCallFails
    <3>1. UNCHANGED <<todo, worker, collector>> /\ FeederLeft' < FeederLeft
      BY <2>2 DEF CloseRaces, CloseCollection, TestErrors, UpdateDriverRacesIngestedTo,
                  NotifyChunk, FeederCallFails, FeederLeft
    <3>2. feeder' # feeder
      BY <3>1, <2>0 DEF FeederLeft
    <3>3. \A v \in Workers : ~WorkerStep(v)
      BY <3>2, WorkerFrame
    <3>4. ~CollectorStep
      BY <3>2 DEF CollectorStep, Bail, CollectorDone
    <3>5. /\ FeederLeft' \in Nat /\ CollectorLeft' = CollectorLeft
          /\ \A w \in Workers : WorkerLeft(w)' = WorkerLeft(w)
      BY <3>1 DEF FeederLeft, CollectorLeft, WorkerLeft
    <3>6. QED
      BY <2>0, <3>1, <3>3, <3>4, <3>5 DEF RoundNears
  <2>3. ASSUME NEW w \in Workers, WorkerStep(w) PROVE RoundNears
    <3>1. /\ UNCHANGED <<feeder, todo>> /\ FeederLeft' = FeederLeft
          /\ WorkerLeft(w)' < WorkerLeft(w)
      BY <2>3, <1>1, WorkerFrame, WorkerNears DEF FeederLeft
    <3>2. ASSUME NEW v \in Workers, v # w PROVE WorkerLeft(v)' = WorkerLeft(v)
      BY <2>3, <1>1, <3>2, WorkerNears DEF WorkerLeft
    <3>3. \A v \in Workers : WorkerStep(v) => WorkerLeft(v)' < WorkerLeft(v)
      BY <1>1, WorkerNears
    <3>4. worker' # worker
      BY <3>1, <2>0 DEF WorkerLeft
    <3>5. ~CollectorStep
      BY <3>4 DEF CollectorStep, Bail, CollectorDone
    <3>6. ~FeederStep
      <4>1. \A r \in Races, v \in Workers : ~Feed(r, v)
        BY <3>1 DEF Feed
      <4>2. QED
        BY <3>1, <4>1 DEF FeederStep, CloseRaces, CloseCollection, TestErrors,
           UpdateDriverRacesIngestedTo, NotifyChunk, FeederCallFails
    <3>7. \A v \in Workers : ~(WorkerLeft(v)' > WorkerLeft(v))
      BY <2>0, <3>1, <3>2
    <3>8. QED
      BY <2>0, <3>1, <3>3, <3>5, <3>6, <3>7 DEF RoundNears
  <2>4. CASE Bail \/ CollectorDone
    <3>1. UNCHANGED <<feeder, todo, worker>> /\ CollectorLeft' < CollectorLeft
      BY <2>4, <1>1 DEF Bail, CollectorDone, CollectorLeft, Kinds
    <3>2. \A v \in Workers : ~WorkerStep(v)
      <4>1. \A v \in Workers : WorkerLeft(v)' = WorkerLeft(v)
        BY <3>1 DEF WorkerLeft
      <4>2. QED
        BY <1>1, <2>0, <4>1, WorkerNears
    <3>3. ~FeederStep
      <4>1. \A r \in Races, v \in Workers : ~Feed(r, v)
        BY <3>1 DEF Feed
      <4>2. QED
        BY <3>1, <4>1 DEF FeederStep, CloseRaces, CloseCollection, TestErrors,
           UpdateDriverRacesIngestedTo, NotifyChunk, FeederCallFails
    <3>4. /\ FeederLeft' = FeederLeft /\ CollectorLeft' \in Nat
          /\ \A w \in Workers : WorkerLeft(w)' = WorkerLeft(w)
      BY <3>1 DEF FeederLeft, CollectorLeft, WorkerLeft
    <3>5. QED
      BY <2>0, <3>1, <3>2, <3>3, <3>4 DEF RoundNears
  <2>5. CASE DeadlinePasses
    <3>1. UNCHANGED <<feeder, todo, worker, collector>>
      BY <2>5 DEF DeadlinePasses
    <3>2. /\ FeederLeft' = FeederLeft /\ CollectorLeft' = CollectorLeft
          /\ \A w \in Workers : WorkerLeft(w)' = WorkerLeft(w)
      BY <3>1 DEF FeederLeft, CollectorLeft, WorkerLeft
    <3>3. \A v \in Workers : ~WorkerStep(v)
      BY <1>1, <2>0, <3>2, WorkerNears
    <3>4. ~FeederStep
      <4>1. \A r \in Races, v \in Workers : ~Feed(r, v)
        BY <3>1 DEF Feed
      <4>2. QED
        BY <3>1, <4>1 DEF FeederStep, CloseRaces, CloseCollection, TestErrors,
           UpdateDriverRacesIngestedTo, NotifyChunk, FeederCallFails
    <3>5. ~CollectorStep
      BY <3>1 DEF CollectorStep, Bail, CollectorDone, Kinds
    <3>6. QED
      BY <2>0, <3>1, <3>2, <3>3, <3>4, <3>5 DEF RoundNears
  <2>6. QED
    BY <1>1, <2>1, <2>2, <2>3, <2>4, <2>5 DEF Next, FeederStep, CollectorStep, Done
<1>2. TypeInv /\ [Next]_vars => [RoundNears]_vars
  BY <1>1
<1>3. QED
  BY <1>2, TypeInit, TypeStep, PTL DEF Spec

----------------------------------------------------------------------------
(* The way of an error to errs.                                            *)

\* An error that has happened is with the worker that will send it, with the
\* collector, or in errs, and nothing else is; the update is reached without one.
ErrInv ==
  /\ \A f \in failed : \/ f.kind \in errs
                       \/ f.kind = collector
                       \/ \E w \in Workers : At(w, "sendError") /\ worker[w].kind = f.kind
  /\ \A k \in errs : \E f \in failed : f.kind = k
  /\ collector \in Kinds => \E f \in failed : f.kind = collector
  /\ \A w \in Workers : At(w, "sendError") =>
       \E f \in failed : f.kind = worker[w].kind /\ f.race = worker[w].race
  /\ feeder \in {"update", "notify", "complete"} => errs = {}

\* Nothing has failed at first.
LEMMA ErrInit == Init => ErrInv
BY DEF Init, ErrInv, At, Selecting, Kinds

\* A step that moves no worker to or from its error keeps the invariant.
LEMMA ErrQuiet ==
  ASSUME ErrInv, UNCHANGED <<errs, failed, collector>>,
         feeder' \in {"update", "notify", "complete"} =>
           feeder \in {"update", "notify", "complete"},
         \A v \in Workers : /\ At(v, "sendError")' <=> At(v, "sendError")
                            /\ At(v, "sendError") => worker'[v] = worker[v]
  PROVE  ErrInv'
BY DEF ErrInv

\* A worker that gives up its race holds an error of its own.
LEMMA ErrGiveUp ==
  ASSUME TypeInv, ErrInv, NEW w \in Workers, NEW kind \in Kinds, NEW at,
         ~At(w, "sendError"), GiveUp(w, kind, at),
         UNCHANGED <<errs, collector, feeder>>
  PROVE  ErrInv'
<1>1. worker \in [Workers -> [pc : Sends \cup Calls \cup {"select", "lock", "done"},
                             race : Races \cup {NoRace}, kind : Kinds]]
  BY DEF TypeInv, TypeOK
<1>2. /\ worker'[w].pc = "sendError" /\ worker'[w].kind = kind
      /\ worker'[w].race = worker[w].race
      /\ \A v \in Workers : v # w => worker'[v] = worker[v]
  BY <1>1 DEF GiveUp
<1> DEFINE new == [race |-> worker[w].race, kind |-> kind, at |-> at]
<1>4. failed' = failed \cup {new} /\ new.kind = kind /\ new.race = worker[w].race
  BY DEF GiveUp
<1> HIDE DEF new
<1>5. \A f \in failed' : \/ f.kind \in errs'
                        \/ f.kind = collector'
                        \/ \E v \in Workers : At(v, "sendError")' /\ worker'[v].kind = f.kind
  <2> SUFFICES ASSUME NEW f \in failed', f.kind \notin errs, f.kind # collector
               PROVE  \E v \in Workers : At(v, "sendError")' /\ worker'[v].kind = f.kind
    OBVIOUS
  <2>1. CASE f = new
    BY <1>2, <1>4, <2>1 DEF At
  <2>2. CASE f \in failed
    <3>1. PICK v \in Workers : At(v, "sendError") /\ worker[v].kind = f.kind
      BY <2>2 DEF ErrInv
    <3>2. v # w
      BY <3>1
    <3>3. QED
      BY <1>2, <3>1, <3>2 DEF At
  <2>3. QED
    BY <1>4, <2>1, <2>2
<1>6. \A v \in Workers : At(v, "sendError")' =>
        \E f \in failed' : f.kind = worker'[v].kind /\ f.race = worker'[v].race
  BY <1>2, <1>4 DEF ErrInv, At
<1>7. QED
  BY <1>4, <1>5, <1>6 DEF ErrInv

\* Every step keeps the invariant.
LEMMA ErrStep == TypeInv /\ CloseInv /\ ErrInv /\ [Next]_vars => ErrInv'
<1> SUFFICES ASSUME TypeInv, CloseInv, ErrInv, [Next]_vars PROVE ErrInv'
  OBVIOUS
<1>0. worker \in [Workers -> [pc : Sends \cup Calls \cup {"select", "lock", "done"},
                             race : Races \cup {NoRace}, kind : Kinds]]
  BY DEF TypeInv, TypeOK
<1>1. ASSUME NEW r \in Races, NEW w \in Workers, Feed(r, w) PROVE ErrInv'
  BY <1>0, <1>1, ErrQuiet DEF Feed, At
<1>2. CASE CloseRaces
  BY <1>2, ErrQuiet DEF CloseRaces, At
<1>3. CASE CloseCollection
  BY <1>3, ErrQuiet DEF CloseCollection, At
<1>4. CASE TestErrors
  BY <1>4 DEF TestErrors, ErrInv, At
<1>5. CASE UpdateDriverRacesIngestedTo
  BY <1>5, ErrQuiet DEF UpdateDriverRacesIngestedTo, At
<1>6. CASE NotifyChunk
  BY <1>6, ErrQuiet DEF NotifyChunk, At
<1>7. CASE FeederCallFails
  BY <1>7, ErrQuiet DEF FeederCallFails, At
<1>8. ASSUME NEW w \in Workers, Leave(w) PROVE ErrInv'
  BY <1>0, <1>8, ErrQuiet DEF Leave, Goto, At
<1>9. ASSUME NEW w \in Workers, SendCount(w) PROVE ErrInv'
  BY <1>0, <1>9, ErrQuiet DEF SendCount, Goto, NextRace, Selecting, At
<1>10. ASSUME NEW w \in Workers, GetSessionResults(w) PROVE ErrInv'
  BY <1>0, <1>10, ErrQuiet DEF GetSessionResults, Goto, At
<1>11. ASSUME NEW w \in Workers, GetDriverSession(w) PROVE ErrInv'
  BY <1>0, <1>11, ErrQuiet DEF GetDriverSession, Goto, NextRace, Selecting, At
<1>12. ASSUME NEW w \in Workers, LockInsertion(w) PROVE ErrInv'
  BY <1>0, <1>12, ErrQuiet DEF LockInsertion, Goto, At
<1>13. ASSUME NEW w \in Workers, SaveDriverSessions(w) PROVE ErrInv'
  BY <1>0, <1>13, ErrQuiet DEF SaveDriverSessions, Goto, NextRace, Selecting, At
<1>14. ASSUME NEW w \in Workers, SaveFails(w) PROVE ErrInv'
  <2>1. ~At(w, "sendError") /\ UNCHANGED <<errs, collector, feeder>>
    BY <1>14 DEF SaveFails, At
  <2>2. GiveUp(w, "other", "save") \/ GiveUp(w, "other", "saved")
    BY <1>14 DEF SaveFails, SaveRefused, SaveAnswerLost
  <2>3. "other" \in Kinds
    BY DEF Kinds
  <2>4. QED
    BY <2>1, <2>2, <2>3, ErrGiveUp
<1>15. ASSUME NEW w \in Workers, Broadcast(w) PROVE ErrInv'
  BY <1>0, <1>15, ErrQuiet DEF Broadcast, NextRace, Selecting, At
<1>16. ASSUME NEW w \in Workers, NEW kind \in Kinds, CallFails(w, kind) PROVE ErrInv'
  <2>1. ~At(w, "sendError") /\ UNCHANGED <<errs, collector, feeder>>
    BY <1>16 DEF CallFails, At, Calls
  <2>2. GiveUp(w, kind, worker[w].pc)
    BY <1>16 DEF CallFails
  <2>3. QED
    BY <2>1, <2>2, ErrGiveUp
<1>17. ASSUME NEW w \in Workers, SendError(w) PROVE ErrInv'
  <2>1. /\ At(w, "sendError") /\ collector = "receive" /\ collector' = worker[w].kind
        /\ UNCHANGED <<feeder, errs, failed>>
    BY <1>17 DEF SendError
  <2>2. /\ worker'[w].pc = "select"
        /\ \A v \in Workers : v # w => worker'[v] = worker[v]
    BY <1>0, <1>17 DEF SendError, NextRace, Selecting
  <2>3. \A f \in failed : f.kind # "receive"
    BY DEF TypeInv, TypeOK, Given, Kinds
  <2>4. \A f \in failed : \/ f.kind \in errs
                         \/ f.kind = collector'
                         \/ \E v \in Workers : At(v, "sendError")' /\ worker'[v].kind = f.kind
    BY <2>1, <2>2, <2>3 DEF ErrInv, At
  <2>5. QED
    BY <2>1, <2>2, <2>4 DEF ErrInv, At
<1>18. CASE Bail
  BY <1>18 DEF Bail, ErrInv, At, Kinds, CloseInv
<1>19. CASE CollectorDone
  BY <1>19 DEF CollectorDone, ErrInv, At, Kinds, TypeInv, TypeOK, Given
<1>20. CASE DeadlinePasses
  BY <1>20, ErrQuiet DEF DeadlinePasses, At
<1>21. CASE UNCHANGED vars
  BY <1>21, ErrQuiet DEF vars, At
<1>22. QED
  BY <1>1, <1>2, <1>3, <1>4, <1>5, <1>6, <1>7, <1>8, <1>9, <1>10, <1>11, <1>12,
     <1>13, <1>14, <1>15, <1>16, <1>17, <1>18, <1>19, <1>20, <1>21
     DEF Next, FeederStep, WorkerStep, CollectorStep, Done

\* The invariants of the errors hold together.
LEMMA ErrInvariant == Spec => [](TypeInv /\ CloseInv /\ ErrInv)
BY TypeInit, TypeStep, CloseInit, CloseStep, ErrInit, ErrStep, PTL DEF Spec

\* Every error of a worker is in errs when the round tests it, the ones after the
\* first too.
THEOREM NoErrorLostHolds == Spec => []NoErrorLost
<1>1. ASSUME TypeInv, CloseInv, ErrInv PROVE NoErrorLost
  <2> SUFFICES ASSUME feeder \in {"update", "notify", "complete", "error"}
               PROVE  errs = {f.kind : f \in failed}
    BY DEF NoErrorLost
  <2>1. collector = "done" /\ \A w \in Workers : ~At(w, "sendError")
    BY <1>1 DEF CloseInv, Draining, At
  <2>2. \A f \in failed : f.kind # "done"
    BY <1>1 DEF TypeInv, TypeOK, Given, Kinds
  <2>3. QED
    BY <1>1, <2>1, <2>2 DEF ErrInv
<1>2. QED
  BY <1>1, ErrInvariant, PTL

----------------------------------------------------------------------------
(* The way of a race to its row and to the client.                         *)

\* A race is with worker w; it has been given up with an error.
Held(r) == \E w \in Workers : worker[w].race = r
GivenUp(r) == \E f \in failed : f.race = r
ToAnnounce(r) == \E w \in Workers : At(w, "broadcast") /\ worker[w].race = r

\* Every race the round is there to store is stored, fed to nobody yet, with a
\* worker, or given up; one it has stored and must announce is announced, about
\* to be, or given up.  The feeder stops early only if the context is done.
RaceInv ==
  /\ \A r \in Wanted : Stored(r) \/ r \in todo \/ Held(r) \/ GivenUp(r)
  /\ \A r \in (sessions \ StoredBefore) \cap Recent :
       r \in told \/ ToAnnounce(r) \/ GivenUp(r)
  /\ \A w \in Workers : At(w, "broadcast") => Stored(worker[w].race)
  /\ feeder # "feed" => todo = {} \/ ctxDone
  /\ advanced => Draining /\ AdvancedOnlyIfStored /\ AnnouncedIfAdvanced

\* At first every race is to do.
LEMMA RaceInit == Init => RaceInv
BY DEF Init, RaceInv, Wanted, At, Selecting

\* A race stored stays stored, and is stored once its row is there.
LEMMA StoredGrows ==
  ASSUME NEW r \in Races, NEW s \in Races, sessions' = sessions \cup {s}
  PROVE  (Stored(r) => Stored(r)') /\ Stored(s)'
BY DEF Stored

\* What a step of worker w owes to its race r and to the others: it may let go of
\* r only when r is stored, not wanted or given up, and must announce what it saves.
LEMMA RaceWorker ==
  ASSUME TypeInv, RaceInv, ~advanced, NEW w \in Workers, NEW r, r = worker[w].race,
         UNCHANGED <<feeder, todo, ctxDone, advanced>>,
         \A v \in Workers : v # w => worker'[v] = worker[v],
         failed \subseteq failed', told \subseteq told',
         sessions' = sessions \/ sessions' = sessions \cup {r},
         worker'[w].race = r \/ r \notin Wanted \/ Stored(r)' \/ GivenUp(r)',
         r \in (sessions' \ StoredBefore) \cap Recent =>
           \/ r \in told'
           \/ GivenUp(r)'
           \/ worker'[w].pc = "broadcast" /\ worker'[w].race = r
           \/ sessions' = sessions /\ worker[w].pc # "broadcast",
         worker'[w].pc = "broadcast" => worker'[w].race = r /\ Stored(r)'
  PROVE  RaceInv'
<1>1. \A q \in Races : Stored(q) => Stored(q)'
  BY DEF Stored
<1>2. \A q \in Races : GivenUp(q) => GivenUp(q)'
  BY DEF GivenUp
<1>3. ASSUME NEW q \in Wanted PROVE (Stored(q) \/ q \in todo \/ Held(q) \/ GivenUp(q))'
  <2>1. q \in Races
    BY <1>3 DEF Wanted
  <2>2. CASE Held(q)
    <3>1. PICK v \in Workers : worker[v].race = q
      BY <2>2 DEF Held
    <3>2. CASE v = w
      BY <3>1, <3>2, <1>3 DEF Held
    <3>3. CASE v # w
      BY <3>1, <3>3 DEF Held
    <3>4. QED
      BY <3>2, <3>3
  <2>3. QED
    BY <1>1, <1>2, <1>3, <2>1, <2>2 DEF RaceInv
<1>4. ASSUME NEW q \in (sessions' \ StoredBefore) \cap Recent
      PROVE  (q \in told \/ ToAnnounce(q) \/ GivenUp(q))'
  <2>1. CASE q = r /\ ~(sessions' = sessions /\ worker[w].pc # "broadcast")
    BY <1>4, <2>1 DEF ToAnnounce, At
  <2>2. CASE q = r /\ sessions' = sessions /\ worker[w].pc # "broadcast"
    <3>1. q \in told \/ ToAnnounce(q) \/ GivenUp(q)
      BY <1>4, <2>2 DEF RaceInv
    <3>2. ToAnnounce(q) => ToAnnounce(q)'
      BY <2>2 DEF ToAnnounce, At
    <3>3. QED
      BY <3>1, <3>2 DEF GivenUp
  <2>3. CASE q # r
    <3>1. q \in sessions
      BY <1>4, <2>3
    <3>2. q \in told \/ ToAnnounce(q) \/ GivenUp(q)
      BY <1>4, <3>1 DEF RaceInv
    <3>3. ToAnnounce(q) => ToAnnounce(q)'
      BY <2>3 DEF ToAnnounce, At
    <3>4. QED
      BY <3>2, <3>3 DEF GivenUp
  <2>4. QED
    BY <2>1, <2>2, <2>3
<1>5. ASSUME NEW v \in Workers, At(v, "broadcast")' PROVE Stored(worker[v].race)'
  <2>1. CASE v = w
    BY <1>5, <2>1 DEF At
  <2>2. CASE v # w
    <3>1. Stored(worker[v].race)
      BY <1>5, <2>2 DEF RaceInv, At
    <3>2. QED
      BY <2>2, <3>1 DEF Stored
  <2>3. QED
    BY <2>1, <2>2
<1>6. QED
  BY <1>3, <1>4, <1>5 DEF RaceInv

\* A worker on its way to the save keeps its race and changes nothing else.
LEMMA RaceGoes ==
  ASSUME TypeInv, RaceInv, ~advanced, NEW w \in Workers, NEW pc, Goto(w, pc),
         pc # "broadcast", worker[w].pc # "broadcast",
         UNCHANGED <<feeder, todo, ctxDone, advanced, failed, told, sessions>>
  PROVE  RaceInv'
<1>1. worker \in [Workers -> [pc : Sends \cup Calls \cup {"select", "lock", "done"},
                             race : Races \cup {NoRace}, kind : Kinds]]
  BY DEF TypeInv, TypeOK
<1>2. /\ worker'[w].pc = pc /\ worker'[w].race = worker[w].race
      /\ \A v \in Workers : v # w => worker'[v] = worker[v]
  BY <1>1 DEF Goto
<1>3. QED
  BY <1>2, RaceWorker

\* A worker that gives its race up may have stored it.
LEMMA RaceGivesUp ==
  ASSUME TypeInv, RaceInv, ~advanced, NEW w \in Workers, NEW kind, NEW at,
         GiveUp(w, kind, at),
         sessions' = sessions \/ sessions' = sessions \cup {worker[w].race},
         UNCHANGED <<feeder, todo, ctxDone, advanced, told>>
  PROVE  RaceInv'
<1>1. worker \in [Workers -> [pc : Sends \cup Calls \cup {"select", "lock", "done"},
                             race : Races \cup {NoRace}, kind : Kinds]]
  BY DEF TypeInv, TypeOK
<1>2. /\ worker'[w].pc = "sendError" /\ worker'[w].race = worker[w].race
      /\ \A v \in Workers : v # w => worker'[v] = worker[v]
  BY <1>1 DEF GiveUp
<1> DEFINE new == [race |-> worker[w].race, kind |-> kind, at |-> at]
<1>3. failed' = failed \cup {new} /\ new.race = worker[w].race
  BY DEF GiveUp
<1> HIDE DEF new
<1>4. new \in failed' /\ failed \subseteq failed'
  BY <1>3
<1>5. ASSUME NEW r, r = worker[w].race PROVE RaceInv'
  <2>1. GivenUp(r)'
    BY <1>3, <1>4, <1>5 DEF GivenUp
  <2>2. QED
    BY <1>2, <1>4, <1>5, <2>1, RaceWorker
<1>6. QED
  BY <1>5

\* A worker that is done with its race takes another: the race is stored, not
\* wanted or given up, and announced if it has to be.
LEMMA RaceNext ==
  ASSUME TypeInv, RaceInv, ~advanced, NEW w \in Workers, NextRace(w), NEW r,
         r = worker[w].race, r \notin Wanted \/ Stored(r)' \/ GivenUp(r)',
         sessions' = sessions \/ sessions' = sessions \cup {r},
         told \subseteq told',
         r \in (sessions' \ StoredBefore) \cap Recent =>
           \/ r \in told' \/ GivenUp(r)'
           \/ sessions' = sessions /\ worker[w].pc # "broadcast",
         UNCHANGED <<feeder, todo, ctxDone, advanced, failed>>
  PROVE  RaceInv'
<1>1. /\ worker'[w].pc = "select"
      /\ \A v \in Workers : v # w => worker'[v] = worker[v]
  BY DEF NextRace, Selecting, TypeInv, TypeOK
<1>2. QED
  BY <1>1, RaceWorker

\* Every step of a worker keeps the invariant.
LEMMA RaceWorkerStep ==
  ASSUME TypeInv, CloseInv, ErrInv, RaceInv, NEW w \in Workers, WorkerStep(w)
  PROVE  RaceInv'
<1>0. ~advanced
  BY WorkersGone DEF RaceInv
<1>1. UNCHANGED <<feeder, todo, ctxDone, advanced>>
  BY WorkerFrame
<1>2. CASE Leave(w)
  BY <1>0, <1>1, <1>2, RaceGoes DEF Leave, At
<1>3. CASE SendCount(w)
  <2>1. UNCHANGED <<failed, told, sessions>> /\ worker[w].pc # "broadcast"
    BY <1>3 DEF SendCount, At
  <2>2. CASE Goto(w, "results") \/ Goto(w, "lock")
    BY <1>0, <1>1, <2>1, <2>2, RaceGoes
  <2>3. CASE worker[w].race \in NoResult /\ NextRace(w)
    <3>1. worker[w].race \notin Wanted
      BY <2>3 DEF Wanted
    <3>2. QED
      BY <1>0, <1>1, <2>1, <2>3, <3>1, RaceNext
  <2>4. QED
    BY <1>3, <2>2, <2>3 DEF SendCount
<1>4. CASE GetSessionResults(w)
  BY <1>0, <1>1, <1>4, RaceGoes DEF GetSessionResults, At
<1>5. CASE GetDriverSession(w)
  <2>1. UNCHANGED <<failed, told, sessions>> /\ worker[w].pc # "broadcast"
    BY <1>5 DEF GetDriverSession, At
  <2>2. CASE Goto(w, "sendNew")
    BY <1>0, <1>1, <2>1, <2>2, RaceGoes
  <2>3. CASE Stored(worker[w].race) /\ NextRace(w)
    <3>1. ASSUME NEW r, r = worker[w].race PROVE Stored(r)'
      BY <2>1, <2>3, <3>1 DEF Stored
    <3>2. QED
      BY <1>0, <1>1, <2>1, <2>3, <3>1, RaceNext
  <2>4. QED
    BY <1>5, <2>2, <2>3 DEF GetDriverSession
<1>6. CASE LockInsertion(w)
  BY <1>0, <1>1, <1>6, RaceGoes DEF LockInsertion, At
<1>7. CASE SaveDriverSessions(w)
  <2>1. /\ UNCHANGED <<failed, told>> /\ sessions' = sessions \cup {worker[w].race}
        /\ worker[w].pc # "broadcast"
    BY <1>7 DEF SaveDriverSessions, At
  <2>2. ASSUME NEW r, r = worker[w].race PROVE Stored(r)'
    BY <2>1, <2>2 DEF Stored
  <2>3. CASE worker[w].race \notin Recent /\ NextRace(w)
    BY <1>0, <1>1, <2>1, <2>2, <2>3, RaceNext
  <2>4. CASE Goto(w, "broadcast")
    <3>1. /\ worker'[w].pc = "broadcast" /\ worker'[w].race = worker[w].race
          /\ \A v \in Workers : v # w => worker'[v] = worker[v]
      BY <2>4 DEF Goto, TypeInv, TypeOK
    <3>2. QED
      BY <1>0, <1>1, <2>1, <2>2, <3>1, RaceWorker
  <2>5. QED
    BY <1>7, <2>3, <2>4 DEF SaveDriverSessions
<1>8. CASE SaveFails(w)
  <2>1. PICK at \in {"save", "saved"} : GiveUp(w, "other", at)
    BY <1>8 DEF SaveFails, SaveRefused, SaveAnswerLost
  <2>2. /\ UNCHANGED told
        /\ sessions' = sessions \/ sessions' = sessions \cup {worker[w].race}
    BY <1>8 DEF SaveFails, SaveRefused, SaveAnswerLost
  <2>3. QED
    BY <1>0, <1>1, <2>1, <2>2, RaceGivesUp
<1>9. CASE Broadcast(w)
  <2>1. /\ told' = told \cup {worker[w].race} /\ UNCHANGED <<failed, sessions>>
        /\ NextRace(w) /\ At(w, "broadcast")
    BY <1>9 DEF Broadcast
  <2>2. ASSUME NEW r, r = worker[w].race PROVE Stored(r)'
    BY <2>1, <2>2 DEF RaceInv, Stored
  <2>3. QED
    BY <1>0, <1>1, <2>1, <2>2, RaceNext
<1>10. CASE SendError(w)
  <2>1. /\ UNCHANGED <<failed, told, sessions>> /\ worker[w].pc = "sendError"
        /\ NextRace(w)
    BY <1>10 DEF SendError, At
  <2>2. ASSUME NEW r, r = worker[w].race PROVE GivenUp(r)'
    BY <2>1, <2>2 DEF ErrInv, GivenUp, At
  <2>3. QED
    BY <1>0, <1>1, <2>1, <2>2, RaceNext
<1>11. ASSUME NEW kind \in Kinds, CallFails(w, kind) PROVE RaceInv'
  BY <1>0, <1>1, <1>11, RaceGivesUp DEF CallFails
<1>12. QED
  BY <1>2, <1>3, <1>4, <1>5, <1>6, <1>7, <1>8, <1>9, <1>10, <1>11 DEF WorkerStep

\* A step that leaves the workers, the rows and the announcements alone.
LEMMA RaceFrame ==
  ASSUME RaceInv, UNCHANGED <<worker, sessions, told, failed, todo, advanced>>,
         feeder' # "feed" => todo = {} \/ ctxDone', Draining => Draining'
  PROVE  RaceInv'
BY DEF RaceInv, Stored, Held, GivenUp, ToAnnounce, At, AdvancedOnlyIfStored,
   AnnouncedIfAdvanced

\* The update finds every race of the window stored and announced: no error was
\* collected, so none has happened, and the context is not done, so all were fed.
LEMMA UpdateIsCovered ==
  ASSUME TypeInv, CloseInv, ErrInv, RaceInv, UpdateDriverRacesIngestedTo
  PROVE  /\ \A r \in Wanted : Stored(r)
         /\ (sessions \ StoredBefore) \cap Recent \subseteq told
<1>1. feeder = "update" /\ ~ctxDone
  BY DEF UpdateDriverRacesIngestedTo
<1>2. todo = {} /\ collector = "done" /\ errs = {} /\ \A w \in Workers : At(w, "done")
  BY <1>1 DEF RaceInv, CloseInv, ErrInv, Draining
<1>3. failed = {}
  BY <1>2 DEF ErrInv, TypeInv, TypeOK, Given, Kinds, At
<1>4. \A w \in Workers : worker[w].race = NoRace
  BY <1>2 DEF TypeInv, TypeOK, At
<1>5. \A r \in Wanted : ~Held(r)
  BY <1>4, ResultsAssumption DEF Held, Wanted
<1>6. \A r \in Races : ~ToAnnounce(r) /\ ~GivenUp(r)
  BY <1>2, <1>3 DEF ToAnnounce, GivenUp, At
<1>7. \A r \in Wanted : r \in Races
  BY DEF Wanted
<1>8. sessions \subseteq Races
  BY ResultsAssumption DEF TypeInv, TypeOK, Wanted
<1>9. QED
  BY <1>2, <1>5, <1>6, <1>7, <1>8 DEF RaceInv

\* Every step keeps the invariant.
LEMMA RaceStep == TypeInv /\ CloseInv /\ ErrInv /\ RaceInv /\ [Next]_vars => RaceInv'
<1> SUFFICES ASSUME TypeInv, CloseInv, ErrInv, RaceInv, [Next]_vars PROVE RaceInv'
  OBVIOUS
<1>1. ASSUME NEW r \in Races, NEW w \in Workers, Feed(r, w) PROVE RaceInv'
  <2>1. /\ feeder = "feed" /\ todo' = todo \ {r} /\ At(w, "select")
        /\ UNCHANGED <<feeder, ctxDone, sessions, told, advanced, failed>>
    BY <1>1 DEF Feed
  <2>2. ~advanced
    BY <2>1 DEF RaceInv, Draining
  <2>3. worker[w].race = NoRace
    BY <2>1 DEF TypeInv, TypeOK, At
  <2>4. \/ r \in TeamEvents /\ UNCHANGED worker
        \/ worker' = [worker EXCEPT ![w].pc = "sendRace", ![w].race = r]
    BY <1>1 DEF Feed
  <2>5. \A v \in Workers : v # w => worker'[v] = worker[v]
    BY <2>4 DEF TypeInv, TypeOK
  <2>6. r \in TeamEvents \/ worker'[w].race = r
    BY <2>4 DEF TypeInv, TypeOK
  <2>7. ASSUME NEW v \in Workers PROVE At(v, "broadcast")' => worker'[v] = worker[v]
    BY <2>1, <2>4 DEF TypeInv, TypeOK, At
  <2>8. \A q \in Wanted : (Stored(q) \/ q \in todo \/ Held(q) \/ GivenUp(q))'
    <3> SUFFICES ASSUME NEW q \in Wanted
                 PROVE  (Stored(q) \/ q \in todo \/ Held(q) \/ GivenUp(q))'
      OBVIOUS
    <3>1. q \in Races \ TeamEvents
      BY DEF Wanted
    <3>2. q = r => Held(q)'
      BY <2>6, <3>1 DEF Held
    <3>3. Held(q) => Held(q)'
      BY <2>3, <2>5, <3>1, ResultsAssumption DEF Held
    <3>4. QED
      BY <2>1, <3>2, <3>3 DEF RaceInv, Stored, GivenUp
  <2>9. \A q \in Races : ToAnnounce(q) => ToAnnounce(q)'
    BY <2>1, <2>5 DEF ToAnnounce, At
  <2>10. sessions \subseteq Races
    BY ResultsAssumption DEF TypeInv, TypeOK, Wanted
  <2>11. QED
    BY <2>1, <2>2, <2>7, <2>8, <2>9, <2>10 DEF RaceInv, Stored, GivenUp, At
<1>2. CASE CloseRaces
  BY <1>2, RaceFrame DEF CloseRaces, Draining
<1>3. CASE CloseCollection
  BY <1>3, RaceFrame DEF CloseCollection, Draining, RaceInv
<1>4. CASE TestErrors
  BY <1>4, RaceFrame DEF TestErrors, Draining, RaceInv
<1>5. CASE UpdateDriverRacesIngestedTo
  BY <1>5, UpdateIsCovered
     DEF UpdateDriverRacesIngestedTo, RaceInv, Draining, Stored, Held, GivenUp,
         ToAnnounce, At, AdvancedOnlyIfStored, AnnouncedIfAdvanced
<1>6. CASE NotifyChunk
  BY <1>6, RaceFrame DEF NotifyChunk, Draining, RaceInv
<1>7. CASE FeederCallFails
  BY <1>7, RaceFrame DEF FeederCallFails, Draining, RaceInv
<1>8. ASSUME NEW w \in Workers, WorkerStep(w) PROVE RaceInv'
  BY <1>8, RaceWorkerStep
<1>9. CASE Bail
  BY <1>9, RaceFrame DEF Bail, Draining
<1>10. CASE CollectorDone
  BY <1>10, RaceFrame DEF CollectorDone, Draining, RaceInv
<1>11. CASE DeadlinePasses
  BY <1>11, RaceFrame DEF DeadlinePasses, Draining
<1>12. CASE UNCHANGED vars
  BY <1>12, RaceFrame DEF vars, Draining, RaceInv
<1>13. QED
  BY <1>1, <1>2, <1>3, <1>4, <1>5, <1>6, <1>7, <1>8, <1>9, <1>10, <1>11, <1>12
     DEF Next, FeederStep, CollectorStep, Done

\* All invariants of the round.
LEMMA RaceInvariant == Spec => []RaceInv
BY TypeInit, TypeStep, CloseInit, CloseStep, ErrInit, ErrStep, RaceInit, RaceStep, PTL
   DEF Spec

\* The watermark moves only over a window all of whose races are stored, wherever
\* errors and the deadline catch the goroutines.
THEOREM AdvancedOnlyIfStoredHolds == Spec => []AdvancedOnlyIfStored
<1>1. RaceInv => AdvancedOnlyIfStored
  BY DEF RaceInv, AdvancedOnlyIfStored
<1>2. QED
  BY <1>1, RaceInvariant, PTL

\* A round that moves the watermark has announced every recent race it stored.
THEOREM AnnouncedIfAdvancedHolds == Spec => []AnnouncedIfAdvanced
<1>1. RaceInv => AnnouncedIfAdvanced
  BY DEF RaceInv, AnnouncedIfAdvanced
<1>2. QED
  BY <1>1, RaceInvariant, PTL

----------------------------------------------------------------------------
(* The round as RaceIngestion describes it.                                *)

\* A race is in one place: to do, with one worker, or given up, by the worker
\* that is about to send its error if by one of them; the watermark moves last.
OnceInv ==
  /\ \A v, w \in Workers :
       v # w /\ worker[v].race = worker[w].race => worker[v].race = NoRace
  /\ \A w \in Workers : worker[w].race \notin todo
  /\ \A f \in failed :
       /\ f.race \notin todo
       /\ \A w \in Workers : f.race = worker[w].race => At(w, "sendError")
  /\ advanced => feeder \in {"notify", "complete", "error"}

\* At first every race is to do.
LEMMA OnceInit == Init => OnceInv
BY ResultsAssumption DEF Init, OnceInv, Selecting

\* A worker keeps its race or is done with it, and moves nobody else; what it
\* gives up is its own race, and it stays with it until the error is sent.
LEMMA WorkerMoves ==
  ASSUME TypeInv, NEW w \in Workers, WorkerStep(w)
  PROVE  /\ \A v \in Workers : v # w => worker'[v] = worker[v]
         /\ worker'[w].race \in {worker[w].race, NoRace}
         /\ At(w, "sendError") => worker'[w].race = NoRace
         /\ \/ failed' = failed
            \/ /\ worker'[w].pc = "sendError" /\ worker[w].race \in Races
               /\ \E g : g.race = worker[w].race /\ failed' = failed \cup {g}
<1> DEFINE Goal ==
      /\ \A v \in Workers : v # w => worker'[v] = worker[v]
      /\ worker'[w].race \in {worker[w].race, NoRace}
      /\ At(w, "sendError") => worker'[w].race = NoRace
      /\ \/ failed' = failed
         \/ /\ worker'[w].pc = "sendError" /\ worker[w].race \in Races
            /\ \E g : g.race = worker[w].race /\ failed' = failed \cup {g}
<1>1. worker \in [Workers -> [pc : Sends \cup Calls \cup {"select", "lock", "done"},
                             race : Races \cup {NoRace}, kind : Kinds]]
  BY DEF TypeInv, TypeOK
<1>2. ASSUME NEW pc, Goto(w, pc), failed' = failed, ~At(w, "sendError") PROVE Goal
  BY <1>1, <1>2 DEF Goto
<1>3. ASSUME NextRace(w), failed' = failed PROVE Goal
  BY <1>1, <1>3 DEF NextRace, Selecting
<1>4. ASSUME NEW kind, NEW at, GiveUp(w, kind, at), worker[w].pc \in Calls PROVE Goal
  <2>1. /\ worker'[w].pc = "sendError" /\ worker'[w].race = worker[w].race
        /\ \A v \in Workers : v # w => worker'[v] = worker[v]
    BY <1>1, <1>4 DEF GiveUp
  <2>2. worker[w].race \in Races /\ ~At(w, "sendError")
    BY <1>4 DEF TypeInv, TypeOK, Calls, At
  <2>3. \E g : g.race = worker[w].race /\ failed' = failed \cup {g}
    <3>1. [race |-> worker[w].race, kind |-> kind, at |-> at].race = worker[w].race
      OBVIOUS
    <3>2. QED
      BY <1>4, <3>1 DEF GiveUp
  <2>4. QED
    BY <2>1, <2>2, <2>3
<1> SUFFICES Goal
  OBVIOUS
<1> HIDE DEF Goal
<1>5. CASE Leave(w)
  BY <1>2, <1>5 DEF Leave, At
<1>6. CASE SendCount(w)
  BY <1>2, <1>3, <1>6 DEF SendCount, At
<1>7. CASE GetSessionResults(w)
  BY <1>2, <1>7 DEF GetSessionResults, At
<1>8. CASE GetDriverSession(w)
  BY <1>2, <1>3, <1>8 DEF GetDriverSession, At
<1>9. CASE LockInsertion(w)
  BY <1>2, <1>9 DEF LockInsertion, At
<1>10. CASE SaveDriverSessions(w)
  BY <1>2, <1>3, <1>10 DEF SaveDriverSessions, At
<1>11. CASE SaveFails(w)
  BY <1>4, <1>11 DEF SaveFails, SaveRefused, SaveAnswerLost, At, Calls
<1>12. CASE Broadcast(w)
  BY <1>3, <1>12 DEF Broadcast
<1>13. CASE SendError(w)
  BY <1>3, <1>13 DEF SendError
<1>14. ASSUME NEW kind \in Kinds, CallFails(w, kind) PROVE Goal
  BY <1>4, <1>14 DEF CallFails
<1>15. QED
  BY <1>5, <1>6, <1>7, <1>8, <1>9, <1>10, <1>11, <1>12, <1>13, <1>14
     DEF WorkerStep, Goal

\* A step that moves no race and fails none.
LEMMA OnceFrame ==
  ASSUME OnceInv, UNCHANGED <<worker, todo, failed>>,
         advanced' => feeder' \in {"notify", "complete", "error"}
  PROVE  OnceInv'
BY DEF OnceInv, At

\* Every step keeps the invariant.
LEMMA OnceStep == TypeInv /\ CloseInv /\ OnceInv /\ [Next]_vars => OnceInv'
<1> SUFFICES ASSUME TypeInv, CloseInv, OnceInv, [Next]_vars PROVE OnceInv'
  OBVIOUS
<1>0. worker \in [Workers -> [pc : Sends \cup Calls \cup {"select", "lock", "done"},
                             race : Races \cup {NoRace}, kind : Kinds]]
  BY DEF TypeInv, TypeOK
<1>1. ASSUME NEW r \in Races, NEW w \in Workers, Feed(r, w) PROVE OnceInv'
  <2>1. /\ todo' = todo \ {r} /\ r \in todo /\ feeder = "feed"
        /\ UNCHANGED <<feeder, advanced, failed>>
    BY <1>1 DEF Feed
  <2>2. CASE UNCHANGED worker
    BY <2>1, <2>2 DEF OnceInv, At
  <2>3. CASE worker' = [worker EXCEPT ![w].pc = "sendRace", ![w].race = r]
    <3>1. /\ worker'[w].race = r /\ worker[w].race = NoRace
          /\ \A v \in Workers : v # w => worker'[v] = worker[v]
      BY <1>0, <1>1, <2>3 DEF Feed, TypeInv, TypeOK, At
    <3>2. \A f \in failed : f.race # r
      BY <2>1 DEF OnceInv
    <3>3. QED
      BY <2>1, <3>1, <3>2 DEF OnceInv, At
  <2>4. QED
    BY <1>1, <2>2, <2>3 DEF Feed
<1>2. CASE CloseRaces
  BY <1>2, OnceFrame DEF CloseRaces, OnceInv
<1>3. CASE CloseCollection
  BY <1>3, OnceFrame DEF CloseCollection, OnceInv
<1>4. CASE TestErrors
  BY <1>4, OnceFrame DEF TestErrors, OnceInv
<1>5. CASE UpdateDriverRacesIngestedTo
  BY <1>5, OnceFrame DEF UpdateDriverRacesIngestedTo
<1>6. CASE NotifyChunk
  BY <1>6, OnceFrame DEF NotifyChunk
<1>7. CASE FeederCallFails
  BY <1>7, OnceFrame DEF FeederCallFails
<1>8. ASSUME NEW w \in Workers, WorkerStep(w) PROVE OnceInv'
  <2>1. UNCHANGED <<feeder, todo, advanced>>
    BY <1>8, WorkerFrame
  <2>2. /\ \A v \in Workers : v # w => worker'[v] = worker[v]
        /\ worker'[w].race \in {worker[w].race, NoRace}
        /\ At(w, "sendError") => worker'[w].race = NoRace
    BY <1>8, WorkerMoves
  <2>3. \A f \in failed : f.race # NoRace
    BY ResultsAssumption DEF TypeInv, TypeOK, Given
  <2>4. NoRace \notin todo
    BY ResultsAssumption DEF TypeInv, TypeOK
  <2>5. ASSUME NEW f \in failed
        PROVE  /\ f.race \notin todo
               /\ \A v \in Workers : f.race = worker'[v].race => At(v, "sendError")'
    BY <2>2, <2>3 DEF OnceInv, At
  <2>6. CASE failed' = failed
    BY <2>1, <2>2, <2>4, <2>5, <2>6 DEF OnceInv
  <2>7. CASE failed' # failed
    <3>1. PICK g : g.race = worker[w].race /\ failed' = failed \cup {g}
      BY <1>8, <2>7, WorkerMoves
    <3>2. worker'[w].pc = "sendError" /\ worker[w].race \in Races
      BY <1>8, <2>7, WorkerMoves
    <3>3. /\ g.race \notin todo
          /\ \A v \in Workers : g.race = worker'[v].race => At(v, "sendError")'
      BY <2>2, <3>1, <3>2, ResultsAssumption DEF OnceInv, At
    <3>4. \A f \in failed' : f \in failed \/ f = g
      BY <3>1
    <3>5. QED
      BY <2>1, <2>2, <2>4, <2>5, <3>3, <3>4 DEF OnceInv
  <2>8. QED
    BY <2>6, <2>7
<1>9. CASE Bail
  BY <1>9, OnceFrame DEF Bail, OnceInv
<1>10. CASE CollectorDone
  BY <1>10, OnceFrame DEF CollectorDone, OnceInv
<1>11. CASE DeadlinePasses
  BY <1>11, OnceFrame DEF DeadlinePasses, OnceInv
<1>12. CASE UNCHANGED vars
  BY <1>12, OnceFrame DEF vars, OnceInv
<1>13. QED
  BY <1>1, <1>2, <1>3, <1>4, <1>5, <1>6, <1>7, <1>8, <1>9, <1>10, <1>11, <1>12
     DEF Next, FeederStep, CollectorStep, Done

\* Which races a round has left at a step.
LEMMA LeftAtIs ==
  ASSUME NEW pcs, NEW r
  PROVE  r \in LeftAt(pcs) <=>
           \/ \E w \in Workers : worker[w].pc \in pcs /\ worker[w].race = r
           \/ \E f \in failed : f.at \in pcs /\ f.race = r
BY DEF LeftAt, Handling

\* The same of the next state.
LEMMA LeftAtIsNext ==
  ASSUME NEW pcs, NEW r
  PROVE  r \in LeftAt(pcs)' <=>
           \/ \E w \in Workers : worker'[w].pc \in pcs /\ worker'[w].race = r
           \/ \E f \in failed' : f.at \in pcs /\ f.race = r
BY DEF LeftAt, Handling

\* A worker that stays at these steps, or away from them, leaves the set alone.
LEMMA LeftAtStays ==
  ASSUME NEW pcs, NEW w \in Workers, UNCHANGED failed,
         \A v \in Workers : v # w => worker'[v] = worker[v],
         worker'[w].pc \in pcs <=> worker[w].pc \in pcs,
         worker[w].pc \in pcs => worker'[w].race = worker[w].race
  PROVE  LeftAt(pcs)' = LeftAt(pcs)
<1> SUFFICES ASSUME NEW r PROVE r \in LeftAt(pcs)' <=> r \in LeftAt(pcs)
  OBVIOUS
<1>1. (\E v \in Workers : worker'[v].pc \in pcs /\ worker'[v].race = r)
        <=> (\E v \in Workers : worker[v].pc \in pcs /\ worker[v].race = r)
  OBVIOUS
<1>2. QED
  BY <1>1, LeftAtIs, LeftAtIsNext

\* A worker that gives its race up at one of these steps leaves it where it was.
LEMMA LeftAtGivesUp ==
  ASSUME NEW pcs, NEW w \in Workers, NEW g, failed' = failed \cup {g},
         \A v \in Workers : v # w => worker'[v] = worker[v],
         g.race = worker[w].race, g.at \in pcs <=> worker[w].pc \in pcs,
         worker'[w].pc \notin pcs
  PROVE  LeftAt(pcs)' = LeftAt(pcs)
<1> SUFFICES ASSUME NEW r PROVE r \in LeftAt(pcs)' <=> r \in LeftAt(pcs)
  OBVIOUS
<1>1. (\E f \in failed' : f.at \in pcs /\ f.race = r)
        <=> (\E f \in failed : f.at \in pcs /\ f.race = r) \/ (g.at \in pcs /\ g.race = r)
  OBVIOUS
<1>2. (\E v \in Workers : worker[v].pc \in pcs /\ worker[v].race = r)
        <=> \/ \E v \in Workers : worker'[v].pc \in pcs /\ worker'[v].race = r
            \/ worker[w].pc \in pcs /\ worker[w].race = r
  OBVIOUS
<1>3. QED
  BY <1>1, <1>2, LeftAtIs, LeftAtIsNext

\* A worker that takes a race to one of these steps adds it.
LEMMA LeftAtGains ==
  ASSUME NEW pcs, NEW w \in Workers, UNCHANGED failed,
         \A v \in Workers : v # w => worker'[v] = worker[v],
         worker[w].pc \notin pcs, worker'[w].pc \in pcs
  PROVE  LeftAt(pcs)' = LeftAt(pcs) \cup {worker'[w].race}
<1> SUFFICES ASSUME NEW r
             PROVE  r \in LeftAt(pcs)' <=> r \in LeftAt(pcs) \/ r = worker'[w].race
  OBVIOUS
<1>1. (\E v \in Workers : worker'[v].pc \in pcs /\ worker'[v].race = r)
        <=> \/ \E v \in Workers : worker[v].pc \in pcs /\ worker[v].race = r
            \/ worker'[w].race = r
  OBVIOUS
<1>2. QED
  BY <1>1, LeftAtIs, LeftAtIsNext

\* A worker that takes its race away from these steps, or gives it up elsewhere,
\* removes it: nobody else has it.
LEMMA LeftAtLoses ==
  ASSUME OnceInv, NEW pcs, NEW w \in Workers,
         \A v \in Workers : v # w => worker'[v] = worker[v],
         worker[w].race # NoRace, ~At(w, "sendError"),
         worker[w].pc \in pcs, worker'[w].pc \notin pcs,
         \/ failed' = failed
         \/ \E g : failed' = failed \cup {g} /\ g.at \notin pcs
  PROVE  LeftAt(pcs)' = LeftAt(pcs) \ {worker[w].race}
<1> SUFFICES ASSUME NEW r
             PROVE  r \in LeftAt(pcs)' <=> r \in LeftAt(pcs) /\ r # worker[w].race
  OBVIOUS
<1>1. (\E f \in failed' : f.at \in pcs /\ f.race = r)
        <=> (\E f \in failed : f.at \in pcs /\ f.race = r)
  OBVIOUS
<1>2. (\E v \in Workers : worker'[v].pc \in pcs /\ worker'[v].race = r)
        <=> /\ \E v \in Workers : worker[v].pc \in pcs /\ worker[v].race = r
            /\ r # worker[w].race
  BY DEF OnceInv
<1>3. \A f \in failed : f.race # worker[w].race
  BY DEF OnceInv
<1>4. QED
  BY <1>1, <1>2, <1>3, LeftAtIs, LeftAtIsNext

\* While the races are handled the round is what is to do and to save.
Unchecked == {"sendRace", "results", "check"}
Unsaved == {"sendNew", "lock", "save"}
ToDo == todo \cup LeftAt(Unchecked)
ToSave == LeftAt(Unsaved) \ NoResult
InRaces == feeder \in {"feed", "wait", "drain", "update"}
Round(pc, t, s, unauthorized) ==
  [pc |-> pc, msg |-> "none", started |-> 0, from |-> 0, to |-> 0,
   upToDate |-> TRUE, todo |-> t, saving |-> s, unauthorized |-> unauthorized]

\* The record AtomicRound has at every step of the feeder.
LEMMA RoundIs ==
  /\ InRaces => AtomicRound = Round("races", ToDo, ToSave, FALSE)
  /\ feeder = "notify" =>
       AtomicRound = Round("notify", ToDo, ToSave, FALSE)
  /\ feeder = "complete" =>
       AtomicRound = Round("ack", ToDo, ToSave, FALSE)
  /\ feeder = "error" =>
       AtomicRound = Round("failed", {}, {}, "unauthorized" \in errs)
<1> DEFINE unauthorized == feeder = "error" /\ "unauthorized" \in errs
<1>1. feeder # "error" => unauthorized = FALSE
  OBVIOUS
<1>2. feeder = "error" => unauthorized = ("unauthorized" \in errs)
  OBVIOUS
<1>3. AtomicRound =
        [pc |-> CASE feeder = "notify" -> "notify"
                  [] feeder = "complete" -> "ack"
                  [] feeder = "error" -> "failed"
                  [] OTHER -> "races",
         msg |-> "none", started |-> 0, from |-> 0, to |-> 0, upToDate |-> TRUE,
         todo |-> IF feeder = "error" THEN {} ELSE ToDo,
         saving |-> IF feeder = "error" THEN {} ELSE ToSave,
         unauthorized |-> unauthorized]
  BY DEF AtomicRound, ToDo, ToSave, Unchecked, Unsaved
<1> HIDE DEF unauthorized
<1>4. InRaces => AtomicRound = Round("races", ToDo, ToSave, FALSE)
  BY <1>1, <1>3 DEF Round, InRaces
<1>5. feeder = "notify" =>
        AtomicRound = Round("notify", ToDo, ToSave, FALSE)
  BY <1>1, <1>3 DEF Round
<1>6. feeder = "complete" =>
        AtomicRound = Round("ack", ToDo, ToSave, FALSE)
  BY <1>1, <1>3 DEF Round
<1>7. feeder = "error" =>
        AtomicRound = Round("failed", {}, {}, "unauthorized" \in errs)
  BY <1>2, <1>3 DEF Round
<1>8. QED
  BY <1>4, <1>5, <1>6, <1>7

\* The same of the next state.
LEMMA RoundIsNext ==
  /\ InRaces' => AtomicRound' = Round("races", ToDo', ToSave', FALSE)
  /\ feeder' = "notify" =>
       AtomicRound' = Round("notify", ToDo', ToSave', FALSE)
  /\ feeder' = "complete" =>
       AtomicRound' = Round("ack", ToDo', ToSave', FALSE)
  /\ feeder' = "error" =>
       AtomicRound' = Round("failed", {}, {}, "unauthorized" \in errs')
<1> DEFINE unauthorized == feeder' = "error" /\ "unauthorized" \in errs'
<1>1. feeder' # "error" => unauthorized = FALSE
  OBVIOUS
<1>2. feeder' = "error" => unauthorized = ("unauthorized" \in errs')
  OBVIOUS
<1>3. AtomicRound' =
        [pc |-> CASE feeder' = "notify" -> "notify"
                  [] feeder' = "complete" -> "ack"
                  [] feeder' = "error" -> "failed"
                  [] OTHER -> "races",
         msg |-> "none", started |-> 0, from |-> 0, to |-> 0, upToDate |-> TRUE,
         todo |-> IF feeder' = "error" THEN {} ELSE ToDo',
         saving |-> IF feeder' = "error" THEN {} ELSE ToSave',
         unauthorized |-> unauthorized]
  BY DEF AtomicRound, ToDo, ToSave, Unchecked, Unsaved
<1> HIDE DEF unauthorized
<1>4. InRaces' => AtomicRound' = Round("races", ToDo', ToSave', FALSE)
  BY <1>1, <1>3 DEF Round, InRaces
<1>5. feeder' = "notify" =>
        AtomicRound' = Round("notify", ToDo', ToSave', FALSE)
  BY <1>1, <1>3 DEF Round
<1>6. feeder' = "complete" =>
        AtomicRound' = Round("ack", ToDo', ToSave', FALSE)
  BY <1>1, <1>3 DEF Round
<1>7. feeder' = "error" =>
        AtomicRound' = Round("failed", {}, {}, "unauthorized" \in errs')
  BY <1>2, <1>3 DEF Round
<1>8. QED
  BY <1>4, <1>5, <1>6, <1>7

\* A step of the goroutines is one of these steps of the round, or none.
AtomicStep ==
  \/ \E r \in Races : Atomic!CheckRace("round", r) \/ Atomic!SaveRace("round", r)
  \/ Atomic!UpdateDriverRacesIngestedTo("round") \/ Atomic!NotifyChunk("round")
  \/ \E unauthorized \in BOOLEAN : Atomic!FailRound("round", unauthorized)

\* The round does not see a step that moves no race and no watermark.
LEMMA Stutter ==
  ASSUME UNCHANGED <<AtomicRound, sessions, advanced>>,
         feeder = "error" <=> feeder' = "error"
  PROVE  UNCHANGED Atomic!vars
BY DEF Atomic!vars, Atomic!store

\* A race that leaves "to do" as the code's conditions say has been checked.
LEMMA Checked ==
  ASSUME InRaces, InRaces', UNCHANGED <<sessions, advanced>>,
         NEW r \in ToDo, NEW save \in BOOLEAN,
         save => r \notin TeamEvents \cup NoResult /\ ~Stored(r),
         ~save => r \in TeamEvents \cup NoResult \/ Stored(r),
         ToDo' = ToDo \ {r},
         ToSave' = IF save THEN ToSave \cup {r} ELSE ToSave
  PROVE  Atomic!CheckRace("round", r)
<1>1. AtomicRound = Round("races", ToDo, ToSave, FALSE) /\ AtomicRound' = Round("races", ToDo', ToSave', FALSE)
  BY RoundIs, RoundIsNext
<1>2. feeder # "error" /\ feeder' # "error"
  BY DEF InRaces
<1>3. Atomic!Stored(r) <=> Stored(r)
  BY DEF Atomic!Stored, Stored
<1> DEFINE new == [AtomicRound EXCEPT !.todo = @ \ {r},
                                      !.saving = IF save THEN @ \cup {r} ELSE @]
<1>5. Atomic!Become("round", new)
  <2>1. CASE save
    BY <1>1, <2>1 DEF Round, Atomic!Become
  <2>2. CASE ~save
    BY <1>1, <2>2 DEF Round, Atomic!Become
  <2>3. QED
    BY <2>1, <2>2
<1>6. AtomicRound.pc = "races" /\ AtomicRound.started = 0 /\ AtomicRound.todo = ToDo
  BY <1>1 DEF Round
<1>7. /\ save => r \notin TeamEvents \cup NoResult
      /\ ~save => r \in TeamEvents \cup NoResult \/ Atomic!Stored(r)
      /\ ~(save /\ Atomic!Stored(r))
  BY <1>3
<1> HIDE DEF new
<1> DEFINE inv == [i \in {"round"} |-> AtomicRound]
           faults == IF feeder = "error" THEN 1 ELSE 0
<1>8. inv["round"] = AtomicRound /\ UNCHANGED faults
  BY <1>2
<1>9. \E b \in BOOLEAN :
        /\ b => r \notin TeamEvents \cup NoResult
        /\ ~b => r \in TeamEvents \cup NoResult \/ Atomic!Stored(r)
        /\ IF b /\ Atomic!Stored(r) THEN Atomic!Fault("stale") ELSE faults' = faults
        /\ Atomic!Become("round", [inv["round"] EXCEPT
              !.todo = @ \ {r}, !.saving = IF b THEN @ \cup {r} ELSE @])
  <2> HIDE DEF inv, faults
  <2>1. Atomic!Become("round", [inv["round"] EXCEPT
          !.todo = @ \ {r}, !.saving = IF save THEN @ \cup {r} ELSE @])
    BY <1>5, <1>8 DEF new
  <2>2. IF save /\ Atomic!Stored(r) THEN Atomic!Fault("stale") ELSE faults' = faults
    BY <1>7, <1>8
  <2>3. QED
    BY <1>7, <2>1, <2>2, Zenon
<1>10. Atomic!Alive("round")
  BY <1>6, <1>8 DEF Atomic!Alive
<1>11. UNCHANGED <<0, Races, Atomic!store, << >>, [at |-> 0, free |-> TRUE], FALSE, 0>>
  BY DEF Atomic!store
<1>12. inv["round"].pc = "races" /\ r \in inv["round"].todo
  BY <1>6, <1>8
<1>13. QED
  BY <1>9, <1>10, <1>11, <1>12, Zenon DEF Atomic!CheckRace

\* A race that leaves "to save" with its row has been saved.
LEMMA Saved ==
  ASSUME TypeInv, InRaces, InRaces', UNCHANGED advanced,
         NEW r \in ToSave, ~Stored(r), sessions' = sessions \cup {r},
         ToDo' = ToDo, ToSave' = ToSave \ {r}
  PROVE  Atomic!SaveRace("round", r)
<1>1. AtomicRound = Round("races", ToDo, ToSave, FALSE) /\ AtomicRound' = Round("races", ToDo', ToSave', FALSE)
  BY RoundIs, RoundIsNext
<1>2. feeder # "error" /\ feeder' # "error"
  BY DEF InRaces
<1>3. ~Atomic!Stored(r)
  BY DEF Atomic!Stored, Stored
<1>4. Cardinality(sessions') = Cardinality(sessions) + 1
  <2>1. IsFiniteSet(sessions)
    <3>1. sessions \subseteq Races
      BY ResultsAssumption DEF TypeInv, TypeOK, Wanted
    <3>2. QED
      BY <3>1, ResultsAssumption, FS_Subset
  <2>2. r \notin sessions
    BY DEF Stored
  <2>3. QED
    BY <2>1, <2>2, FS_AddElement
<1>5. Atomic!SaveDriverSessions(r)
  BY <1>3, <1>4 DEF Atomic!SaveDriverSessions
<1> DEFINE new == [AtomicRound EXCEPT !.saving = @ \ {r}]
<1>6. Atomic!Become("round", new)
  BY <1>1 DEF Round, Atomic!Become
<1>7. AtomicRound.pc = "races" /\ AtomicRound.started = 0 /\ AtomicRound.saving = ToSave
  BY <1>1 DEF Round
<1>8. QED
  BY <1>2, <1>5, <1>6, <1>7 DEF Atomic!SaveRace, Atomic!Alive

\* The round ends in an error: of a worker, kept in errs, or of the feeder's call.
LEMMA Failed ==
  ASSUME feeder \in {"drain", "update", "notify"}, feeder' = "error",
         "unauthorized" \in errs => InRaces, UNCHANGED <<errs, sessions, advanced>>
  PROVE  \E unauthorized \in BOOLEAN : Atomic!FailRound("round", unauthorized)
<1> DEFINE unauthorized == "unauthorized" \in errs
<1>1. /\ AtomicRound.pc = IF feeder = "notify" THEN "notify" ELSE "races"
      /\ AtomicRound.started = 0
  BY RoundIs DEF Round, InRaces
<1> DEFINE new == [AtomicRound EXCEPT !.pc = "failed", !.todo = {}, !.saving = {},
                                      !.unauthorized = unauthorized]
<1>3. Atomic!GiveUp("round", unauthorized)
  <2>1. AtomicRound' = Round("failed", {}, {}, unauthorized)
    BY RoundIsNext
  <2> HIDE DEF unauthorized
  <2>2. PICK pc, t, s : AtomicRound = Round(pc, t, s, FALSE)
    BY RoundIs DEF InRaces
  <2>3. CASE unauthorized
    <3>1. unauthorized = TRUE
      BY <2>3
    <3>2. QED
      BY <2>1, <2>2, <3>1 DEF Round, Atomic!GiveUp, Atomic!Become
  <2>4. CASE ~unauthorized
    <3>1. unauthorized = FALSE
      BY <2>4
    <3>2. QED
      BY <2>1, <2>2, <3>1 DEF Round, Atomic!GiveUp, Atomic!Become
  <2>5. QED
    BY <2>3, <2>4
<1>4. Atomic!FailRound("round", unauthorized)
  BY <1>1, <1>3 DEF Atomic!FailRound, Atomic!Running, Atomic!Alive, Atomic!Fault,
    Atomic!store, InRaces
<1>5. unauthorized \in BOOLEAN
  OBVIOUS
<1>6. QED
  BY <1>4, <1>5

\* A worker's step that leaves the races where they are is not seen.
LEMMA WorkerStutters ==
  ASSUME InRaces, UNCHANGED <<feeder, todo, sessions, advanced>>,
         LeftAt(Unchecked)' = LeftAt(Unchecked),
         LeftAt(Unsaved)' \ NoResult = LeftAt(Unsaved) \ NoResult
  PROVE  UNCHANGED Atomic!vars
<1>1. ToDo' = ToDo /\ ToSave' = ToSave /\ InRaces'
  BY DEF ToDo, ToSave, InRaces, Unchecked, Unsaved
<1>2. UNCHANGED AtomicRound
  BY <1>1, RoundIs, RoundIsNext
<1>3. QED
  BY <1>2, Stutter

\* A worker that goes on, takes the next race or gives its own up.
LEMMA WorkerNext ==
  ASSUME TypeInv, NEW w \in Workers
  PROVE  /\ \A pc : Goto(w, pc) =>
              /\ worker'[w].pc = pc /\ worker'[w].race = worker[w].race
              /\ \A v \in Workers : v # w => worker'[v] = worker[v]
         /\ NextRace(w) =>
              /\ worker'[w].pc = "select"
              /\ \A v \in Workers : v # w => worker'[v] = worker[v]
         /\ \A kind, at : GiveUp(w, kind, at) =>
              /\ worker'[w].pc = "sendError"
              /\ \A v \in Workers : v # w => worker'[v] = worker[v]
              /\ \E g : /\ failed' = failed \cup {g}
                        /\ g.race = worker[w].race /\ g.at = at
<1>1. worker \in [Workers -> [pc : Sends \cup Calls \cup {"select", "lock", "done"},
                             race : Races \cup {NoRace}, kind : Kinds]]
  BY DEF TypeInv, TypeOK
<1>2. ASSUME NEW kind, NEW at, GiveUp(w, kind, at)
      PROVE  \E g : failed' = failed \cup {g} /\ g.race = worker[w].race /\ g.at = at
  <2> DEFINE new == [race |-> worker[w].race, kind |-> kind, at |-> at]
  <2>1. new.race = worker[w].race /\ new.at = at
    OBVIOUS
  <2>2. failed' = failed \cup {new}
    BY <1>2 DEF GiveUp
  <2> HIDE DEF new
  <2>3. QED
    BY <2>1, <2>2
<1>3. ASSUME NEW kind, NEW at, GiveUp(w, kind, at)
      PROVE  /\ worker'[w].pc = "sendError"
             /\ \A v \in Workers : v # w => worker'[v] = worker[v]
  BY <1>1, <1>3 DEF GiveUp
<1>4. ASSUME NEW pc, Goto(w, pc)
      PROVE  /\ worker'[w].pc = pc /\ worker'[w].race = worker[w].race
             /\ \A v \in Workers : v # w => worker'[v] = worker[v]
  BY <1>1, <1>4 DEF Goto
<1>5. NextRace(w) =>
        /\ worker'[w].pc = "select"
        /\ \A v \in Workers : v # w => worker'[v] = worker[v]
  BY <1>1 DEF NextRace, Selecting
<1>6. QED
  BY <1>2, <1>3, <1>4, <1>5

\* Every step of a worker is a check or a save of the round, or is not seen.
LEMMA WorkerRefines ==
  ASSUME TypeInv, CloseInv, OnceInv, NEW w \in Workers, WorkerStep(w)
  PROVE  AtomicStep \/ UNCHANGED Atomic!vars
<1> DEFINE r == worker[w].race
           Goal == AtomicStep \/ UNCHANGED Atomic!vars
<1>1. UNCHANGED <<feeder, todo, advanced>> /\ InRaces /\ InRaces'
  <2>1. ~Draining
    BY WorkersGone
  <2>2. UNCHANGED <<feeder, todo, advanced>>
    BY WorkerFrame
  <2>3. QED
    BY <2>1, <2>2 DEF Draining, InRaces, TypeInv, TypeOK
<1>2. worker[w].pc \notin {"select", "done"} => r \in Races \ TeamEvents /\ r # NoRace
  BY ResultsAssumption DEF TypeInv, TypeOK
<1>3. r \notin todo
  BY DEF OnceInv
<1> HIDE DEF Goal
<1> SUFFICES Goal
  BY DEF Goal
<1> USE DEF At
<1>4. CASE Leave(w)
  <2>1. /\ worker[w].pc = "select" /\ worker'[w].pc = "done"
        /\ \A v \in Workers : v # w => worker'[v] = worker[v]
        /\ UNCHANGED <<failed, sessions>>
    BY <1>4, WorkerNext DEF Leave
  <2>2. LeftAt(Unchecked)' = LeftAt(Unchecked) /\ LeftAt(Unsaved)' = LeftAt(Unsaved)
    BY <2>1, LeftAtStays DEF Unchecked, Unsaved
  <2>3. QED
    BY <1>1, <2>1, <2>2, WorkerStutters DEF Goal
<1>5. CASE SendCount(w)
  <2>1. UNCHANGED <<failed, sessions>>
    BY <1>5 DEF SendCount
  <2>2. CASE \/ worker[w].pc = "sendRace" /\ Goto(w, "results")
             \/ worker[w].pc = "sendNew" /\ Goto(w, "lock")
    <3>1. LeftAt(Unchecked)' = LeftAt(Unchecked) /\ LeftAt(Unsaved)' = LeftAt(Unsaved)
      BY <2>1, <2>2, WorkerNext, LeftAtStays DEF Unchecked, Unsaved
    <3>2. QED
      BY <1>1, <2>1, <3>1, WorkerStutters DEF Goal
  <2>3. CASE worker[w].pc = "sendNew" /\ r \in NoResult /\ NextRace(w)
    <3>1. LeftAt(Unchecked)' = LeftAt(Unchecked)
      BY <2>1, <2>3, WorkerNext, LeftAtStays DEF Unchecked
    <3>2. LeftAt(Unsaved)' = LeftAt(Unsaved) \ {r}
      BY <1>2, <2>1, <2>3, WorkerNext, LeftAtLoses DEF Unsaved
    <3>3. QED
      BY <1>1, <2>1, <2>3, <3>1, <3>2, WorkerStutters DEF Goal
  <2>4. QED
    BY <1>5, <2>2, <2>3 DEF SendCount
<1>6. CASE GetSessionResults(w)
  <2>1. /\ worker[w].pc = "results" /\ Goto(w, "check") /\ UNCHANGED <<failed, sessions>>
    BY <1>6 DEF GetSessionResults
  <2>2. LeftAt(Unchecked)' = LeftAt(Unchecked) /\ LeftAt(Unsaved)' = LeftAt(Unsaved)
    BY <2>1, WorkerNext, LeftAtStays DEF Unchecked, Unsaved
  <2>3. QED
    BY <1>1, <2>1, <2>2, WorkerStutters DEF Goal
<1>7. CASE GetDriverSession(w)
  <2>1. /\ worker[w].pc = "check" /\ UNCHANGED <<failed, sessions>>
        /\ IF Stored(r) THEN NextRace(w) ELSE Goto(w, "sendNew")
    BY <1>7 DEF GetDriverSession
  <2>2. LeftAt(Unchecked)' = LeftAt(Unchecked) \ {r}
    BY <1>2, <2>1, WorkerNext, LeftAtLoses DEF Unchecked
  <2>3. ToDo' = ToDo \ {r}
    BY <1>1, <1>3, <2>2 DEF ToDo, Unchecked
  <2>4. r \in ToDo /\ r \in Races
    BY <1>2, <2>1, LeftAtIs DEF ToDo, Unchecked
  <2>5. CASE Stored(r)
    <3>1. LeftAt(Unsaved)' = LeftAt(Unsaved)
      BY <2>1, <2>5, WorkerNext, LeftAtStays DEF Unsaved
    <3>2. ToSave' = ToSave
      BY <3>1 DEF ToSave, Unsaved
    <3>3. Atomic!CheckRace("round", r)
      BY <1>1, <2>1, <2>3, <2>4, <2>5, <3>2, Checked, FALSE \in BOOLEAN
    <3>4. QED
      BY <2>4, <3>3 DEF Goal, AtomicStep
  <2>6. CASE ~Stored(r)
    <3>1. LeftAt(Unsaved)' = LeftAt(Unsaved) \cup {r}
      BY <2>1, <2>6, WorkerNext, LeftAtGains DEF Unsaved
    <3>2. ToSave' = IF r \in NoResult THEN ToSave ELSE ToSave \cup {r}
      BY <3>1 DEF ToSave, Unsaved
    <3>3. CASE r \in NoResult
      <4>1. Atomic!CheckRace("round", r)
        BY <1>1, <2>1, <2>3, <2>4, <3>2, <3>3, Checked, FALSE \in BOOLEAN
      <4>2. QED
        BY <2>4, <4>1 DEF Goal, AtomicStep
    <3>4. CASE r \notin NoResult
      <4>1. r \notin TeamEvents
        BY <1>2, <2>1
      <4>2. Atomic!CheckRace("round", r)
        BY <1>1, <2>1, <2>3, <2>4, <2>6, <3>2, <3>4, <4>1, Checked, TRUE \in BOOLEAN
      <4>3. QED
        BY <2>4, <4>2 DEF Goal, AtomicStep
    <3>5. QED
      BY <3>3, <3>4
  <2>7. QED
    BY <2>5, <2>6
<1>8. CASE LockInsertion(w)
  <2>1. /\ worker[w].pc = "lock" /\ Goto(w, "save") /\ UNCHANGED <<failed, sessions>>
    BY <1>8 DEF LockInsertion
  <2>2. LeftAt(Unchecked)' = LeftAt(Unchecked) /\ LeftAt(Unsaved)' = LeftAt(Unsaved)
    BY <2>1, WorkerNext, LeftAtStays DEF Unchecked, Unsaved
  <2>3. QED
    BY <1>1, <2>1, <2>2, WorkerStutters DEF Goal
<1>9. ASSUME worker[w].pc = "save", worker'[w].pc \notin Unchecked \cup Unsaved,
             ~Stored(r), sessions' = sessions \cup {r},
             \A v \in Workers : v # w => worker'[v] = worker[v],
             \/ failed' = failed
             \/ \E g : failed' = failed \cup {g} /\ g.race = r /\ g.at = "saved"
      PROVE  Goal
  <2>1. r \notin NoResult
    BY <1>9 DEF TypeInv, Position
  <2>2. LeftAt(Unchecked)' = LeftAt(Unchecked)
    BY <1>9, LeftAtStays, LeftAtGivesUp DEF Unchecked
  <2>3. LeftAt(Unsaved)' = LeftAt(Unsaved) \ {r}
    BY <1>2, <1>9, LeftAtLoses DEF Unsaved
  <2>4. ToDo' = ToDo /\ ToSave' = ToSave \ {r}
    BY <1>1, <2>2, <2>3 DEF ToDo, ToSave, Unchecked, Unsaved
  <2>5. r \in ToSave /\ r \in Races
    BY <1>2, <1>9, <2>1, LeftAtIs DEF ToSave, Unsaved
  <2>6. Atomic!SaveRace("round", r)
    BY <1>1, <1>9, <2>4, <2>5, Saved
  <2>7. QED
    BY <2>5, <2>6 DEF Goal, AtomicStep
<1>10. CASE SaveDriverSessions(w)
  <2>1. /\ worker[w].pc = "save" /\ ~Stored(r) /\ sessions' = sessions \cup {r}
        /\ Goto(w, "broadcast") \/ NextRace(w)
        /\ failed' = failed
    BY <1>10 DEF SaveDriverSessions
  <2>2. QED
    BY <1>9, <2>1, WorkerNext DEF Unchecked, Unsaved
<1>11. ASSUME NEW kind, GiveUp(w, kind, worker[w].pc), UNCHANGED sessions PROVE Goal
  <2>1. PICK g : failed' = failed \cup {g} /\ g.race = r /\ g.at = worker[w].pc
    BY <1>11, WorkerNext
  <2>2. /\ worker'[w].pc = "sendError"
        /\ \A v \in Workers : v # w => worker'[v] = worker[v]
    BY <1>11, WorkerNext
  <2>3. LeftAt(Unchecked)' = LeftAt(Unchecked)
    BY <2>1, <2>2, LeftAtGivesUp DEF Unchecked
  <2>4. LeftAt(Unsaved)' = LeftAt(Unsaved)
    BY <2>1, <2>2, LeftAtGivesUp DEF Unsaved
  <2>5. QED
    BY <1>1, <1>11, <2>3, <2>4, WorkerStutters DEF Goal
<1>12. CASE SaveFails(w)
  <2>1. worker[w].pc = "save"
    BY <1>12 DEF SaveFails
  <2>2. CASE SaveRefused(w)
    <3>1. GiveUp(w, "other", worker[w].pc) /\ UNCHANGED sessions
      BY <2>1, <2>2 DEF SaveRefused
    <3>2. QED
      BY <1>11, <3>1
  <2>3. CASE SaveAnswerLost(w)
    <3>1. /\ ~Stored(r) /\ sessions' = sessions \cup {r} /\ GiveUp(w, "other", "saved")
      BY <2>3 DEF SaveAnswerLost
    <3>2. QED
      BY <1>9, <2>1, <3>1, WorkerNext DEF Unchecked, Unsaved
  <2>4. QED
    BY <1>12, <2>2, <2>3 DEF SaveFails
<1>13. CASE Broadcast(w) \/ SendError(w)
  <2>1. /\ worker[w].pc \in {"broadcast", "sendError"} /\ NextRace(w)
        /\ UNCHANGED <<failed, sessions>>
    BY <1>13 DEF Broadcast, SendError
  <2>2. LeftAt(Unchecked)' = LeftAt(Unchecked) /\ LeftAt(Unsaved)' = LeftAt(Unsaved)
    BY <2>1, WorkerNext, LeftAtStays DEF Unchecked, Unsaved
  <2>3. QED
    BY <1>1, <2>1, <2>2, WorkerStutters DEF Goal
<1>14. ASSUME NEW kind \in Kinds, CallFails(w, kind) PROVE Goal
  <2>1. GiveUp(w, kind, worker[w].pc) /\ UNCHANGED sessions
    BY <1>14 DEF CallFails
  <2>2. QED
    BY <1>11, <2>1
<1>15. QED
  BY <1>4, <1>5, <1>6, <1>7, <1>8, <1>10, <1>12, <1>13, <1>14 DEF WorkerStep

\* Every step of the round's goroutines is a step of the atomic round, or is not
\* seen by it.
LEMMA RoundRefines ==
  ASSUME TypeInv, CloseInv, ErrInv, RaceInv, OnceInv, [Next]_vars
  PROVE  AtomicStep \/ UNCHANGED Atomic!vars
<1> DEFINE Goal == AtomicStep \/ UNCHANGED Atomic!vars
<1> HIDE DEF Goal
<1> SUFFICES Goal
  BY DEF Goal
<1>1. ASSUME NEW r \in Races, NEW w \in Workers, Feed(r, w) PROVE Goal
  <2>1. /\ r \in todo /\ todo' = todo \ {r} /\ worker[w].pc = "select"
        /\ UNCHANGED <<feeder, advanced, sessions, failed>> /\ feeder = "feed"
    BY <1>1 DEF Feed, At
  <2>2. InRaces /\ InRaces' /\ r \in ToDo
    BY <2>1 DEF InRaces, ToDo
  <2>3. r \notin LeftAt(Unchecked)
    BY <2>1, LeftAtIs DEF OnceInv
  <2>4. CASE r \in TeamEvents /\ UNCHANGED worker
    <3>1. LeftAt(Unchecked)' = LeftAt(Unchecked) /\ LeftAt(Unsaved)' = LeftAt(Unsaved)
      BY <2>1, <2>4, LeftAtStays
    <3>2. ToDo' = ToDo \ {r} /\ ToSave' = ToSave
      BY <2>1, <2>3, <3>1 DEF ToDo, ToSave, Unchecked, Unsaved
    <3>3. Atomic!CheckRace("round", r)
      BY <2>1, <2>2, <2>4, <3>2, Checked, FALSE \in BOOLEAN
    <3>4. QED
      BY <3>3 DEF Goal, AtomicStep
  <2>5. CASE worker' = [worker EXCEPT ![w].pc = "sendRace", ![w].race = r]
    <3>1. /\ worker'[w].pc = "sendRace" /\ worker'[w].race = r
          /\ \A v \in Workers : v # w => worker'[v] = worker[v]
      BY <2>5 DEF TypeInv, TypeOK
    <3>2. LeftAt(Unsaved)' = LeftAt(Unsaved)
      BY <2>1, <3>1, LeftAtStays DEF Unsaved
    <3>3. LeftAt(Unchecked)' = LeftAt(Unchecked) \cup {r}
      BY <2>1, <3>1, LeftAtGains DEF Unchecked
    <3>4. ToDo' = ToDo /\ ToSave' = ToSave
      BY <2>1, <3>2, <3>3 DEF ToDo, ToSave, Unchecked, Unsaved
    <3>5. UNCHANGED AtomicRound
      BY <2>2, <3>4, RoundIs, RoundIsNext
    <3>6. QED
      BY <2>1, <3>5, Stutter DEF Goal
  <2>6. QED
    BY <1>1, <2>4, <2>5 DEF Feed
<1>2. ASSUME UNCHANGED <<todo, worker, sessions, advanced, failed>>,
             \/ InRaces /\ InRaces'
             \/ UNCHANGED <<feeder, errs>>
      PROVE  Goal
  <2>1. ToDo' = ToDo /\ ToSave' = ToSave
    BY <1>2 DEF ToDo, ToSave, LeftAt, Handling
  <2>2. UNCHANGED AtomicRound
    BY <1>2, <2>1, RoundIs, RoundIsNext DEF AtomicRound, LeftAt, Handling
  <2>3. QED
    BY <1>2, <2>2, Stutter DEF Goal, InRaces
<1>3. ASSUME feeder \in {"drain", "update", "notify"}, feeder' = "error",
             feeder = "drain" \/ errs = {}, UNCHANGED <<errs, sessions, advanced>>
      PROVE  Goal
  <2>1. "unauthorized" \in errs => InRaces
    BY <1>3 DEF InRaces
  <2>2. QED
    BY <1>3, <2>1, Failed DEF Goal, AtomicStep
<1>4. CASE CloseRaces
  BY <1>2, <1>4 DEF CloseRaces, InRaces
<1>5. CASE CloseCollection
  BY <1>2, <1>5 DEF CloseCollection, InRaces
<1>6. CASE TestErrors
  <2>1. CASE errs = {}
    BY <1>2, <1>6, <2>1 DEF TestErrors, InRaces
  <2>2. CASE errs # {}
    BY <1>3, <1>6, <2>2 DEF TestErrors
  <2>3. QED
    BY <2>1, <2>2
<1>7. CASE FeederCallFails
  BY <1>3, <1>7 DEF FeederCallFails, ErrInv
<1>8. CASE UpdateDriverRacesIngestedTo
  <2>1. /\ feeder = "update" /\ feeder' = "notify" /\ advanced' = TRUE /\ ~ctxDone
        /\ UNCHANGED <<todo, worker, sessions, failed>>
    BY <1>8 DEF UpdateDriverRacesIngestedTo
  <2>2. todo = {} /\ errs = {} /\ ~advanced /\ collector = "done"
        /\ \A w \in Workers : At(w, "done")
    BY <2>1 DEF RaceInv, OnceInv, ErrInv, CloseInv, Draining
  <2>3. failed = {}
    BY <2>2 DEF ErrInv, TypeInv, TypeOK, Given, Kinds, At
  <2>4. LeftAt(Unchecked) = {} /\ LeftAt(Unsaved) = {}
    BY <2>2, <2>3, LeftAtIs DEF At, Unchecked, Unsaved
  <2>5. ToDo = {} /\ ToSave = {} /\ ToDo' = {} /\ ToSave' = {}
    BY <2>1, <2>2, <2>4 DEF ToDo, ToSave, LeftAt, Handling, Unchecked, Unsaved
  <2>6. /\ AtomicRound = Round("races", {}, {}, FALSE)
        /\ AtomicRound' = Round("notify", {}, {}, FALSE)
    BY <2>1, <2>5, RoundIs, RoundIsNext DEF InRaces
  <2>7. Atomic!Goto("round", "notify")
    BY <2>6 DEF Round, Atomic!Goto, Atomic!Become
  <2>8. Atomic!UpdateDriverRacesIngestedTo("round")
    BY <2>1, <2>2, <2>6, <2>7 DEF Round, Atomic!UpdateDriverRacesIngestedTo, Atomic!Alive
  <2>9. QED
    BY <2>8 DEF Goal, AtomicStep
<1>9. CASE NotifyChunk
  <2>1. /\ feeder = "notify" /\ feeder' = "complete"
        /\ UNCHANGED <<todo, worker, sessions, advanced, failed>>
    BY <1>9 DEF NotifyChunk
  <2>2. ToDo' = ToDo /\ ToSave' = ToSave
    BY <2>1 DEF ToDo, ToSave, LeftAt, Handling
  <2>3. /\ AtomicRound = Round("notify", ToDo, ToSave, FALSE)
        /\ AtomicRound' = Round("ack", ToDo, ToSave, FALSE)
    BY <2>1, <2>2, RoundIs, RoundIsNext
  <2>4. Atomic!Goto("round", "ack")
    BY <2>3 DEF Round, Atomic!Goto, Atomic!Become
  <2>5. Atomic!NotifyChunk("round")
    BY <2>1, <2>3, <2>4 DEF Round, Atomic!NotifyChunk, Atomic!Alive, Atomic!store
  <2>6. QED
    BY <2>5 DEF Goal, AtomicStep
<1>10. ASSUME NEW w \in Workers, WorkerStep(w) PROVE Goal
  BY <1>10, WorkerRefines DEF Goal
<1>11. CASE Bail
  <2>1. InRaces /\ feeder' = feeder
    BY <1>11 DEF Bail, CloseInv, Kinds, InRaces, TypeInv, TypeOK
  <2>2. QED
    BY <1>2, <1>11, <2>1 DEF Bail, InRaces
<1>12. CASE CollectorDone \/ DeadlinePasses \/ UNCHANGED vars
  BY <1>2, <1>12 DEF CollectorDone, DeadlinePasses, vars
<1>13. QED
  BY <1>1, <1>4, <1>5, <1>6, <1>7, <1>8, <1>9, <1>10, <1>11, <1>12
     DEF Next, FeederStep, CollectorStep, Done

\* The goroutines of a round implement the round of RaceIngestion: whatever their
\* interleaving, each step is its check or save of one race, its update, its
\* notification or its failure, or nothing.
THEOREM AtomicRoundImplemented == Spec => ImplementsAtomicRound
<1>1. Spec => [](TypeInv /\ CloseInv /\ ErrInv /\ RaceInv /\ OnceInv)
  BY TypeInit, TypeStep, CloseInit, CloseStep, ErrInit, ErrStep, RaceInit, RaceStep,
     OnceInit, OnceStep, PTL DEF Spec
<1>2. TypeInv /\ CloseInv /\ ErrInv /\ RaceInv /\ OnceInv /\ [Next]_vars
        => [AtomicStep]_(Atomic!vars)
  BY RoundRefines
<1>3. Spec => [][AtomicStep]_(Atomic!vars)
  BY <1>1, <1>2, PTL DEF Spec
<1>4. QED
  BY <1>3 DEF ImplementsAtomicRound, AtomicStep

=============================================================================
