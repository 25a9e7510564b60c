# A TLA+ model of Saturday's Race Log

Saturday's Race Log copies a driver's race history from iRacing into one DynamoDB
table, shows it in a Vue front end, and lets the driver keep a journal. This
directory holds TLA+ modules for the parts of that system whose correctness
depends on the order in which things happen, the TLC configurations that check
them on small instances, and theorems about them checked by TLAPS.

Contents: [the system](#the-system) · [what is hard](#what-is-hard) ·
[modules](#modules) · [what the runs check](#what-the-runs-check) ·
[bounds](#bounds) · [fairness](#fairness) · [what is proved](#what-is-proved) ·
[disagreements](#disagreements-between-code-and-documentation) · [left
out](#what-the-models-leave-out) · [plan](#plan)

## The system

| Component | State it keeps | Operations | Talks to | What makes it correct |
|---|---|---|---|---|
| Ingestion endpoint (`api/ingestion/race-endpoint.go`) | none | `POST /ingestion/race`: 429 while locked, else queue and 202 | store (reads the lock), SQS | an accepted request is served |
| SQS queue, Lambda runtime (`sqs/lambda_util.go`, `cmd/race-ingestion-processor`, `terraform/race-ingestion.tf`) | messages, receive counts, visibility | deliver, hide, redrive to the DLQ; deadline, timeout, panic protection, back-off | race processor | a failure is retried, a success is not |
| Race processor (`ingestion/race-processor.go`) | none between invocations; goroutines, two channels, a mutex and a context inside one | acquire the lock, search a window, store races, move the watermark, notify, release, queue the next round | store, iRacing, WebSocket push, SQS | one round at a time per driver; no race lost; progress |
| Dynamo store (`store/`) | one table: info, `ingestion_lock`, `session#`, `journal#`, `ws#` rows per driver; `websocket#` index; global counters | conditional puts, transactions, unconditional updates, queries | everything | rows and counters agree |
| Race deletion (`api/driver/delete_races_endpoint.go`) | none | delete every row of a driver but info, reset info | store | leaves a partition ingestion can start from |
| WebSocket server (`ws/`) | `ws#` and `websocket#` rows | auth, ping, disconnect, push, broadcast | store, API Gateway | a connection told it is authenticated has its rows; a broadcast reaches it; a closed connection leaves none |
| Authentication (`auth/`, `api/auth/`) | driver row, `drivers` counter, JWTs out | OAuth callback (first login or count one more), refresh | iRacing OAuth, store | a driver is inserted once, every login counted, no edit undone |
| Journal (`journal/`, `api/driver/*journal*`) | `journal#` rows | save (check, update, read back), get, list, delete | store | what was answered stays; entries belong to races; pages skip nothing |
| Analytics, race reads (`analytics/`, `api/driver/`) | none | query, filter, page, aggregate | store | answers equal their definition |
| iRacing client and caches (`iracing/`) | memory and S3 caches, mutexes | search, results, laps; cached reference data | iRacing, S3 | a value taken is no older than the period; every request is answered |
| Reference data, session details (`tracks/`, `cars/`, `series/`, `api/session/`) | none | map an upstream answer | caches, client | pure mapping |
| Front end session (`frontend/src/stores`: `auth`, `websocket`, `session`, `raceIngestion`) | token, socket, timers, status | login, refresh, connect, reconnect, trigger ingestion | REST API, WebSocket | one live socket for a logged-in user; a retry after stale credentials |
| Front end views and data stores | fetched lists | fetch, filter, page | REST API | what is shown answers the last question |
| Middleware, metrics, correlation, terraform | none | per-request checks, logging | | stateless |

A request for ingestion travels so: the endpoint reads the driver's rows; if
`IngestionBlockedUntil` is not in the future it sends a message to SQS and answers
with 202. A Lambda receives the message, takes the driver's lock by a conditional
put, reads the watermark `races_ingested_to`, searches iRacing from four hours
before it (or from `MemberSince`) over a window of ten days, stores each race not
stored yet, and moves the watermark to the window's end. If that is not the
present it deletes the lock and queues the same request again; otherwise the lock
is left to expire, as a cooldown. Errors release the lock and return to SQS for a
retry, except a 401, which is acknowledged and reported to the client over its
WebSocket.

## What is hard

`PROJECT.json` lists each hazard at its line with the properties that would catch
it; where the harm is what the code does, and a property only takes note of it,
the hazard names none and says so. The ones the core is about:

* **The lock has no owner.** Its row stores a time only and its release deletes
  whatever row is there. A round that outlived its lease would delete the next
  round's lock. What prevents it is a relation between two numbers in two files:
  the Lambda timeout and `INGESTION_LOCK_DURATION_SECONDS`.
* **Messages fork and vanish.** SQS delivers twice, a Lambda dies between
  publishing the next round and being acknowledged, a message that meets a held
  lock is acknowledged. Several chains of rounds then interleave.
* **The watermark is fixed early and written late**, unconditionally, from a read
  that may miss the update of the round before, and results appear in iRacing some
  time after the race.
* **The fan-out.** A feeder, workers and a collector share two unbuffered
  channels, a mutex and a context that any error cancels, and the deadline cancels
  it without an error.
* **Late callbacks in the browser.** Sockets close after they were replaced,
  fetches answer after a logout, a refresh among them, several callers meet a 401
  at once, and timers outlive what they were set for; the stores' functions share
  one token, one socket variable and one `refreshInProgress`.
* **Deleting a driver's races** runs without the lock, takes the lock's row with
  it, in batches, from one page of keys.
* **Logins meet.** A login reads the driver's row, then inserts or counts; another
  login, a hand edit of the entitlements or a repeated update may come between,
  and the read may be stale.
* **Handlers of one connection overtake each other.** `$disconnect` may run
  before, during or after the transaction of the auth message, or never; rows are
  also taken by the TTL and by a deletion of the driver's races.
* **Save, then read back.** The journal answers a save with what it reads after
  the write; another save, a deletion or a lagging replica may come between. Its
  list cuts each page from a new query.
* **Two caches, two mutexes, several processes.** The period runs from the put of
  an object, not from its fetch, so a value may be older than the period by the
  time a request has; and the memory cache never asks again.
* **Strings for numbers, ints that wrap, one page of a query.** The range reads
  compare decimal strings, `(page - 1) * resultsPerPage` is an `int`, and what is
  beyond the first answer of `Query` is never read.

## Modules

### `RaceIngestion` — endpoint, queue, lambdas, partition

One driver: every key an ingestion touches lies in that driver's partition, so
drivers do not interact. Time is whole seconds, the table's precision.

| Variable | Code |
|---|---|
| `lock` | `locked_until` of the `ingestion_lock` row, `NoLock` if absent |
| `ingestedTo` | `races_ingested_to` of the info row, `Never` if absent |
| `ingestedBefore` | its value in a replica one update behind; replicas catch up at the next `Tick` |
| `sessions`, `sessionCount` | the `session#` rows, and `session_count` of the info row |
| `msgs` | each message's place, receive count and time of visibility |
| `inv` | each Lambda environment: where its `IngestRaces` stands, its message, its start, the window, and the races left |
| `published` | races whose results the iRacing search returns |
| `now`, `requests`, `faults` | the clock and the bounded counters |
| `request`, `staleTold` | history: the last request answered 202, and whether the client was told of stale credentials |

Each call of `IngestRaces` that reads or changes shared state is one action, so
every other invocation, the endpoint, the clock and the queue interleave between
any two of them. The value of the clock that a call computes with may be older
than the moment the call takes effect: `AcquireIngestionLock` chooses any `t`
between the invocation's start and now. The faults are named in `FaultKinds`, and
a run chooses among them: failing calls, 401, a lost answer of the lock's put, a
failing release, an invocation that runs past its deadline, a crash, a stale read,
and a duplicate delivery.

Modelling decisions a reader will want to know:

* A delay between the endpoint's check and its send is the same as the message
  waiting in the queue, so `Enqueue` is one step.
* A send that is applied but whose answer is lost equals a crash before the
  acknowledgement with the message sent: both leave the old message and a new one.
  A failing visibility reset, and a panic (which `WithPanicProtection` turns into
  an error outside the reset), equal a crash: the visibility timeout runs out.
* Saves cancelled in flight may or may not be applied: those that were are the
  saves before `FailRound`.
* `GetDriver`'s "driver not found" is unreachable: the JWT of the request comes
  from a login that inserted the row, and nothing deletes it.
* The 900 s message retention lies beyond the clock bound and is left out.
* DynamoDB's default reads are eventually consistent. The reads of the lock by the
  endpoint, of the watermark and of a session's row by a round may each find what
  the last write replaced (`"stale"`), for less than a second.
* Two races with one start time have one key: `SaveDriverSessions` refuses the
  second, and `NoLostRace` counts a race stored when its key is.

### `SerialIngestion` — the promise

Three variables (`ingestedTo`, `sessions`, `workers`) and four actions: a worker
begins alone, stores races not stored yet, advances the watermark, ends. It says
nothing of locks, messages or time. `RaceIngestion` implements it with `workers`
the invocations in their critical section.

### `ChunkWorkers` — the goroutines of one round

`doIngestRaces` between the search and its return: the feeder, the workers, the
collector. A send on an unbuffered channel and its receive are one step. The
insertion mutex, the two wait groups, the closing of both channels, the
cancellation at the first error and the deadline are modelled, and a failing call
may have been applied or not. `ctxDone` stands for both causes: an error collected
and the deadline. A call started before the context ended may still succeed after
it, so calls of the workers may succeed with `ctxDone`; the update of the
watermark is started after the test of `errs` and fails if the context is done
then.

The refinement mapping `AtomicRound` gives the state of `RaceIngestion`'s
invocation in terms of the goroutines: a race is *to do* until a worker has
checked it and *being saved* from then on. `ImplementsAtomicRound` says that every
step is one of `CheckRace`, `SaveRace`, `FailRound`,
`UpdateDriverRacesIngestedTo`, `NotifyChunk`, or invisible: what `RaceIngestion`
assumes of a round is what the goroutines do.

### `PartitionReset` — deletion beside ingestion

Extends `RaceIngestion` with `DeleteDriverRaces`: one page of keys, deletions one
by one (a batch is not atomic), batches that fail or leave deletes unprocessed,
and the reset of the info row. The history variable `clean` says whether the last
reset to touch the partition ended with every key found and deleted and no round
beside it, and no round has since started from a replica that had not seen the
reset (`ReadsOldWatermark`): such a round goes on from the old watermark, past the
races that were deleted.

### `ClientSession` — one page load of the front end

JavaScript runs one task at a time, so an action is a task: an event handler, the
watchers it triggers, and what resumes when an awaited promise resolves. The
stores' functions are operators from page to page under their own names
(`connect`, `disconnect`, `reconnect`, `sendAuth`, `refreshToken`,
`triggerIngestion`), and an action composes them in the order in which Vue runs
them: the watchers of `isLoggedIn` and the token (`Flush`) before the continuation
of an `await` (`Resume`), before the watcher that a handler of stale credentials
waits on (`Settle`).

| Field or variable | Code |
|---|---|
| `token` | `auth.token`; JWTs are numbered as the server issues them |
| `refreshing` | the `/auth/refresh` in flight, with its caller (`refreshInProgress`) |
| `socket`, `status`, `driverId`, `connectionId`, `timer`, `heartbeat` | the state of `websocket.ts` |
| `conn` | every WebSocket object not yet closed: its `readyState`, whether the server has stored its row, and the messages under way in both directions |
| `req`, `loaded` | requests of the REST API in flight; reference data present |
| `ingestion`, `error`, `waiting` | `raceIngestion.ts`, and a handler waiting for `isReady` |
| `jwtFrom`, `accessFrom`, `job` | which JWTs and iRacing tokens have expired; an ingestion the server accepted |

The server's side is what `ws/auth` and `ws/ping` do with one connection, and of
an ingestion only its end and the notice of stale credentials (`RaceIngestion` has
the rest). Invocations of one connection may overtake each other. A connection id
is distinct from none (`NoConn`, which the endpoint refuses with 400) and from
that of a connection gone (`GoneConn`). Abstractions: two pings in a row on a
socket are one, pongs and other notifications change nothing here, one handler of
stale credentials waits at a time, and the banner of an expired session is left
out.

### `Login` and `WebSocket` — accounts and connections

`Login` holds the drivers' rows, the counter and the tokens; `WebSocket` extends
it with the connections that those tokens authenticate. Each read and each write
of the table by a call is one action.

| Variable | Code |
|---|---|
| `info` | the info row of each driver: `first_login`, `last_login`, `login_count`, and the entitlement `developer` |
| `drivers` | the attribute `drivers` of the global counters row |
| `jwts` | the tokens handed out: driver, entitlement and end |
| `call` | the REST calls in flight: the branch a login took after its read, with the clock and the entitlement it read |
| `conn` | each connection as API Gateway and its client see it: open or closed, its age, whether `$disconnect` is due, and whose success the client was told of |
| `ws`, `index` | the rows `ws#<connection>` of each driver and `websocket#<connection>` |
| `inv` | the invocations of the WebSocket Lambda, of a broadcast, and of a deletion of races |
| `counted`, `edited`; `names`, `wiped`, `known`, `clean` of `conn` | history: logins answered, entitlements given by hand; whom a connection authenticated as, whose deletion took its row, whether replicas have its row, whether `$disconnect` left nothing |

A row is an *item*: its value and the one before, which a read that does not ask
for consistency may find until the next `Tick`. An hour is the unit of time, so
replicas have caught up by the next and no call or invocation lasts from one hour
into the one after the next. `RecordLogin` is an update of two attributes;
`InsertDriver` and the saves and deletions of a connection's rows are
transactions; `Broadcast` takes the connections from one query and `Push` serves
them one by one. In `RecordLogin` the client library may repeat an update whose
answer was lost, so that one login counts twice. What is left out: that the
deletion takes `session#` and `journal#` rows (`PartitionReset` and `Journal` have
those), and the pong, which changes nothing.

### `Journal` — entries beside ingestion and deletion

One driver's `journal#` and `session#` rows as items. A save is three actions:
`ValidateRaceExists`, `SaveJournalEntry`, `ReadBack`; a deletion of an entry two;
`DeleteDriverRaces` works off the keys of one query in batches; a client walks the
list with a query and a batch read for each page. What a query answers is a set,
and the place of a key or an entry in it is its rank: `Before` is the order of the
sort keys (journal before session, then the number in the key), `Newer` counts the
entries that the list shows before one. The keys that the deletion's one query
answers, and a batch of them, are those of the lowest ranks (`FirstKeys`), a page
the entries of its ranks. `call`, `reset` and `walk` say where each stands. An
entry is the number of the request that wrote it. History: `settled` has what an
entry may be: the text of every write that began, less, at each answer of a write,
those of writes over before it began (a write keeps in `beside` the texts it ran
beside); `excused` the races whose entry a deletion is allowed to leave (saved
during it, or a batch done in part), `misanswered` whether a save was answered
with something nobody wrote since.

### `Caching` — memory over S3

Each process has a memory and a mutex per kind of data (`info`, `assets`), all
share an object per kind in S3. `GetAll` asks for one kind and then the other;
`Lock`, `GetObject`, `FetchLinkedData` and `PutObject` are the steps of one,
`Fails` every error path, `Restart` the end of a process with all its requests.
The inner mutex of the S3 cache is held only by the holder of the outer one, so
both are one variable. Time is in seconds, as S3 compares it, and one clock for
all. A value is the second in which it came from iRacing. A request's calls are
answered within `RequestTimeout` of its start (`InTime`; 15 s for the Lambda and
for the standalone server, which gives every request a context with that end), and
fail after it; the wait for a mutex does not end with the context.

### `Queries` — what the API answers about races

The rows of one driver grow one race at a time, and for each set of rows every
request of the run is answered once, by the operators that translate the code in
its order: `Query` (string keys, one answer), `Filtered`, `PageOf` with `int`s up
to `MaxInt` that wrap, `computeSummary` with a fold over the races in order of
time, `computeGroupedStats` (any order of groups of one size, as the Go map
gives), `computeTimeSeries`, `GetDimensions`. What the query and the filters find
is a set of seconds; that the rows come newest first is the rank of a row in it
(`Newer`, by the order of the string keys), and the place `n` of the list is the
row of rank `n - 1` (`Nth`). `Sorted` is by ranks too: the library's
`SetToSortSeq` takes the comparison as an operator, which the prover cannot open,
and the code sorts distinct starts and ids only, so the ranks say all of it. The
properties compare the answers with definitions over the set `Asked` that know no
strings and no limits: cardinalities, sums and extrema. `Ordinary` names the
requests they are about: bounds with as many digits as the starts have, and rows
that one query holds. Two of the three dimensions and iRating without CPI stand
for their like.

### `*_proofs`, `MC*`

The theorems about the component of that name, and the instances for TLC: model
values, the start and finish times of the races as functions, races and ranges of
`Queries`, and symmetry over lambdas and messages, drivers, connections and calls.
No run that checks a liveness property uses symmetry.

## What the runs check

| Run | Expect | Properties | What it shows |
|---|---|---|---|
| `MCRaceIngestionLock` | pass | `MutualExclusion` `RequestsRefusedDuringRound` `WatermarkMonotone` `RecursionAdvances` | any two of the eight faults, two lambdas: rounds exclude each other and the watermark advances |
| `MCRaceIngestionRaces` | pass | `NoLostRace` `SessionCountExact` `ImplementsSerialIngestion` | late results, one race never stored, two races on one key, failing calls, crashes, stale reads |
| `MCRaceIngestionLive` | pass | `AcceptedRequestServed` | with a failing call or a 401 an accepted request is served, dead-lettered or reported, whatever chains of rounds interleave |
| `MCRaceIngestionDeadline` | violation | `AcceptedRequestServed` | the deadline drops a request |
| `MCPartitionReset` | pass | `CleanPartitionConsistent` `CleanMutualExclusion` | an undisturbed reset leaves a good partition, also after one that failed or left rows beyond its page, and stale reads break it only as `clean` says |
| `MCChunkWorkers` | pass | `NothingAfterClose` `AdvancedOnlyIfStored` `AnnouncedIfAdvanced` `NoErrorLost` `ImplementsAtomicRound` `RoundEnds` | the fan-out of one round, deadlock checked: it loses nothing and returns, whatever fails |
| `MCClientSession` | pass | `TypeOK` `NeverStranded` `LogoutLasts` `GetsConnected` `SyncEnds` | two of any events: a logged-in page has a socket or a timer and connects again, a logged-out one has neither and stays logged out but for a refresh under way, the Sync button comes back |
| `MCClientSessionRetry` | violation | `SyncNamesConnection` | the retry after stale credentials names no connection |
| `MCAccounts` | pass | `DriversCounted` `EveryLoginCounted` `EditsSurvive` `TokenHasDriver` `AuthenticatedHasRow` `RowsAgree` `CleanDisconnect` `BroadcastReaches` | logins that meet and handlers that overtake each other: counters, rows of drivers and rows of connections agree |
| `MCJournal` | pass | `AnsweredWriteStays` `SaveAnswersSaved` `EntriesHaveRaces` `PagesSkipNothing` | saves, deletions, a deletion of all races and a reader beside each other: only a write still under way replaces what was answered |
| `MCCaching` | pass | `TypeOK` `AgeBounded` `StoredOnce` `EveryRequestAnswered` | two processes, refused tokens, deadlines, a failure or a crash: what is taken is younger than the period and a request's time, fetched once, and nobody waits for ever |
| `MCQueries` | pass | `PageIsRight` `OrdinaryRequestsServed` `AnalyticsAreRight` | every request of the run against every set of rows equals its definition |

The types of `RaceIngestion`, `PartitionReset`, `ChunkWorkers`, `Login` and
`WebSocket` are not in the runs: they are theorems (`TypeCorrect`,
`ResetTypeCorrect`).

`CHECK_DEADLOCK FALSE` stands in the runs of `ClientSession` because a logged-out
page has nothing to do, and in those of `RaceIngestion` and `PartitionReset`
because their clock is bounded: at `MaxTime`, with the queue empty, nothing is
left to happen. `Login`, `WebSocket`, `Journal` and `Caching` serve requests, of
which a run makes only so many, and `Queries` answers once for each set of rows:
all of them stop when the bound is reached. In `ChunkWorkers` the only way to stop
is to have returned (`Done`), so there deadlock is checked.

Each property of a passing run is broken by a mutant, a definition beside the one
it replaces: a lock compared with the wrong time, no overlap of windows, an
unconditional put, a round queued with its lock held, an error path that does not
unlock, and so on.

## Bounds

Times are scaled: a window of 4, an overlap of 2, a lock of 4, a Lambda timeout of
3 and a deadline of 2 keep every order between the code's numbers (ten days, four
hours, 900 s, the timeout and its reduced deadline) that the code tests or relies
on. An invocation can use a clock one second old. With `InitNow = 4` a driver's
history takes two rounds, so recursion happens; with `MaxTime = 9` a lock taken at
the start expires and is replaced. A result may appear two seconds after its race,
so also after a search has gone past the finish: the windows' overlap is needed.
Two lambdas suffice to disagree, three messages for two chains of rounds and a
duplicate. The four races of `MCRaceIngestionRaces` cover: never stored, published
late, two under one key. `MaxReceives = 2` makes both a redelivery and the DLQ
reachable. `MCRaceIngestionLock` has one request and two faults, so a fault may
strike the recovery from another (a duplicate delivery, then a crash); a second
chain of rounds comes from the faults. The runs about races and about liveness
have two requests and at most one fault. `MCRaceIngestionLive` has one race and
two seconds, since it asks how chains of rounds share the lock and what a failing
call does to them. `PartitionReset` has pages of one row, so a reset of two
sessions leaves one, and two messages, since a reset interferes with one round and
the one that follows; its one fault is a call that fails or a read that is stale.
In `ClientSession` an event is anything users or failures do, and `MaxEvents`
counts them all: two allow, say, a failed socket and a logout, or an expiry and a
click. What the browser and the server do by themselves is not counted. `Conns`
bounds the sockets that exist at once, two (one in use, and one closing or
orphaned); a step that would make another waits for one to be gone
(`RoomForSocket`). In `WebSocket` two drivers show what one does to the other's
rows, two REST calls are two first logins that meet, two invocations are a handler
that overtakes another, and four requests are two logins, an authentication and
what disturbs it; one fault at a time. A row (two hours) outlives a connection
(one), as the code's twenty-four hours do API Gateway's two; three hours let both
end and the row expire. The theorems are about any number of all of these. In
`Journal` pages of one row and batches of two make three races several pages and
two batches, and a query answers three keys, so the deletion of more leaves the
last ones; two calls and the deletion of all races are the writers that can meet
on an entry, and three requests with one fault are a save, a deletion and what
comes between. In `Caching` a process has two requests at once or each of two
processes one; a period of two seconds and a request's time of one keep the code's
order (a day and fifteen seconds), and four seconds are long enough for a value
fetched in one second, put in the next, and taken a whole period after its fetch,
and for the period to end. In `Queries` four starts on both sides of the end of a
period, with three kinds of races (gain, loss and neither; equal and different
series and cars), give every set of one to four rows, of which one query holds
three. The bounds of the ranges lie inside, outside, in the wrong order, and with
a digit less. With `int`s of four bits every page and page size is enumerated,
those whose product wraps included. In `ChunkWorkers` two workers put one in the
mutex and one waiting for it, or both on the way to the collector, and race on one
key; the theorems are about any number. Two failures let a second error arrive
after the first has cancelled the context.

## Fairness

`FairSpec` of `RaceIngestion` asks that a running invocation goes on
(`WF(Round(i))`: Lambda runs the handler until it returns or is killed, and its
calls answer or time out) and that SQS delivers or redrives each message that
stays visible (`WF(Delivery(m))`: the event-source mapping polls). Nothing is
asked of clients, faults, iRacing, the TTL sweep or the clock, so liveness does
not rest on a fault not happening again or on a lock expiring. `FairSpec` of
`ChunkWorkers` asks that each goroutine that can run does, and that calls return;
the deadline may pass or not. `FairSpec` of `ClientSession` asks that the browser
delivers socket events and runs its reconnect timer, that requests are answered,
that messages of a socket are served, and that API Gateway ends old connections
(ten minutes idle, two hours at most). The last one is strong fairness on a step
enabled only when nothing is under way (`Quiet`): the end of a connection takes no
part in the races of seconds, but comes. It is what frees a page whose auth answer
was lost. Nothing is asked of users and failures. A ping on a socket not yet
authenticated needs the 120 s interval to fire within the moment of
authentication, so it is a counted event: without that the model would let it
happen at every reconnect.

`FairSpec` of `Caching` asks that each request's next step is taken if it stays
possible (`WF(Step(c))`): Go runs every goroutine, its mutexes do not starve a
waiter, and calls of S3 and iRacing return. No property of `Login`, `WebSocket`,
`Journal` or `Queries` needs fairness.

## What is proved

`RaceIngestion_proofs` proves, for any set of lambdas, messages and races, all
faults, and any values of the constants that satisfy the named assumptions:

| Theorem | States |
|---|---|
| `TypeCorrect` | `Spec => []TypeOK` |
| `MutualExclusionHolds` | `Spec => []MutualExclusion` |
| `RequestsRefused` | `Spec => []RequestsRefusedDuringRound` |
| `NoLostRaceHolds` | `Spec => []NoLostRace` |
| `SessionCountHolds` | `Spec => []SessionCountExact` |
| `WatermarkMonotoneHolds` | `Spec => WatermarkMonotone` |
| `RecursionAdvancesHolds` | `Spec => RecursionAdvances` |
| `Implements` | `Spec => ImplementsSerialIngestion` |

The argument. `LeaseAssumption` (Lambda timeout below lock duration) gives the
lease invariant: while an invocation is in its critical section the lock's row is
there and lies after the invocation's last possible moment. Hence nobody else's
conditional put succeeds, nobody else is in a position to release, and the
invocation in the critical section is unique; the invariant is needed because
`MutualExclusion` alone does not say why a third invocation is refused. With
exclusion, nobody moves the watermark between `GetDriver` and the update, so what
the round knew of it when it fixed its window still holds when it is written. The
window may start from a reading one update old. The invariant (`LagOK`) says that
the window from that reading still reaches the watermark: it is the window the
round before computed, at a later time. So the watermark never moves back, and it
moves strictly forward (`WindowAssumption`, buffer below window) except after a
round that missed the update, which `RecursionAdvances` names. That such a window
also reaches no further than the next one would, so that the same holds after it,
needs `DeadlineAssumption`: an invocation is shorter than what a window adds to
the last one. For `NoLostRace` the invariant tracks, per round, that every race of
the driver which finished by the end of its window less the buffer is stored,
being saved, or to do; it holds when the search returns because of `LagAssumption`
(a result appears within the buffer of the finish). The lock's facts are
independent of the races', so the proof is in layers: types, lease, windows,
coverage, counting.

`PartitionReset_proofs` builds on it, for any number of resets with pages of any
size:

| Theorem | States |
|---|---|
| `ResetTypeCorrect` | `ResetSpec => []ResetTypeOK` |
| `CleanPartitionHolds` | `ResetSpec => []CleanPartitionConsistent` |
| `CleanMutualExclusionHolds` | `ResetSpec => []CleanMutualExclusion` |

A deletion takes the lock's row and the rows that the watermark vouches for, so
the lease, the coverage and the counting hold only while `clean` is true
(`CleanInv`); what does not depend on the rows of the table (an invocation ends in
time, no race is published late, none that rounds skip is saved) holds throughout.
`clean` comes back with the reset of the info row, if the deletion was quiet:
`QuietInv` says that then no round is in its critical section and every row there
is waits for its deletion, so when none is left to delete the partition is empty
and the three hold again. A step of ingestion on a clean partition is a step of
`RaceIngestion`, whose lemmas apply, with one exception: a round that reads from a
replica that has not seen the reset. So `LagOK` asks nothing of a replica that is
ahead of the row, and `clean` ends with such a read.

`ChunkWorkers_proofs` proves, for any number of workers, any search results and
any failures:

| Theorem | States |
|---|---|
| `TypeCorrect` | `Spec => []TypeOK` |
| `NothingAfterCloseHolds` | `Spec => []NothingAfterClose` |
| `NoErrorLostHolds` | `Spec => []NoErrorLost` |
| `AdvancedOnlyIfStoredHolds` | `Spec => []AdvancedOnlyIfStored` |
| `AnnouncedIfAdvancedHolds` | `Spec => []AnnouncedIfAdvanced` |
| `SomebodyGoesOnHolds` | `Spec => []SomebodyGoesOn` |
| `RoundNearsHolds` | `Spec => [][RoundNears]_vars` |
| `AtomicRoundImplemented` | `Spec => ImplementsAtomicRound` |

The argument follows what is in transit. `CloseInv`: the mutex is held by whoever
saves, and past each `Wait` the goroutines waited for are gone. `ErrInv`: an error
that has happened is with its worker, with the collector, or in `errs`. `RaceInv`:
a race to store is stored, not fed yet, with a worker, or given up with an error,
and a recent one is announced, about to be, or given up. At the update nobody
holds anything and `errs` is empty, so nothing was given up; the context is not
done, so everything was fed; hence everything is stored. `SomebodyGoesOn` is the
safety half of `RoundEnds`: it spells out what each goroutine waits for, and says
that until the round returns one of them does not wait. The mutex is held by a
worker in a call, a send waits for a collector that is free or about to be, and
`StayInv` is the part that is not in the other invariants: a worker leaves while
the feeder still feeds only if the context is done, which ends the feeding too.
`RoundNears` is the measure that goes with it: a step of the feeder, a worker or
the collector lowers what it has left (`FeederLeft`, `WorkerLeft`,
`CollectorLeft`), only a race taken from `todo` gives a worker more to do, and
only an error a worker sends gives the collector more. The two and weak fairness
are the argument for `RoundEnds`; the last step of it is TLC's. For the
refinement, `OnceInv` says that a race is in one place only: not fed, with one
worker, or given up; without it a check by one worker would not take the race out
of the round's *to do*, since another might still have it there. Each action of a
goroutine then changes the mapped sets as one action of the round does: the check
moves a race from *to do* to *being saved*, the save removes it, the update needs
both empty (from `RaceInv`). A race given up stays in its set until the feeder
returns the error, which is the round's failure; the rest is invisible.

`WebSocket_proofs` proves, for any number of drivers, calls, connections and
invocations, all faults, and any lifetimes with `ConnLife < RowLife`
(`LifeAssumption`; two hours and twenty-four in the code):

| Theorem | States |
|---|---|
| `TypeCorrect` | `Spec => []TypeOK` |
| `DriversCountedHolds` | `Spec => []DriversCounted` |
| `EveryLoginCountedHolds` | `Spec => []EveryLoginCounted` |
| `FirstBeforeLastHolds` | `Spec => []FirstBeforeLast` |
| `EditsSurviveHolds` | `Spec => []EditsSurvive` |
| `TokenHasDriverHolds` | `Spec => []TokenHasDriver` |
| `AuthenticatedHasRowHolds` | `Spec => []AuthenticatedHasRow` |
| `RowsAgreeHolds` | `Spec => []RowsAgree` |
| `CleanDisconnectHolds` | `Spec => []CleanDisconnect` |
| `BroadcastReachesHolds` | `Spec => BroadcastReaches` |

The argument has two layers over the types. `AccountInv` is about the rows of
drivers: a call that will record a login has found a row and rows of drivers are
never deleted, so its update meets one; a call's clock is never before the first
login of a row it found. Cardinality enters once, where a first insertion adds one
driver to the set counted. `ConnInv` is about connections: who has authenticated
as somebody has named itself in `names`; a row put while the connection was open
ends after the connection must, since `ConnLife < RowLife`, so the TTL takes no
row of an open connection; only a `$disconnect`, which runs after the close,
deletes rows otherwise; while a handler may still write, `clean` is false; and a
broadcast keeps what it must still reach in `todo` or has it in `got`. The actions
are many and touch little, so the proof first says what a step can do to one
invocation (`Change`) and to one connection (`Effect`), once for each action, and
derives each part of the invariant from that.

`Caching_proofs` proves, for any processes, requests, period and faults:

| Theorem | States |
|---|---|
| `TypeCorrect` | `Spec => []TypeOK` |
| `AgeBoundedHolds` | `Spec => []AgeBounded` |
| `StoredOnceHolds` | `Spec => []StoredOnce` |
| `WaitsForCallsHolds` | `Spec => []WaitsForCalls` |
| `AnswerNearsHolds` | `Spec => [][AnswerNears]_vars` |

`StoredOnce` alone does not say why a second request does not fetch. `CacheInv`
does: a request past `Lock` holds the mutex of its process and kind, and while it
is held the kind is not in memory (`MutexInv`); a process that has fetched a kind
has it in memory (`MemoryInv`), so who gets the mutex afterwards finds it there.
`AgeBounded` needs more: a request fetches and puts within `RequestTimeout` of its
start (`CallInv`), so an object was put at most that long after its value came
from iRacing (`ObjectInv`); the period counts from the put, so what is taken is
younger than the two together. No tighter bound holds: a value fetched just after
a request began and put just before its end is served until the end of the period.
The bound holds whichever process put last. `WaitsForCalls`, the safety half of
`EveryRequestAnswered`, is `MutexInv` read from the waiter's side. `AnswerNears`
counts the steps a request has left, eight at most: each of its steps lowers the
count, and no step of another raises it.

`ClientSession_proofs` proves, for any requests, failures and number of sockets
(one at least):

| Theorem | States |
|---|---|
| `TypeCorrect` | `Spec => []TypeOK` |
| `NeverStrandedHolds` | `Spec => []NeverStranded` |
| `LogoutLastsHolds` | `Spec => LogoutLasts` |

The invariant joins the two (`Served`): who is logged in has a socket in use or a
timer, who is not has neither; and a socket in use has not closed, and while there
is one the status is not `disconnected`. The last part is what `onclose` turns on,
which schedules nothing for a close without error in that status, whichever socket
the event came from; without it the close of a replaced socket could leave the
page with none. Each function of the stores is shown to keep the invariant from
any page that satisfies it, and an action is their composition; what changes
neither token, socket, timer nor the states of sockets is one lemma
(`BesideServed`). `Unprocessed` is about the page the OAuth redirect opens: until
the callback is processed nothing has happened on it, so the login has a place for
its socket. `LogoutLasts` needs besides that there is one refresh at most
(`Single`, which `refreshInProgress` is for): no function of the stores sets a
token but `setSession` (`SameLogin`), so without one every step but the login and
the answer of that refresh leaves a logged-out page as it was, and the answer,
failed or not, ends the refresh.

`Journal_proofs` proves, for any races, requests, sizes of pages, batches and
answers, and all faults:

| Theorem | States |
|---|---|
| `AnsweredWriteStaysHolds` | `Spec => []AnsweredWriteStays` |
| `SaveAnswersSavedHolds` | `Spec => []SaveAnswersSaved` |
| `EntriesHaveRacesHolds` | `Spec => []EntriesHaveRaces` |
| `PagesSkipNothingHolds` | `Spec => []PagesSkipNothing` |

For the first two the invariant follows the writers of an entry: writes of one
entry that are under way know of each other, and what each may still write is
among what the entry may be, so an answer takes nothing away that is still to come
(`WritesKnown`); and until a save reads back the entry is its own or one that
another call made of it since (`SavedThere`). For the third, an entry whose race
is to be deleted is itself to be deleted, or excused (`EntriesFirst`), and a save
that may not be excused has its race and no deletion beside it (`ValidHasRace`).
The order of keys enters with `FirstKeysAre`: with a key, the first keys hold
every key before it. So the query that finds a race's key finds that of its entry,
and no race goes in a batch while the key of its entry waits for a later one. For
the last, `Ahead` says where an entry not seen yet must be: its rank is at or
beyond the start of the page to come. A deletion of an entry ends the claim, so
during a walk entries are only added, ranks only grow (`NewerGrows`), and what
lies beyond one page lies beyond the start of the next.

`Queries_proofs` proves, for any rows, requests, sizes of a query's answer and any
`MaxInt`, for starts of one and two digits and rows whose fields are integers and
whose finishing position is not negative (`RacesAssumption`; positions count from
zero in the code, which tests `FinishPosition` against 0, 2 and 4):

| Theorem | States |
|---|---|
| `PageIsRightHolds` | `Spec => []PageIsRight` |
| `OrdinaryRequestsServedHolds` | `Spec => []OrdinaryRequestsServed` |
| `AnalyticsAreRightHolds` | `Spec => []AnalyticsAreRight` |

The invariant says that the rows have their types and that the last answer is one
that the rows there now give to its request. The rest is about operators. For the
list: keys of equally many digits are ordered like their numbers (`SameDigits`),
so an ordinary query finds the asked races (`AskedIs`); ranks are a bijection from
the races to the places of the list (`RankTaken`: they differ, and there are as
many places as races), so `Nth` exists and a page has exactly the races of its
ranks (`PageShows`); and if the product of page and size is an `int`, both bounds
of the page are, and nothing wraps (`PageBounds`).

For the analytics the operators are loops, sums and sorts, so their lemmas are
inductions over data. The library's induction theorems take an operator as a
parameter, which the provers cannot instantiate; the proofs take the least number
without the property instead (`LeastNumber`, from the well-founded order of the
naturals, whose theorem takes a set), and for sets the least cardinality
(`SubsetInduction`). That a recursive function of the library exists at all is
proved the same way, from tables that are right up to a size (`SumsExist`,
`TalliesExist`). From there:

* sums: a sum does not depend on the order of its terms (`SumTakesOut`), is
  additive in the terms (`SumOfSums`) and in the set (`SumOfUnion`, `SumOfParts`),
  and counts when the terms are bits (`CountIsSum`);
* sorting: by ranks, as for the pages, but rising and for any finite set of
  integers (`SortedIs`), and its ends are the extrema (`SortedEnds`);
* the loop of `computeSummary`: after `k` races it has the shares of the first `k`
  (`TallyStep`, `CountedIs`), hence in the end the sums over the set, whatever the
  order (`SummaryIs`), and `Summarises` follows (`ComputedSummarises`);
* the periods: the division by the length of a period is monotone
  (`PeriodsFollow`), so the first and the last period hold the first and the last
  race (`PeriodEnds`); the periods are disjoint parts of the whole, so the sums of
  the parts add up (`SeriesIs`);
* the groups: the keys partition the races and each group is listed once, for a
  group is found by its key, and sorting by size only permutes them (`GroupsAre`).

Only model-checked:

* everything under fairness (`AcceptedRequestServed`, `RoundEnds`,
  `GetsConnected`, `SyncEnds`, `EveryRequestAnswered`), which is beyond the
  prover; every invariant and action property of the passing runs is a theorem;
* the two runs that expect a violation.

## Disagreements between code and documentation

1. *A deadline leaves the lock behind.* `race-processor.go:116` says the lock is
   released so that SQS can retry. After the reduced deadline the release is made
   with the expired context and fails; SQS redelivers while the lock is held, and
   the message is acknowledged as a duplicate. Run `MCRaceIngestionDeadline`.
2. *The retry after stale credentials does not wait for the connection.*
   `raceIngestion.ts:23` says it waits for the session the reconnect makes ready,
   but `isReady` does not look at the connection and the id is already cleared;
   the endpoint answers 400. Run `MCClientSessionRetry`.

Seen in the same models, and part of their behaviours, but not the subject of a
run.

Ingestion:
* Deleting races deletes the lock, which `README.md:219` says prevents concurrent
  ingestion; `CleanMutualExclusion` says what remains. A reset leaves rows saved
  during it or beyond its page, against the comment at `dynamo_store.go:570`.
* A round whose `GetDriver` misses the update of the round before searches the
  same window again and may leave the watermark where it is: work done twice, no
  more (`WatermarkMonotone`, `NoLostRace`). After a deletion of the races the same
  read starts a round from the old watermark, and the deleted races stay away:
  `clean` ends with such a read, and `CleanPartitionConsistent` says nothing after
  it.
* If the answer of the lock's put is lost, the client library repeats the put,
  which meets the row it wrote: the round takes itself for a duplicate, its
  message is acknowledged, and the request is dropped; the lock stays until it
  expires.
* A race stored by a round that then fails to announce it is found stored by the
  retry and never announced: the client sees it at its next fetch.
  `AnnouncedIfAdvanced` is about the races a round itself stores.
* In the second `locked_until = now` the endpoint takes the lock as free and the
  lambda as held, so a request is accepted and dropped (`AcceptedRequestServed` is
  about requests accepted while both take it as free).

Front end:
* `refreshToken` does not look at the token again after its `await`
  (`auth.ts:87-104`): a refresh in flight at a logout sets the new token when it
  answers, and the watchers fetch the reference data and connect. The user is
  logged in again until the next logout. `LogoutLasts` says that nothing else
  undoes a logout: no late 401, close event, message or timer.
* `onclose` clears the store's socket whichever socket closed
  (`websocket.ts:168,191`), so after a `reconnect()` the old socket's event may
  orphan the new one. The page is never stranded by it (`NeverStranded`), but the
  orphan lives on, also after a logout.
* `request()` (`client.ts:595`) throws "Session expired" for every 401 that
  arrives during a refresh: the reference data it asked for is not asked for
  again. `handleAuthResponse` takes a refresh in progress for a logout
  (`websocket.ts:104`), and a heartbeat outlives its socket and may ping the next
  one before it has authenticated, which the server then disconnects.

Accounts and connections:
* A refresh keeps the entitlements of the old token; an edit is seen at the next
  login. An update that counts a login may be repeated and count it twice, and
  `last_login` may go back when two logins meet.
* A connection that authenticates a second time as another driver leaves the first
  one's `ws#` row, which pings and broadcasts then find; `$disconnect` deletes the
  rows of the last one only. If `$disconnect` comes before the save of an auth
  message, both rows stay until the TTL.
* A broadcast ends at the first push that fails with anything but gone, and the
  connections after it hear nothing. A deletion of races takes the `ws#` rows of
  open connections, which are closed at their next ping; so is one whose ping
  meets a replica without its row.

Journal and reads:
* An update repeated after its answer was lost may come after a deletion that
  began and ended meanwhile, and create the entry again (`AnsweredWriteStays` says
  that this ends with the save).
* A save may be answered with another's text, and with 500 when the entry was
  deleted before the read back (the endpoint dereferences nil). `created_at` may
  lie after `updated_at` when two first saves meet. A save that passed its check
  before all races were deleted leaves an entry without a race.
* Pages of the journal are cut from new queries: entries deleted meanwhile make a
  reader skip others (`PagesSkipNothing` is about additions). A batch read of more
  than a hundred keys fails, and its unprocessed keys are not read again.
* Only one answer of `Query` is read: the oldest rows beyond it are missing.
  Bounds with fewer or more digits than the keys give wrong rows or a refused
  query, answered 500; so is a page whose start wraps below zero. The journal's
  list does not reject an end before the start. Groups of one size come in any
  order. With filters, the change of iRating over the selected races differs from
  gain less loss.

Caches:
* What a process keeps in memory grows old with it: `AgeBounded` bounds the age of
  a value when the process takes it, not when it serves it. The period counts from
  the put, not the fetch, so a value may be taken fifteen seconds older than the
  day, and of two processes the later put wins with the older value. A request
  waits for a mutex whether its context has ended or not.

## What the models leave out

Decoding, validation messages, logging, metrics and tracing; the content of a
session row beyond what analytics uses; HTTP and the chunked download of search
results; batching of transactions (the processor saves one session at a time); the
formats, encryption and keys of tokens; validation of the journal's tags and
links, which looks at one request; reads of a single row (one race, one driver,
one entry); session details and reference data beyond their caches, which map one
answer to another (`api/session`, `tracks`, `cars`, `series`); middleware beyond
the validity and entitlement of a token; layout, formatting and the lists of the
front end's views; terraform other than the ingestion's numbers.

## Plan

Done: `RaceIngestion`, `SerialIngestion`, `ChunkWorkers`, `PartitionReset`,
`ClientSession`, `Login`, `WebSocket`, `Journal`, `Caching`, `Queries` with their
runs, and theorems about all of them: every safety property of the passing runs
and both refinements. What is left, the most important first:

1. `ViewFetch`: the answers of the views' lists that arrive out of order.
2. Starts with any number of digits in `Queries`.
