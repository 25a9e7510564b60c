------------------------------- MODULE Caching -------------------------------
(***************************************************************************)
(* iRacing's reference data (tracks, cars, series, their assets) behind    *)
(* two caches: the memory of each process that serves the API, over one    *)
(* object per kind in S3.  A process is a Lambda environment, or the       *)
(* standalone server with requests side by side.  Time is in seconds, the  *)
(* precision of S3; a value is the second it came from iRacing.            *)
(***************************************************************************)
EXTENDS Naturals

CONSTANTS
  Procs,          \* processes, each with its memory and its mutexes
  Calls,          \* places for a request in flight
  CacheTime,      \* s3CacheDuration
  RequestTimeout, \* of every request: its Lambda's, or that of its context
  Faults, MaxFaults,
  MaxRequests, MaxNow    \* bounds of the model

Kinds == {"info", "assets"}
None == [fetched |-> 0]   \* nothing: time begins with 1

ASSUME CachingAssumption ==
  /\ "free" \notin Calls
  /\ {CacheTime, MaxNow} \subseteq Nat \ {0} /\ RequestTimeout \in Nat
  /\ Faults \subseteq {"fail", "crash"}
  /\ {MaxFaults, MaxRequests} \subseteq Nat

VARIABLES
  now,
  memory,         \* cached, value of WithMemoryCache
  mutex,          \* who holds the mutex of a process and kind
  object,         \* the object of each kind in S3, and when it was put
  call,           \* where each request stands
  requests, faults,
  fetches         \* history: values each process fetched and stored

vars == <<now, memory, mutex, object, call, requests, faults, fetches>>

NoCall == [pc |-> "idle", proc |-> "none", kind |-> "info", start |-> 0,
           value |-> None]

Init ==
  /\ now = 1
  /\ memory = [p \in Procs |-> [k \in Kinds |-> None]]
  /\ mutex = [p \in Procs |-> [k \in Kinds |-> "free"]]
  /\ object = [k \in Kinds |-> [fetched |-> 0, at |-> 0]]
  /\ call = [c \in Calls |-> NoCall]
  /\ requests = 0 /\ faults = 0
  /\ fetches = [p \in Procs |-> [k \in Kinds |-> 0]]

Fault(kind) ==
  /\ kind \in Faults
  /\ faults < MaxFaults
  /\ faults' = faults + 1

Unlock(c) == mutex' = [mutex EXCEPT ![call[c].proc][call[c].kind] = "free"]

\* GetAll asks for the list and then for the assets, which it merges by id; for
\* an id without assets the list's fields are answered alone.
Proceed(c) ==
  call' = [call EXCEPT ![c] =
             IF @.kind = "info" THEN [@ EXCEPT !.pc = "lock", !.kind = "assets", !.value = None]
                                ELSE NoCall]

\* The value is kept, the mutex released.
Keep(c, v) ==
  /\ memory' = [memory EXCEPT ![call[c].proc][call[c].kind] =
                  [fetched |-> v.fetched, since |-> now]]
  /\ Unlock(c)
  /\ Proceed(c)

----------------------------------------------------------------------------
GetAll(c, p) ==
  /\ call[c].pc = "idle"
  /\ requests < MaxRequests
  /\ requests' = requests + 1
  /\ call' = [call EXCEPT ![c] = [NoCall EXCEPT !.pc = "lock", !.proc = p, !.start = now]]
  /\ UNCHANGED <<now, memory, mutex, object, faults, fetches>>

\* Mutant: the mutex covers the test and the assignment, but not the fetch.
LockMutant(c) ==
  LET p == call[c].proc  k == call[c].kind IN
  /\ call[c].pc = "lock"
  /\ IF memory[p][k] # None THEN Proceed(c) ELSE call' = [call EXCEPT ![c].pc = "get"]
  /\ UNCHANGED <<now, memory, mutex, object, requests, faults, fetches>>

\* The mutex of the memory cache, and inside it that of the S3 cache, which
\* nobody else then holds.  A context does not end the wait for a mutex.
Lock(c) ==
  LET p == call[c].proc  k == call[c].kind IN
  /\ call[c].pc = "lock"
  /\ mutex[p][k] = "free"
  /\ IF memory[p][k] # None
     THEN Proceed(c) /\ UNCHANGED mutex
     ELSE /\ mutex' = [mutex EXCEPT ![p][k] = c]
          /\ call' = [call EXCEPT ![c].pc = "get"]
  /\ UNCHANGED <<now, memory, object, requests, faults, fetches>>

\* The request's time is not over: its calls may still be answered.
InTime(c) == now <= call[c].start + RequestTimeout

\* Mutant: the object is taken whatever its age.
IsModifiedMutant(k) == object[k].fetched > 0

\* IfModifiedSince: the object, unless it was last put at that time or before.
IsModified(k) == object[k].fetched > 0 /\ object[k].at + CacheTime > now

GetObject(c) ==
  LET k == call[c].kind IN
  /\ call[c].pc = "get" /\ InTime(c)
  /\ IF IsModified(k)
     THEN Keep(c, object[k])
     ELSE call' = [call EXCEPT ![c].pc = "fetch"] /\ UNCHANGED <<memory, mutex>>
  /\ UNCHANGED <<now, object, requests, faults, fetches>>

\* The link and the data behind it.
FetchLinkedData(c) ==
  /\ call[c].pc = "fetch" /\ InTime(c)
  /\ call' = [call EXCEPT ![c].pc = "put", ![c].value = [fetched |-> now]]
  /\ UNCHANGED <<now, memory, mutex, object, requests, faults, fetches>>

\* Processes do not know of each other: the later put wins, though the value may
\* be the older one.
PutObject(c) ==
  LET p == call[c].proc  k == call[c].kind IN
  /\ call[c].pc = "put" /\ InTime(c)
  /\ object' = [object EXCEPT ![k] = [fetched |-> call[c].value.fetched, at |-> now]]
  /\ \/ /\ Keep(c, call[c].value)
        /\ fetches' = [fetches EXCEPT ![p][k] = @ + 1]
        /\ UNCHANGED faults
     \/ /\ Fault("fail")
        /\ Unlock(c)
        /\ call' = [call EXCEPT ![c] = NoCall]
        /\ UNCHANGED <<memory, fetches>>
  /\ UNCHANGED <<now, requests>>

Failing(c) ==
  \/ call[c].pc = "fetch" /\ UNCHANGED faults
  \/ call[c].pc \in {"get", "fetch", "put"} /\ ~InTime(c) /\ UNCHANGED faults
  \/ call[c].pc \in {"get", "fetch", "put"} /\ Fault("fail")

\* Mutant: an error path that keeps the mutex.
FailsMutant(c) ==
  /\ Failing(c)
  /\ call' = [call EXCEPT ![c] = NoCall]
  /\ UNCHANGED <<now, memory, mutex, object, requests, fetches>>

\* A token iRacing does not accept, answered 401; a call that fails, or one for
\* which no time is left, answered 500.  Nothing is kept, and the next one in line
\* tries itself.
Fails(c) ==
  /\ Failing(c)
  /\ Unlock(c)
  /\ call' = [call EXCEPT ![c] = NoCall]
  /\ UNCHANGED <<now, memory, object, requests, fetches>>

\* A process ends with its requests, and another one takes its place.
Restart(p) ==
  /\ Fault("crash")
  /\ memory' = [memory EXCEPT ![p] = [k \in Kinds |-> None]]
  /\ mutex' = [mutex EXCEPT ![p] = [k \in Kinds |-> "free"]]
  /\ call' = [c \in Calls |-> IF call[c].proc = p THEN NoCall ELSE call[c]]
  /\ fetches' = [fetches EXCEPT ![p] = [k \in Kinds |-> 0]]
  /\ UNCHANGED <<now, object, requests>>

Tick ==
  /\ now < MaxNow
  /\ now' = now + 1
  /\ UNCHANGED <<memory, mutex, object, call, requests, faults, fetches>>

Step(c) ==
  Lock(c) \/ GetObject(c) \/ FetchLinkedData(c) \/ PutObject(c) \/ Fails(c)

Next ==
  \/ \E c \in Calls :
       Step(c) \/ \E p \in Procs : GetAll(c, p)
  \/ \E p \in Procs : Restart(p)
  \/ Tick

Spec == Init /\ [][Next]_vars

\* Go runs the goroutine of every request, its mutexes do not starve a waiter, and
\* every call of S3 and iRacing returns.
FairSpec == Spec /\ \A c \in Calls : WF_vars(Step(c))

----------------------------------------------------------------------------
TypeOK ==
  /\ now \in 1 .. MaxNow
  /\ \A p \in Procs, k \in Kinds :
       /\ mutex[p][k] \in Calls \cup {"free"}
       /\ mutex[p][k] # "free" => call[mutex[p][k]].proc = p /\ call[mutex[p][k]].kind = k
  /\ \A k \in Kinds : object[k].fetched <= object[k].at /\ object[k].at <= now
  /\ \A c \in Calls : call[c].pc \in {"idle", "lock", "get", "fetch", "put"}

\* iracing/s3_call_cache.go: the period runs from the put of an object and not from
\* the fetch of its value, and the process that put it may be another one; yet what a
\* process takes came from iRacing less than the period and a request's time before.
AgeBounded ==
  \A p \in Procs, k \in Kinds :
    memory[p][k] # None =>
      /\ memory[p][k].fetched > 0
      /\ memory[p][k].since < memory[p][k].fetched + CacheTime + RequestTimeout

\* iracing/memory_call_cache.go: requests side by side do not fetch what one of
\* them is already fetching: a process stores a kind at most once.
StoredOnce == \A p \in Procs, k \in Kinds : fetches[p][k] <= 1

\* The mutexes are released on every path: every request is answered, also those
\* that waited for one whose token iRacing refused.
EveryRequestAnswered == \A c \in Calls : call[c].pc # "idle" ~> call[c].pc = "idle"
============================================================================
