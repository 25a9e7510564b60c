--------------------------- MODULE Caching_proofs ---------------------------
(***************************************************************************)
(* Proofs about the two caches in front of iRacing's reference data, for   *)
(* any number of processes and of requests side by side, any period of the *)
(* cache and any calls that fail or processes that end.                    *)
(***************************************************************************)
EXTENDS Caching, TLAPS

\* The sets the variables range over.
Held == {None} \cup [fetched : Nat, since : Nat]
Standing == [pc : {"idle", "lock", "get", "fetch", "put"}, proc : Procs \cup {"none"},
             kind : Kinds, start : Nat, value : [fetched : Nat]]

CacheTypes ==
  /\ now \in 1 .. MaxNow
  /\ memory \in [Procs -> [Kinds -> Held]]
  /\ mutex \in [Procs -> [Kinds -> Calls \cup {"free"}]]
  /\ object \in [Kinds -> [fetched : Nat, at : Nat]]
  /\ call \in [Calls -> Standing]
  /\ fetches \in [Procs -> [Kinds -> Nat]]

\* A request is in a process; what it fetched, it fetched since it began.
CallInv ==
  \A c \in Calls :
    /\ call[c].pc # "idle" =>
         /\ call[c].proc \in Procs
         /\ 0 < call[c].start /\ call[c].start <= now
    /\ call[c].pc = "put" =>
         call[c].start <= call[c].value.fetched /\ call[c].value.fetched <= now

\* A mutex is held exactly by the request past it, and then nothing is in memory.
Past == {"get", "fetch", "put"}
MutexInv ==
  /\ \A c \in Calls : call[c].pc \in Past => mutex[call[c].proc][call[c].kind] = c
  /\ \A p \in Procs, k \in Kinds :
       mutex[p][k] # "free" =>
         /\ call[mutex[p][k]].pc \in Past
         /\ call[mutex[p][k]].proc = p /\ call[mutex[p][k]].kind = k
         /\ memory[p][k] = None

\* An object is put within a request's time of the fetch of its value.
ObjectInv ==
  \A k \in Kinds :
    /\ object[k].fetched <= object[k].at /\ object[k].at <= now
    /\ object[k].fetched > 0 => object[k].at <= object[k].fetched + RequestTimeout

\* What is in memory has an age within the period, and what a process has fetched
\* once it has.
MemoryInv ==
  \A p \in Procs, k \in Kinds :
    /\ memory[p][k] # None =>
         /\ memory[p][k].fetched > 0
         /\ memory[p][k].since < memory[p][k].fetched + CacheTime + RequestTimeout
    /\ fetches[p][k] <= 1
    /\ fetches[p][k] = 1 => memory[p][k] # None

CacheInv == CacheTypes /\ CallInv /\ MutexInv /\ ObjectInv /\ MemoryInv

\* A process starts with nothing in memory and nobody in line.
LEMMA InitCache == Init => CacheInv
<1> SUFFICES ASSUME Init PROVE CacheInv
  OBVIOUS
<1>1. CacheTypes
  BY CachingAssumption DEF Init, CacheTypes, Held, Standing, None, NoCall, Kinds
<1>2. \A c \in Calls : call[c].pc = "idle"
  BY DEF Init, NoCall
<1>3. CallInv /\ MutexInv
  BY <1>2 DEF Init, CallInv, MutexInv, Past
<1>4. ObjectInv /\ MemoryInv
  BY DEF Init, ObjectInv, MemoryInv
<1>5. QED
  BY <1>1, <1>3, <1>4 DEF CacheInv

\* The record of a request that goes on to the assets.
LEMMA GoesOn ==
  ASSUME NEW r \in Standing
  PROVE  LET q == [r EXCEPT !.pc = "lock", !.kind = "assets", !.value = None]
         IN  q \in Standing /\ q.pc = "lock" /\ q.proc = r.proc /\ q.start = r.start
<1>1. "assets" \in Kinds /\ None \in [fetched : Nat]
  BY DEF Kinds, None
<1>2. QED
  BY <1>1 DEF Standing

\* A request that has been answered, or goes on from the list to the assets.
LEMMA Proceeds ==
  ASSUME CacheTypes, NEW c \in Calls, Proceed(c)
  PROVE  /\ call' \in [Calls -> Standing]
         /\ \A d \in Calls : d # c => call'[d] = call[d]
         /\ call'[c].pc \in {"idle", "lock"}
         /\ call'[c].pc = "lock" =>
              call'[c].proc = call[c].proc /\ call'[c].start = call[c].start
<1>1. call \in [Calls -> Standing]
  BY DEF CacheTypes
<1>2. CASE call[c].kind = "info"
  <2>1. call' = [call EXCEPT ![c] = [call[c] EXCEPT !.pc = "lock", !.kind = "assets",
                                                         !.value = None]]
    BY <1>1, <1>2 DEF Proceed
  <2>2. QED
    BY <1>1, <2>1, GoesOn
<1>3. CASE call[c].kind # "info"
  <2>1. call' = [call EXCEPT ![c] = NoCall] /\ NoCall \in Standing /\ NoCall.pc = "idle"
    BY <1>1, <1>3 DEF Proceed, Standing, Kinds, NoCall, None
  <2>2. QED
    BY <1>1, <2>1
<1>4. QED
  BY <1>2, <1>3

\* A new request waits for the mutex of the list.
LEMMA Begins ==
  ASSUME CacheTypes, NEW c \in Calls, NEW p \in Procs,
         GetAll(c, p)
  PROVE  /\ call' \in [Calls -> Standing]
         /\ \A d \in Calls : d # c => call'[d] = call[d]
         /\ call'[c].pc = "lock" /\ call'[c].proc = p /\ call'[c].start = now
<1> DEFINE q == [NoCall EXCEPT !.pc = "lock", !.proc = p, !.start = now]
<1>1. call \in [Calls -> Standing] /\ NoCall \in Standing /\ now \in Nat
  BY DEF CacheTypes, Standing, Kinds, NoCall, None
<1>2. q \in Standing /\ q.pc = "lock" /\ q.proc = p /\ q.start = now
  BY <1>1 DEF Standing
<1>3. call' = [call EXCEPT ![c] = q]
  BY DEF GetAll
<1> HIDE DEF q
<1>4. QED
  BY <1>1, <1>2, <1>3

\* A request answered without going on.
LEMMA Ends ==
  ASSUME CacheTypes, NEW c \in Calls, call' = [call EXCEPT ![c] = NoCall]
  PROVE  /\ call' \in [Calls -> Standing]
         /\ \A d \in Calls : d # c => call'[d] = call[d]
         /\ call'[c].pc = "idle"
BY DEF CacheTypes, Standing, Kinds, NoCall, None

\* What a step of request c does to the others, and to its own times.
LEMMA CallMoves ==
  ASSUME CacheInv, UNCHANGED now, NEW c \in Calls,
         \A d \in Calls : d # c => call'[d] = call[d],
         \/ call'[c].pc = "idle"
         \/ /\ call[c].pc # "idle" /\ call'[c].pc # "put"
            /\ call'[c].proc = call[c].proc /\ call'[c].start = call[c].start
         \/ call'[c].pc = "lock" /\ call'[c].proc \in Procs /\ call'[c].start = now
  PROVE  CallInv'
<1>1. now \in Nat /\ 0 < now
  BY CachingAssumption DEF CacheInv, CacheTypes
<1> SUFFICES ASSUME NEW d \in Calls
             PROVE  /\ call'[d].pc # "idle" =>
                         /\ call'[d].proc \in Procs
                         /\ 0 < call'[d].start /\ call'[d].start <= now
                    /\ call'[d].pc = "put" =>
                         /\ call'[d].start <= call'[d].value.fetched
                         /\ call'[d].value.fetched <= now
  BY DEF CallInv
<1>2. CASE d = c
  BY <1>1, <1>2 DEF CacheInv, CallInv
<1>3. CASE d # c
  BY <1>3 DEF CacheInv, CallInv
<1>4. QED
  BY <1>2, <1>3

\* A request past a mutex releases it, and only the value under it may change.
LEMMA Released ==
  ASSUME CacheInv, NEW c \in Calls, call[c].pc \in Past, Unlock(c),
         \A d \in Calls : d # c => call'[d] = call[d], call'[c].pc \in {"idle", "lock"},
         \A p \in Procs, k \in Kinds :
           p # call[c].proc \/ k # call[c].kind => memory'[p][k] = memory[p][k]
  PROVE  /\ mutex' \in [Procs -> [Kinds -> Calls \cup {"free"}]]
         /\ MutexInv'
<1> DEFINE p0 == call[c].proc
           k0 == call[c].kind
<1>1. /\ mutex \in [Procs -> [Kinds -> Calls \cup {"free"}]] /\ call \in [Calls -> Standing]
      /\ p0 \in Procs /\ k0 \in Kinds /\ mutex[p0][k0] = c
  BY DEF CacheInv, CacheTypes, CallInv, MutexInv, Past, Standing
<1>2. /\ mutex' \in [Procs -> [Kinds -> Calls \cup {"free"}]] /\ mutex'[p0][k0] = "free"
      /\ \A p \in Procs, k \in Kinds : p # p0 \/ k # k0 => mutex'[p][k] = mutex[p][k]
  BY <1>1 DEF Unlock
<1>3. ASSUME NEW d \in Calls, call'[d].pc \in Past
      PROVE  mutex'[call'[d].proc][call'[d].kind] = d
  <2>1. d # c /\ call'[d] = call[d] /\ call[d].pc \in Past
    BY <1>3 DEF Past
  <2>2. /\ mutex[call[d].proc][call[d].kind] = d
        /\ call[d].proc \in Procs /\ call[d].kind \in Kinds
    BY <1>1, <2>1 DEF CacheInv, MutexInv, CallInv, Past, Standing
  <2>3. QED
    BY <1>1, <1>2, <2>1, <2>2
<1>4. ASSUME NEW p \in Procs, NEW k \in Kinds, mutex'[p][k] # "free"
      PROVE  /\ call'[mutex'[p][k]].pc \in Past
             /\ call'[mutex'[p][k]].proc = p /\ call'[mutex'[p][k]].kind = k
             /\ memory'[p][k] = None
  <2>1. p # p0 \/ k # k0
    BY <1>2, <1>4
  <2>2. mutex'[p][k] = mutex[p][k] /\ memory'[p][k] = memory[p][k]
    BY <1>2, <2>1
  <2>3. /\ call[mutex[p][k]].pc \in Past
        /\ call[mutex[p][k]].proc = p /\ call[mutex[p][k]].kind = k
        /\ memory[p][k] = None
    BY <1>4, <2>2 DEF CacheInv, MutexInv
  <2>4. mutex[p][k] \in Calls /\ mutex[p][k] # c
    BY <1>1, <1>4, <2>1, <2>2, <2>3
  <2>5. QED
    BY <2>2, <2>3, <2>4
<1>5. QED
  BY <1>2, <1>3, <1>4 DEF MutexInv

\* A request that keeps its mutex, or has none, changes nothing of the others.
LEMMA MutexStays ==
  ASSUME CacheInv, NEW c \in Calls, UNCHANGED <<mutex, memory>>,
         \A d \in Calls : d # c => call'[d] = call[d],
         \/ call[c].pc \notin Past /\ call'[c].pc \notin Past
         \/ /\ call[c].pc \in Past /\ call'[c].pc \in Past
            /\ call'[c].proc = call[c].proc /\ call'[c].kind = call[c].kind
  PROVE  MutexInv'
<1>1. ASSUME NEW p \in Procs, NEW k \in Kinds, mutex[p][k] # "free"
      PROVE  mutex[p][k] \in Calls
  BY <1>1 DEF CacheInv, CacheTypes
<1>2. QED
  BY <1>1 DEF CacheInv, MutexInv

\* What is kept was fetched within the period, so the age of the memory is bounded.
LEMMA Kept ==
  ASSUME CacheInv, NEW c \in Calls, call[c].pc \in Past, NEW v, Keep(c, v),
         v.fetched \in Nat, 0 < v.fetched, now < v.fetched + CacheTime + RequestTimeout,
         \/ fetches' = fetches
         \/ fetches' = [fetches EXCEPT ![call[c].proc][call[c].kind] = @ + 1]
  PROVE  /\ memory' \in [Procs -> [Kinds -> Held]]
         /\ fetches' \in [Procs -> [Kinds -> Nat]]
         /\ MemoryInv'
         /\ \A p \in Procs, k \in Kinds :
              p # call[c].proc \/ k # call[c].kind => memory'[p][k] = memory[p][k]
<1> DEFINE p0 == call[c].proc
           k0 == call[c].kind
           new == [fetched |-> v.fetched, since |-> now]
<1>1. /\ memory \in [Procs -> [Kinds -> Held]] /\ fetches \in [Procs -> [Kinds -> Nat]]
      /\ call \in [Calls -> Standing] /\ p0 \in Procs /\ k0 \in Kinds
      /\ mutex[p0][k0] = c /\ c # "free" /\ now \in Nat
  BY CachingAssumption DEF CacheInv, CacheTypes, CallInv, MutexInv, Past, Standing
<1>2. memory[p0][k0] = None /\ fetches[p0][k0] = 0
  <2>1. memory[p0][k0] = None
    BY <1>1 DEF CacheInv, MutexInv
  <2>2. fetches[p0][k0] \in Nat /\ fetches[p0][k0] <= 1 /\ fetches[p0][k0] # 1
    BY <1>1, <2>1 DEF CacheInv, MemoryInv
  <2>3. QED
    BY <2>1, <2>2
<1>3. /\ new.fetched = v.fetched /\ new.since = now /\ new # None /\ new \in Held
  BY <1>1 DEF None, Held
<1> HIDE DEF new
<1>4. memory' = [memory EXCEPT ![p0][k0] = new]
  BY DEF Keep, new
<1>5. /\ memory' \in [Procs -> [Kinds -> Held]] /\ memory'[p0][k0] = new
      /\ \A p \in Procs, k \in Kinds : p # p0 \/ k # k0 => memory'[p][k] = memory[p][k]
  BY <1>1, <1>3, <1>4
<1>6. /\ fetches' \in [Procs -> [Kinds -> Nat]] /\ fetches'[p0][k0] \in {0, 1}
      /\ \A p \in Procs, k \in Kinds : p # p0 \/ k # k0 => fetches'[p][k] = fetches[p][k]
  <2>1. CASE fetches' = fetches
    BY <1>1, <1>2, <2>1
  <2>2. CASE fetches' = [fetches EXCEPT ![p0][k0] = @ + 1]
    BY <1>1, <1>2, <2>2
  <2>3. QED
    BY <2>1, <2>2
<1>7. MemoryInv'
  <2> SUFFICES ASSUME NEW p \in Procs, NEW k \in Kinds
               PROVE  /\ memory'[p][k] # None =>
                           /\ memory'[p][k].fetched > 0
                           /\ memory'[p][k].since
                                < memory'[p][k].fetched + CacheTime + RequestTimeout
                      /\ fetches'[p][k] <= 1
                      /\ fetches'[p][k] = 1 => memory'[p][k] # None
    BY DEF MemoryInv
  <2>1. CASE p = p0 /\ k = k0
    BY <1>1, <1>3, <1>5, <1>6, <2>1
  <2>2. CASE p # p0 \/ k # k0
    BY <1>5, <1>6, <2>2 DEF CacheInv, MemoryInv
  <2>3. QED
    BY <2>1, <2>2
<1>8. QED
  BY <1>5, <1>6, <1>7

\* Every step keeps the invariant.
LEMMA StepCache == CacheInv /\ [Next]_vars => CacheInv'
<1> SUFFICES ASSUME CacheInv, [Next]_vars PROVE CacheInv'
  OBVIOUS
<1> USE DEF CacheInv
<1>0. /\ now \in Nat /\ 0 < now /\ "free" \notin Calls
      /\ call \in [Calls -> Standing] /\ CacheTime \in Nat /\ 0 < CacheTime
      /\ RequestTimeout \in Nat
  BY CachingAssumption DEF CacheTypes
<1>1. ASSUME NEW c \in Calls, NEW p \in Procs,
             GetAll(c, p)
      PROVE  CacheInv'
  <2>1. /\ call' \in [Calls -> Standing]
        /\ \A d \in Calls : d # c => call'[d] = call[d]
        /\ call'[c].pc = "lock" /\ call'[c].proc = p /\ call'[c].start = now
    BY <1>1, Begins
  <2>2. /\ call[c].pc = "idle" /\ UNCHANGED <<now, memory, mutex, object, fetches>>
    BY <1>1 DEF GetAll
  <2>3. CallInv' /\ MutexInv'
    BY <2>1, <2>2, CallMoves, MutexStays DEF Past
  <2>4. QED
    BY <2>1, <2>2, <2>3 DEF CacheTypes, ObjectInv, MemoryInv
<1>2. ASSUME NEW c \in Calls, Lock(c) PROVE CacheInv'
  <2> DEFINE p == call[c].proc
             k == call[c].kind
  <2>1. /\ call[c].pc = "lock" /\ mutex[p][k] = "free" /\ p \in Procs /\ k \in Kinds
        /\ UNCHANGED <<now, memory, object, fetches>>
    BY <1>0, <1>2 DEF Lock, CallInv, Standing
  <2>2. CASE Proceed(c) /\ UNCHANGED mutex
    <3>1. CallInv' /\ MutexInv' /\ call' \in [Calls -> Standing]
      BY <2>1, <2>2, Proceeds, CallMoves, MutexStays DEF Past
    <3>2. QED
      BY <2>1, <2>2, <3>1 DEF CacheTypes, ObjectInv, MemoryInv
  <2>3. CASE /\ memory[p][k] = None /\ mutex' = [mutex EXCEPT ![p][k] = c]
             /\ call' = [call EXCEPT ![c].pc = "get"]
    <3>1. /\ call' \in [Calls -> Standing] /\ call'[c].pc = "get" /\ call'[c].proc = p
          /\ call'[c].kind = k /\ call'[c].start = call[c].start
          /\ \A d \in Calls : d # c => call'[d] = call[d]
      BY <1>0, <2>3 DEF Standing
    <3>2. CallInv'
      BY <2>1, <3>1, CallMoves
    <3>3. /\ mutex' \in [Procs -> [Kinds -> Calls \cup {"free"}]] /\ mutex'[p][k] = c
          /\ \A q \in Procs, l \in Kinds : q # p \/ l # k => mutex'[q][l] = mutex[q][l]
      BY <2>1, <2>3 DEF CacheTypes
    <3>4. ASSUME NEW d \in Calls, call'[d].pc \in Past
          PROVE  mutex'[call'[d].proc][call'[d].kind] = d
      <4>1. CASE d = c
        BY <3>1, <3>3, <4>1
      <4>2. CASE d # c
        <5>1. /\ mutex[call[d].proc][call[d].kind] = d
              /\ call[d].proc \in Procs /\ call[d].kind \in Kinds
          BY <1>0, <3>1, <3>4, <4>2 DEF MutexInv, CallInv, Past, Standing
        <5>2. call[d].proc # p \/ call[d].kind # k
          BY <1>0, <2>1, <5>1
        <5>3. QED
          BY <3>1, <3>3, <4>2, <5>1, <5>2
      <4>3. QED
        BY <4>1, <4>2
    <3>5. ASSUME NEW q \in Procs, NEW l \in Kinds, mutex'[q][l] # "free"
          PROVE  /\ call'[mutex'[q][l]].pc \in Past
                 /\ call'[mutex'[q][l]].proc = q /\ call'[mutex'[q][l]].kind = l
                 /\ memory'[q][l] = None
      <4>1. CASE q = p /\ l = k
        BY <2>1, <2>3, <3>1, <3>3, <4>1 DEF Past
      <4>2. CASE q # p \/ l # k
        <5>1. mutex'[q][l] = mutex[q][l] /\ mutex[q][l] \in Calls
          BY <3>3, <3>5, <4>2 DEF CacheTypes
        <5>2. /\ call[mutex[q][l]].pc \in Past /\ call[mutex[q][l]].proc = q
              /\ call[mutex[q][l]].kind = l /\ memory[q][l] = None
          BY <3>5, <5>1 DEF MutexInv
        <5>3. mutex[q][l] # c
          BY <2>1, <5>2 DEF Past
        <5>4. QED
          BY <2>1, <3>1, <5>1, <5>2, <5>3
      <4>3. QED
        BY <4>1, <4>2
    <3>6. QED
      BY <2>1, <3>1, <3>2, <3>3, <3>4, <3>5 DEF CacheTypes, MutexInv, ObjectInv, MemoryInv
  <2>4. QED
    BY <1>2, <2>2, <2>3 DEF Lock
\* Past the mutex: what a step owes that keeps a value, or releases with nothing.
<1>3. ASSUME NEW c \in Calls, call[c].pc \in Past
      PROVE  /\ call[c].proc \in Procs /\ call[c].kind \in Kinds
             /\ 0 < call[c].start /\ call[c].start <= now
  BY <1>0, <1>3 DEF CallInv, Past, Standing
<1>4. ASSUME NEW c \in Calls, call[c].pc \in Past, NEW v, Keep(c, v), v.fetched \in Nat,
             0 < v.fetched, now < v.fetched + CacheTime + RequestTimeout, UNCHANGED now,
             \/ fetches' = fetches
             \/ fetches' = [fetches EXCEPT ![call[c].proc][call[c].kind] = @ + 1],
             object' \in [Kinds -> [fetched : Nat, at : Nat]], ObjectInv'
      PROVE  CacheInv'
  <2>1. /\ memory' \in [Procs -> [Kinds -> Held]] /\ fetches' \in [Procs -> [Kinds -> Nat]]
        /\ MemoryInv'
        /\ \A p \in Procs, k \in Kinds :
             p # call[c].proc \/ k # call[c].kind => memory'[p][k] = memory[p][k]
    BY <1>4, Kept
  <2>2. /\ call' \in [Calls -> Standing]
        /\ \A d \in Calls : d # c => call'[d] = call[d]
        /\ call'[c].pc \in {"idle", "lock"}
        /\ call'[c].pc = "lock" =>
             call'[c].proc = call[c].proc /\ call'[c].start = call[c].start
    BY <1>4, Proceeds DEF Keep
  <2>3. CallInv'
    BY <1>4, <2>2, CallMoves DEF Past
  <2>4. mutex' \in [Procs -> [Kinds -> Calls \cup {"free"}]] /\ MutexInv'
    BY <1>4, <2>1, <2>2, Released DEF Keep
  <2>5. QED
    BY <1>4, <2>1, <2>2, <2>3, <2>4 DEF CacheTypes
<1>5. ASSUME NEW c \in Calls, call[c].pc \in Past, Unlock(c),
             call' = [call EXCEPT ![c] = NoCall], UNCHANGED <<now, memory, fetches>>,
             object' \in [Kinds -> [fetched : Nat, at : Nat]], ObjectInv'
      PROVE  CacheInv'
  <2>1. /\ call' \in [Calls -> Standing]
        /\ \A d \in Calls : d # c => call'[d] = call[d]
        /\ call'[c].pc = "idle"
    BY <1>5, Ends
  <2>2. CallInv'
    BY <1>5, <2>1, CallMoves
  <2>3. mutex' \in [Procs -> [Kinds -> Calls \cup {"free"}]] /\ MutexInv'
    BY <1>5, <2>1, Released
  <2>4. QED
    BY <1>5, <2>1, <2>2, <2>3 DEF CacheTypes, MemoryInv
<1>6. ASSUME NEW c \in Calls, GetObject(c) PROVE CacheInv'
  <2>1. call[c].pc = "get" /\ UNCHANGED <<now, object, fetches>>
    BY <1>6 DEF GetObject
  <2>2. object' \in [Kinds -> [fetched : Nat, at : Nat]] /\ ObjectInv'
    BY <2>1 DEF CacheTypes, ObjectInv
  <2>3. CASE IsModified(call[c].kind) /\ Keep(c, object[call[c].kind])
    <3>1. /\ object[call[c].kind] \in [fetched : Nat, at : Nat]
          /\ object[call[c].kind].at <= object[call[c].kind].fetched + RequestTimeout
      BY <1>3, <2>1, <2>3 DEF IsModified, CacheTypes, ObjectInv, Past
    <3>2. /\ object[call[c].kind].fetched \in Nat /\ 0 < object[call[c].kind].fetched
          /\ now < object[call[c].kind].fetched + CacheTime + RequestTimeout
      BY <1>0, <2>3, <3>1 DEF IsModified
    <3>3. QED
      BY <1>4, <2>1, <2>2, <2>3, <3>2 DEF Past
  <2>4. CASE call' = [call EXCEPT ![c].pc = "fetch"] /\ UNCHANGED <<memory, mutex>>
    <3>1. /\ call' \in [Calls -> Standing] /\ call'[c].pc = "fetch"
          /\ call'[c].proc = call[c].proc /\ call'[c].kind = call[c].kind
          /\ call'[c].start = call[c].start
          /\ \A d \in Calls : d # c => call'[d] = call[d]
      BY <1>0, <2>4 DEF Standing
    <3>2. CallInv' /\ MutexInv'
      BY <2>1, <2>4, <3>1, CallMoves, MutexStays DEF Past
    <3>3. QED
      BY <2>1, <2>2, <2>4, <3>1, <3>2 DEF CacheTypes, MemoryInv
  <2>5. QED
    BY <1>6, <2>3, <2>4 DEF GetObject
<1>7. ASSUME NEW c \in Calls, FetchLinkedData(c) PROVE CacheInv'
  <2>1. /\ call[c].pc = "fetch"
        /\ call' = [call EXCEPT ![c] = [call[c] EXCEPT !.pc = "put",
                                          !.value = [fetched |-> now]]]
        /\ UNCHANGED <<now, memory, mutex, object, fetches>>
    BY <1>0, <1>7 DEF FetchLinkedData
  <2> DEFINE q == [call[c] EXCEPT !.pc = "put", !.value = [fetched |-> now]]
  <2>2. /\ q \in Standing /\ q.pc = "put" /\ q.proc = call[c].proc /\ q.kind = call[c].kind
        /\ q.start = call[c].start /\ q.value = [fetched |-> now]
    BY <1>0 DEF Standing
  <2> HIDE DEF q
  <2>3. /\ call' \in [Calls -> Standing] /\ call'[c] = q
        /\ \A d \in Calls : d # c => call'[d] = call[d]
    BY <1>0, <2>1, <2>2 DEF q
  <2>4. CallInv'
    <3>1. q.value.fetched = now
      BY <2>2
    <3>2. /\ call[c].proc \in Procs
          /\ 0 < call[c].start /\ call[c].start <= now
      BY <1>3, <2>1 DEF Past
    <3>3. QED
      BY <1>0, <2>1, <2>2, <2>3, <3>1, <3>2 DEF CallInv
  <2>5. MutexInv'
    BY <2>1, <2>2, <2>3, MutexStays DEF Past
  <2>6. QED
    BY <2>1, <2>3, <2>4, <2>5 DEF CacheTypes, ObjectInv, MemoryInv
<1>8. ASSUME NEW c \in Calls, PutObject(c) PROVE CacheInv'
  <2> DEFINE k == call[c].kind
             v == call[c].value
  <2>1. /\ call[c].pc = "put" /\ UNCHANGED now
        /\ object' = [object EXCEPT ![k] = [fetched |-> v.fetched, at |-> now]]
    BY <1>8 DEF PutObject
  <2>2. /\ v.fetched \in Nat /\ 0 < v.fetched /\ v.fetched <= now /\ now <= v.fetched + RequestTimeout
        /\ k \in Kinds
    <3>1. call[c] \in Standing
      BY <1>0
    <3>2. v.fetched \in Nat /\ k \in Kinds /\ call[c].start \in Nat
      BY <3>1 DEF Standing
    <3>3. /\ 0 < call[c].start /\ call[c].start <= v.fetched /\ v.fetched <= now
          /\ now <= call[c].start + RequestTimeout
      BY <1>8, <2>1 DEF CallInv, PutObject, InTime
    <3>4. QED
      BY <1>0, <3>2, <3>3
  <2>3. /\ object' \in [Kinds -> [fetched : Nat, at : Nat]]
        /\ object'[k] = [fetched |-> v.fetched, at |-> now]
        /\ \A l \in Kinds : l # k => object'[l] = object[l]
    BY <1>0, <2>1, <2>2 DEF CacheTypes
  <2>4. ObjectInv'
    BY <1>0, <2>1, <2>2, <2>3 DEF ObjectInv
  <2>5. CASE Keep(c, v) /\ fetches' = [fetches EXCEPT ![call[c].proc][k] = @ + 1]
    <3>1. now < v.fetched + CacheTime + RequestTimeout
      BY <1>0, <2>2
    <3>2. QED
      BY <1>4, <2>1, <2>2, <2>3, <2>4, <2>5, <3>1 DEF Past
  <2>6. CASE /\ Unlock(c) /\ call' = [call EXCEPT ![c] = NoCall]
             /\ UNCHANGED <<memory, fetches>>
    BY <1>5, <2>1, <2>3, <2>4, <2>6 DEF Past
  <2>7. QED
    BY <1>8, <2>5, <2>6 DEF PutObject
<1>9. ASSUME NEW c \in Calls, Fails(c) PROVE CacheInv'
  <2>1. /\ call[c].pc \in Past /\ Unlock(c) /\ call' = [call EXCEPT ![c] = NoCall]
        /\ UNCHANGED <<now, memory, object, fetches>>
    BY <1>9 DEF Fails, Failing, Past
  <2>2. object' \in [Kinds -> [fetched : Nat, at : Nat]] /\ ObjectInv'
    BY <2>1 DEF CacheTypes, ObjectInv
  <2>3. QED
    BY <1>5, <2>1, <2>2
<1>10. ASSUME NEW p \in Procs, Restart(p) PROVE CacheInv'
  <2>1. /\ memory' = [memory EXCEPT ![p] = [k \in Kinds |-> None]]
        /\ mutex' = [mutex EXCEPT ![p] = [k \in Kinds |-> "free"]]
        /\ call' = [c \in Calls |-> IF call[c].proc = p THEN NoCall ELSE call[c]]
        /\ fetches' = [fetches EXCEPT ![p] = [k \in Kinds |-> 0]]
        /\ UNCHANGED <<now, object>>
    BY <1>10 DEF Restart
  <2>2. NoCall \in Standing /\ NoCall.pc = "idle"
    BY DEF NoCall, Standing, Kinds, None
  <2>3. /\ call' \in [Calls -> Standing]
        /\ \A c \in Calls : IF call[c].proc = p THEN call'[c].pc = "idle"
                                                ELSE call'[c] = call[c]
    BY <1>0, <2>1, <2>2
  <2>4. CacheTypes'
    BY <1>0, <2>1, <2>3 DEF CacheTypes, Held
  <2>5. CallInv'
    BY <2>1, <2>3 DEF CallInv
  <2>6. /\ \A k \in Kinds : /\ mutex'[p][k] = "free" /\ memory'[p][k] = None
                            /\ fetches'[p][k] = 0
        /\ \A q \in Procs : q # p => /\ mutex'[q] = mutex[q] /\ memory'[q] = memory[q]
                                     /\ fetches'[q] = fetches[q]
    BY <2>1 DEF CacheTypes
  <2>7. ASSUME NEW c \in Calls, call'[c].pc \in Past
        PROVE  mutex'[call'[c].proc][call'[c].kind] = c
    <3>1. call'[c] = call[c] /\ call[c].proc # p /\ call[c].proc \in Procs
      BY <2>3, <2>7 DEF Past, CallInv
    <3>2. QED
      BY <2>6, <2>7, <3>1 DEF MutexInv
  <2>8. ASSUME NEW q \in Procs, NEW k \in Kinds, mutex'[q][k] # "free"
        PROVE  /\ call'[mutex'[q][k]].pc \in Past
               /\ call'[mutex'[q][k]].proc = q /\ call'[mutex'[q][k]].kind = k
               /\ memory'[q][k] = None
    <3>1. q # p /\ mutex'[q] = mutex[q] /\ memory'[q] = memory[q] /\ mutex[q][k] \in Calls
      BY <2>6, <2>8 DEF CacheTypes
    <3>2. call'[mutex[q][k]] = call[mutex[q][k]]
      BY <2>3, <2>8, <3>1 DEF MutexInv
    <3>3. QED
      BY <2>8, <3>1, <3>2 DEF MutexInv
  <2>9. ObjectInv' /\ MemoryInv'
    BY <2>1, <2>6 DEF ObjectInv, MemoryInv
  <2>10. QED
    BY <2>4, <2>5, <2>7, <2>8, <2>9 DEF MutexInv
<1>11. CASE Tick
  <2>1. /\ now < MaxNow /\ now' = now + 1
        /\ UNCHANGED <<memory, mutex, object, call, fetches>>
    BY <1>11 DEF Tick
  <2>2. CacheTypes'
    BY <1>0, <2>1, CachingAssumption DEF CacheTypes
  <2>3. ObjectInv' /\ MemoryInv' /\ MutexInv'
    BY <1>0, <2>1 DEF ObjectInv, MemoryInv, MutexInv, CacheTypes
  <2>4. CallInv'
    <3>1. \A c \in Calls : call[c].value.fetched \in Nat /\ call[c].start \in Nat
      BY <1>0 DEF Standing
    <3>2. QED
      BY <1>0, <2>1, <3>1 DEF CallInv
  <2>5. QED
    BY <2>2, <2>3, <2>4
<1>12. CASE UNCHANGED vars
  BY <1>12 DEF vars, CacheTypes, CallInv, MutexInv, ObjectInv, MemoryInv
<1>13. QED
  BY <1>1, <1>2, <1>6, <1>7, <1>8, <1>9, <1>10, <1>11, <1>12 DEF Next, Step

\* All the invariants of the caches.
LEMMA CacheInvariant == Spec => []CacheInv
BY InitCache, StepCache, PTL DEF Spec

\* Every reachable state has the declared types, a mutex names the request that
\* holds it, and no object was put before its value was fetched.
THEOREM TypeCorrect == Spec => []TypeOK
<1>1. CacheInv => TypeOK
  BY DEF CacheInv, CacheTypes, CallInv, MutexInv, ObjectInv, TypeOK, Standing
<1>2. QED
  BY <1>1, CacheInvariant, PTL

\* What a process has in memory came from iRacing less than the period and a request's
\* time before it took it, however time passes and whichever process put the object last.
THEOREM AgeBoundedHolds == Spec => []AgeBounded
<1>1. CacheInv => AgeBounded
  BY DEF CacheInv, MemoryInv, AgeBounded
<1>2. QED
  BY <1>1, CacheInvariant, PTL

\* A process fetches and stores a kind at most once, however many requests wait.
THEOREM StoredOnceHolds == Spec => []StoredOnce
<1>1. CacheInv => StoredOnce
  BY DEF CacheInv, MemoryInv, StoredOnce
<1>2. QED
  BY <1>1, CacheInvariant, PTL

\* iracing/memory_call_cache.go: who waits for a mutex that is held waits for a request
\* that is in a call of S3 or iRacing, never for another that waits.
WaitsForCalls ==
  \A c \in Calls :
    LET holder == mutex[call[c].proc][call[c].kind] IN
    call[c].pc = "lock" => \/ holder = "free"
                           \/ holder \in Calls \ {c} /\ call[holder].pc \in Past

\* The requests of a process do not block each other for good, however many there are
\* and however they fail.
THEOREM WaitsForCallsHolds == Spec => []WaitsForCalls
<1>1. ASSUME CacheInv PROVE WaitsForCalls
  <2> SUFFICES ASSUME NEW c \in Calls, call[c].pc = "lock",
                      mutex[call[c].proc][call[c].kind] # "free"
               PROVE  /\ mutex[call[c].proc][call[c].kind] \in Calls \ {c}
                      /\ call[mutex[call[c].proc][call[c].kind]].pc \in Past
    BY DEF WaitsForCalls
  <2>1. call[c].proc \in Procs /\ call[c].kind \in Kinds
    BY <1>1 DEF CacheInv, CallInv, CacheTypes, Standing
  <2>2. QED
    BY <1>1, <2>1 DEF CacheInv, CacheTypes, MutexInv, Past, Standing
<1>2. QED
  BY <1>1, CacheInvariant, PTL

\* The steps a request has left at most: four for a kind, the info before the assets.
Left(c) ==
  IF call[c].pc = "idle" THEN 0
  ELSE (IF call[c].kind = "info" THEN 4 ELSE 0)
       + CASE call[c].pc = "lock" -> 4 [] call[c].pc = "get" -> 3
           [] call[c].pc = "fetch" -> 2 [] OTHER -> 1

\* iracing/memory_call_cache.go, global_info_caching_client.go: a step of a request
\* brings its answer nearer, and nobody else's step takes it further away.
AnswerNears ==
  \A c \in Calls :
    /\ call[c].pc # "idle" => Left(c)' <= Left(c)
    /\ Step(c) => Left(c)' < Left(c)

\* A step of call d changes no other call.
LEMMA StepIsOwn ==
  ASSUME CacheInv, NEW d \in Calls, Step(d)
  PROVE  /\ \A c \in Calls : c # d => call'[c] = call[c]
         /\ Left(d)' < Left(d)
<1>1. call[d] \in Standing /\ DOMAIN call = Calls
  BY DEF CacheInv, CacheTypes
<1>2. call[d].kind \in Kinds
  BY <1>1 DEF Standing
<1>3. ASSUME NEW pc, call' = [call EXCEPT ![d].pc = pc]
      PROVE  /\ \A c \in Calls : c # d => call'[c] = call[c]
             /\ call'[d].pc = pc /\ call'[d].kind = call[d].kind
  BY <1>1, <1>3 DEF Standing
<1>4. ASSUME call' = [call EXCEPT ![d] = NoCall]
      PROVE  /\ \A c \in Calls : c # d => call'[c] = call[c]
             /\ call'[d].pc = "idle"
  BY <1>1, <1>4 DEF NoCall
<1>5. ASSUME Proceed(d)
      PROVE  /\ \A c \in Calls : c # d => call'[c] = call[c]
             /\ \/ call'[d].pc = "idle"
                \/ call[d].kind = "info" /\ call'[d].pc = "lock" /\ call'[d].kind = "assets"
  <2>1. CASE call[d].kind = "info"
    <3> DEFINE next == [call[d] EXCEPT !.pc = "lock", !.kind = "assets", !.value = None]
    <3>1. next.pc = "lock" /\ next.kind = "assets"
      BY <1>1 DEF Standing
    <3>2. call' = [call EXCEPT ![d] = next]
      BY <1>5, <2>1 DEF Proceed
    <3> HIDE DEF next
    <3>3. QED
      BY <1>1, <2>1, <3>1, <3>2
  <2>2. CASE call[d].kind # "info"
    <3>1. call' = [call EXCEPT ![d] = NoCall]
      BY <1>5, <2>2 DEF Proceed
    <3>2. QED
      BY <1>4, <3>1
  <2>3. QED
    BY <2>1, <2>2
<1>6. CASE Lock(d)
  <2>1. call[d].pc = "lock" /\ (Proceed(d) \/ call' = [call EXCEPT ![d].pc = "get"])
    BY <1>6 DEF Lock
  <2>2. QED
    BY <1>3, <1>5, <2>1 DEF Left
<1>7. CASE GetObject(d)
  <2>1. call[d].pc = "get" /\ (Proceed(d) \/ call' = [call EXCEPT ![d].pc = "fetch"])
    BY <1>7 DEF GetObject, Keep
  <2>2. QED
    BY <1>3, <1>5, <2>1 DEF Left
<1>8. CASE FetchLinkedData(d)
  <2>1. call[d].pc = "fetch"
    BY <1>8 DEF FetchLinkedData
  <2>2. /\ \A c \in Calls : c # d => call'[c] = call[c]
        /\ call'[d].pc = "put" /\ call'[d].kind = call[d].kind
    BY <1>1, <1>8 DEF FetchLinkedData, Standing
  <2>3. QED
    BY <2>1, <2>2 DEF Left
<1>9. CASE PutObject(d)
  <2>1. call[d].pc = "put" /\ (Proceed(d) \/ call' = [call EXCEPT ![d] = NoCall])
    BY <1>9 DEF PutObject, Keep
  <2>2. QED
    BY <1>4, <1>5, <2>1 DEF Left
<1>10. CASE Fails(d)
  <2>1. call[d].pc \in {"get", "fetch", "put"} /\ call' = [call EXCEPT ![d] = NoCall]
    BY <1>10 DEF Fails, Failing
  <2>2. QED
    BY <1>4, <2>1 DEF Left
<1>11. QED
  BY <1>6, <1>7, <1>8, <1>9, <1>10 DEF Step

\* With the calls returning and the mutexes fair, a request ends after at most eight
\* steps of its own, whatever the others do.
THEOREM AnswerNearsHolds == Spec => [][AnswerNears]_vars
<1>1. ASSUME CacheInv, [Next]_vars, ~UNCHANGED vars PROVE AnswerNears
  <2>1. \A c \in Calls : Step(c) => Left(c)' < Left(c)
    BY <1>1, StepIsOwn
  <2>2. ASSUME NEW c \in Calls, call[c].pc # "idle" PROVE Left(c)' <= Left(c)
    <3>1. call[c] \in Standing /\ DOMAIN call = Calls /\ Left(c) \in Nat
      BY <1>1 DEF CacheInv, CacheTypes, Left
    <3>2. CASE call'[c] = call[c]
      BY <3>1, <3>2 DEF Left
    <3>3. ASSUME NEW d \in Calls, Step(d) PROVE Left(c)' <= Left(c)
      <4>1. CASE c = d
        <5>1. Left(c)' < Left(c)
          BY <2>1, <3>3, <4>1
        <5>2. Left(c)' \in Nat
          BY DEF Left
        <5>3. QED
          BY <3>1, <5>1, <5>2
      <4>2. CASE c # d
        BY <1>1, <3>2, <3>3, <4>2, StepIsOwn
      <4>3. QED
        BY <4>1, <4>2
    <3>4. ASSUME NEW d \in Calls, NEW p \in Procs,
                 GetAll(d, p)
          PROVE  Left(c)' <= Left(c)
      <4>1. d # c
        BY <2>2, <3>4 DEF GetAll
      <4>2. call'[c] = call[c]
        BY <3>1, <3>4, <4>1 DEF GetAll
      <4>3. QED
        BY <3>2, <4>2
    <3>5. ASSUME NEW p \in Procs, Restart(p) PROVE Left(c)' <= Left(c)
      <4>1. call'[c] = NoCall \/ call'[c] = call[c]
        BY <3>5 DEF Restart
      <4>2. CASE call'[c] = NoCall
        BY <3>1, <4>2 DEF Left, NoCall
      <4>3. QED
        BY <3>2, <4>1, <4>2
    <3>6. CASE Tick
      BY <3>2, <3>6 DEF Tick
    <3>7. QED
      BY <1>1, <3>3, <3>4, <3>5, <3>6 DEF Next
  <2>3. QED
    BY <2>1, <2>2 DEF AnswerNears
<1>2. CacheInv /\ [Next]_vars => [AnswerNears]_vars
  BY <1>1
<1>3. QED
  BY <1>2, CacheInvariant, PTL DEF Spec
=============================================================================
