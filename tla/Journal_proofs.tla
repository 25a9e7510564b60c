--------------------------- MODULE Journal_proofs ---------------------------
(***************************************************************************)
(* Proofs about one driver's journal: any number of races, requests and    *)
(* failures, any page size and any limits of the table's calls.            *)
(***************************************************************************)
EXTENDS Journal, FiniteSetTheorems, TLAPS

----------------------------------------------------------------------------
(* The invariant.                                                          *)

CallFields == {"pc", "race", "text", "valid", "beside", "since"}
Key == [kind : {"journal", "session"}, race : Races]
JournalKey(r) == [kind |-> "journal", race |-> r]

CallOK(k) ==
  /\ DOMAIN k = CallFields
  /\ k.pc \in {"idle", "save", "back", "delete"}
  /\ k.pc # "idle" => k.race \in Races
  /\ k.pc = "save" => k.text # NoEntry
  /\ k.pc = "delete" => k.text = NoEntry

\* The shapes the steps rely on.
Shapes ==
  /\ requests \in Nat
  /\ DOMAIN session = Races /\ DOMAIN entry = Races /\ DOMAIN settled = Races
  /\ DOMAIN call = Calls
  /\ \A c \in Calls : CallOK(call[c])
  /\ DOMAIN reset = {"pc", "keys"} /\ reset.keys \subseteq Key
  /\ reset.pc = "idle" => reset.keys = {}
  /\ DOMAIN walk = {"pc", "page", "found", "expect", "seen"}
  /\ walk.page \in Nat /\ walk.expect \subseteq Races /\ walk.found \subseteq Races

\* Writes under way know of each other, and what one of them or of the deletion of
\* the races may still write is among what an entry may be.
WritesKnown ==
  /\ \A c, d \in Calls :
       ~Free(c) /\ ~Free(d) /\ call[c].race = call[d].race => call[d].text \in Left(call[c])
  /\ \A c \in Calls : ~Free(c) => call[c].text \in settled[call[c].race]
  /\ reset.pc # "idle" =>
       /\ \A r \in Races : NoEntry \in settled[r]
       /\ \A c \in Calls : ~Free(c) => NoEntry \in Left(call[c])

\* What a save finds that reads back: its text or that of a write beside it, and
\* what it wrote or another call made of it since.
SavedThere ==
  \A c \in Calls :
    call[c].pc = "back" =>
      /\ entry[call[c].race].new \in Left(call[c])
      /\ entry[call[c].race].new \in call[c].since

\* A save that may store an entry without an excuse has its race, and no deletion
\* of the races runs.
ValidHasRace ==
  \A c \in Calls : call[c].pc = "save" /\ call[c].valid =>
                     session[call[c].race].new /\ reset.pc = "idle"

\* The entry of a race that is to be deleted is to be deleted too, or excused.
EntriesFirst ==
  \A k \in reset.keys :
    k.kind = "session" /\ entry[k.race].new # NoEntry =>
      k.race \in excused \/ JournalKey(k.race) \in reset.keys

Entries == {r \in Races : entry[r].new # NoEntry}

\* The entries that are not seen yet come after the pages read so far.
Ahead(es) ==
  /\ walk.expect \subseteq es
  /\ \A r \in walk.expect : r \in walk.seen \/ Newer(es, r) >= First(walk.page)

WalkOK ==
  /\ walk.pc \in {"query", "join"} => walk.page # 0
  /\ Cardinality(Races) <= QueryRows =>
       /\ walk.pc \in {"query", "join"} => Ahead(Entries)
       /\ walk.pc = "join" => Ahead(walk.found) /\ walk.found \subseteq Entries
  /\ PagesSkipNothing

JournalInv ==
  /\ Shapes
  /\ WritesKnown /\ AnsweredWriteStays
  /\ SavedThere /\ SaveAnswersSaved
  /\ ValidHasRace /\ EntriesFirst /\ EntriesHaveRaces
  /\ WalkOK

----------------------------------------------------------------------------
(* What the actions make of the calls in flight.                           *)

\* Call d is as it was, whatever its read back may find.
Same(d) ==
  /\ DOMAIN call'[d] = CallFields
  /\ call'[d].pc = call[d].pc /\ call'[d].race = call[d].race
  /\ call'[d].text = call[d].text /\ call'[d].valid = call[d].valid
  /\ call'[d].beside = call[d].beside

Ended(c) == call'[c] = NoCall

LEMMA NoCallIs ==
  DOMAIN NoCall = CallFields /\ NoCall.pc = "idle"
BY DEF NoCall, CallFields

LEMMA LaterIs ==
  ASSUME Shapes, NEW rs, NEW v, NEW c \in Calls
  PROVE  LET d == Later(call, rs, v)[c]
         IN  /\ DOMAIN d = CallFields /\ d.pc = call[c].pc /\ d.race = call[c].race
             /\ d.text = call[c].text /\ d.valid = call[c].valid
             /\ d.beside = call[c].beside
             /\ call[c].since \subseteq d.since
             /\ call[c].pc = "back" /\ call[c].race \in rs => v \in d.since
<1> DEFINE s == call[c].since \cup {v}
<1>1. DOMAIN call[c] = CallFields
  BY DEF Shapes, CallOK
<1>2. Later(call, rs, v)[c] = IF call[c].pc = "back" /\ call[c].race \in rs
                              THEN [call[c] EXCEPT !.since = s] ELSE call[c]
  BY DEF Later
<1>3. call[c].since \subseteq s /\ v \in s
  OBVIOUS
<1> HIDE DEF s
<1>4. CASE call[c].pc = "back" /\ call[c].race \in rs
  BY <1>1, <1>2, <1>3, <1>4 DEF CallFields
<1>5. CASE ~(call[c].pc = "back" /\ call[c].race \in rs)
  BY <1>1, <1>2, <1>5
<1>6. QED
  BY <1>4, <1>5

\* A write begins and knows of those under way, as they of it.
LEMMA BeginsIs ==
  ASSUME Shapes, NEW c \in Calls, NEW r \in Races, NEW f, DOMAIN f = CallFields,
         Begins(c, r, f)
  PROVE  /\ DOMAIN call' = Calls
         /\ DOMAIN call'[c] = CallFields /\ call'[c].race = r
         /\ call'[c].pc = f.pc /\ call'[c].text = f.text /\ call'[c].valid = f.valid
         /\ \A d \in Writes(r) : call[d].text \in call'[c].beside
         /\ reset.pc # "idle" => NoEntry \in call'[c].beside
         /\ \A d \in Calls \ {c} :
              /\ DOMAIN call'[d] = CallFields
              /\ call'[d].pc = call[d].pc /\ call'[d].race = call[d].race
              /\ call'[d].text = call[d].text /\ call'[d].valid = call[d].valid
              /\ call'[d].since = call[d].since
              /\ Left(call[d]) \subseteq Left(call'[d])
              /\ d \in Writes(r) => f.text \in Left(call'[d])
         /\ DOMAIN settled' = Races /\ settled'[r] = settled[r] \cup {f.text}
         /\ \A x \in Races : x # r => settled'[x] = settled[x]
<1> DEFINE first == {call[y].text : y \in Writes(r)}
                      \cup IF reset.pc = "idle" THEN {} ELSE {NoEntry}
           more(d) == call[d].beside \cup {f.text}
<1>1. call' = [x \in Calls |->
                 IF x = c THEN [f EXCEPT !.race = r, !.beside = first]
                 ELSE IF x \in Writes(r) THEN [call[x] EXCEPT !.beside = more(x)]
                 ELSE call[x]]
  BY DEF Begins
<1>2. settled' = [settled EXCEPT ![r] = settled[r] \cup {f.text}]
  BY DEF Begins
<1>3. /\ \A d \in Writes(r) : call[d].text \in first
      /\ reset.pc # "idle" => NoEntry \in first
  OBVIOUS
<1> HIDE DEF first, more
<1>4. DOMAIN call' = Calls /\ call'[c] = [f EXCEPT !.race = r, !.beside = first]
  BY <1>1
<1>5. /\ DOMAIN call'[c] = CallFields /\ call'[c].race = r
      /\ call'[c].pc = f.pc /\ call'[c].text = f.text /\ call'[c].valid = f.valid
      /\ call'[c].beside = first
  BY <1>4 DEF CallFields
<1>6. ASSUME NEW d \in Calls \ {c}
      PROVE  /\ DOMAIN call'[d] = CallFields
             /\ call'[d].pc = call[d].pc /\ call'[d].race = call[d].race
             /\ call'[d].text = call[d].text /\ call'[d].valid = call[d].valid
             /\ call'[d].since = call[d].since
             /\ call'[d].beside = IF d \in Writes(r) THEN more(d) ELSE call[d].beside
  <2>1. DOMAIN call[d] = CallFields
    BY DEF Shapes, CallOK
  <2>2. CASE d \in Writes(r)
    <3>1. call'[d] = [call[d] EXCEPT !.beside = more(d)]
      BY <1>1, <2>2
    <3>2. QED
      BY <2>1, <2>2, <3>1 DEF CallFields
  <2>3. CASE d \notin Writes(r)
    BY <1>1, <2>1, <2>3
  <2>4. QED
    BY <2>2, <2>3
<1>7. ASSUME NEW d \in Calls \ {c}
      PROVE  /\ Left(call[d]) \subseteq Left(call'[d])
             /\ d \in Writes(r) => f.text \in Left(call'[d])
  BY <1>6 DEF Left, more
<1>8. /\ DOMAIN settled' = Races /\ settled'[r] = settled[r] \cup {f.text}
      /\ \A x \in Races : x # r => settled'[x] = settled[x]
  BY <1>2 DEF Shapes
<1>9. QED
  BY <1>3, <1>4, <1>5, <1>6, <1>7, <1>8

\* A call settles what the entry of its race may be.
LEMMA SettlesIs ==
  ASSUME Shapes, NEW c \in Calls, ~Free(c), Settles(c)
  PROVE  LET r == call[c].race
         IN  /\ DOMAIN settled' = Races
             /\ settled'[r] = settled[r] \cap Left(call[c])
             /\ \A x \in Races : x # r => settled'[x] = settled[x]
BY DEF Settles, Shapes, CallOK, Free

\* The update of an entry: the save goes on to read back, is repeated or fails.
LEMMA SaveIs ==
  ASSUME Shapes, NEW c \in Calls, SaveJournalEntry(c)
  PROVE  /\ DOMAIN call' = Calls
         /\ \A d \in Calls \ {c} : Same(d)
         /\ \/ /\ DOMAIN call'[c] = CallFields
               /\ call'[c].pc = "back" /\ call'[c].race = call[c].race
               /\ call'[c].text = call[c].text /\ call'[c].beside = call[c].beside
               /\ call'[c].since = {call[c].text}
            \/ Same(c)
            \/ Ended(c)
         /\ \A d \in Calls \ {c} :
              /\ call[d].since \subseteq call'[d].since
              /\ call[d].pc = "back" /\ call[d].race = call[c].race
                   => call[c].text \in call'[d].since
<1> DEFINE later == Later(call, {call[c].race}, call[c].text)
           u == [later[c] EXCEPT !.pc = "back", !.since = {call[c].text}]
<1>1. \A d \in Calls :
        /\ DOMAIN later[d] = CallFields /\ later[d].pc = call[d].pc
        /\ later[d].race = call[d].race
        /\ later[d].text = call[d].text /\ later[d].valid = call[d].valid
        /\ later[d].beside = call[d].beside
        /\ call[d].since \subseteq later[d].since
        /\ call[d].pc = "back" /\ call[d].race = call[c].race
             => call[c].text \in later[d].since
  BY LaterIs
<1>2. DOMAIN later = Calls
  BY DEF Later
<1>3. \/ call' = [later EXCEPT ![c].pc = "back", ![c].since = {call[c].text}]
      \/ call' = later
      \/ call' = [later EXCEPT ![c] = NoCall]
  BY DEF SaveJournalEntry
<1> HIDE DEF later
<1>4. CASE call' = [later EXCEPT ![c].pc = "back", ![c].since = {call[c].text}]
  <2>1. call' = [later EXCEPT ![c] = u]
    BY <1>1, <1>2, <1>4 DEF CallFields
  <2>2. /\ DOMAIN u = CallFields /\ u.pc = "back" /\ u.race = call[c].race
        /\ u.text = call[c].text /\ u.beside = call[c].beside /\ u.since = {call[c].text}
    BY <1>1 DEF CallFields
  <2> HIDE DEF u
  <2>3. /\ DOMAIN call' = Calls /\ call'[c] = u
        /\ \A d \in Calls \ {c} : call'[d] = later[d]
    BY <1>2, <2>1
  <2>4. QED
    BY <1>1, <2>2, <2>3 DEF Same
<1>5. CASE call' = later
  BY <1>1, <1>2, <1>5 DEF Same
<1>6. CASE call' = [later EXCEPT ![c] = NoCall]
  <2>1. /\ DOMAIN call' = Calls /\ call'[c] = NoCall
        /\ \A d \in Calls \ {c} : call'[d] = later[d]
    BY <1>2, <1>6
  <2>2. QED
    BY <1>1, <2>1 DEF Same, Ended
<1>7. QED
  BY <1>3, <1>4, <1>5, <1>6

\* A write that is repeated or ends, where every read back is told of it.
LEMMA EndsIs ==
  ASSUME Shapes, NEW c \in Calls, NEW rs, NEW v,
         call' \in {Later(call, rs, v), [Later(call, rs, v) EXCEPT ![c] = NoCall]}
  PROVE  /\ DOMAIN call' = Calls
         /\ \A d \in Calls \ {c} : Same(d)
         /\ Same(c) \/ Ended(c)
         /\ \A d \in Calls :
              ~Ended(d) => /\ call[d].since \subseteq call'[d].since
                           /\ call[d].pc = "back" /\ call[d].race \in rs
                                => v \in call'[d].since
<1> DEFINE later == Later(call, rs, v)
<1>1. \A d \in Calls :
        /\ DOMAIN later[d] = CallFields /\ later[d].pc = call[d].pc
        /\ later[d].race = call[d].race
        /\ later[d].text = call[d].text /\ later[d].valid = call[d].valid
        /\ later[d].beside = call[d].beside
        /\ call[d].since \subseteq later[d].since
        /\ call[d].pc = "back" /\ call[d].race \in rs => v \in later[d].since
  BY LaterIs
<1>2. DOMAIN later = Calls
  BY DEF Later
<1> HIDE DEF later
<1>3. call' = later \/ call' = [later EXCEPT ![c] = NoCall]
  BY DEF later
<1>4. /\ DOMAIN call' = Calls
      /\ \A d \in Calls : call'[d] = later[d] \/ (d = c /\ Ended(d))
  BY <1>2, <1>3 DEF Ended
<1>5. QED
  BY <1>1, <1>4 DEF Same

\* A call that ends alone.
LEMMA OnlyEnds ==
  ASSUME Shapes, NEW c \in Calls, call' = [call EXCEPT ![c] = NoCall]
  PROVE  /\ DOMAIN call' = Calls /\ Ended(c)
         /\ \A d \in Calls \ {c} : Same(d) /\ call'[d].since = call[d].since
BY DEF Shapes, CallOK, Same, Ended

----------------------------------------------------------------------------
(* The deletion of the races.                                              *)

SessionKey(r) == [kind |-> "session", race |-> r]

LEMMA KeyIs ==
  /\ \A r \in Races : JournalKey(r) \in Key /\ SessionKey(r) \in Key
  /\ \A r : JournalKey(r).kind = "journal" /\ JournalKey(r).race = r
  /\ \A r : SessionKey(r).kind = "session" /\ SessionKey(r).race = r
  /\ \A k \in Key : k = JournalKey(k.race) \/ k = SessionKey(k.race)
  /\ \A k \in Key : k.race \in Races
  /\ \A k \in Key : (k.kind = "journal" => k = JournalKey(k.race))
                    /\ (k.kind = "session" => k = SessionKey(k.race))
BY DEF Key, JournalKey, SessionKey

LEMMA RacesOfAre ==
  ASSUME NEW ks \in SUBSET Key, NEW r
  PROVE  /\ r \in RacesOf("journal", ks) <=> JournalKey(r) \in ks
         /\ r \in RacesOf("session", ks) <=> SessionKey(r) \in ks
BY KeyIs DEF RacesOf

LEMMA KeysFinite == \A ks \in SUBSET Key : IsFiniteSet(ks) /\ Cardinality(ks) \in Nat
<1> DEFINE js == {JournalKey(r) : r \in Races}
           ss == {SessionKey(r) : r \in Races}
<1>1. IsFiniteSet(js) /\ IsFiniteSet(ss)
  <2> DEFINE f == [r \in Races |-> JournalKey(r)]
             g == [r \in Races |-> SessionKey(r)]
  <2>1. f \in Surjection(Races, js) /\ g \in Surjection(Races, ss)
    BY DEF Surjection
  <2> HIDE DEF f, g, js, ss
  <2>2. QED
    BY <2>1, JournalAssumption, FS_Surjection
<1>2. Key \subseteq js \cup ss
  BY KeyIs
<1> HIDE DEF js, ss
<1>3. IsFiniteSet(js \cup ss)
  BY <1>1, FS_Union
<1>4. IsFiniteSet(Key)
  BY <1>2, <1>3, FS_Subset
<1>5. QED
  BY <1>4, FS_Subset, FS_CardinalityType

\* The first keys bring every key before them along.
LEMMA FirstKeysAre ==
  ASSUME NEW ks \in SUBSET Key, NEW n \in Nat
  PROVE  /\ FirstKeys(ks, n) \subseteq ks
         /\ \A k \in FirstKeys(ks, n) : \A l \in ks : Before(l, k) => l \in FirstKeys(ks, n)
<1>1. FirstKeys(ks, n) \subseteq ks
  BY DEF FirstKeys
<1>2. ASSUME NEW k \in FirstKeys(ks, n), NEW l \in ks, Before(l, k)
      PROVE  l \in FirstKeys(ks, n)
  <2> DEFINE before(x) == {y \in ks : Before(y, x)}
  <2>1. k \in Key /\ l \in Key
    BY <1>1
  <2>2. before(l) \subseteq before(k)
    <3> SUFFICES ASSUME NEW x \in ks, Before(x, l) PROVE Before(x, k)
      OBVIOUS
    <3>1. x.race \in Nat /\ l.race \in Nat /\ k.race \in Nat
      BY <2>1, KeyIs, JournalAssumption
    <3>2. QED
      BY <1>2, <3>1 DEF Before
  <2>3. before(k) \subseteq Key
    OBVIOUS
  <2>4. \A x \in ks : x \in FirstKeys(ks, n) <=> Cardinality(before(x)) < n
    BY DEF FirstKeys
  <2> HIDE DEF before
  <2>5. /\ Cardinality(before(l)) \in Nat /\ Cardinality(before(k)) \in Nat
        /\ Cardinality(before(l)) <= Cardinality(before(k))
    BY <2>2, <2>3, KeysFinite, FS_Subset
  <2>6. Cardinality(before(k)) < n
    BY <1>1, <2>4
  <2>7. QED
    BY <2>4, <2>5, <2>6
<1>3. QED
  BY <1>1, <1>2

\* Only found keys are to be deleted, and a race's row not without its entry's, if
\* that was found.
LEMMA KeysAre ==
  ASSUME NEW es \in SUBSET Races, NEW ss \in SUBSET Races
  PROVE  /\ KeysToDelete(es, ss) \subseteq Key
         /\ \A r : SessionKey(r) \in KeysToDelete(es, ss) =>
                   r \in ss /\ (r \in es => JournalKey(r) \in KeysToDelete(es, ss))
<1> DEFINE js == {JournalKey(r) : r \in es}
           ks == {SessionKey(r) : r \in ss}
           all == js \cup ks
<1>1. KeysToDelete(es, ss) = FirstKeys(all, QueryRows) /\ QueryRows \in Nat
  BY JournalAssumption DEF KeysToDelete, Keys, JournalKey, SessionKey
<1>2. all \subseteq Key
  BY KeyIs
<1>3. \A r \in es : JournalKey(r) \in all
  OBVIOUS
<1>4. \A r : SessionKey(r) \in all => r \in ss
  BY KeyIs
<1>5. \A r : Before(JournalKey(r), SessionKey(r))
  BY KeyIs DEF Before
<1> HIDE DEF all
<1>6. /\ FirstKeys(all, QueryRows) \subseteq all
      /\ \A k \in FirstKeys(all, QueryRows) : \A l \in all :
           Before(l, k) => l \in FirstKeys(all, QueryRows)
  BY <1>1, <1>2, FirstKeysAre
<1>7. QED
  BY <1>1, <1>2, <1>3, <1>4, <1>5, <1>6

\* No call is valid once the deletion has begun, and each knows of it.
LEMMA ResetBegins ==
  ASSUME Shapes, DeleteDriverRaces
  PROVE  /\ reset.pc = "idle" /\ reset'.pc = "batches" /\ DOMAIN reset' = {"pc", "keys"}
         /\ reset'.keys \subseteq Key
         /\ \A r \in Races : SessionKey(r) \in reset'.keys /\ entry[r].new # NoEntry =>
                               r \in excused' \/ JournalKey(r) \in reset'.keys
         /\ excused \subseteq excused'
         /\ DOMAIN call' = Calls
         /\ \A c \in Calls :
              /\ DOMAIN call'[c] = CallFields
              /\ call'[c].pc = call[c].pc /\ call'[c].race = call[c].race
              /\ call'[c].text = call[c].text /\ call'[c].since = call[c].since
              /\ Left(call[c]) \subseteq Left(call'[c])
              /\ ~Free(c) => ~call'[c].valid /\ NoEntry \in Left(call'[c])
         /\ DOMAIN settled' = Races
         /\ \A r \in Races : settled'[r] = settled[r] \cup {NoEntry}
         /\ requests \in Nat /\ requests' \in Nat
         /\ UNCHANGED <<session, entry, walk, misanswered>>
<1>1. PICK es \in SUBSET Races, ss \in SUBSET Races :
        /\ reset' = [pc |-> "batches", keys |-> KeysToDelete(es, ss)]
        /\ excused' = excused \cup {r \in Races : r \in ss \ es /\ entry[r].new # NoEntry}
  BY DEF DeleteDriverRaces
<1>2. /\ KeysToDelete(es, ss) \subseteq Key
      /\ \A r : SessionKey(r) \in KeysToDelete(es, ss) =>
                r \in ss /\ (r \in es => JournalKey(r) \in KeysToDelete(es, ss))
  BY KeysAre
<1>3. /\ reset'.pc = "batches" /\ DOMAIN reset' = {"pc", "keys"}
      /\ reset'.keys = KeysToDelete(es, ss)
  BY <1>1
<1> DEFINE more(c) == call[c].beside \cup {NoEntry}
<1>4. \A c \in Calls :
        call'[c] = IF Free(c) THEN call[c]
                   ELSE [call[c] EXCEPT !.valid = FALSE, !.beside = more(c)]
  BY DEF DeleteDriverRaces
<1> HIDE DEF more
<1>5. ASSUME NEW c \in Calls
      PROVE  /\ DOMAIN call'[c] = CallFields
             /\ call'[c].pc = call[c].pc /\ call'[c].race = call[c].race
             /\ call'[c].text = call[c].text /\ call'[c].since = call[c].since
             /\ Left(call[c]) \subseteq Left(call'[c])
             /\ ~Free(c) => ~call'[c].valid /\ NoEntry \in Left(call'[c])
  <2>1. DOMAIN call[c] = CallFields
    BY DEF Shapes, CallOK
  <2>2. CASE Free(c)
    <3>1. call'[c] = call[c]
      BY <1>4, <2>2
    <3>2. QED
      BY <2>1, <2>2, <3>1
  <2>3. CASE ~Free(c)
    <3>1. call'[c] = [call[c] EXCEPT !.valid = FALSE, !.beside = more(c)]
      BY <1>4, <2>3
    <3>2. /\ DOMAIN call'[c] = CallFields
          /\ call'[c].pc = call[c].pc /\ call'[c].race = call[c].race
          /\ call'[c].text = call[c].text /\ call'[c].since = call[c].since
          /\ ~call'[c].valid /\ call'[c].beside = more(c)
      BY <2>1, <3>1 DEF CallFields
    <3>3. QED
      BY <2>3, <3>2 DEF Left, more
  <2>4. QED
    BY <2>2, <2>3
<1>6. /\ DOMAIN call' = Calls /\ reset.pc = "idle"
      /\ DOMAIN settled' = Races
      /\ \A r \in Races : settled'[r] = settled[r] \cup {NoEntry}
      /\ UNCHANGED <<session, entry, walk, misanswered>>
  BY DEF DeleteDriverRaces
<1>7. requests \in Nat /\ requests' \in Nat
  <2>1. Request
    BY DEF DeleteDriverRaces
  <2>2. QED
    BY <2>1 DEF Request, Shapes
<1>8. QED
  BY <1>1, <1>2, <1>3, <1>5, <1>6, <1>7

\* What one call of BatchWriteItem leaves.
LEMMA BatchIs ==
  ASSUME Shapes, BatchDelete
  PROVE  \E gone \in SUBSET Batch :
           /\ reset.pc = "batches" /\ DOMAIN reset' = {"pc", "keys"}
           /\ \/ reset'.keys = {} /\ reset'.pc = "idle"
              \/ reset'.keys = reset.keys \ Batch /\ reset'.pc = "batches"
           /\ excused \subseteq excused'
           /\ \A k \in Batch \ gone : k.race \in excused'
           /\ DOMAIN entry' = Races /\ DOMAIN session' = Races
           /\ \A r \in Races :
                /\ entry'[r].new = IF JournalKey(r) \in gone THEN NoEntry ELSE entry[r].new
                /\ SessionKey(r) \notin gone => session'[r] = session[r]
           /\ DOMAIN call' = Calls
           /\ \A c \in Calls :
                /\ Same(c) /\ call[c].since \subseteq call'[c].since
                /\ call[c].pc = "back" /\ JournalKey(call[c].race) \in gone
                     => NoEntry \in call'[c].since
           /\ walk' = NoWalk \/ (walk' = walk /\ \A r \in Races : entry'[r] = entry[r])
           /\ misanswered' = misanswered
           /\ UNCHANGED <<requests, settled>>
<1>1. PICK gone \in SUBSET Batch :
        /\ \/ /\ gone = Batch
              /\ reset' = [reset EXCEPT !.keys = @ \ Batch]
              /\ UNCHANGED <<faults, excused, misanswered>>
           \/ /\ Fault("torn")
              /\ excused' = excused \cup {k.race : k \in Batch \ gone}
              /\ \/ reset' = NoReset
                 \/ reset' = [reset EXCEPT !.keys = @ \ Batch]
        /\ entry' = [r \in Races |-> IF r \in RacesOf("journal", gone)
                                     THEN Written(entry[r], NoEntry) ELSE entry[r]]
        /\ session' = [r \in Races |-> IF r \in RacesOf("session", gone)
                                       THEN Written(session[r], FALSE) ELSE session[r]]
        /\ call' = Later(call, RacesOf("journal", gone), 0)
        /\ walk' = IF RacesOf("journal", gone) = {} THEN walk ELSE Disturbed
  BY DEF BatchDelete
<1> DEFINE es == RacesOf("journal", gone)
           rest == reset.keys \ Batch
<1>2. gone \subseteq Key
  BY DEF Batch, FirstKeys, Shapes
<1>3. \A r : (r \in es <=> JournalKey(r) \in gone)
             /\ (r \in RacesOf("session", gone) <=> SessionKey(r) \in gone)
  BY <1>2, RacesOfAre
<1>4. /\ reset.pc = "batches" /\ DOMAIN reset = {"pc", "keys"}
      /\ misanswered' = misanswered /\ UNCHANGED <<requests, settled>>
  BY DEF BatchDelete, Shapes
<1>5. /\ DOMAIN reset' = {"pc", "keys"}
      /\ \/ reset'.keys = {} /\ reset'.pc = "idle"
         \/ reset'.keys = rest /\ reset'.pc = "batches"
  <2>1. CASE reset' = NoReset
    BY <2>1 DEF NoReset
  <2>2. CASE reset' = [reset EXCEPT !.keys = rest]
    <3> HIDE DEF rest
    <3>1. QED
      BY <1>4, <2>2
  <2>3. QED
    BY <1>1, <2>1, <2>2
<1>6. excused \subseteq excused' /\ \A k \in Batch \ gone : k.race \in excused'
  BY <1>1
<1>7. /\ DOMAIN entry' = Races /\ DOMAIN session' = Races
      /\ \A r \in Races :
           /\ entry'[r].new = IF JournalKey(r) \in gone THEN NoEntry ELSE entry[r].new
           /\ JournalKey(r) \notin gone => entry'[r] = entry[r]
           /\ SessionKey(r) \notin gone => session'[r] = session[r]
  BY <1>1, <1>3 DEF Written
<1>8. /\ DOMAIN call' = Calls
      /\ \A c \in Calls :
           /\ Same(c) /\ call[c].since \subseteq call'[c].since
           /\ call[c].pc = "back" /\ JournalKey(call[c].race) \in gone
                => NoEntry \in call'[c].since
  <2>1. call' = Later(call, es, NoEntry)
    BY <1>1 DEF NoEntry
  <2> HIDE DEF es
  <2>2. DOMAIN call' = Calls
    BY <2>1 DEF Later
  <2>3. QED
    BY <1>3, <2>1, <2>2, LaterIs DEF Same
<1>9. walk' = NoWalk \/ (walk' = walk /\ \A r \in Races : entry'[r] = entry[r])
  BY <1>1, <1>3, <1>7 DEF Disturbed
<1>10. QED
  BY <1>4, <1>5, <1>6, <1>7, <1>8, <1>9

----------------------------------------------------------------------------
(* Places in the list.                                                     *)

LEMMA NewerIs ==
  ASSUME NEW es \in SUBSET Races, NEW r
  PROVE  /\ Newer(es, r) \in Nat /\ Cardinality(es) \in Nat /\ IsFiniteSet(es)
         /\ r \in es => Newer(es, r) < Cardinality(es)
<1> DEFINE s == {x \in es : x > r}
<1>1. IsFiniteSet(es)
  BY JournalAssumption, FS_Subset
<1>2. s \subseteq es
  OBVIOUS
<1>3. Cardinality(s) \in Nat /\ Cardinality(es) \in Nat
  BY <1>1, <1>2, FS_Subset, FS_CardinalityType
<1>4. r \in es => r \notin s
  BY JournalAssumption
<1>5. r \in es => Cardinality(s) < Cardinality(es)
  <2> SUFFICES ASSUME r \in es PROVE Cardinality(s) < Cardinality(es)
    OBVIOUS
  <2>1. s # es
    BY <1>4
  <2> HIDE DEF s
  <2>2. QED
    BY <1>1, <1>2, <1>3, <2>1, FS_Subset
<1>6. QED
  BY <1>1, <1>3, <1>5 DEF Newer

\* More entries put nothing further ahead.
LEMMA NewerGrows ==
  ASSUME NEW fs \in SUBSET Races, NEW es \in SUBSET fs, NEW r
  PROVE  Newer(es, r) <= Newer(fs, r)
<1> DEFINE s == {x \in es : x > r}
           t == {x \in fs : x > r}
<1>1. s \subseteq t /\ t \subseteq Races
  OBVIOUS
<1> HIDE DEF s, t
<1>2. IsFiniteSet(t)
  BY <1>1, JournalAssumption, FS_Subset
<1>3. Cardinality(s) <= Cardinality(t)
  BY <1>1, <1>2, FS_Subset
<1>4. QED
  BY <1>3 DEF Newer, s, t

----------------------------------------------------------------------------
(* The shapes.                                                             *)

\* Calls that stay or end keep their shape.
LEMMA CallsKept ==
  ASSUME Shapes, DOMAIN call' = Calls, \A d \in Calls : Same(d) \/ Ended(d)
  PROVE  DOMAIN call' = Calls /\ \A d \in Calls : CallOK(call'[d])
<1>1. CallOK(NoCall)
  BY NoCallIs DEF CallOK
<1>2. ASSUME NEW d \in Calls PROVE CallOK(call'[d])
  BY <1>1 DEF Same, Ended, Shapes, CallOK
<1>3. QED
  BY <1>2

LEMMA InitShapes == Init => Shapes
<1> SUFFICES ASSUME Init PROVE Shapes
  OBVIOUS
<1>1. \A c \in Calls : CallOK(call[c])
  BY NoCallIs DEF Init, CallOK
<1>2. DOMAIN session = Races /\ DOMAIN entry = Races /\ DOMAIN settled = Races
      /\ DOMAIN call = Calls /\ requests = 0
  BY DEF Init
<1>3. /\ DOMAIN reset = {"pc", "keys"} /\ reset.keys = {}
      /\ DOMAIN walk = {"pc", "page", "found", "expect", "seen"}
      /\ walk.page = 0 /\ walk.expect = {} /\ walk.found = {}
  BY DEF Init, NoReset, NoWalk
<1>4. QED
  BY <1>1, <1>2, <1>3 DEF Shapes

\* A write begins with a call and a text of the right shape.
LEMMA BeginsWrite ==
  ASSUME Shapes, NEW c \in Calls, NEW r \in Races,
         ValidateRaceExists(c, r) \/ Delete(c, r)
  PROVE  /\ \E f : /\ DOMAIN f = CallFields /\ Begins(c, r, f)
                   /\ \/ f.pc = "delete" /\ f.text = NoEntry
                      \/ f.pc = "save" /\ f.text # NoEntry
                   /\ f.pc = "save" /\ f.valid => session[r].new /\ reset.pc = "idle"
         /\ Free(c) /\ requests' \in Nat
         /\ UNCHANGED <<session, entry, reset, walk, excused, misanswered>>
<1>1. requests' = requests + 1 /\ requests \in Nat
  BY DEF ValidateRaceExists, Delete, Request, Shapes
<1>2. CASE ValidateRaceExists(c, r)
  <2> DEFINE ok == session[r].new /\ reset.pc = "idle"
             f == [NoCall EXCEPT !.pc = "save", !.text = requests', !.valid = ok]
  <2>1. Begins(c, r, f)
    BY <1>2 DEF ValidateRaceExists
  <2> HIDE DEF ok
  <2>2. DOMAIN f = CallFields /\ f.pc = "save" /\ f.text = requests' /\ f.valid = ok
    BY NoCallIs DEF CallFields
  <2> HIDE DEF f
  <2>3. f.text # NoEntry
    BY <1>1, <2>2 DEF NoEntry
  <2>4. f.valid => ok
    BY <2>2
  <2>5. QED
    BY <1>1, <1>2, <2>1, <2>2, <2>3, <2>4 DEF ValidateRaceExists, ok
<1>3. CASE Delete(c, r)
  <2> DEFINE f == [NoCall EXCEPT !.pc = "delete"]
  <2>1. Begins(c, r, f)
    BY <1>3 DEF Delete
  <2>2. DOMAIN f = CallFields /\ f.pc = "delete" /\ f.text = NoEntry
    BY NoCallIs DEF CallFields, NoCall
  <2> HIDE DEF f
  <2>3. QED
    BY <1>1, <1>3, <2>1, <2>2 DEF Delete
<1>4. QED
  BY <1>2, <1>3

\* The client's steps.
LEMMA WalkShape ==
  ASSUME Shapes, BeginWalk \/ GetJournalEntries \/ GetDriverSessions \/ EndWalk
  PROVE  /\ DOMAIN walk' = {"pc", "page", "found", "expect", "seen"}
         /\ walk'.page \in Nat /\ walk'.expect \subseteq Races
         /\ walk'.found \subseteq Races
<1>0. /\ DOMAIN NoWalk = {"pc", "page", "found", "expect", "seen"}
      /\ NoWalk.page = 0 /\ NoWalk.expect = {} /\ NoWalk.found = {}
  BY DEF NoWalk
<1>1. CASE walk' = NoWalk
  BY <1>0, <1>1
<1>2. CASE BeginWalk
  <2> DEFINE es == {r \in Races : entry[r].new # NoEntry}
  <2>1. walk' = [NoWalk EXCEPT !.pc = "query", !.page = 1, !.expect = es]
    BY <1>2 DEF BeginWalk
  <2>2. es \subseteq Races
    OBVIOUS
  <2> HIDE DEF es
  <2>3. QED
    BY <1>0, <2>1, <2>2
<1>3. CASE GetJournalEntries /\ walk' # NoWalk
  <2>1. PICK es \in SUBSET Races :
          walk' = [walk EXCEPT !.pc = "join", !.found = FirstRows(es)]
    BY <1>3 DEF GetJournalEntries
  <2>2. FirstRows(es) \subseteq Races
    BY DEF FirstRows
  <2>3. QED
    BY <2>1, <2>2 DEF Shapes
<1>4. CASE GetDriverSessions /\ walk' # NoWalk
  <2> DEFINE pc == IF MorePages(Cardinality(walk.found), walk.page) THEN "query" ELSE "end"
             seen == walk.seen \cup Page(walk.found, walk.page)
  <2>1. walk' = [walk EXCEPT !.pc = pc, !.page = walk.page + 1, !.found = {},
                             !.seen = seen]
    BY <1>4 DEF GetDriverSessions
  <2> HIDE DEF pc, seen
  <2>2. QED
    BY <2>1 DEF Shapes
<1>5. QED
  BY <1>1, <1>2, <1>3, <1>4 DEF EndWalk

LEMMA StepShapes ==
  ASSUME Shapes, Next PROVE Shapes'
<1> USE DEF Shapes
<1>1. ASSUME NEW r \in Races, SaveDriverSession(r) PROVE Shapes'
  <2>1. requests' = requests + 1 /\ requests \in Nat
    BY <1>1 DEF SaveDriverSession, Request
  <2>2. DOMAIN session' = Races /\ UNCHANGED <<entry, call, reset, walk, settled>>
    BY <1>1 DEF SaveDriverSession
  <2>3. QED
    BY <2>1, <2>2
<1>2. ASSUME NEW c \in Calls, NEW r \in Races, ValidateRaceExists(c, r) \/ Delete(c, r)
      PROVE  Shapes'
  <2>1. PICK f : /\ DOMAIN f = CallFields /\ Begins(c, r, f)
                 /\ \/ f.pc = "delete" /\ f.text = NoEntry
                    \/ f.pc = "save" /\ f.text # NoEntry
    BY <1>2, BeginsWrite
  <2>2. /\ DOMAIN call' = Calls /\ DOMAIN settled' = Races
        /\ DOMAIN call'[c] = CallFields /\ call'[c].race = r
        /\ call'[c].pc = f.pc /\ call'[c].text = f.text
        /\ \A d \in Calls \ {c} :
             /\ DOMAIN call'[d] = CallFields
             /\ call'[d].pc = call[d].pc /\ call'[d].race = call[d].race
             /\ call'[d].text = call[d].text
    BY <2>1, BeginsIs
  <2>3. \A d \in Calls : CallOK(call'[d])
    BY <2>1, <2>2 DEF CallOK
  <2>4. requests' \in Nat /\ UNCHANGED <<session, entry, reset, walk>>
    BY <1>2, BeginsWrite
  <2>5. QED
    BY <2>2, <2>3, <2>4
<1>3. ASSUME NEW c \in Calls, SaveJournalEntry(c) PROVE Shapes'
  <2>1. DOMAIN entry' = Races /\ UNCHANGED <<session, reset, walk, requests, settled>>
    BY <1>3 DEF SaveJournalEntry
  <2>2. /\ DOMAIN call' = Calls
        /\ \A d \in Calls \ {c} : Same(d)
        /\ \/ /\ DOMAIN call'[c] = CallFields
              /\ call'[c].pc = "back" /\ call'[c].race = call[c].race
           \/ Same(c)
           \/ Ended(c)
    BY <1>3, SaveIs
  <2>3. call[c].pc = "save"
    BY <1>3 DEF SaveJournalEntry
  <2>4. CallOK(NoCall)
    BY NoCallIs DEF CallOK
  <2>5. CallOK(call'[c])
    BY <2>2, <2>3, <2>4 DEF Same, Ended, CallOK
  <2>6. \A d \in Calls \ {c} : CallOK(call'[d])
    BY <2>2 DEF Same, CallOK
  <2>7. QED
    BY <2>1, <2>2, <2>5, <2>6
<1>4. ASSUME NEW c \in Calls, SaveFails(c) \/ ReadBack(c) PROVE Shapes'
  <2>1. /\ call' = [call EXCEPT ![c] = NoCall]
        /\ UNCHANGED <<session, entry, reset, walk, requests>>
        /\ settled' = settled \/ Settles(c)
        /\ ~Free(c)
    BY <1>4 DEF SaveFails, ReadBack, Free
  <2>2. DOMAIN settled' = Races
    BY <2>1, SettlesIs
  <2>3. DOMAIN call' = Calls /\ \A d \in Calls : CallOK(call'[d])
    BY <2>1, OnlyEnds, CallsKept
  <2>4. QED
    BY <2>1, <2>2, <2>3
<1>5. ASSUME NEW c \in Calls, DeleteJournalEntry(c) PROVE Shapes'
  <2>1. /\ call' \in {Later(call, {call[c].race}, 0),
                      [Later(call, {call[c].race}, 0) EXCEPT ![c] = NoCall]}
        /\ DOMAIN entry' = Races /\ walk' = NoWalk
        /\ UNCHANGED <<session, reset, requests>>
        /\ settled' = settled \/ Settles(c)
        /\ ~Free(c)
    BY <1>5 DEF DeleteJournalEntry, Free, Disturbed
  <2>2. DOMAIN settled' = Races
    BY <2>1, SettlesIs
  <2>3. DOMAIN call' = Calls /\ \A d \in Calls : CallOK(call'[d])
    BY <2>1, EndsIs, CallsKept
  <2>4. /\ DOMAIN walk' = {"pc", "page", "found", "expect", "seen"}
        /\ walk'.page \in Nat /\ walk'.expect \subseteq Races /\ walk'.found \subseteq Races
    BY <2>1 DEF NoWalk
  <2>5. QED
    BY <2>1, <2>2, <2>3, <2>4
<1>6. CASE DeleteDriverRaces
  <2>1. \A c \in Calls : CallOK(call'[c])
    BY <1>6, ResetBegins DEF CallOK
  <2>2. QED
    BY <1>6, <2>1, ResetBegins
<1>7. CASE BatchDelete
  <2>1. \A c \in Calls : CallOK(call'[c])
    BY <1>7, BatchIs, CallsKept
  <2>2. /\ DOMAIN reset' = {"pc", "keys"}
        /\ reset'.keys \subseteq Key
        /\ reset'.pc = "idle" => reset'.keys = {}
    BY <1>7, BatchIs
  <2>3. /\ DOMAIN NoWalk = {"pc", "page", "found", "expect", "seen"}
        /\ NoWalk.page \in Nat /\ NoWalk.expect \subseteq Races
        /\ NoWalk.found \subseteq Races
    BY DEF NoWalk
  <2>4. /\ DOMAIN entry' = Races /\ DOMAIN session' = Races /\ DOMAIN call' = Calls
        /\ walk' = NoWalk \/ walk' = walk
        /\ requests' = requests /\ settled' = settled
    BY <1>7, BatchIs
  <2>5. QED
    BY <2>1, <2>2, <2>3, <2>4
<1>8. CASE ResetEnds
  <2>1. DOMAIN NoReset = {"pc", "keys"} /\ NoReset.keys = {}
    BY DEF NoReset
  <2>2. QED
    BY <1>8, <2>1 DEF ResetEnds
<1>9. CASE BeginWalk \/ GetJournalEntries \/ GetDriverSessions \/ EndWalk
  <2>1. requests' \in Nat /\ UNCHANGED <<session, entry, call, reset, settled>>
    <3>1. Request \/ requests' = requests
      BY <1>9 DEF BeginWalk, GetJournalEntries, GetDriverSessions, EndWalk
    <3>2. UNCHANGED <<session, entry, call, reset, settled>>
      BY <1>9 DEF BeginWalk, GetJournalEntries, GetDriverSessions, EndWalk
    <3>3. QED
      BY <3>1, <3>2 DEF Request
  <2>2. QED
    BY <1>9, <2>1, WalkShape
<1>10. CASE Settle
  BY <1>10 DEF Settle, CaughtUp
<1>11. QED
  BY <1>1, <1>2, <1>3, <1>4, <1>5, <1>6, <1>7, <1>8, <1>9, <1>10 DEF Next

----------------------------------------------------------------------------
(* What a write settles stays.                                             *)

\* Calls that go on or end know of each other, while the deletion stands where it
\* did; one of them may settle what it and those beside it left.
LEMMA KnownKept ==
  ASSUME Shapes, WritesKnown, NEW c \in Calls,
         \A d \in Calls : \/ Ended(d)
                          \/ /\ call'[d].pc = call[d].pc \/ ~Free(d)
                             /\ call'[d].race = call[d].race
                             /\ call'[d].text = call[d].text
                             /\ call'[d].beside = call[d].beside,
         reset.pc = "idle" => reset'.pc = "idle",
         settled' = settled \/ (~Free(c) /\ Settles(c))
  PROVE  WritesKnown'
<1>1. ASSUME NEW d \in Calls, ~Free(d)'
      PROVE  /\ ~Free(d) /\ call'[d].race = call[d].race /\ call[d].race \in Races
             /\ call'[d].text = call[d].text /\ Left(call'[d]) = Left(call[d])
  BY <1>1, NoCallIs DEF Ended, Free, Left, Shapes, CallOK
<1>2. ASSUME NEW r \in Races, NEW v \in settled[r],
             ~Free(c) /\ call[c].race = r => v \in Left(call[c])
      PROVE  v \in settled'[r]
  BY <1>2, SettlesIs
<1>3. ASSUME NEW d \in Calls, ~Free(d)' PROVE call'[d].text \in settled'[call'[d].race]
  BY <1>1, <1>2, <1>3 DEF WritesKnown
<1>4. ASSUME reset'.pc # "idle", NEW r \in Races PROVE NoEntry \in settled'[r]
  BY <1>2, <1>4 DEF WritesKnown
<1>5. QED
  BY <1>1, <1>3, <1>4 DEF WritesKnown

\* A write under way that ends or goes on; if it is answered, it left what it may.
LEMMA WriteKnown ==
  ASSUME Shapes, WritesKnown, AnsweredWriteStays, NEW c \in Calls, ~Free(c),
         \A d \in Calls \ {c} : Same(d), Same(c) \/ Ended(c), reset' = reset,
         settled' = settled \/ Settles(c),
         \A r \in Races : r # call[c].race => entry'[r].new = entry[r].new,
         entry'[call[c].race].new \in settled[call[c].race],
         Settles(c) => entry'[call[c].race].new \in Left(call[c])
  PROVE  WritesKnown' /\ AnsweredWriteStays'
<1>1. WritesKnown'
  BY KnownKept DEF Same
<1>2. ASSUME NEW r \in Races PROVE entry'[r].new \in settled'[r]
  <2>1. entry'[r].new \in settled[r]
    BY DEF AnsweredWriteStays
  <2>2. CASE settled' = settled
    BY <2>1, <2>2
  <2>3. CASE Settles(c)
    BY <2>1, <2>3, SettlesIs
  <2>4. QED
    BY <2>2, <2>3
<1>3. QED
  BY <1>1, <1>2 DEF AnsweredWriteStays

LEMMA StepSettled ==
  ASSUME Shapes, WritesKnown, AnsweredWriteStays, SavedThere, Next
  PROVE  WritesKnown' /\ AnsweredWriteStays'
<1>1. CASE UNCHANGED <<call, settled>> /\ (reset' = reset \/ reset'.pc = "idle")
           /\ \A r \in Races : entry'[r].new = entry[r].new
  BY <1>1 DEF WritesKnown, AnsweredWriteStays, Free
<1>2. ASSUME NEW c \in Calls, NEW r \in Races, ValidateRaceExists(c, r) \/ Delete(c, r)
      PROVE  WritesKnown' /\ AnsweredWriteStays'
  <2>1. PICK f : /\ DOMAIN f = CallFields /\ Begins(c, r, f)
    BY <1>2, BeginsWrite
  <2>2. Free(c) /\ UNCHANGED <<entry, reset>>
    BY <1>2, BeginsWrite
  <2>3. /\ call'[c].race = r /\ call'[c].text = f.text
        /\ \A d \in Writes(r) : call[d].text \in call'[c].beside
        /\ reset.pc # "idle" => NoEntry \in call'[c].beside
        /\ \A d \in Calls \ {c} :
             /\ call'[d].pc = call[d].pc /\ call'[d].race = call[d].race
             /\ call'[d].text = call[d].text
             /\ Left(call[d]) \subseteq Left(call'[d])
             /\ d \in Writes(r) => f.text \in Left(call'[d])
        /\ settled'[r] = settled[r] \cup {f.text}
        /\ \A x \in Races : x # r => settled'[x] = settled[x]
    BY <2>1, BeginsIs
  <2>4. \A x \in Races : settled[x] \subseteq settled'[x]
    BY <2>3
  <2>5. \A d \in Calls \ {c} :
          ~Free(d)' => ~Free(d) /\ call[d].race \in Races
                       /\ (call[d].race = r => d \in Writes(r))
    BY <2>3 DEF Shapes, CallOK, Free, Writes
  <2>6. ASSUME NEW a \in Calls, NEW b \in Calls, ~Free(a)', ~Free(b)',
               call'[a].race = call'[b].race
        PROVE  call'[b].text \in Left(call'[a])
    <3>1. CASE a = b
      BY <3>1 DEF Left
    <3>2. CASE a = c /\ b # c
      BY <2>3, <2>5, <2>6, <3>2 DEF Left
    <3>3. CASE a # c /\ b = c
      BY <2>3, <2>5, <2>6, <3>3
    <3>4. CASE a # c /\ b # c
      BY <2>3, <2>5, <2>6, <3>4 DEF WritesKnown
    <3>5. QED
      BY <3>1, <3>2, <3>3, <3>4
  <2>7. ASSUME NEW a \in Calls, ~Free(a)' PROVE call'[a].text \in settled'[call'[a].race]
    BY <2>3, <2>4, <2>5, <2>7 DEF WritesKnown
  <2>8. ASSUME reset'.pc # "idle"
        PROVE  /\ \A x \in Races : NoEntry \in settled'[x]
               /\ \A a \in Calls : ~Free(a)' => NoEntry \in Left(call'[a])
    <3>1. \A x \in Races : NoEntry \in settled'[x]
      BY <2>2, <2>4, <2>8 DEF WritesKnown
    <3>2. ASSUME NEW a \in Calls, ~Free(a)' PROVE NoEntry \in Left(call'[a])
      BY <2>2, <2>3, <2>5, <2>8, <3>2 DEF WritesKnown, Left
    <3>3. QED
      BY <3>1, <3>2
  <2>9. WritesKnown'
    BY <2>6, <2>7, <2>8 DEF WritesKnown
  <2>10. AnsweredWriteStays'
    BY <2>2, <2>4 DEF AnsweredWriteStays
  <2>11. QED
    BY <2>9, <2>10
<1>3. ASSUME NEW c \in Calls, SaveJournalEntry(c)
      PROVE  WritesKnown' /\ AnsweredWriteStays'
  <2>1. /\ call[c].pc = "save" /\ UNCHANGED <<reset, settled>>
        /\ entry' = [entry EXCEPT ![call[c].race] = Written(@, call[c].text)]
    BY <1>3 DEF SaveJournalEntry
  <2>2. ~Free(c) /\ call[c].race \in Races
    BY <2>1 DEF Free, Shapes, CallOK
  <2>3. \A d \in Calls : \/ Ended(d)
                         \/ /\ call'[d].pc = call[d].pc \/ ~Free(d)
                            /\ call'[d].race = call[d].race
                            /\ call'[d].text = call[d].text
                            /\ call'[d].beside = call[d].beside
    BY <1>3, <2>2, SaveIs DEF Same
  <2>4. WritesKnown'
    BY <2>1, <2>3, KnownKept
  <2>5. /\ entry'[call[c].race].new = call[c].text
        /\ \A r \in Races : r # call[c].race => entry'[r] = entry[r]
    BY <2>1, <2>2 DEF Shapes, Written
  <2>6. AnsweredWriteStays'
    BY <2>1, <2>2, <2>5 DEF AnsweredWriteStays, WritesKnown
  <2>7. QED
    BY <2>4, <2>6
<1>4. ASSUME NEW c \in Calls, SaveFails(c) \/ ReadBack(c)
      PROVE  WritesKnown' /\ AnsweredWriteStays'
  <2>1. /\ call' = [call EXCEPT ![c] = NoCall]
        /\ UNCHANGED <<entry, reset>>
        /\ settled' = settled \/ (call[c].pc = "back" /\ Settles(c))
        /\ ~Free(c) /\ call[c].race \in Races
    BY <1>4 DEF SaveFails, ReadBack, Free, Shapes, CallOK
  <2>2. Ended(c) /\ \A d \in Calls \ {c} : Same(d)
    BY <2>1, OnlyEnds
  <2>3. CASE settled' = settled
    <3>1. WritesKnown'
      BY <2>1, <2>2, <2>3, KnownKept DEF Same
    <3>2. QED
      BY <2>1, <2>3, <3>1 DEF AnsweredWriteStays
  <2>4. CASE call[c].pc = "back" /\ Settles(c)
    <3>1. /\ entry'[call[c].race].new \in Left(call[c])
          /\ entry'[call[c].race].new \in settled[call[c].race]
      BY <2>1, <2>4 DEF SavedThere, AnsweredWriteStays
    <3>2. QED
      BY <2>1, <2>2, <2>4, <3>1, WriteKnown
  <2>5. QED
    BY <2>1, <2>3, <2>4
<1>5. ASSUME NEW c \in Calls, DeleteJournalEntry(c)
      PROVE  WritesKnown' /\ AnsweredWriteStays'
  <2> DEFINE later == Later(call, {call[c].race}, 0)
  <2>1. /\ reset' = reset /\ ~Free(c) /\ call[c].text = NoEntry /\ call[c].race \in Races
        /\ call' \in {later, [later EXCEPT ![c] = NoCall]}
        /\ settled' = settled \/ Settles(c)
        /\ entry' = [entry EXCEPT ![call[c].race] = Written(@, NoEntry)]
    BY <1>5 DEF DeleteJournalEntry, Free, Shapes, CallOK
  <2>2. /\ Same(c) \/ Ended(c)
        /\ \A d \in Calls \ {c} : Same(d)
    BY <2>1, EndsIs
  <2>3. /\ entry'[call[c].race].new = NoEntry
        /\ \A r \in Races : r # call[c].race => entry'[r].new = entry[r].new
    BY <2>1 DEF Shapes, Written
  <2>4. NoEntry \in Left(call[c]) /\ NoEntry \in settled[call[c].race]
    BY <2>1 DEF Left, WritesKnown
  <2>5. QED
    BY <2>1, <2>2, <2>3, <2>4, WriteKnown
<1>6. CASE DeleteDriverRaces
  <2>1. /\ \A c \in Calls :
             /\ call'[c].pc = call[c].pc /\ call'[c].race = call[c].race
             /\ call'[c].text = call[c].text /\ Left(call[c]) \subseteq Left(call'[c])
             /\ ~Free(c) => NoEntry \in Left(call'[c])
        /\ \A r \in Races : settled'[r] = settled[r] \cup {NoEntry}
        /\ entry' = entry
    BY <1>6, ResetBegins
  <2>2. \A c \in Calls : ~Free(c)' => ~Free(c) /\ call[c].race \in Races
    BY <2>1 DEF Shapes, CallOK, Free
  <2>3. WritesKnown'
    BY <2>1, <2>2 DEF WritesKnown
  <2>4. QED
    BY <2>1, <2>3 DEF AnsweredWriteStays
<1>7. CASE BatchDelete
  <2>1. PICK gone \in SUBSET Batch :
          /\ reset.pc = "batches" /\ settled' = settled
          /\ \A c \in Calls : Same(c)
          /\ \A r \in Races :
               entry'[r].new = IF JournalKey(r) \in gone THEN NoEntry ELSE entry[r].new
    BY <1>7, BatchIs
  <2>2. \A r \in Races : NoEntry \in settled[r]
    BY <2>1 DEF WritesKnown
  <2>3. \A c \in Calls :
          ~Free(c)' => /\ ~Free(c) /\ call'[c].race = call[c].race
                       /\ call'[c].text = call[c].text /\ Left(call'[c]) = Left(call[c])
    BY <2>1 DEF Same, Free, Left
  <2>4. WritesKnown'
    BY <2>1, <2>2, <2>3 DEF WritesKnown
  <2>5. AnsweredWriteStays'
    BY <2>1, <2>2 DEF AnsweredWriteStays
  <2>6. QED
    BY <2>4, <2>5
<1>8. CASE ResetEnds
  BY <1>8, <1>1 DEF ResetEnds, NoReset
<1>9. CASE \/ \E r \in Races : SaveDriverSession(r)
           \/ BeginWalk \/ GetJournalEntries \/ GetDriverSessions \/ EndWalk \/ Settle
  <2>1. UNCHANGED <<call, settled, reset>>
    BY <1>9 DEF SaveDriverSession, BeginWalk, GetJournalEntries, GetDriverSessions, EndWalk,
                Settle
  <2>2. \A r \in Races : entry'[r].new = entry[r].new
    <3>1. CASE Settle
      BY <3>1 DEF Settle, CaughtUp, Written
    <3>2. CASE ~Settle
      BY <1>9, <3>2 DEF SaveDriverSession, BeginWalk, GetJournalEntries, GetDriverSessions,
                        EndWalk
    <3>3. QED
      BY <3>1, <3>2
  <2>3. QED
    BY <1>1, <2>1, <2>2
<1>10. QED
  BY <1>2, <1>3, <1>4, <1>5, <1>6, <1>7, <1>8, <1>9 DEF Next

----------------------------------------------------------------------------
(* What a read back finds.                                                 *)

\* The write of call c to its race, which the others under way know of.
LEMMA WriteThere ==
  ASSUME Shapes, WritesKnown, SavedThere, NEW c \in Calls, ~Free(c),
         entry' = [entry EXCEPT ![call[c].race] = Written(@, call[c].text)],
         NEW d \in Calls, d # c, Same(d), call[d].since \subseteq call'[d].since,
         call[d].pc = "back" /\ call[d].race = call[c].race => call[c].text \in call'[d].since,
         call'[d].pc = "back"
  PROVE  /\ entry'[call'[d].race].new \in Left(call'[d])
         /\ entry'[call'[d].race].new \in call'[d].since
<1>1. /\ call[d].pc = "back" /\ call[d].race \in Races /\ call[c].race \in Races
      /\ ~Free(d) /\ call'[d].race = call[d].race /\ Left(call'[d]) = Left(call[d])
  BY DEF Same, Shapes, CallOK, Free, Left
<1>2. CASE call[d].race = call[c].race
  <2>1. call[c].text \in Left(call[d])
    BY <1>1, <1>2 DEF WritesKnown
  <2>2. entry'[call[d].race].new = call[c].text
    BY <1>1, <1>2 DEF Shapes, Written
  <2>3. QED
    BY <1>1, <1>2, <2>1, <2>2
<1>3. CASE call[d].race # call[c].race
  <2>1. entry'[call[d].race] = entry[call[d].race]
    BY <1>1, <1>3 DEF Shapes
  <2>2. QED
    BY <1>1, <2>1 DEF SavedThere
<1>4. QED
  BY <1>2, <1>3

LEMMA StepSaved ==
  ASSUME Shapes, WritesKnown, SavedThere, Next
  PROVE  SavedThere'
<1>1. CASE UNCHANGED call /\ \A r \in Races : entry'[r].new = entry[r].new
  <2>1. \A c \in Calls : call[c].pc = "back" => call[c].race \in Races
    BY DEF Shapes, CallOK
  <2>2. QED
    BY <1>1, <2>1 DEF SavedThere
<1>2. ASSUME NEW c \in Calls, NEW r \in Races, ValidateRaceExists(c, r) \/ Delete(c, r)
      PROVE  SavedThere'
  <2>1. PICK f : /\ DOMAIN f = CallFields /\ Begins(c, r, f)
                 /\ f.pc \in {"save", "delete"}
    BY <1>2, BeginsWrite
  <2>2. entry' = entry
    BY <1>2, BeginsWrite
  <2>3. /\ call'[c].pc # "back"
        /\ \A d \in Calls \ {c} :
             /\ call'[d].pc = call[d].pc /\ call'[d].race = call[d].race
             /\ call'[d].since = call[d].since
    BY <2>1, BeginsIs
  <2>4. \A d \in Calls \ {c} : Left(call[d]) \subseteq Left(call'[d])
    BY <2>1, BeginsIs
  <2>5. QED
    BY <2>2, <2>3, <2>4 DEF SavedThere
<1>3. ASSUME NEW c \in Calls, SaveJournalEntry(c) PROVE SavedThere'
  <2>1. /\ call[c].pc = "save" /\ ~Free(c)
        /\ entry' = [entry EXCEPT ![call[c].race] = Written(@, call[c].text)]
    BY <1>3 DEF SaveJournalEntry, Free
  <2>2. /\ \A d \in Calls \ {c} : Same(d)
        /\ \A d \in Calls \ {c} :
              /\ call[d].since \subseteq call'[d].since
              /\ call[d].pc = "back" /\ call[d].race = call[c].race
                   => call[c].text \in call'[d].since
        /\ \/ /\ call'[c].pc = "back" /\ call'[c].race = call[c].race
              /\ call'[c].text = call[c].text
              /\ call'[c].since = {call[c].text}
           \/ Same(c)
           \/ Ended(c)
    BY <1>3, SaveIs
  <2>3. entry'[call[c].race].new = call[c].text
    BY <2>1 DEF Shapes, CallOK, Free, Written
  <2>4. ASSUME NEW d \in Calls, call'[d].pc = "back"
        PROVE  /\ entry'[call'[d].race].new \in Left(call'[d])
               /\ entry'[call'[d].race].new \in call'[d].since
    <3>1. CASE d = c
      <4>1. ~Same(c) /\ ~Ended(c)
        BY <2>1, <2>4, <3>1, NoCallIs DEF Same, Ended
      <4>2. QED
        BY <2>2, <2>3, <3>1, <4>1 DEF Left
    <3>2. CASE d # c
      BY <2>1, <2>2, <2>4, <3>2, WriteThere
    <3>3. QED
      BY <3>1, <3>2
  <2>5. QED
    BY <2>4 DEF SavedThere
<1>4. ASSUME NEW c \in Calls, SaveFails(c) \/ ReadBack(c) PROVE SavedThere'
  <2>1. call' = [call EXCEPT ![c] = NoCall] /\ entry' = entry
    BY <1>4 DEF SaveFails, ReadBack
  <2>2. /\ Ended(c)
        /\ \A d \in Calls \ {c} : Same(d) /\ call'[d].since = call[d].since
    BY <2>1, OnlyEnds
  <2>3. QED
    BY <2>1, <2>2, NoCallIs DEF SavedThere, Same, Ended, Left
<1>5. ASSUME NEW c \in Calls, DeleteJournalEntry(c) PROVE SavedThere'
  <2>1. /\ ~Free(c) /\ call[c].pc = "delete"
        /\ call' \in {Later(call, {call[c].race}, NoEntry),
                      [Later(call, {call[c].race}, NoEntry) EXCEPT ![c] = NoCall]}
        /\ entry' = [entry EXCEPT ![call[c].race] = Written(@, NoEntry)]
        /\ call[c].text = NoEntry
    BY <1>5 DEF DeleteJournalEntry, Free, NoEntry, Shapes, CallOK
  <2>2. /\ Same(c) \/ Ended(c)
        /\ \A d \in Calls \ {c} : Same(d)
        /\ \A d \in Calls :
              ~Ended(d) => /\ call[d].since \subseteq call'[d].since
                           /\ call[d].pc = "back" /\ call[d].race \in {call[c].race}
                                => NoEntry \in call'[d].since
    BY <2>1, EndsIs
  <2>3. ASSUME NEW d \in Calls, call'[d].pc = "back"
        PROVE  /\ entry'[call'[d].race].new \in Left(call'[d])
               /\ entry'[call'[d].race].new \in call'[d].since
    <3>1. d # c /\ ~Ended(d)
      BY <2>1, <2>2, <2>3, NoCallIs DEF Same, Ended
    <3>2. QED
      BY <2>1, <2>2, <2>3, <3>1, WriteThere
  <2>4. QED
    BY <2>3 DEF SavedThere
<1>6. CASE DeleteDriverRaces
  <2>1. /\ \A c \in Calls :
              /\ call'[c].pc = call[c].pc /\ call'[c].race = call[c].race
              /\ call'[c].since = call[c].since /\ Left(call[c]) \subseteq Left(call'[c])
        /\ entry' = entry
    BY <1>6, ResetBegins
  <2>2. QED
    BY <2>1 DEF SavedThere
<1>7. CASE BatchDelete
  <2>1. PICK gone \in SUBSET Batch :
          /\ reset.pc = "batches"
          /\ \A r \in Races :
               entry'[r].new = IF JournalKey(r) \in gone THEN NoEntry ELSE entry[r].new
          /\ \A c \in Calls :
               /\ Same(c) /\ call[c].since \subseteq call'[c].since
               /\ call[c].pc = "back" /\ JournalKey(call[c].race) \in gone
                    => NoEntry \in call'[c].since
    BY <1>7, BatchIs
  <2>2. ASSUME NEW c \in Calls, call'[c].pc = "back"
        PROVE  /\ entry'[call'[c].race].new \in Left(call'[c])
               /\ entry'[call'[c].race].new \in call'[c].since
    <3>1. /\ call[c].pc = "back" /\ call[c].race \in Races /\ call'[c].race = call[c].race
          /\ Left(call'[c]) = Left(call[c])
      BY <2>1, <2>2 DEF Same, Shapes, CallOK, Left
    <3>2. NoEntry \in Left(call[c])
      BY <2>1, <3>1 DEF WritesKnown, Free
    <3>3. /\ entry[call[c].race].new \in call[c].since
          /\ entry[call[c].race].new \in Left(call[c])
      BY <3>1 DEF SavedThere
    <3>4. QED
      BY <2>1, <3>1, <3>2, <3>3
  <2>3. QED
    BY <2>2 DEF SavedThere
<1>8. CASE \/ \E r \in Races : SaveDriverSession(r)
           \/ BeginWalk \/ GetJournalEntries \/ GetDriverSessions \/ EndWalk
           \/ ResetEnds \/ Settle
  <2>1. UNCHANGED call
    BY <1>8 DEF SaveDriverSession, BeginWalk, GetJournalEntries, GetDriverSessions, EndWalk,
                ResetEnds, Settle
  <2>2. \A r \in Races : entry'[r].new = entry[r].new
    <3>1. CASE Settle
      BY <3>1 DEF Settle, CaughtUp, Written
    <3>2. CASE ~Settle
      BY <1>8, <3>2 DEF SaveDriverSession, BeginWalk, GetJournalEntries, GetDriverSessions,
                        EndWalk, ResetEnds
    <3>3. QED
      BY <3>1, <3>2
  <2>3. QED
    BY <1>1, <2>1, <2>2
<1>9. QED
  BY <1>2, <1>3, <1>4, <1>5, <1>6, <1>7, <1>8 DEF Next

\* A read back that meets no lagging replica finds what the save knows of.
LEMMA StepAnswers ==
  ASSUME Shapes, SavedThere, SaveAnswersSaved, Next
  PROVE  SaveAnswersSaved'
<1>1. ASSUME NEW c \in Calls, ReadBack(c) PROVE SaveAnswersSaved'
  <2>1. /\ call[c].pc = "back"
        /\ \/ misanswered' = misanswered
           \/ \E found \in Reads(entry[call[c].race]) :
                misanswered' = (misanswered \/ (found = entry[call[c].race].new
                                                  /\ found \notin call[c].since))
    BY <1>1 DEF ReadBack
  <2>2. entry[call[c].race].new \in call[c].since
    BY <2>1 DEF SavedThere
  <2>3. QED
    BY <2>1, <2>2 DEF SaveAnswersSaved
<1>2. CASE misanswered' = misanswered
  BY <1>2 DEF SaveAnswersSaved
<1>3. CASE BatchDelete
  BY <1>2, <1>3, BatchIs
<1>4. QED
  BY <1>1, <1>2, <1>3
  DEF Next, SaveDriverSession, ValidateRaceExists, Delete, SaveJournalEntry, SaveFails,
      DeleteJournalEntry, DeleteDriverRaces, ResetEnds, BeginWalk, GetJournalEntries,
      GetDriverSessions, EndWalk, Settle

----------------------------------------------------------------------------
(* An entry has its race or an excuse.                                     *)

\* Steps of the calls that leave the races and the deletion alone.
LEMMA ValidKept ==
  ASSUME ValidHasRace, session' = session, reset' = reset,
         \A c \in Calls : call'[c].pc = "save" /\ call'[c].valid =>
                            /\ call[c].pc = "save" /\ call[c].valid
                            /\ call'[c].race = call[c].race
  PROVE  ValidHasRace'
BY DEF ValidHasRace

LEMMA StepValid ==
  ASSUME Shapes, ValidHasRace, Next
  PROVE  ValidHasRace'
<1>0. \A c \in Calls : call[c].pc = "save" => call[c].race \in Races
  BY DEF Shapes, CallOK
<1>1. CASE UNCHANGED <<call, reset>> /\ \A r \in Races : session[r].new => session'[r].new
  BY <1>0, <1>1 DEF ValidHasRace
<1>2. ASSUME NEW r \in Races, SaveDriverSession(r) PROVE ValidHasRace'
  <2>1. /\ UNCHANGED <<call, reset>> /\ DOMAIN session = Races
        /\ session' = [session EXCEPT ![r] = Written(@, TRUE)]
    BY <1>2 DEF SaveDriverSession, Shapes
  <2>2. \A x \in Races : session[x].new => session'[x].new
    BY <2>1 DEF Written
  <2>3. QED
    BY <1>1, <2>1, <2>2
<1>3. ASSUME NEW c \in Calls, NEW r \in Races, ValidateRaceExists(c, r) \/ Delete(c, r)
      PROVE  ValidHasRace'
  <2>1. PICK f : /\ DOMAIN f = CallFields /\ Begins(c, r, f)
                 /\ f.pc = "save" /\ f.valid => session[r].new /\ reset.pc = "idle"
    BY <1>3, BeginsWrite
  <2>2. UNCHANGED <<session, reset>>
    BY <1>3, BeginsWrite
  <2>3. /\ call'[c].race = r /\ call'[c].pc = f.pc /\ call'[c].valid = f.valid
        /\ \A d \in Calls \ {c} :
             /\ call'[d].pc = call[d].pc /\ call'[d].race = call[d].race
             /\ call'[d].valid = call[d].valid
    BY <2>1, BeginsIs
  <2>4. QED
    BY <2>1, <2>2, <2>3 DEF ValidHasRace
<1>4. ASSUME NEW c \in Calls, SaveJournalEntry(c) PROVE ValidHasRace'
  <2>1. session' = session /\ reset' = reset
    BY <1>4 DEF SaveJournalEntry
  <2>2. \A d \in Calls : call'[d].pc \in {"back", "idle"} \/ Same(d)
    BY <1>4, SaveIs, NoCallIs DEF Ended
  <2>3. QED
    BY <2>1, <2>2, ValidKept DEF Same
<1>5. ASSUME NEW c \in Calls, SaveFails(c) \/ ReadBack(c) PROVE ValidHasRace'
  <2>1. /\ call' = [call EXCEPT ![c] = NoCall]
        /\ session' = session /\ reset' = reset
    BY <1>5 DEF SaveFails, ReadBack
  <2>2. \A d \in Calls : call'[d].pc = "idle" \/ Same(d)
    BY <2>1, OnlyEnds, NoCallIs DEF Ended
  <2>3. QED
    BY <2>1, <2>2, ValidKept DEF Same
<1>6. ASSUME NEW c \in Calls, DeleteJournalEntry(c) PROVE ValidHasRace'
  <2>1. /\ session' = session /\ reset' = reset
        /\ call' \in {Later(call, {call[c].race}, 0),
                      [Later(call, {call[c].race}, 0) EXCEPT ![c] = NoCall]}
    BY <1>6 DEF DeleteJournalEntry
  <2>2. \A d \in Calls : call'[d].pc = "idle" \/ Same(d)
    BY <2>1, EndsIs, NoCallIs DEF Ended
  <2>3. QED
    BY <2>1, <2>2, ValidKept DEF Same
<1>7. CASE DeleteDriverRaces
  BY <1>7, ResetBegins DEF ValidHasRace, Free
<1>8. CASE BatchDelete
  BY <1>8, BatchIs DEF ValidHasRace, Same
<1>9. CASE ResetEnds
  BY <1>9 DEF ResetEnds, ValidHasRace
<1>10. CASE Settle
  <2>1. UNCHANGED <<call, reset>> /\ \A r \in Races : session'[r].new = session[r].new
    BY <1>10 DEF Settle, CaughtUp, Written
  <2>2. QED
    BY <1>1, <2>1
<1>11. CASE BeginWalk \/ GetJournalEntries \/ GetDriverSessions \/ EndWalk
  BY <1>1, <1>11 DEF BeginWalk, GetJournalEntries, GetDriverSessions, EndWalk
<1>12. QED
  BY <1>2, <1>3, <1>4, <1>5, <1>6, <1>7, <1>8, <1>9, <1>10, <1>11 DEF Next

\* The batch deletes no race before its entry.
LEMMA BatchExcuses ==
  ASSUME Shapes, EntriesFirst, EntriesHaveRaces, BatchDelete
  PROVE  EntriesFirst' /\ EntriesHaveRaces'
<1>1. PICK gone \in SUBSET Batch :
        /\ reset'.keys = {} \/ reset'.keys = reset.keys \ Batch
        /\ excused \subseteq excused'
        /\ \A k \in Batch \ gone : k.race \in excused'
        /\ \A r \in Races :
             /\ entry'[r].new = IF JournalKey(r) \in gone THEN NoEntry ELSE entry[r].new
             /\ SessionKey(r) \notin gone => session'[r] = session[r]
  BY BatchIs
<1>2. /\ Batch \subseteq reset.keys /\ reset.keys \subseteq Key
      /\ \A k \in Batch : \A l \in reset.keys : Before(l, k) => l \in Batch
  BY FirstKeysAre, JournalAssumption DEF Batch, Shapes
<1>3. ASSUME NEW r \in Races, SessionKey(r) \in reset.keys, entry'[r].new # NoEntry
      PROVE  \/ r \in excused'
             \/ JournalKey(r) \in reset.keys \ Batch
  <2>1. JournalKey(r) \notin gone /\ entry[r].new # NoEntry
    BY <1>1, <1>3
  <2>2. r \in excused \/ JournalKey(r) \in reset.keys
    BY <1>3, <2>1, KeyIs DEF EntriesFirst
  <2>3. JournalKey(r) \in Batch => r \in excused'
    BY <1>1, <2>1, KeyIs
  <2>4. QED
    BY <1>1, <2>2, <2>3
<1>4. ASSUME NEW k \in reset'.keys, k.kind = "session", entry'[k.race].new # NoEntry
      PROVE  k.race \in excused' \/ JournalKey(k.race) \in reset'.keys
  <2>1. k \in reset.keys \ Batch /\ reset'.keys = reset.keys \ Batch
    BY <1>1, <1>4
  <2>2. k.race \in Races /\ k = SessionKey(k.race)
    BY <1>2, <1>4, <2>1, KeyIs
  <2>3. QED
    BY <1>3, <1>4, <2>1, <2>2
<1>5. ASSUME NEW r \in Races, entry'[r].new # NoEntry, ~session'[r].new
      PROVE  r \in excused'
  <2>1. CASE SessionKey(r) \in gone
    <3>1. r \in excused' \/ JournalKey(r) \in reset.keys \ Batch
      BY <1>2, <1>3, <1>5, <2>1
    <3>2. Before(JournalKey(r), SessionKey(r))
      BY KeyIs DEF Before
    <3>3. JournalKey(r) \in reset.keys => JournalKey(r) \in Batch
      BY <1>2, <2>1, <3>2
    <3>4. QED
      BY <3>1, <3>3
  <2>2. CASE SessionKey(r) \notin gone
    BY <1>1, <1>5, <2>2 DEF EntriesHaveRaces
  <2>3. QED
    BY <2>1, <2>2
<1>6. QED
  BY <1>4, <1>5 DEF EntriesFirst, EntriesHaveRaces

LEMMA StepExcused ==
  ASSUME Shapes, ValidHasRace, EntriesFirst, EntriesHaveRaces, Next
  PROVE  EntriesFirst' /\ EntriesHaveRaces'
<1>0. \A k \in reset.keys : k.race \in Races
  BY KeyIs DEF Shapes
<1>1. CASE /\ reset' = reset \/ reset'.keys = {}
           /\ excused \subseteq excused'
           /\ \A r \in Races : entry'[r].new = entry[r].new
           /\ \A r \in Races : session[r].new => session'[r].new
  BY <1>0, <1>1 DEF EntriesFirst, EntriesHaveRaces
<1>2. ASSUME NEW r \in Races, SaveDriverSession(r)
      PROVE  EntriesFirst' /\ EntriesHaveRaces'
  <2>1. /\ UNCHANGED <<entry, reset, excused>> /\ DOMAIN session = Races
        /\ session' = [session EXCEPT ![r] = Written(@, TRUE)]
    BY <1>2 DEF SaveDriverSession, Shapes
  <2>2. \A x \in Races : session[x].new => session'[x].new
    BY <2>1 DEF Written
  <2>3. QED
    BY <1>1, <2>1, <2>2
<1>3. ASSUME NEW c \in Calls, SaveJournalEntry(c)
      PROVE  EntriesFirst' /\ EntriesHaveRaces'
  <2> DEFINE r == call[c].race
  <2>1. /\ call[c].pc = "save" /\ UNCHANGED <<session, reset>>
        /\ entry' = [entry EXCEPT ![r] = Written(@, call[c].text)]
        /\ excused' = IF call[c].valid THEN excused ELSE excused \cup {r}
    BY <1>3 DEF SaveJournalEntry
  <2>2. /\ excused \subseteq excused'
        /\ \A x \in Races : x # r => entry'[x] = entry[x]
    BY <2>1 DEF Shapes
  <2>3. r \in excused' \/ (session[r].new /\ reset.keys = {})
    BY <2>1 DEF ValidHasRace, Shapes
  <2> HIDE DEF r
  <2>4. QED
    BY <1>0, <2>1, <2>2, <2>3 DEF EntriesFirst, EntriesHaveRaces
<1>4. ASSUME NEW c \in Calls, DeleteJournalEntry(c)
      PROVE  EntriesFirst' /\ EntriesHaveRaces'
  <2>1. /\ UNCHANGED <<session, reset, excused>>
        /\ entry' = [entry EXCEPT ![call[c].race] = Written(@, NoEntry)]
    BY <1>4 DEF DeleteJournalEntry
  <2>2. \A x \in Races : entry'[x].new # NoEntry => entry'[x].new = entry[x].new
    BY <2>1 DEF Shapes, Written
  <2>3. QED
    BY <1>0, <2>1, <2>2 DEF EntriesFirst, EntriesHaveRaces
<1>5. CASE DeleteDriverRaces
  <2>1. /\ reset'.keys \subseteq Key
        /\ \A r \in Races : SessionKey(r) \in reset'.keys /\ entry[r].new # NoEntry =>
                              r \in excused' \/ JournalKey(r) \in reset'.keys
        /\ excused \subseteq excused'
        /\ UNCHANGED <<session, entry>>
    BY <1>5, ResetBegins
  <2>2. \A k \in reset'.keys : k.race \in Races /\ (k.kind = "session" => k = SessionKey(k.race))
    BY <2>1, KeyIs
  <2>3. EntriesFirst'
    BY <2>1, <2>2 DEF EntriesFirst
  <2>4. EntriesHaveRaces'
    BY <2>1 DEF EntriesHaveRaces
  <2>5. QED
    BY <2>3, <2>4
<1>6. CASE BatchDelete
  BY <1>6, BatchExcuses
<1>7. CASE ResetEnds
  BY <1>1, <1>7 DEF ResetEnds, NoReset
<1>8. CASE Settle
  <2>1. /\ UNCHANGED <<excused, reset>>
        /\ \A r \in Races : session'[r].new = session[r].new /\ entry'[r].new = entry[r].new
    BY <1>8 DEF Settle, CaughtUp, Written
  <2>2. QED
    BY <1>1, <2>1
<1>9. CASE \/ \E c \in Calls : SaveFails(c) \/ ReadBack(c)
           \/ \E c \in Calls, r \in Races : ValidateRaceExists(c, r) \/ Delete(c, r)
           \/ BeginWalk \/ GetJournalEntries \/ GetDriverSessions \/ EndWalk
  <2>1. UNCHANGED <<session, entry, reset, excused>>
    BY <1>9 DEF SaveFails, ReadBack, ValidateRaceExists, Delete, BeginWalk,
                GetJournalEntries, GetDriverSessions, EndWalk
  <2>2. QED
    BY <1>1, <2>1
<1>10. QED
  BY <1>2, <1>3, <1>4, <1>5, <1>6, <1>7, <1>8, <1>9 DEF Next

----------------------------------------------------------------------------
(* The list, page after page.                                              *)

LEMMA NoWalkIs ==
  /\ NoWalk.pc = "idle" /\ NoWalk.page = 0 /\ NoWalk.seen = {}
  /\ DOMAIN NoWalk = {"pc", "page", "found", "expect", "seen"}
BY DEF NoWalk

LEMMA FirstIs ==
  ASSUME NEW n \in Nat, n # 0
  PROVE  First(n) \in Nat /\ First(n + 1) = First(n) + PerPage
<1>1. PICK m \in Nat : n = m + 1
  <2>1. n - 1 \in Nat /\ n = (n - 1) + 1
    OBVIOUS
  <2>2. QED
    BY <2>1
<1>2. PerPage \in Nat
  BY JournalAssumption
<1>3. First(n) = m * PerPage /\ First(n + 1) = (m + 1) * PerPage
  BY <1>1 DEF First
<1>4. m * PerPage \in Nat /\ (m + 1) * PerPage = m * PerPage + PerPage
  BY <1>1, <1>2
<1>5. QED
  BY <1>3, <1>4

\* A reader between two steps loses nothing while no entry goes.
LEMMA WalkKept ==
  ASSUME Shapes, WalkOK, walk' = walk, Entries \subseteq Entries'
  PROVE  WalkOK'
<1>1. CASE walk.pc \in {"query", "join"}
  <2>1. ASSUME Ahead(Entries) PROVE Ahead(Entries)'
    <3>1. Ahead(Entries)' <=> /\ walk.expect \subseteq Entries'
                              /\ \A r \in walk.expect :
                                   r \in walk.seen \/ Newer(Entries', r) >= First(walk.page)
      BY DEF Ahead, Newer, First
    <3>2. First(walk.page) \in Nat
      BY <1>1, FirstIs DEF WalkOK, Shapes
    <3>3. Entries \subseteq Races /\ Entries' \subseteq Races
      BY DEF Entries
    <3>4. ASSUME NEW r \in walk.expect, r \notin walk.seen
          PROVE  Newer(Entries', r) >= First(walk.page)
      <4>1. Newer(Entries, r) >= First(walk.page)
        BY <2>1, <3>4 DEF Ahead
      <4>2. Newer(Entries, r) <= Newer(Entries', r)
        BY <3>3, NewerGrows
      <4>3. Newer(Entries, r) \in Nat /\ Newer(Entries', r) \in Nat
        BY <3>3, NewerIs
      <4>4. QED
        BY <3>2, <4>1, <4>2, <4>3
    <3>5. walk.expect \subseteq Entries
      BY <2>1 DEF Ahead
    <3>6. QED
      BY <3>1, <3>4, <3>5
  <2>2. Ahead(walk.found)' <=> Ahead(walk.found)
    BY DEF Ahead, Newer, First
  <2>3. QED
    BY <1>1, <2>1, <2>2 DEF WalkOK, PagesSkipNothing
<1>2. CASE walk.pc \notin {"query", "join"}
  BY <1>2 DEF WalkOK, PagesSkipNothing
<1>3. QED
  BY <1>1, <1>2

LEMMA WalkEnds ==
  ASSUME walk' = NoWalk PROVE WalkOK'
BY NoWalkIs DEF WalkOK, PagesSkipNothing

LEMMA BeginWalkOK ==
  ASSUME Shapes, BeginWalk PROVE WalkOK'
<1> DEFINE es == {r \in Races : entry[r].new # NoEntry}
<1>1. walk' = [NoWalk EXCEPT !.pc = "query", !.page = 1, !.expect = es]
  BY DEF BeginWalk
<1>2. Entries' = es
  BY DEF BeginWalk, Entries
<1> HIDE DEF es
<1>3. walk'.pc = "query" /\ walk'.page = 1 /\ walk'.expect = es
  BY <1>1, NoWalkIs
<1>4. First(1) = 0
  BY JournalAssumption DEF First
<1>5. \A r : Newer(es, r) \in Nat
  BY <1>2, NewerIs DEF Entries
<1>6. Ahead(Entries)'
  <2>1. Ahead(Entries)' <=> /\ walk'.expect \subseteq es
                            /\ \A r \in walk'.expect :
                                 r \in walk'.seen \/ Newer(es, r) >= First(walk'.page)
    BY <1>2 DEF Ahead, Newer, First
  <2>2. QED
    BY <1>3, <1>4, <1>5, <2>1
<1>7. QED
  BY <1>3, <1>6 DEF WalkOK, PagesSkipNothing

LEMMA QueryOK ==
  ASSUME Shapes, WalkOK, GetJournalEntries PROVE WalkOK'
<1>1. CASE walk' = NoWalk
  BY <1>1, WalkEnds
<1>2. CASE walk' # NoWalk
  <2> DEFINE es == Entries
  <2>1. walk' = [walk EXCEPT !.pc = "join", !.found = FirstRows(es)]
    <3>1. PICK fs \in SUBSET Races :
            /\ \A r \in Races : r \in fs <=> entry[r].new # NoEntry
            /\ walk' = [walk EXCEPT !.pc = "join", !.found = FirstRows(fs)]
      BY <1>2 DEF GetJournalEntries
    <3>2. fs = es
      BY <3>1 DEF Entries
    <3>3. QED
      BY <3>1, <3>2
  <2>2. walk.pc = "query" /\ Entries' = es /\ es \subseteq Races
    BY DEF GetJournalEntries, Entries
  <2> HIDE DEF es
  <2>3. /\ walk'.pc = "join" /\ walk'.found = FirstRows(es) /\ walk'.page = walk.page
        /\ walk'.expect = walk.expect /\ walk'.seen = walk.seen
    BY <2>1 DEF Shapes
  <2>4. ASSUME Cardinality(Races) <= QueryRows
        PROVE  FirstRows(es) = es
    <3>1. ASSUME NEW r \in es PROVE Newer(es, r) < QueryRows
      <4>1. /\ Newer(es, r) \in Nat /\ Cardinality(es) \in Nat
            /\ Newer(es, r) < Cardinality(es)
        BY <2>2, NewerIs
      <4>2. Cardinality(es) <= Cardinality(Races) /\ Cardinality(Races) \in Nat
        BY <2>2, JournalAssumption, FS_Subset, FS_CardinalityType
      <4>3. QED
        BY <2>4, <4>1, <4>2, JournalAssumption
    <3>2. QED
      BY <3>1 DEF FirstRows
  <2>5. ASSUME Cardinality(Races) <= QueryRows
        PROVE  Ahead(Entries)' /\ Ahead(walk.found)' /\ walk'.found \subseteq Entries'
    <3>1. Ahead(es)
      BY <2>2, <2>5 DEF WalkOK, es
    <3>2. walk'.found = es
      BY <2>3, <2>4, <2>5
    <3>3. QED
      BY <2>2, <2>3, <3>1, <3>2 DEF Ahead, Newer, First
  <2>6. QED
    BY <2>2, <2>3, <2>5 DEF WalkOK, PagesSkipNothing
<1>3. QED
  BY <1>1, <1>2

LEMMA PageOK ==
  ASSUME Shapes, WalkOK, GetDriverSessions PROVE WalkOK'
<1>1. CASE walk' = NoWalk
  BY <1>1, WalkEnds
<1>2. CASE walk' # NoWalk
  <2> DEFINE fs == walk.found
             n == walk.page
             more == MorePages(Cardinality(fs), n)
             pc == IF more THEN "query" ELSE "end"
             seen == walk.seen \cup Page(fs, n)
  <2>1. /\ walk' = [walk EXCEPT !.pc = pc, !.page = n + 1, !.found = {}, !.seen = seen]
        /\ walk.pc = "join" /\ entry' = entry
    BY <1>2 DEF GetDriverSessions
  <2>2. fs \subseteq Races /\ n \in Nat /\ n # 0
    BY <2>1 DEF Shapes, WalkOK
  <2> HIDE DEF pc, seen, fs, n
  <2>3. /\ walk'.pc = pc /\ walk'.page = n + 1 /\ walk'.seen = seen
        /\ walk'.expect = walk.expect
    BY <2>1 DEF Shapes
  <2>4. First(n) \in Nat /\ First(n + 1) = First(n) + PerPage /\ PerPage \in Nat
    BY <2>2, FirstIs, JournalAssumption
  <2>5. ASSUME Cardinality(Races) <= QueryRows, NEW r \in walk.expect, r \notin seen
        PROVE  /\ r \in fs /\ Newer(fs, r) >= First(n + 1) /\ more
    <3>1. r \in fs /\ r \notin Page(fs, n) /\ Newer(fs, r) >= First(n)
      BY <2>1, <2>5 DEF WalkOK, Ahead, fs, n, seen
    <3>2. /\ Newer(fs, r) \in Nat /\ Cardinality(fs) \in Nat
          /\ Newer(fs, r) < Cardinality(fs)
      BY <2>2, <3>1, NewerIs
    <3>3. ~(Newer(fs, r) <= First(n) + PerPage - 1)
      BY <2>4, <3>1, <3>2 DEF Page
    <3>4. Newer(fs, r) >= First(n) + PerPage
      BY <2>4, <3>2, <3>3
    <3>5. First(n) + PerPage < Cardinality(fs)
      BY <2>4, <3>2, <3>4
    <3>6. QED
      BY <2>4, <3>1, <3>4, <3>5 DEF MorePages
  <2>6. ASSUME Cardinality(Races) <= QueryRows PROVE Ahead(Entries)'
    <3>1. /\ walk.expect \subseteq Entries /\ fs \subseteq Entries /\ Entries \subseteq Races
      BY <2>1, <2>6 DEF WalkOK, Ahead, fs, Entries
    <3>2. Ahead(Entries)' <=> /\ walk.expect \subseteq Entries
                              /\ \A r \in walk.expect :
                                   r \in seen \/ Newer(Entries, r) >= First(n + 1)
      BY <2>1, <2>3 DEF Ahead, Newer, First, Entries
    <3>3. ASSUME NEW r \in walk.expect, r \notin seen
          PROVE  Newer(Entries, r) >= First(n + 1)
      <4>1. Newer(fs, r) >= First(n + 1)
        BY <2>5, <2>6, <3>3
      <4>2. Newer(fs, r) <= Newer(Entries, r)
        BY <3>1, NewerGrows
      <4>3. Newer(fs, r) \in Nat /\ Newer(Entries, r) \in Nat /\ First(n + 1) \in Nat
        BY <2>2, <2>4, <3>1, NewerIs
      <4>4. QED
        BY <4>1, <4>2, <4>3
    <3>4. QED
      BY <3>1, <3>2, <3>3
  <2>7. PagesSkipNothing'
    <3>1. Cardinality(Races) <= QueryRows /\ ~more => walk.expect \subseteq seen
      BY <2>5
    <3>2. QED
      BY <2>3, <3>1 DEF PagesSkipNothing, pc
  <2>8. n + 1 # 0 /\ pc \in {"query", "end"}
    BY <2>2 DEF pc
  <2>9. QED
    BY <2>3, <2>6, <2>7, <2>8 DEF WalkOK
<1>3. QED
  BY <1>1, <1>2

LEMMA StepWalk ==
  ASSUME Shapes, WalkOK, Next PROVE WalkOK'
<1>1. ASSUME NEW c \in Calls, SaveJournalEntry(c) PROVE WalkOK'
  <2>1. /\ entry' = [entry EXCEPT ![call[c].race] = Written(@, call[c].text)]
        /\ walk' = walk /\ call[c].text # NoEntry
    BY <1>1 DEF SaveJournalEntry, Shapes, CallOK
  <2>2. \A r \in Races : entry[r].new # NoEntry => entry'[r].new # NoEntry
    BY <2>1 DEF Shapes, Written
  <2>3. QED
    BY <2>1, <2>2, WalkKept DEF Entries
<1>2. ASSUME NEW c \in Calls, DeleteJournalEntry(c) PROVE WalkOK'
  BY <1>2, WalkEnds DEF DeleteJournalEntry, Disturbed
<1>3. CASE BatchDelete
  <2>1. walk' = NoWalk \/ (walk' = walk /\ \A r \in Races : entry'[r] = entry[r])
    BY <1>3, BatchIs
  <2>2. QED
    BY <2>1, WalkEnds, WalkKept DEF Entries
<1>4. CASE Settle
  <2>1. walk' = walk /\ \A r \in Races : entry'[r].new = entry[r].new
    BY <1>4 DEF Settle, CaughtUp, Written
  <2>2. QED
    BY <2>1, WalkKept DEF Entries
<1>5. CASE EndWalk
  BY <1>5, WalkEnds DEF EndWalk
<1>6. CASE BeginWalk
  BY <1>6, BeginWalkOK
<1>7. CASE GetJournalEntries
  BY <1>7, QueryOK
<1>8. CASE GetDriverSessions
  BY <1>8, PageOK
<1>9. CASE UNCHANGED <<entry, walk>>
  BY <1>9, WalkKept DEF Entries
<1>10. QED
  BY <1>1, <1>2, <1>3, <1>4, <1>5, <1>6, <1>7, <1>8, <1>9
  DEF Next, SaveDriverSession, ValidateRaceExists, Delete, SaveFails, ReadBack,
      DeleteDriverRaces, ResetEnds

----------------------------------------------------------------------------
(* The invariant holds.                                                    *)

LEMMA InitJournal == Init => JournalInv
<1> SUFFICES ASSUME Init PROVE JournalInv
  OBVIOUS
<1>1. Shapes
  BY InitShapes
<1>2. /\ \A c \in Calls : call[c] = NoCall
      /\ reset.pc = "idle" /\ reset.keys = {} /\ misanswered = FALSE
      /\ walk = NoWalk /\ \A r \in Races : settled[r] = {entry[r].new}
  BY DEF Init, NoReset
<1>3. \A c \in Calls : call[c].pc = "idle"
  BY <1>2, NoCallIs
<1>4. EntriesHaveRaces
  <2>1. PICK stored \in SUBSET Races :
          \E noted \in SUBSET stored :
            /\ session = [r \in Races |-> [new |-> r \in stored, old |-> r \in stored]]
            /\ entry = [r \in Races |->
                          IF r \in noted THEN [new |-> Noted, old |-> Noted]
                                         ELSE [new |-> NoEntry, old |-> NoEntry]]
    BY DEF Init
  <2>2. \A r \in Races : entry[r].new # NoEntry => r \in stored
    BY <2>1
  <2>3. ASSUME NEW r \in stored PROVE session[r].new
    <3>1. session[r] = [new |-> r \in stored, old |-> r \in stored]
      BY <2>1
    <3>2. session[r].new = (r \in stored)
      BY <3>1
    <3>3. QED
      BY <3>2
  <2>4. QED
    BY <2>2, <2>3 DEF EntriesHaveRaces
<1>5. WritesKnown /\ AnsweredWriteStays /\ SavedThere /\ SaveAnswersSaved
      /\ ValidHasRace /\ EntriesFirst
  BY <1>2, <1>3 DEF WritesKnown, AnsweredWriteStays, SavedThere, SaveAnswersSaved,
                    ValidHasRace, EntriesFirst, Free
<1>6. WalkOK
  BY <1>2, NoWalkIs DEF WalkOK, PagesSkipNothing
<1>7. QED
  BY <1>1, <1>4, <1>5, <1>6 DEF JournalInv

LEMMA StepJournal == JournalInv /\ [Next]_vars => JournalInv'
<1> SUFFICES ASSUME JournalInv, [Next]_vars PROVE JournalInv'
  OBVIOUS
<1>1. CASE Next
  BY <1>1, StepShapes, StepSettled, StepSaved, StepAnswers, StepValid, StepExcused, StepWalk
  DEF JournalInv
<1>2. CASE UNCHANGED vars
  <2>1. UNCHANGED <<session, entry, call, reset, walk, requests, settled, excused,
                    misanswered>>
    BY <1>2 DEF vars
  <2>2. Shapes' /\ WritesKnown' /\ AnsweredWriteStays' /\ SavedThere'
    BY <2>1 DEF JournalInv, Shapes, WritesKnown, AnsweredWriteStays, SavedThere, Free
  <2>3. SaveAnswersSaved' /\ ValidHasRace' /\ EntriesFirst' /\ EntriesHaveRaces'
    BY <2>1 DEF JournalInv, SaveAnswersSaved, ValidHasRace, EntriesFirst, EntriesHaveRaces
  <2>4. WalkOK'
    BY <2>1, WalkKept DEF JournalInv, Entries
  <2>5. QED
    BY <2>2, <2>3, <2>4 DEF JournalInv
<1>3. QED
  BY <1>1, <1>2

LEMMA JournalInvariant == Spec => []JournalInv
BY InitJournal, StepJournal, PTL DEF Spec

----------------------------------------------------------------------------
(* Theorems.                                                               *)

\* After a save or a delete was answered the entry is what it left, or what a write
\* left that was not over when it began.
THEOREM AnsweredWriteStaysHolds == Spec => []AnsweredWriteStays
<1>1. JournalInv => AnsweredWriteStays
  BY DEF JournalInv
<1>2. QED
  BY <1>1, JournalInvariant, PTL

\* A save answers with what it saved or what another call made of it since, unless
\* its read back meets a lagging replica.
THEOREM SaveAnswersSavedHolds == Spec => []SaveAnswersSaved
<1>1. JournalInv => SaveAnswersSaved
  BY DEF JournalInv
<1>2. QED
  BY <1>1, JournalInvariant, PTL

\* No entry outlives its race, but one saved while the races were being deleted or
\* left by a batch that was done in part.
THEOREM EntriesHaveRacesHolds == Spec => []EntriesHaveRaces
<1>1. JournalInv => EntriesHaveRaces
  BY DEF JournalInv
<1>2. QED
  BY <1>1, JournalInvariant, PTL

\* A client that reads the list page after page misses no entry, whatever the size
\* of a page and however many are saved meanwhile.
THEOREM PagesSkipNothingHolds == Spec => []PagesSkipNothing
<1>1. JournalInv => PagesSkipNothing
  BY DEF JournalInv, WalkOK
<1>2. QED
  BY <1>1, JournalInvariant, PTL
=============================================================================
