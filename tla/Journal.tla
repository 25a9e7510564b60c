------------------------------- MODULE Journal -------------------------------
(***************************************************************************)
(* One driver's race journal: saves, deletions and page by page reads of   *)
(* its entries, beside the ingestion that stores the races they belong to  *)
(* and the deletion of the whole partition.  Every call of the table is an *)
(* action; an entry is the number of the request that wrote its text.      *)
(***************************************************************************)
EXTENDS Naturals, FiniteSets

CONSTANTS
  Races,          \* driver race ids: the seconds of the starts
  Calls,          \* places for a request in flight
  PerPage,        \* resultsPerPage of the reader
  QueryRows,      \* rows in one answer of Query
  BatchGetKeys,   \* keys in one BatchGetItem
  BatchWrites,    \* maxBatchWriteItems
  Faults, MaxFaults,
  MaxRequests     \* requests from outside (bound of the model)

ASSUME JournalAssumption ==
  /\ Races \subseteq Nat /\ IsFiniteSet(Races)
  /\ {PerPage, QueryRows, BatchGetKeys, BatchWrites} \subseteq Nat \ {0}
  /\ Faults \subseteq {"fail", "resend", "torn", "stale"}
  /\ {MaxFaults, MaxRequests} \subseteq Nat

VARIABLES
  session,        \* whether each race has its row, items
  entry,          \* the journal entry of each race, items
  call,           \* where each save or delete stands
  reset,          \* the deletion of the driver's races
  walk,           \* a client that reads the list page by page
  requests, faults,
  settled,        \* history: what an entry may be, after the answers given so far
  excused,        \* history: races whose entry a reset may leave alone
  misanswered     \* history: a save was answered with what it did not save

vars == <<session, entry, call, reset, walk, requests, faults, settled, excused, misanswered>>

NoEntry == 0
Noted == MaxRequests + 1     \* before the run
NoCall == [pc |-> "idle", race |-> 0, text |-> NoEntry, valid |-> FALSE, beside |-> {},
           since |-> {}]
NoReset == [pc |-> "idle", keys |-> {}]
NoWalk == [pc |-> "idle", page |-> 0, found |-> {}, expect |-> {}, seen |-> {}]

Init ==
  /\ \E stored \in SUBSET Races : \E noted \in SUBSET stored :
       /\ session = [r \in Races |-> [new |-> r \in stored, old |-> r \in stored]]
       /\ entry = [r \in Races |-> IF r \in noted THEN [new |-> Noted, old |-> Noted]
                                                 ELSE [new |-> NoEntry, old |-> NoEntry]]
  /\ call = [c \in Calls |-> NoCall]
  /\ reset = NoReset /\ walk = NoWalk
  /\ requests = 0 /\ faults = 0
  /\ settled = [r \in Races |-> {entry[r].new}]
  /\ excused = {} /\ misanswered = FALSE

----------------------------------------------------------------------------
(* Items: a read that does not ask for consistency may find the old value. *)

Written(item, v) == [new |-> v, old |-> item.new]
Reads(item) == {item.new} \cup IF "stale" \in Faults THEN {item.old} ELSE {}

Fault(kind) ==
  /\ kind \in Faults
  /\ faults < MaxFaults
  /\ faults' = faults + 1

Request ==
  /\ requests < MaxRequests
  /\ requests' = requests + 1

Free(c) == call[c].pc = "idle"

\* The writes of race r that are under way; the text of a delete is NoEntry.
Writes(r) == {c \in Calls : ~Free(c) /\ call[c].race = r}

\* A write of race r begins, beside those that are under way.
Begins(c, r, fields) ==
  /\ call' = [x \in Calls |->
       IF x = c
       THEN [fields EXCEPT !.race = r,
               !.beside = {call[y].text : y \in Writes(r)}
                            \cup IF reset.pc = "idle" THEN {} ELSE {NoEntry}]
       ELSE IF x \in Writes(r) THEN [call[x] EXCEPT !.beside = @ \cup {fields.text}]
       ELSE call[x]]
  /\ settled' = [settled EXCEPT ![r] = @ \cup {fields.text}]

\* What a write, or one beside it, may have left when it is answered.
Left(k) == k.beside \cup {k.text}

Settles(c) == settled' = [settled EXCEPT ![call[c].race] = @ \cap Left(call[c])]

\* What each save that waits for its read back may find, once v is written to rs.
Later(calls, rs, v) ==
  [c \in Calls |-> IF calls[c].pc = "back" /\ calls[c].race \in rs
                   THEN [calls[c] EXCEPT !.since = @ \cup {v}]
                   ELSE calls[c]]

\* A client that reads on while entries are deleted is not followed any further.
Disturbed == NoWalk

----------------------------------------------------------------------------
(* Ingestion: SaveDriverSessions stores a race that is not there.          *)

SaveDriverSession(r) ==
  /\ ~session[r].new
  /\ Request
  /\ session' = [session EXCEPT ![r] = Written(@, TRUE)]
  /\ UNCHANGED <<entry, call, reset, walk, faults, settled, excused, misanswered>>

----------------------------------------------------------------------------
(* PUT /driver/{id}/races/{race}/journal                                   *)

\* A race that is not found is answered 400, which changes nothing.
ValidateRaceExists(c, r) ==
  /\ Free(c)
  /\ Request
  /\ TRUE \in Reads(session[r])
  /\ Begins(c, r, [NoCall EXCEPT !.pc = "save", !.text = requests',
                                 !.valid = session[r].new /\ reset.pc = "idle"])
  /\ UNCHANGED <<session, entry, reset, walk, faults, excused, misanswered>>

\* Mutant: an error of the write is not one of the save.
SaveFailsMutant(c) ==
  /\ call[c].pc = "save"
  /\ Fault("fail")
  /\ call' = [call EXCEPT ![c] = NoCall]
  /\ Settles(c)
  /\ UNCHANGED <<session, entry, reset, walk, requests, excused, misanswered>>

\* Mutant: the answer is read before the update.
SaveJournalEntryMutant(c) ==
  LET r == call[c].race  t == call[c].text IN
  /\ call[c].pc = "save"
  /\ entry' = [entry EXCEPT ![r] = Written(@, t)]
  /\ excused' = IF call[c].valid THEN excused ELSE excused \cup {r}
  /\ call' = [Later(call, {r}, t) EXCEPT ![c] = NoCall]
  /\ misanswered' = (misanswered \/ entry[r].new # t)
  /\ Settles(c)
  /\ UNCHANGED <<session, reset, walk, requests, faults>>

\* The update of the entry, whose createdAt is only set if it has none.  The client
\* library repeats one whose answer is lost.
SaveJournalEntry(c) ==
  LET r == call[c].race  t == call[c].text IN
  /\ call[c].pc = "save"
  /\ entry' = [entry EXCEPT ![r] = Written(@, t)]
  /\ excused' = IF call[c].valid THEN excused ELSE excused \cup {r}
  /\ \/ /\ call' = [Later(call, {r}, t) EXCEPT ![c].pc = "back", ![c].since = {t}]
        /\ UNCHANGED faults
     \/ Fault("resend") /\ call' = Later(call, {r}, t)
     \/ Fault("fail") /\ call' = [Later(call, {r}, t) EXCEPT ![c] = NoCall]
  /\ UNCHANGED <<session, reset, walk, requests, settled, misanswered>>

SaveFails(c) ==
  /\ call[c].pc = "save"
  /\ Fault("fail")
  /\ call' = [call EXCEPT ![c] = NoCall]
  /\ UNCHANGED <<session, entry, reset, walk, requests, settled, excused, misanswered>>

\* Get, whose second read, of the race, changes nothing.  Without an entry the
\* handler dereferences nil, and the request is answered 500.
ReadBack(c) ==
  LET r == call[c].race IN
  /\ call[c].pc = "back"
  /\ call' = [call EXCEPT ![c] = NoCall]
  /\ \/ /\ \E found \in Reads(entry[r]) :
             misanswered' = (misanswered \/ (found = entry[r].new /\ found \notin call[c].since))
        /\ Settles(c)
        /\ UNCHANGED faults
     \/ Fault("fail") /\ UNCHANGED <<settled, misanswered>>
  /\ UNCHANGED <<session, entry, reset, walk, requests, excused>>

----------------------------------------------------------------------------
(* DELETE /driver/{id}/races/{race}/journal                                *)

Delete(c, r) ==
  /\ Free(c)
  /\ Request
  /\ Begins(c, r, [NoCall EXCEPT !.pc = "delete"])
  /\ UNCHANGED <<session, entry, reset, walk, faults, excused, misanswered>>

DeleteJournalEntry(c) ==
  LET r == call[c].race  gone == [Later(call, {r}, 0) EXCEPT ![c] = NoCall] IN
  /\ call[c].pc = "delete"
  /\ \/ /\ call' = gone
        /\ Settles(c)
        /\ UNCHANGED faults
     \/ Fault("resend") /\ call' = Later(call, {r}, 0) /\ UNCHANGED settled
     \/ Fault("fail") /\ call' = gone /\ UNCHANGED settled
  /\ entry' = [entry EXCEPT ![r] = Written(@, NoEntry)]
  /\ walk' = Disturbed
  /\ UNCHANGED <<session, reset, requests, excused, misanswered>>

----------------------------------------------------------------------------
(* DELETE /driver/{id}/races                                               *)

Keys(kind, rs) == {[kind |-> kind, race |-> r] : r \in rs}

\* Mutant: the sort keys are the other way round.
BeforeMutant(k, l) ==
  \/ k.kind = "session" /\ l.kind = "journal"
  \/ k.kind = l.kind /\ k.race < l.race

\* The order of the sort keys: journal# before session#, then by race.
Before(k, l) ==
  \/ k.kind = "journal" /\ l.kind = "session"
  \/ k.kind = l.kind /\ k.race < l.race

\* The first n of the keys.
FirstKeys(keys, n) ==
  {k \in keys : Cardinality({l \in keys : Before(l, k)}) < n}

\* All rows one answer of Query holds are deleted, but the info row.
KeysToDelete(es, ss) == FirstKeys(Keys("journal", es) \cup Keys("session", ss), QueryRows)

DeleteDriverRaces ==
  /\ reset.pc = "idle"
  /\ Request
  /\ \E es, ss \in SUBSET Races :
       /\ \A r \in Races :
            /\ \E found \in Reads(entry[r]) : r \in es <=> found # NoEntry
            /\ \E found \in Reads(session[r]) : r \in ss <=> found
       /\ reset' = [pc |-> "batches", keys |-> KeysToDelete(es, ss)]
       /\ excused' = excused \cup {r \in Races : r \in ss \ es /\ entry[r].new # NoEntry}
  /\ settled' = [r \in Races |-> settled[r] \cup {NoEntry}]
  /\ call' = [c \in Calls |->
       IF Free(c) THEN call[c]
       ELSE [call[c] EXCEPT !.valid = FALSE, !.beside = @ \cup {NoEntry}]]
  /\ UNCHANGED <<session, entry, walk, faults, misanswered>>

\* The first of the keys that are left.
Batch == FirstKeys(reset.keys, BatchWrites)

RacesOf(kind, keys) == {k.race : k \in {k \in keys : k.kind = kind}}

\* A batch is not a transaction: one that fails may have deleted a part, and what
\* one that succeeds reports as unprocessed is not tried again.
BatchDelete ==
  /\ reset.pc = "batches" /\ reset.keys # {}
  /\ \E gone \in SUBSET Batch :
       /\ \/ /\ gone = Batch
             /\ reset' = [reset EXCEPT !.keys = @ \ Batch]
             /\ UNCHANGED <<faults, excused, misanswered>>
          \/ /\ Fault("torn")
             /\ excused' = excused \cup {k.race : k \in Batch \ gone}
             /\ \/ reset' = NoReset
                \/ reset' = [reset EXCEPT !.keys = @ \ Batch]
       /\ entry' = [r \in Races |-> IF r \in RacesOf("journal", gone)
                                    THEN Written(entry[r], NoEntry) ELSE entry[r]]
       /\ session' = [r \in Races |-> IF r \in RacesOf("session", gone)
                                      THEN Written(session[r], FALSE) ELSE session[r]]
       /\ call' = Later(call, RacesOf("journal", gone), 0)
       /\ walk' = IF RacesOf("journal", gone) = {} THEN walk ELSE Disturbed
  /\ UNCHANGED <<requests, settled, misanswered>>

\* The info row, which Journal does not model, is reset last.
ResetEnds ==
  /\ reset.pc = "batches" /\ reset.keys = {}
  /\ reset' = NoReset
  /\ UNCHANGED <<session, entry, call, walk, requests, faults, settled, excused, misanswered>>

----------------------------------------------------------------------------
(* GET /driver/{id}/journal, page after page                               *)

BeginWalk ==
  /\ walk.pc = "idle"
  /\ Request
  /\ walk' = [NoWalk EXCEPT !.pc = "query", !.page = 1,
                            !.expect = {r \in Races : entry[r].new # NoEntry}]
  /\ UNCHANGED <<session, entry, call, reset, faults, settled, excused, misanswered>>

\* The list is newest first: how many of its entries come before that of r.
Newer(found, r) == Cardinality({x \in found : x > r})

\* What is past one answer of Query is never asked for.
FirstRows(es) == {r \in es : Newer(es, r) < QueryRows}

GetJournalEntries ==
  /\ walk.pc = "query"
  /\ \E es \in SUBSET Races :
       /\ \A r \in Races : \E found \in Reads(entry[r]) : r \in es <=> found # NoEntry
       /\ walk' = IF \A r \in Races : r \in es <=> entry[r].new # NoEntry
                  THEN [walk EXCEPT !.pc = "join", !.found = FirstRows(es)]
                  ELSE NoWalk
  /\ UNCHANGED <<session, entry, call, reset, requests, faults, settled, excused, misanswered>>

First(page) == (page - 1) * PerPage

\* Mutant: the first row of a page is taken for the last of the one before it.
PageMutant(found, page) ==
  {r \in found : Newer(found, r) \in First(page) + 1 .. First(page) + PerPage - 1}

Page(found, page) ==
  {r \in found : Newer(found, r) \in First(page) .. First(page) + PerPage - 1}

MorePages(total, page) == First(page) + PerPage < total

\* The races of the entries are read in one batch, whose size has a limit.
BatchGetItem(found) == Cardinality(found) <= BatchGetKeys

\* The races of all entries found are read for every page, which is cut afterwards.
\* The client asks for the next page until it has the total the answer names.
GetDriverSessions ==
  /\ walk.pc = "join"
  /\ walk' = IF BatchGetItem(walk.found)
             THEN [walk EXCEPT
                    !.pc = IF MorePages(Cardinality(walk.found), walk.page) THEN "query" ELSE "end",
                    !.page = @ + 1,
                    !.found = {},
                    !.seen = @ \cup Page(walk.found, walk.page)]
             ELSE NoWalk
  /\ UNCHANGED <<session, entry, call, reset, requests, faults, settled, excused, misanswered>>

EndWalk ==
  /\ walk.pc = "end"
  /\ walk' = NoWalk
  /\ UNCHANGED <<session, entry, call, reset, requests, faults, settled, excused, misanswered>>

----------------------------------------------------------------------------
CaughtUp(items) == [r \in Races |-> Written(items[r], items[r].new)]

\* Replicas catch up.
Settle ==
  /\ <<session, entry>> # <<CaughtUp(session), CaughtUp(entry)>>
  /\ session' = CaughtUp(session) /\ entry' = CaughtUp(entry)
  /\ UNCHANGED <<call, reset, walk, requests, faults, settled, excused, misanswered>>

Next ==
  \/ \E r \in Races :
       \/ SaveDriverSession(r)
       \/ \E c \in Calls : ValidateRaceExists(c, r) \/ Delete(c, r)
  \/ \E c \in Calls :
       SaveJournalEntry(c) \/ SaveFails(c) \/ ReadBack(c) \/ DeleteJournalEntry(c)
  \/ DeleteDriverRaces \/ BatchDelete \/ ResetEnds
  \/ BeginWalk \/ GetJournalEntries \/ GetDriverSessions \/ EndWalk
  \/ Settle

Spec == Init /\ [][Next]_vars

----------------------------------------------------------------------------
\* journal/service.go: once a save or a delete has been answered, the entry is what
\* it left or what a write left that was not over when it began.  So a save whose
\* update is repeated, or a deletion of the races that goes on in batches, brings
\* something else back only while it is itself under way; no write that failed or
\* ended earlier does.
AnsweredWriteStays == \A r \in Races : entry[r].new \in settled[r]

\* journal/service.go, Save: the entry a save answers with is what it saved, or what
\* another call has made of it since, unless the read back met a lagging replica.
SaveAnswersSaved == ~misanswered

\* api/driver/delete_races_endpoint.go: an entry outlives its race only if it was
\* saved while the races were being deleted, or if a batch was done in part; a
\* deletion that breaks off between two batches leaves none, for entries go first.
EntriesHaveRaces ==
  \A r \in Races : entry[r].new # NoEntry /\ ~session[r].new => r \in excused

\* api/driver/list_journal_endpoint.go: a client that reads page after page misses
\* no entry that was there when it began, though others are saved meanwhile, as
\* long as none is deleted, no replica lags and one query finds them all.
PagesSkipNothing ==
  walk.pc = "end" /\ Cardinality(Races) <= QueryRows => walk.expect \subseteq walk.seen
============================================================================
