-------------------------------- MODULE Login --------------------------------
(***************************************************************************)
(* Accounts: the OAuth callback and the refresh of the REST API, the info  *)
(* rows of drivers, the global counter and the JWTs that are out.  Calls   *)
(* run beside each other; each of their reads and writes of the table is   *)
(* an action.  Time is coarse: a call may see it change once.              *)
(***************************************************************************)
EXTENDS Naturals, FiniteSets

CONSTANTS
  Drivers,
  Nobody,         \* no driver
  Calls,          \* places for a call of the REST API in flight
  JwtLife,        \* the tokenExpiry of NewJWTService
  Faults,         \* what may go wrong, or be done by hand, in a run
  MaxFaults,      \* how often (bound of the model)
  MaxRequests,    \* requests from outside (bound of the model)
  LastRequest     \* no request begins later (bound of the model)

LoginFaults == {"fail", "lost", "stale", "edit"}

ASSUME LoginAssumption ==
  /\ Nobody \notin Drivers
  /\ JwtLife \in Nat \ {0}
  /\ {MaxFaults, MaxRequests, LastRequest} \subseteq Nat

VARIABLES
  now,
  info,           \* the info row of each driver, an item
  drivers,        \* the attribute drivers of the global counters row
  jwts,           \* the tokens handed out
  call,           \* where each call of the REST API stands
  requests, faults,
  counted,        \* history: logins answered with 200, per driver
  edited          \* history: the entitlement last given by hand, per driver

loginVars == <<now, info, drivers, jwts, call, requests, faults, counted, edited>>

----------------------------------------------------------------------------
(* An item of the table, with the value that a lagging replica may still   *)
(* answer to a read that does not ask for consistency.                     *)

Fresh(v) == [new |-> v, old |-> v]
Written(item, v) == [new |-> v, old |-> item.new]
Reads(item) == {item.new} \cup IF "stale" \in Faults THEN {item.old} ELSE {}
Settled(item) == Fresh(item.new)

Fault(kind) ==
  /\ kind \in Faults
  /\ faults < MaxFaults
  /\ faults' = faults + 1

Request ==
  /\ requests < MaxRequests
  /\ now <= LastRequest
  /\ requests' = requests + 1

----------------------------------------------------------------------------
NoDriver == [firstLogin |-> 0, lastLogin |-> 0, loginCount |-> 0, entitled |-> FALSE]
Exists(row) == row.loginCount > 0

NoCall == [pc |-> "idle", read |-> 0, driver |-> Nobody, entitled |-> FALSE]

ValidToken(j) == now < j.exp

LoginInit ==
  /\ now = 0
  /\ info = [d \in Drivers |-> Fresh(NoDriver)]
  /\ drivers = 0
  /\ jwts = {}
  /\ call = [c \in Calls |-> NoCall]
  /\ requests = 0 /\ faults = 0
  /\ counted = [d \in Drivers |-> 0]
  /\ edited = [d \in Drivers |-> FALSE]

End(c) == call' = [call EXCEPT ![c] = NoCall]

\* POST /auth/ir/callback: the code is exchanged, iRacing says whose it is, and
\* the row is read.  A failure up to here changes nothing.
HandleCallback(c, d) ==
  /\ call[c].pc = "idle"
  /\ Request
  /\ \E row \in Reads(info[d]) :
       call' = [call EXCEPT ![c] = [pc |-> IF Exists(row) THEN "record" ELSE "insert",
                                    read |-> now, driver |-> d, entitled |-> row.entitled]]
  /\ UNCHANGED <<now, info, drivers, jwts, faults, counted, edited>>

Token(d, entitled) == [driver |-> d, entitled |-> entitled, exp |-> now + JwtLife]

\* The login is answered, with a token that carries the entitlements read.
CreateToken(c) ==
  LET d == call[c].driver IN
  /\ jwts' = jwts \cup {Token(d, call[c].entitled)}
  /\ counted' = [counted EXCEPT ![d] = @ + 1]

\* After the write; its answer may be lost, and the login fails then.
Answer(c) ==
  \/ CreateToken(c) /\ UNCHANGED faults
  \/ Fault("lost") /\ UNCHANGED <<jwts, counted>>

\* A time the call has computed between its read and its write.
TimeOf(c) == call[c].read .. now

Put(d, row) == info' = [info EXCEPT ![d] = Written(@, row)]

FirstRow(t) == [firstLogin |-> t, lastLogin |-> t, loginCount |-> 1, entitled |-> FALSE]

LoggedIn(row, t, times) ==
  [row EXCEPT !.lastLogin = t, !.loginCount = row.loginCount + times]

\* Mutant: the put is unconditional.
InsertDriverMutant(c) ==
  LET d == call[c].driver IN
  /\ call[c].pc = "insert"
  /\ End(c)
  /\ \E t \in TimeOf(c) : Put(d, FirstRow(t))
  /\ drivers' = drivers + 1
  /\ Answer(c)
  /\ UNCHANGED <<now, requests, edited>>

\* One transaction: the put on the condition that there is no row, and the
\* counter.  Two first logins may both come here; the later one fails.
InsertDriver(c) ==
  LET d == call[c].driver IN
  /\ call[c].pc = "insert"
  /\ End(c)
  /\ \/ /\ ~Exists(info[d].new)
        /\ \E t \in TimeOf(c) : Put(d, FirstRow(t))
        /\ drivers' = drivers + 1
        /\ Answer(c)
     \/ /\ Exists(info[d].new)
        /\ UNCHANGED <<info, drivers, jwts, counted, faults>>
  /\ UNCHANGED <<now, requests, edited>>

\* Mutant: the entitlement read is written back.
RecordLoginWhole(c) ==
  LET d == call[c].driver IN
  /\ call[c].pc = "record"
  /\ End(c)
  /\ \E t \in TimeOf(c) :
       Put(d, [LoggedIn(info[d].new, t, 1) EXCEPT !.entitled = call[c].entitled])
  /\ Answer(c)
  /\ UNCHANGED <<now, drivers, requests, edited>>

\* An update of two attributes, whatever the others have become since the read.
\* The client library repeats an update whose answer is lost: it counts twice.
RecordLogin(c) ==
  LET d == call[c].driver IN
  /\ call[c].pc = "record"
  /\ End(c)
  /\ \E t \in TimeOf(c), times \in {1, 2} :
       /\ Put(d, LoggedIn(info[d].new, t, times))
       /\ IF times = 1 THEN Answer(c) ELSE Fault("lost") /\ CreateToken(c)
  /\ UNCHANGED <<now, drivers, requests, edited>>

\* POST /auth/refresh: the claims of a valid token, its entitlements included,
\* and new iRacing tokens.  The driver's row is not read.
HandleRefresh(j) ==
  /\ ValidToken(j)
  /\ Request
  /\ jwts' = jwts \cup {Token(j.driver, j.entitled)}
  /\ UNCHANGED <<now, info, drivers, call, faults, counted, edited>>

\* Mutant: a write that fails does not end the login.
CallFailsMutant(c) ==
  /\ call[c].pc # "idle"
  /\ Fault("fail")
  /\ End(c)
  /\ CreateToken(c)
  /\ UNCHANGED <<now, info, drivers, requests, edited>>

\* An error of any call, or the end of the Lambda: the client is answered 500.
CallFails(c) ==
  /\ call[c].pc # "idle"
  /\ Fault("fail")
  /\ End(c)
  /\ UNCHANGED <<now, info, drivers, jwts, requests, counted, edited>>

\* Entitlements are edited in the table, by hand.
EditEntitlement(d) ==
  /\ Exists(info[d].new)
  /\ Fault("edit")
  /\ edited' = [edited EXCEPT ![d] = ~@]
  /\ Put(d, [info[d].new EXCEPT !.entitled = ~info[d].new.entitled])
  /\ UNCHANGED <<now, drivers, jwts, call, requests, counted>>

LoginStep ==
  \/ \E c \in Calls :
       \/ \E d \in Drivers : HandleCallback(c, d)
       \/ InsertDriver(c) \/ RecordLogin(c) \/ CallFails(c)
  \/ \E j \in jwts : HandleRefresh(j)
  \/ \E d \in Drivers : EditEntitlement(d)

\* Replicas have caught up, and no call lasts from one hour into the one after next.
LoginTick ==
  /\ \A c \in Calls : call[c].pc # "idle" => call[c].read = now
  /\ info' = [d \in Drivers |-> Settled(info[d])]
  /\ now' = now + 1
  /\ UNCHANGED <<drivers, jwts, call, requests, faults, counted, edited>>

----------------------------------------------------------------------------
\* store/dynamo_store.go: the drivers counter counts the rows of drivers, also
\* when several first logins of a driver run beside each other.
DriversCounted == drivers = Cardinality({d \in Drivers : Exists(info[d].new)})

\* auth/service.go: a login that was answered is counted in its driver's row,
\* whatever other logins did between its read and its write.
EveryLoginCounted == \A d \in Drivers : counted[d] <= info[d].new.loginCount

\* store/entities.go: nobody's last login lies before the first, although each
\* call uses a clock read before its write is applied.
FirstBeforeLast ==
  \A d \in Drivers : Exists(info[d].new) => info[d].new.firstLogin <= info[d].new.lastLogin

\* store/dynamo_store.go: a login does not undo what others write to the row,
\* here the entitlement given or taken between its read and its write.
EditsSurvive == \A d \in Drivers : info[d].new.entitled = edited[d]

\* auth/service.go: a token's driver has a row, so that what is done with a token
\* may rely on it: ingestion updates the row, and fails if there is none.
TokenHasDriver == \A j \in jwts : Exists(info[j.driver].new)
============================================================================
