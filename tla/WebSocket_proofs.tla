--------------------------- MODULE WebSocket_proofs ---------------------------
(***************************************************************************)
(* Theorems about Login and WebSocket, for any number of drivers, calls,   *)
(* connections and invocations, any faults and any lifetimes in which a    *)
(* connection ends before its rows.  The invariants come in layers: types, *)
(* accounts, then connections and their rows.                              *)
(***************************************************************************)
EXTENDS WebSocket, FiniteSetTheorems, TLAPS

DriverRow == [firstLogin : Nat, lastLogin : Nat, loginCount : Nat, entitled : BOOLEAN]
RowOf(D) == {NoRow} \cup [driver : D, ttl : Nat]
Item(S) == [new : S, old : S]
CallState == [pc : {"idle", "insert", "record"}, read : Nat,
              driver : Drivers \cup {Nobody}, entitled : BOOLEAN]
ConnState == [state : {"none", "open", "closed"}, opened : Nat,
              disconnect : {"none", "due", "handled"}, told : Drivers \cup {Nobody},
              known : BOOLEAN, names : SUBSET Drivers, wiped : SUBSET Drivers,
              clean : BOOLEAN]
InvState == [pc : {"idle", "save", "reply", "refuse", "delete", "push", "batch"},
             op : {"none", "auth", "ping", "disconnect", "broadcast", "reset"},
             conn : Conns \cup {"none"}, driver : Drivers \cup {Nobody},
             todo : SUBSET Conns, expect : SUBSET Conns, got : SUBSET Conns]

LoginTypes ==
  /\ now \in 0 .. MaxNow
  /\ info \in [Drivers -> Item(DriverRow)]
  /\ drivers \in Nat
  /\ jwts \subseteq [driver : Drivers, entitled : BOOLEAN, exp : 1 .. now + JwtLife]
  /\ call \in [Calls -> CallState]
  /\ requests \in Nat /\ faults \in Nat
  /\ counted \in [Drivers -> Nat]
  /\ edited \in [Drivers -> BOOLEAN]
  /\ \A c \in Calls : call[c].pc # "idle" => call[c].driver \in Drivers

WsTypes ==
  /\ conn \in [Conns -> ConnState]
  /\ ws \in [Drivers -> [Conns -> Item(RowOf(Drivers))]]
  /\ \A d \in Drivers, c \in Conns : ws[d][c] \in Item(RowOf({d}))
  /\ index \in [Conns -> Item(RowOf(Drivers))]
  /\ inv \in [Invs -> InvState]
  /\ \A i \in Invs :
       /\ inv[i].pc # "idle" => inv[i].driver \in Drivers
       /\ inv[i].pc \in {"save", "reply", "refuse", "delete"} => inv[i].conn \in Conns

Types == LoginTypes /\ WsTypes

----------------------------------------------------------------------------
(* Accounts.                                                               *)

HasRow == {d \in Drivers : Exists(info[d].new)}

\* A call that is to record a login found a row, which is older than its read.
CallInv ==
  \A c \in Calls :
    /\ call[c].read <= now
    /\ call[c].pc = "record" =>
         /\ Exists(info[call[c].driver].new)
         /\ info[call[c].driver].new.firstLogin <= call[c].read

\* Rows are never deleted, and none that is not there has been given anything.
RowInv ==
  \A d \in Drivers :
    /\ Exists(info[d].old) => Exists(info[d].new)
    /\ Exists(info[d].new) => info[d].new.firstLogin <= now
    /\ ~Exists(info[d].new) => ~info[d].new.entitled

CountInv == IsFiniteSet(HasRow) /\ drivers = Cardinality(HasRow)

AccountInv ==
  /\ CallInv /\ RowInv /\ CountInv
  /\ EveryLoginCounted /\ FirstBeforeLast /\ EditsSurvive /\ TokenHasDriver

----------------------------------------------------------------------------
(* Connections.                                                            *)

Saving(i, c) == inv[i].op = "auth" /\ inv[i].conn = c /\ inv[i].pc = "save"

\* A connection whose end has not been handled: time does not pass its rows by.
Present(c) == Open(c) \/ conn[c].disconnect = "due"

\* An invocation in the middle of something knows whom it works for.
WorkInv ==
  \A i \in Invs :
    /\ inv[i].pc \in {"save", "reply"} => inv[i].op = "auth"
    /\ inv[i].op = "broadcast" => inv[i].pc = "push"
    /\ inv[i].pc \in {"save", "reply", "refuse"} => conn[inv[i].conn].state # "none"
    /\ inv[i].pc = "delete" => conn[inv[i].conn].disconnect = "handled"
    /\ \A c \in inv[i].expect : conn[c].state # "none"

\* What a connection has been through, in order.
LifeOf(r, t) ==
  /\ r.state = "none" => r.names = {}
  /\ r.state = "closed" <=> r.disconnect # "none"
  /\ r.state # "open" => r.told = Nobody /\ ~r.known
  /\ r.state = "open" => r.opened <= t /\ t <= r.opened + ConnLife

LifeInv == \A c \in Conns : LifeOf(conn[c], now)

\* Nobody saves a connection any more that has left nothing.
CleanInv ==
  \A c \in Conns :
    conn[c].clean => /\ conn[c].disconnect = "handled"
                     /\ \A i \in Invs : ~Saving(i, c)

\* The rows of a connection name a driver it authenticated as, and outlive it.
OwnAt(c) ==
  /\ index[c].new # NoRow => index[c].new.driver \in conn[c].names
  /\ index[c].old # NoRow => index[c].old.driver \in conn[c].names
  /\ Open(c) /\ index[c].new # NoRow => index[c].new.ttl >= conn[c].opened + RowLife
  /\ Present(c) => ~Expired(index[c])
  /\ \A d \in Drivers :
       /\ ws[d][c].new # NoRow => d \in conn[c].names
       /\ Open(c) /\ ws[d][c].new # NoRow => ws[d][c].new.ttl >= conn[c].opened + RowLife
       /\ Present(c) => ~Expired(ws[d][c])
       /\ Present(c) /\ ws[d][c].new # NoRow => index[c].new # NoRow

OwnInv == \A c \in Conns : OwnAt(c)

DeleteInv ==
  \A i \in Invs : inv[i].pc = "delete" => inv[i].driver \in conn[inv[i].conn].names

\* Both rows are written together, and live until the same time.
PairAt(c) ==
  \A d \in Drivers :
    conn[c].names \subseteq {d} /\ d \notin conn[c].wiped =>
      /\ ws[d][c].new = NoRow => index[c].new = NoRow \/ Expired(index[c])
      /\ index[c].new = NoRow => ws[d][c].new = NoRow \/ Expired(ws[d][c])
      /\ ws[d][c].new # NoRow /\ index[c].new # NoRow => ws[d][c].new.ttl = index[c].new.ttl

PairInv == \A c \in Conns : PairAt(c)

\* The auth message's reply comes after its row, the replicas' knowledge after that.
ReplyAt(i) ==
  LET d == inv[i].driver  c == inv[i].conn IN
  inv[i].pc = "reply" /\ Open(c) /\ d \notin conn[c].wiped => ws[d][c].new # NoRow

ToldAt(c) ==
  LET d == conn[c].told IN
  d # Nobody /\ d \notin conn[c].wiped =>
    ws[d][c].new # NoRow /\ (conn[c].known => ws[d][c].old # NoRow)

ToldInv == (\A i \in Invs : ReplyAt(i)) /\ (\A c \in Conns : ToldAt(c))

BroadcastInv ==
  \A i \in Invs :
    inv[i].op = "broadcast" => \A c \in inv[i].expect : Open(c) => c \in inv[i].todo \cup inv[i].got

ConnInv ==
  /\ WorkInv /\ LifeInv /\ CleanInv /\ OwnInv /\ DeleteInv
  /\ PairInv /\ ToldInv /\ BroadcastInv /\ CleanDisconnect

----------------------------------------------------------------------------
(* What the one half of the system leaves alone of the other.              *)

LEMMA WsFrame ==
  ASSUME WsStep \/ Expire, requests \in Nat, faults \in Nat
  PROVE  /\ UNCHANGED <<now, info, drivers, jwts, call, counted, edited>>
         /\ requests' \in Nat /\ faults' \in Nat
<1> USE DEF Request, Fault, loginVars
<1>1. CASE Expire
  BY <1>1 DEF Expire, ExpireIndex, ExpireRow
<1>2. CASE \E c \in Conns : Connect(c) \/ Close(c) \/ NoDisconnect(c)
  BY <1>2 DEF Connect, Close, NoDisconnect
<1>3. ASSUME NEW i \in Invs, Message(i)
      PROVE  /\ UNCHANGED <<now, info, drivers, jwts, call, counted, edited>>
             /\ requests' \in Nat /\ faults' \in Nat
  <2>1. CASE \E j \in jwts, c \in Conns : Auth(i, c, j)
    BY <2>1 DEF Auth
  <2>2. CASE \E j \in jwts : DeleteDriverRaces(i, j)
    BY <2>2 DEF DeleteDriverRaces
  <2>3. CASE \E d \in Drivers, c \in Conns : Ping(i, c, d)
    BY <2>3 DEF Ping
  <2>4. CASE \E d \in Drivers : Broadcast(i, d)
    BY <2>4 DEF Broadcast
  <2>5. QED
    BY <1>3, <2>1, <2>2, <2>3, <2>4 DEF Message
<1>4. ASSUME NEW i \in Invs, Handler(i)
      PROVE  /\ UNCHANGED <<now, info, drivers, jwts, call, counted, edited>>
             /\ requests' \in Nat /\ faults' \in Nat
  <2>1. CASE SaveConnection(i)
    BY <2>1 DEF SaveConnection
  <2>2. CASE AuthReply(i) \/ Refuse(i)
    BY <2>2 DEF AuthReply, Refuse
  <2>3. CASE DeleteConnection(i)
    BY <2>3 DEF DeleteConnection
  <2>4. CASE Push(i)
    BY <2>4 DEF Push
  <2>5. CASE BatchDelete(i)
    BY <2>5 DEF BatchDelete
  <2>6. QED
    BY <1>4, <2>1, <2>2, <2>3, <2>4, <2>5 DEF Handler
<1>5. CASE \E i \in Invs, c \in Conns : GetDriverIDByConnection(i, c)
  BY <1>5 DEF GetDriverIDByConnection
<1>6. QED
  BY <1>1, <1>2, <1>3, <1>4, <1>5 DEF WsStep

LEMMA LoginFrame ==
  ASSUME LoginStep PROVE now' = now
BY DEF LoginStep, HandleCallback, InsertDriver, RecordLogin, CallFails, HandleRefresh,
  EditEntitlement

LEMMA ItemTypes ==
  ASSUME NEW S, NEW item \in Item(S), NEW v \in S
  PROVE  Written(item, v) \in Item(S)
BY DEF Written, Item

LEMMA SettledTypes ==
  ASSUME NEW S, NEW item \in Item(S)
  PROVE  Settled(item) \in Item(S)
BY DEF Settled, Fresh, Item

LEMMA AnswerTypes ==
  ASSUME LoginTypes, NEW c \in Calls, call[c].pc # "idle",
         Answer(c) \/ (Fault("lost") /\ CreateToken(c)) \/ UNCHANGED <<jwts, counted, faults>>
  PROVE  /\ jwts' \subseteq [driver : Drivers, entitled : BOOLEAN, exp : 1 .. now + JwtLife]
         /\ counted' \in [Drivers -> Nat]
         /\ faults' \in Nat
<1>1. Token(call[c].driver, call[c].entitled)
        \in [driver : Drivers, entitled : BOOLEAN, exp : 1 .. now + JwtLife]
  BY LoginAssumption, LifeAssumption DEF LoginTypes, CallState, Token
<1>2. CASE CreateToken(c) /\ (UNCHANGED faults \/ Fault("lost"))
  BY <1>1, <1>2 DEF CreateToken, LoginTypes, Fault
<1>3. CASE UNCHANGED <<jwts, counted>> /\ (UNCHANGED faults \/ Fault("lost"))
  BY <1>3 DEF LoginTypes, Fault
<1>4. QED
  BY <1>2, <1>3 DEF Answer

LEMMA PutTypes ==
  ASSUME LoginTypes, NEW d \in Drivers, NEW row \in DriverRow, Put(d, row)
  PROVE  info' \in [Drivers -> Item(DriverRow)]
<1>1. Written(info[d], row) \in Item(DriverRow)
  BY ItemTypes DEF LoginTypes
<1>2. QED
  BY <1>1 DEF Put, LoginTypes

\* A row, and what each login makes of it.
LEMMA RowTypes ==
  ASSUME LoginTypes
  PROVE  /\ \A t \in Nat : FirstRow(t) \in DriverRow
         /\ \A d \in Drivers : info[d].new \in DriverRow /\ info[d].old \in DriverRow
         /\ \A d \in Drivers, t \in Nat, times \in {1, 2} :
              LoggedIn(info[d].new, t, times) \in DriverRow
         /\ \A c \in Calls : TimeOf(c) \subseteq Nat
<1>1. \A d \in Drivers : info[d].new \in DriverRow /\ info[d].old \in DriverRow
  BY DEF LoginTypes, Item
<1>2. \A c \in Calls : call[c].read \in Nat /\ now \in Nat
  BY DEF LoginTypes, CallState
<1>3. ASSUME NEW row \in DriverRow, NEW t \in Nat, NEW times \in {1, 2}
      PROVE  LoggedIn(row, t, times) \in DriverRow
  <2>1. row.loginCount + times \in Nat
    BY DEF DriverRow
  <2>2. QED
    BY <2>1 DEF LoggedIn, DriverRow
<1>4. \A t \in Nat : FirstRow(t) \in DriverRow
  BY DEF FirstRow, DriverRow
<1>5. \A c \in Calls : TimeOf(c) \subseteq Nat
  BY <1>2 DEF TimeOf
<1>6. QED
  BY <1>1, <1>3, <1>4, <1>5

LEMMA LoginTypesStep ==
  ASSUME LoginTypes, LoginStep PROVE LoginTypes'
<1> NoCall \in CallState
  BY DEF NoCall, CallState
<1>1. ASSUME NEW c \in Calls, NEW d \in Drivers, HandleCallback(c, d) PROVE LoginTypes'
  <2>1. PICK row \in Reads(info[d]) :
          call' = [call EXCEPT ![c] = [pc |-> IF Exists(row) THEN "record" ELSE "insert",
                                       read |-> now, driver |-> d, entitled |-> row.entitled]]
    BY <1>1 DEF HandleCallback
  <2>2. row.entitled \in BOOLEAN
    BY RowTypes DEF Reads, DriverRow
  <2>3. now \in Nat /\ requests' \in Nat
    BY <1>1 DEF HandleCallback, Request, LoginTypes
  <2>4. call' \in [Calls -> CallState]
    BY <2>1, <2>2, <2>3 DEF LoginTypes, CallState
  <2>5. \A a \in Calls : call'[a].pc # "idle" => call'[a].driver \in Drivers
    BY <2>1 DEF LoginTypes
  <2>6. QED
    BY <1>1, <2>3, <2>4, <2>5 DEF HandleCallback, LoginTypes
<1>2. ASSUME NEW c \in Calls, End(c), UNCHANGED <<now, requests, edited>>,
             info' \in [Drivers -> Item(DriverRow)], drivers' \in Nat,
             call[c].pc # "idle",
             Answer(c) \/ (Fault("lost") /\ CreateToken(c)) \/ UNCHANGED <<jwts, counted, faults>>
      PROVE  LoginTypes'
  <2>1. call' \in [Calls -> CallState]
    BY <1>2 DEF End, LoginTypes
  <2>2. \A a \in Calls : call'[a].pc # "idle" => call'[a].driver \in Drivers
    BY <1>2 DEF End, LoginTypes, NoCall
  <2>3. QED
    BY <1>2, <2>1, <2>2, AnswerTypes DEF LoginTypes
<1>3. ASSUME NEW c \in Calls, InsertDriver(c) PROVE LoginTypes'
  <2>1. call[c].pc # "idle" /\ call[c].driver \in Drivers
    BY <1>3 DEF InsertDriver, LoginTypes
  <2>2. CASE /\ \E t \in TimeOf(c) : Put(call[c].driver, FirstRow(t))
             /\ drivers' = drivers + 1 /\ Answer(c)
    <3>1. info' \in [Drivers -> Item(DriverRow)]
      BY <2>1, <2>2, RowTypes, PutTypes
    <3>2. drivers' \in Nat
      BY <2>2 DEF LoginTypes
    <3>3. QED
      BY <1>2, <1>3, <2>1, <2>2, <3>1, <3>2 DEF InsertDriver
  <2>3. CASE UNCHANGED <<info, drivers, jwts, counted, faults>>
    BY <1>2, <1>3, <2>1, <2>3 DEF InsertDriver, LoginTypes
  <2>4. QED
    BY <1>3, <2>2, <2>3 DEF InsertDriver
<1>4. ASSUME NEW c \in Calls, RecordLogin(c) PROVE LoginTypes'
  <2>1. call[c].pc # "idle" /\ call[c].driver \in Drivers
    BY <1>4 DEF RecordLogin, LoginTypes
  <2>2. PICK t \in TimeOf(c), times \in {1, 2} :
          /\ Put(call[c].driver, LoggedIn(info[call[c].driver].new, t, times))
          /\ IF times = 1 THEN Answer(c) ELSE Fault("lost") /\ CreateToken(c)
    BY <1>4 DEF RecordLogin
  <2>3. LoggedIn(info[call[c].driver].new, t, times) \in DriverRow
    BY <2>1, RowTypes
  <2>4. info' \in [Drivers -> Item(DriverRow)]
    BY <2>1, <2>2, <2>3, PutTypes
  <2>5. QED
    BY <1>2, <1>4, <2>1, <2>2, <2>4 DEF RecordLogin, LoginTypes
<1>5. ASSUME NEW c \in Calls, CallFails(c) PROVE LoginTypes'
  BY <1>5 DEF CallFails, LoginTypes, End, Fault, NoCall
<1>6. ASSUME NEW j \in jwts, HandleRefresh(j) PROVE LoginTypes'
  <2>1. Token(j.driver, j.entitled)
          \in [driver : Drivers, entitled : BOOLEAN, exp : 1 .. now + JwtLife]
    BY LoginAssumption, LifeAssumption DEF LoginTypes, Token
  <2>2. QED
    BY <1>6, <2>1 DEF HandleRefresh, LoginTypes, Request
<1>7. ASSUME NEW d \in Drivers, EditEntitlement(d) PROVE LoginTypes'
  <2>1. [info[d].new EXCEPT !.entitled = ~info[d].new.entitled] \in DriverRow
    <3>1. info[d].new \in DriverRow /\ (~info[d].new.entitled) \in BOOLEAN
      BY RowTypes
    <3>2. QED
      BY <3>1 DEF DriverRow
  <2>2. info' \in [Drivers -> Item(DriverRow)]
    BY <1>7, <2>1, PutTypes DEF EditEntitlement
  <2>3. edited' \in [Drivers -> BOOLEAN]
    BY <1>7 DEF EditEntitlement, LoginTypes
  <2>4. QED
    BY <1>7, <2>2, <2>3 DEF EditEntitlement, LoginTypes, Fault
<1>8. QED
  BY <1>1, <1>3, <1>4, <1>5, <1>6, <1>7 DEF LoginStep

\* Each variable of the accounts keeps its type.
THEOREM LoginTypesHold == Spec => []LoginTypes
<1>1. Init => LoginTypes
  BY LoginAssumption, LifeAssumption DEF Init, LoginInit, LoginTypes, Fresh, NoDriver,
    Item, DriverRow, NoCall, CallState
<1>2. LoginTypes /\ [Next]_vars => LoginTypes'
  <2> SUFFICES ASSUME LoginTypes, [Next]_vars PROVE LoginTypes'
    OBVIOUS
  <2>1. CASE LoginStep
    BY <2>1, LoginTypesStep
  <2>2. CASE WsStep \/ Expire
    <3>1. requests \in Nat /\ faults \in Nat
      BY DEF LoginTypes
    <3>2. QED
      BY <2>2, <3>1, WsFrame DEF LoginTypes
  <2>3. CASE Tick
    <3>1. now' \in 0 .. MaxNow /\ now \in Nat /\ now' = now + 1
      BY <2>3, LifeAssumption DEF Tick, LoginTick, LoginTypes
    <3>2. jwts' \subseteq [driver : Drivers, entitled : BOOLEAN, exp : 1 .. now' + JwtLife]
      BY <2>3, <3>1, LoginAssumption DEF Tick, LoginTick, LoginTypes
    <3>3. info' \in [Drivers -> Item(DriverRow)]
      <4>1. \A d \in Drivers : Settled(info[d]) \in Item(DriverRow)
        BY SettledTypes DEF LoginTypes
      <4>2. QED
        BY <2>3, <4>1 DEF Tick, LoginTick
    <3>4. QED
      BY <2>3, <3>1, <3>2, <3>3 DEF Tick, LoginTick, LoginTypes
  <2>4. CASE UNCHANGED vars
    BY <2>4 DEF vars, loginVars, LoginTypes
  <2>5. QED
    BY <2>1, <2>2, <2>3, <2>4 DEF Next
<1>3. QED
  BY <1>1, <1>2, PTL DEF Spec

----------------------------------------------------------------------------
(* The invariant of the accounts.                                          *)

LEMMA PutValue ==
  ASSUME LoginTypes, NEW d \in Drivers, NEW row, Put(d, row)
  PROVE  /\ info'[d].new = row /\ info'[d].old = info[d].new
         /\ \A x \in Drivers \ {d} : info'[x] = info[x]
BY DEF Put, Written, LoginTypes

\* Rows stay, and keep their first login.
RowsStay ==
  \A d \in Drivers :
    Exists(info[d].new) => /\ Exists(info'[d].new)
                           /\ info'[d].new.firstLogin = info[d].new.firstLogin

LEMMA CallsKept ==
  ASSUME LoginTypes, CallInv, RowsStay, now' = now,
         \A a \in Calls : call'[a] = call[a] \/ call'[a] = NoCall
  PROVE  CallInv'
<1> SUFFICES ASSUME NEW a \in Calls
    PROVE  /\ call'[a].read <= now'
           /\ call'[a].pc = "record" =>
                /\ Exists(info'[call'[a].driver].new)
                /\ info'[call'[a].driver].new.firstLogin <= call'[a].read
  BY DEF CallInv
<1>1. CASE call'[a] = NoCall
  BY <1>1 DEF NoCall, LoginTypes
<1>2. CASE call'[a] = call[a]
  <2>1. call[a].pc = "record" => call[a].driver \in Drivers
    BY DEF LoginTypes
  <2>2. QED
    BY <1>2, <2>1 DEF CallInv, RowsStay
<1>3. QED
  BY <1>1, <1>2

\* A login that is answered, in a step that has counted it.
LEMMA AnswerKeeps ==
  ASSUME LoginTypes, RowsStay, TokenHasDriver, NEW c \in Calls, call[c].driver \in Drivers,
         Answer(c) \/ (Fault("lost") /\ CreateToken(c)) \/ UNCHANGED <<jwts, counted, faults>>,
         UNCHANGED <<jwts, counted>> \/ Exists(info'[call[c].driver].new)
  PROVE  /\ TokenHasDriver'
         /\ \A d \in Drivers : counted'[d] \in {counted[d],
                                 IF d = call[c].driver THEN counted[d] + 1 ELSE counted[d]}
<1>1. \A j \in jwts : j.driver \in Drivers
  BY DEF LoginTypes
<1>2. CASE UNCHANGED <<jwts, counted>>
  BY <1>1, <1>2 DEF TokenHasDriver, RowsStay
<1>3. CASE CreateToken(c) /\ Exists(info'[call[c].driver].new)
  <2>1. \A j \in jwts' : j \in jwts \/ j.driver = call[c].driver
    BY <1>3 DEF CreateToken, Token
  <2>2. TokenHasDriver'
    BY <1>1, <1>3, <2>1 DEF TokenHasDriver, RowsStay
  <2>3. QED
    BY <1>3, <2>2 DEF CreateToken, LoginTypes
<1>4. QED
  BY <1>2, <1>3 DEF Answer

LEMMA AccountsInit == Init => AccountInv
<1> SUFFICES ASSUME Init PROVE AccountInv
  OBVIOUS
<1>1. \A d \in Drivers : info[d] = Fresh(NoDriver)
  BY DEF Init, LoginInit
<1>2. HasRow = {}
  BY <1>1 DEF HasRow, Exists, Fresh, NoDriver
<1>3. CountInv
  BY <1>2, FS_EmptySet DEF CountInv, Init, LoginInit
<1>4. CallInv /\ TokenHasDriver
  BY DEF CallInv, TokenHasDriver, Init, LoginInit, NoCall
<1>5. RowInv /\ FirstBeforeLast
  BY <1>1 DEF RowInv, FirstBeforeLast, Fresh, NoDriver, Exists
<1>6. EveryLoginCounted /\ EditsSurvive
  <2>1. \A d \in Drivers : info[d].new.entitled = FALSE /\ info[d].new.loginCount = 0
    BY <1>1 DEF Fresh, NoDriver
  <2>2. \A d \in Drivers : edited[d] = FALSE /\ counted[d] = 0
    BY DEF Init, LoginInit
  <2>3. EditsSurvive
    BY <2>1, <2>2, Zenon DEF EditsSurvive
  <2>4. EveryLoginCounted
    BY <2>1, <2>2 DEF EveryLoginCounted
  <2>5. QED
    BY <2>3, <2>4
<1>7. QED
  BY <1>3, <1>4, <1>5, <1>6 DEF AccountInv

LEMMA InsertKeeps ==
  ASSUME LoginTypes, AccountInv, NEW c \in Calls, InsertDriver(c) PROVE AccountInv'
<1> DEFINE d == call[c].driver
<1>1. d \in Drivers /\ now \in Nat /\ call[c].read \in Nat /\ now' = now
  BY DEF InsertDriver, LoginTypes, CallState
<1>2. \A a \in Calls : call'[a] = call[a] \/ call'[a] = NoCall
  BY DEF InsertDriver, End, LoginTypes
<1>3. CASE UNCHANGED <<info, drivers, jwts, counted, faults>>
  <2>1. CallInv'
    BY <1>1, <1>2, <1>3, CallsKept DEF RowsStay, AccountInv
  <2>2. QED
    BY <1>1, <1>3, <2>1 DEF AccountInv, RowInv, CountInv, HasRow, EveryLoginCounted,
      FirstBeforeLast, EditsSurvive, TokenHasDriver, InsertDriver
<1>4. CASE /\ ~Exists(info[d].new)
           /\ \E t \in TimeOf(c) : Put(d, FirstRow(t))
           /\ drivers' = drivers + 1
           /\ Answer(c)
  <2>1. PICK t \in TimeOf(c) : Put(d, FirstRow(t))
    BY <1>4
  <2>2. t \in Nat /\ t <= now
    BY <1>1 DEF TimeOf
  <2>3. /\ info'[d].new = FirstRow(t) /\ info'[d].old = info[d].new
        /\ \A x \in Drivers \ {d} : info'[x] = info[x]
    BY <1>1, <2>1, PutValue
  <2>4. Exists(info'[d].new)
    BY <2>3 DEF FirstRow, Exists
  <2>5. RowsStay
    BY <1>1, <1>4, <2>3 DEF RowsStay
  <2>6. CallInv'
    BY <1>1, <1>2, <2>5, CallsKept DEF AccountInv
  <2>7. RowInv'
    BY <1>1, <2>2, <2>3, <2>4 DEF RowInv, AccountInv, FirstRow
  <2>8. CountInv'
    <3>1. HasRow' = HasRow \cup {d} /\ d \notin HasRow
      BY <1>1, <1>4, <2>3, <2>4 DEF HasRow
    <3>2. IsFiniteSet(HasRow') /\ Cardinality(HasRow') = Cardinality(HasRow) + 1
      BY <3>1, FS_AddElement DEF AccountInv, CountInv
    <3>3. QED
      BY <1>4, <3>2 DEF AccountInv, CountInv
  <2>9. /\ TokenHasDriver'
        /\ \A x \in Drivers : counted'[x] \in {counted[x],
                                IF x = d THEN counted[x] + 1 ELSE counted[x]}
    BY <1>1, <1>4, <2>4, <2>5, AnswerKeeps DEF AccountInv
  <2>10. EveryLoginCounted'
    <3>1. info[d].new.loginCount = 0
      <4>1. info[d].new.loginCount \in Nat
        BY <1>1, RowTypes DEF DriverRow
      <4>2. QED
        BY <1>4, <4>1 DEF Exists
    <3>2. counted[d] \in Nat /\ counted[d] <= 0
      BY <1>1, <3>1 DEF AccountInv, EveryLoginCounted, LoginTypes
    <3>3. counted'[d] <= 1
      BY <1>1, <2>9, <3>2
    <3>4. info'[d].new.loginCount = 1
      BY <2>3 DEF FirstRow
    <3>5. QED
      BY <2>3, <2>9, <3>3, <3>4 DEF AccountInv, EveryLoginCounted
  <2>11. FirstBeforeLast'
    BY <2>2, <2>3 DEF AccountInv, FirstBeforeLast, FirstRow
  <2>12. EditsSurvive'
    <3>1. edited[d] = FALSE
      BY <1>1, <1>4 DEF AccountInv, EditsSurvive, RowInv, LoginTypes
    <3>2. info'[d].new.entitled = FALSE /\ edited' = edited
      BY <2>3 DEF FirstRow, InsertDriver
    <3>3. QED
      BY <2>3, <3>1, <3>2 DEF AccountInv, EditsSurvive
  <2>13. QED
    BY <2>6, <2>7, <2>8, <2>9, <2>10, <2>11, <2>12 DEF AccountInv
<1>5. QED
  BY <1>3, <1>4 DEF InsertDriver

LEMMA RecordKeeps ==
  ASSUME LoginTypes, AccountInv, NEW c \in Calls, RecordLogin(c) PROVE AccountInv'
<1> DEFINE d == call[c].driver
<1>1. d \in Drivers /\ now \in Nat /\ call[c].read \in Nat /\ now' = now
  BY DEF RecordLogin, LoginTypes, CallState
<1>2. \A a \in Calls : call'[a] = call[a] \/ call'[a] = NoCall
  BY DEF RecordLogin, End, LoginTypes
<1>3. PICK t \in TimeOf(c), times \in {1, 2} :
        /\ Put(d, LoggedIn(info[d].new, t, times))
        /\ IF times = 1 THEN Answer(c) ELSE Fault("lost") /\ CreateToken(c)
  BY DEF RecordLogin
<1>4. t \in Nat /\ call[c].read <= t /\ t <= now
  BY <1>1 DEF TimeOf
<1>5. /\ Exists(info[d].new) /\ info[d].new.firstLogin <= call[c].read
      /\ info[d].new \in DriverRow
  BY <1>1, RowTypes DEF AccountInv, CallInv, RecordLogin
<1>6. /\ info'[d].new.firstLogin = info[d].new.firstLogin
      /\ info'[d].new.lastLogin = t
      /\ info'[d].new.loginCount = info[d].new.loginCount + times
      /\ info'[d].new.entitled = info[d].new.entitled
      /\ info'[d].old = info[d].new
      /\ \A x \in Drivers \ {d} : info'[x] = info[x]
  <2>1. /\ info'[d].new = LoggedIn(info[d].new, t, times) /\ info'[d].old = info[d].new
        /\ \A x \in Drivers \ {d} : info'[x] = info[x]
    BY <1>1, <1>3, PutValue
  <2>2. QED
    BY <1>5, <2>1 DEF LoggedIn, DriverRow
<1>7. Exists(info'[d].new)
  BY <1>5, <1>6 DEF Exists, DriverRow
<1>8. RowsStay
  BY <1>6, <1>7 DEF RowsStay
<1>9. CallInv'
  BY <1>1, <1>2, <1>8, CallsKept DEF AccountInv
<1>10. RowInv'
  BY <1>1, <1>5, <1>6, <1>7 DEF RowInv, AccountInv
<1>11. CountInv'
  <2>1. HasRow' = HasRow
    BY <1>1, <1>5, <1>6, <1>7 DEF HasRow
  <2>2. QED
    BY <2>1 DEF AccountInv, CountInv, RecordLogin
<1>12. /\ TokenHasDriver'
       /\ \A x \in Drivers : counted'[x] \in {counted[x],
                               IF x = d THEN counted[x] + 1 ELSE counted[x]}
  BY <1>1, <1>3, <1>7, <1>8, AnswerKeeps DEF AccountInv
<1>13. EveryLoginCounted'
  <2>1. counted[d] \in Nat /\ counted[d] <= info[d].new.loginCount
    BY <1>1 DEF AccountInv, EveryLoginCounted, LoginTypes
  <2>2. counted'[d] <= info'[d].new.loginCount
    BY <1>1, <1>5, <1>6, <1>12, <2>1 DEF DriverRow
  <2>3. QED
    BY <1>6, <1>12, <2>2 DEF AccountInv, EveryLoginCounted
<1>14. FirstBeforeLast'
  BY <1>4, <1>5, <1>6, <1>1 DEF AccountInv, FirstBeforeLast, DriverRow
<1>15. EditsSurvive'
  BY <1>1, <1>6 DEF AccountInv, EditsSurvive, RecordLogin
<1>16. QED
  BY <1>9, <1>10, <1>11, <1>12, <1>13, <1>14, <1>15 DEF AccountInv

LEMMA EditKeeps ==
  ASSUME LoginTypes, AccountInv, NEW d \in Drivers, EditEntitlement(d) PROVE AccountInv'
<1>1. now' = now /\ Exists(info[d].new) /\ info[d].new \in DriverRow
  BY RowTypes DEF EditEntitlement
<1>2. /\ info'[d].new = [info[d].new EXCEPT !.entitled = ~info[d].new.entitled]
      /\ info'[d].old = info[d].new
      /\ \A x \in Drivers \ {d} : info'[x] = info[x]
  BY PutValue DEF EditEntitlement
<1>3. /\ info'[d].new.firstLogin = info[d].new.firstLogin
      /\ info'[d].new.lastLogin = info[d].new.lastLogin
      /\ info'[d].new.loginCount = info[d].new.loginCount
      /\ info'[d].new.entitled = ~info[d].new.entitled
  BY <1>1, <1>2 DEF DriverRow
<1>4. Exists(info'[d].new) /\ RowsStay
  BY <1>1, <1>2, <1>3 DEF Exists, RowsStay
<1>5. CallInv'
  BY <1>1, <1>4, CallsKept DEF AccountInv, EditEntitlement
<1>6. RowInv' /\ FirstBeforeLast'
  BY <1>1, <1>2, <1>3, <1>4 DEF RowInv, FirstBeforeLast, AccountInv
<1>7. CountInv'
  <2>1. HasRow' = HasRow
    BY <1>1, <1>2, <1>4 DEF HasRow
  <2>2. QED
    BY <2>1 DEF AccountInv, CountInv, EditEntitlement
<1>8. EveryLoginCounted'
  BY <1>2, <1>3 DEF AccountInv, EveryLoginCounted, EditEntitlement
<1>9. TokenHasDriver'
  BY <1>4 DEF AccountInv, TokenHasDriver, EditEntitlement, RowsStay, LoginTypes
<1>10. EditsSurvive'
  <2>1. edited'[d] = ~edited[d] /\ \A x \in Drivers \ {d} : edited'[x] = edited[x]
    BY DEF EditEntitlement, LoginTypes
  <2>2. \A x \in Drivers : info[x].new.entitled = edited[x]
    BY DEF AccountInv, EditsSurvive
  <2>3. \A x \in Drivers : info'[x].new.entitled = edited'[x]
    BY <1>2, <1>3, <2>1, <2>2
  <2>4. QED
    BY <2>3 DEF EditsSurvive
<1>11. QED
  BY <1>5, <1>6, <1>7, <1>8, <1>9, <1>10 DEF AccountInv

LEMMA AccountsLogin ==
  ASSUME LoginTypes, AccountInv, LoginStep PROVE AccountInv'
<1>1. ASSUME NEW c \in Calls, NEW d \in Drivers, HandleCallback(c, d) PROVE AccountInv'
  <2>1. UNCHANGED <<now, info, drivers, jwts, counted, edited>> /\ call[c].pc = "idle"
    BY <1>1 DEF HandleCallback
  <2>2. PICK row \in Reads(info[d]) :
          call' = [call EXCEPT ![c] = [pc |-> IF Exists(row) THEN "record" ELSE "insert",
                                       read |-> now, driver |-> d, entitled |-> row.entitled]]
    BY <1>1 DEF HandleCallback
  <2>3. Exists(row) => Exists(info[d].new) /\ info[d].new.firstLogin <= now
    BY DEF AccountInv, RowInv, Reads
  <2>4. /\ call'[c].pc = "record" => Exists(row)
        /\ call'[c].driver = d /\ call'[c].read = now
        /\ \A a \in Calls \ {c} : call'[a] = call[a]
    BY <2>2 DEF LoginTypes
  <2>5. now <= now
    BY DEF LoginTypes
  <2>6. CallInv'
    BY <2>1, <2>3, <2>4, <2>5 DEF AccountInv, CallInv
  <2>7. QED
    BY <2>1, <2>6 DEF AccountInv, RowInv, CountInv, HasRow, EveryLoginCounted,
      FirstBeforeLast, EditsSurvive, TokenHasDriver
<1>2. ASSUME NEW c \in Calls, CallFails(c) PROVE AccountInv'
  <2>1. UNCHANGED <<now, info, drivers, jwts, counted, edited>>
    BY <1>2 DEF CallFails
  <2>2. \A a \in Calls : call'[a] = call[a] \/ call'[a] = NoCall
    BY <1>2 DEF CallFails, End, LoginTypes
  <2>3. CallInv'
    BY <2>1, <2>2, CallsKept DEF AccountInv, RowsStay
  <2>4. QED
    BY <2>1, <2>3 DEF AccountInv, RowInv, CountInv, HasRow, EveryLoginCounted,
      FirstBeforeLast, EditsSurvive, TokenHasDriver
<1>3. ASSUME NEW j \in jwts, HandleRefresh(j) PROVE AccountInv'
  <2>1. UNCHANGED <<now, info, drivers, call, counted, edited>>
    BY <1>3 DEF HandleRefresh
  <2>2. \A k \in jwts' : k \in jwts \/ k.driver = j.driver
    BY <1>3 DEF HandleRefresh, Token
  <2>3. TokenHasDriver'
    BY <2>1, <2>2 DEF AccountInv, TokenHasDriver
  <2>4. QED
    BY <2>1, <2>3 DEF AccountInv, CallInv, RowInv, CountInv, HasRow, EveryLoginCounted,
      FirstBeforeLast, EditsSurvive
<1>4. QED
  BY <1>1, <1>2, <1>3, InsertKeeps, RecordKeeps, EditKeeps DEF LoginStep

LEMMA AccountsTick ==
  ASSUME LoginTypes, AccountInv, LoginTick PROVE AccountInv'
<1>1. now \in Nat /\ now' = now + 1 /\ UNCHANGED <<drivers, jwts, call, counted, edited>>
  BY DEF LoginTick, LoginTypes
<1>2. \A d \in Drivers : info'[d].new = info[d].new /\ info'[d].old = info[d].new
  BY DEF LoginTick, Settled, Fresh
<1>3. CallInv'
  <2>1. \A c \in Calls : call[c].read \in Nat /\ (call[c].pc = "record" => call[c].driver \in Drivers)
    BY DEF LoginTypes, CallState
  <2>2. QED
    BY <1>1, <1>2, <2>1 DEF AccountInv, CallInv
<1>4. RowInv'
  <2>1. \A d \in Drivers : info[d].new.firstLogin \in Nat
    BY RowTypes DEF DriverRow
  <2>2. \A d \in Drivers : Exists(info[d].new) => info'[d].new.firstLogin <= now'
    BY <1>1, <1>2, <2>1 DEF AccountInv, RowInv
  <2>3. QED
    BY <1>2, <2>2 DEF AccountInv, RowInv
<1>5. CountInv'
  BY <1>1, <1>2 DEF AccountInv, CountInv, HasRow
<1>6. EveryLoginCounted' /\ FirstBeforeLast' /\ EditsSurvive'
  BY <1>1, <1>2 DEF AccountInv, EveryLoginCounted, FirstBeforeLast, EditsSurvive
<1>7. TokenHasDriver'
  BY <1>1, <1>2 DEF AccountInv, TokenHasDriver, LoginTypes
<1>8. QED
  BY <1>3, <1>4, <1>5, <1>6, <1>7 DEF AccountInv

\* AccountInv: rows are not deleted, every answered login has been counted, no
\* call forgets what it read (auth/service.go, store/dynamo_store.go).
THEOREM AccountsHold == Spec => []AccountInv
<1>1. LoginTypes /\ AccountInv /\ [Next]_vars => AccountInv'
  <2> SUFFICES ASSUME LoginTypes, AccountInv, [Next]_vars PROVE AccountInv'
    OBVIOUS
  <2>1. CASE LoginStep
    BY <2>1, AccountsLogin
  <2>2. CASE Tick
    BY <2>2, AccountsTick DEF Tick
  <2>3. CASE WsStep \/ Expire \/ UNCHANGED vars
    <3>1. requests \in Nat /\ faults \in Nat
      BY DEF LoginTypes
    <3>2. UNCHANGED <<now, info, drivers, jwts, call, counted, edited>>
      BY <2>3, <3>1, WsFrame DEF vars, loginVars
    <3>3. QED
      BY <3>2 DEF AccountInv, CallInv, RowInv, CountInv, HasRow, EveryLoginCounted,
        FirstBeforeLast, EditsSurvive, TokenHasDriver
  <2>4. QED
    BY <2>1, <2>2, <2>3 DEF Next
<1>2. QED
  BY <1>1, AccountsInit, LoginTypesHold, PTL DEF Spec

\* The counter of drivers is the number of their rows (store/dynamo_store.go).
THEOREM DriversCountedHolds == Spec => []DriversCounted
<1>1. AccountInv => DriversCounted
  BY DEF AccountInv, CountInv, HasRow, DriversCounted
<1>2. QED
  BY <1>1, AccountsHold, PTL

\* Every login answered is in its driver's count (auth/service.go).
THEOREM EveryLoginCountedHolds == Spec => []EveryLoginCounted
<1>1. AccountInv => EveryLoginCounted
  BY DEF AccountInv
<1>2. QED
  BY <1>1, AccountsHold, PTL

\* No last login lies before the first (store/entities.go).
THEOREM FirstBeforeLastHolds == Spec => []FirstBeforeLast
<1>1. AccountInv => FirstBeforeLast
  BY DEF AccountInv
<1>2. QED
  BY <1>1, AccountsHold, PTL

\* Logins leave what others write to a driver's row (store/dynamo_store.go).
THEOREM EditsSurviveHolds == Spec => []EditsSurvive
<1>1. AccountInv => EditsSurvive
  BY DEF AccountInv
<1>2. QED
  BY <1>1, AccountsHold, PTL

\* The driver of a token that is out has a row (auth/service.go).
THEOREM TokenHasDriverHolds == Spec => []TokenHasDriver
<1>1. AccountInv => TokenHasDriver
  BY DEF AccountInv
<1>2. QED
  BY <1>1, AccountsHold, PTL

----------------------------------------------------------------------------
(* What the steps of the WebSocket API do to its variables.                *)

\* A row of one driver's connection is written.
LEMMA WsWritten ==
  ASSUME WsTypes, NEW d \in Drivers, NEW c \in Conns, NEW row \in RowOf({d}),
         PutRow(d, c, row)
  PROVE  /\ ws' \in [Drivers -> [Conns -> Item(RowOf(Drivers))]]
         /\ \A e \in Drivers, b \in Conns : ws'[e][b] \in Item(RowOf({e}))
         /\ ws'[d][c].new = row /\ ws'[d][c].old = ws[d][c].new
         /\ \A e \in Drivers, b \in Conns : e # d \/ b # c => ws'[e][b] = ws[e][b]
<1>1. ws'[d][c] = Written(ws[d][c], row)
  BY DEF WsTypes, PutRow
<1>2. \A e \in Drivers, b \in Conns : e # d \/ b # c => ws'[e][b] = ws[e][b]
  BY DEF WsTypes, PutRow
<1>3. Written(ws[d][c], row) \in Item(RowOf({d}))
  BY ItemTypes DEF WsTypes
<1>4. \A e \in Drivers, b \in Conns : ws'[e][b] \in Item(RowOf({e}))
  BY <1>1, <1>2, <1>3 DEF WsTypes
<1>5. \A e \in Drivers, b \in Conns : ws'[e][b] \in Item(RowOf(Drivers))
  BY <1>4 DEF Item, RowOf
<1>6. ws' \in [Drivers -> [Conns -> Item(RowOf(Drivers))]]
  BY <1>5 DEF WsTypes, PutRow
<1>7. QED
  BY <1>1, <1>2, <1>4, <1>6 DEF Written

LEMMA IndexWritten ==
  ASSUME WsTypes, NEW c \in Conns, NEW row \in RowOf(Drivers),
         PutIndex(c, row)
  PROVE  /\ index' \in [Conns -> Item(RowOf(Drivers))]
         /\ index'[c].new = row /\ index'[c].old = index[c].new
         /\ \A b \in Conns \ {c} : index'[b] = index[b]
<1>1. Written(index[c], row) \in Item(RowOf(Drivers))
  BY ItemTypes DEF WsTypes
<1>2. QED
  BY <1>1 DEF WsTypes, Written, PutIndex

LEMMA RowTypesWs ==
  ASSUME LoginTypes
  PROVE  \A d \in Drivers : /\ Row(d) \in RowOf({d}) /\ Row(d) \in RowOf(Drivers)
                            /\ NoRow \in RowOf({d}) /\ NoRow \in RowOf(Drivers)
                            /\ Row(d) # NoRow /\ Row(d).ttl = now + RowLife
                            /\ Row(d).driver = d
BY LifeAssumption, LoginAssumption DEF LoginTypes, Row, RowOf, NoRow

LEMMA SavedEffect ==
  ASSUME LoginTypes, WsTypes, NEW d \in Drivers, NEW c \in Conns, Saved(d, c)
  PROVE  /\ conn' \in [Conns -> ConnState]
         /\ ws'[d][c].new = Row(d) /\ ws'[d][c].old = ws[d][c].new
         /\ \A e \in Drivers, b \in Conns : e # d \/ b # c => ws'[e][b] = ws[e][b]
         /\ index'[c].new = Row(d) /\ index'[c].old = index[c].new
         /\ \A b \in Conns \ {c} : index'[b] = index[b] /\ conn'[b] = conn[b]
         /\ conn'[c] = [conn[c] EXCEPT !.names = conn[c].names \cup {d},
                                       !.wiped = conn[c].wiped \ {d},
                                       !.known = conn[c].known /\ d \notin conn[c].wiped]
         /\ ws' \in [Drivers -> [Conns -> Item(RowOf(Drivers))]]
         /\ \A e \in Drivers, b \in Conns : ws'[e][b] \in Item(RowOf({e}))
         /\ index' \in [Conns -> Item(RowOf(Drivers))]
<1>1. Row(d) \in RowOf({d}) /\ Row(d) \in RowOf(Drivers)
  BY RowTypesWs
<1>2. /\ conn'[c] = [conn[c] EXCEPT !.names = conn[c].names \cup {d},
                                    !.wiped = conn[c].wiped \ {d},
                                    !.known = conn[c].known /\ d \notin conn[c].wiped]
      /\ \A b \in Conns \ {c} : conn'[b] = conn[b]
  BY DEF Saved, WsTypes, ConnState
<1>3. conn'[c] \in ConnState
  <2>1. conn[c] \in ConnState
    BY DEF WsTypes
  <2>2. /\ conn[c].names \cup {d} \in SUBSET Drivers /\ conn[c].wiped \ {d} \in SUBSET Drivers
        /\ (conn[c].known /\ d \notin conn[c].wiped) \in BOOLEAN
    BY <2>1 DEF ConnState
  <2>3. QED
    BY <1>2, <2>1, <2>2 DEF ConnState
<1>4. conn' \in [Conns -> ConnState]
  BY <1>2, <1>3 DEF Saved, WsTypes
<1>5. /\ ws'[d][c].new = Row(d) /\ ws'[d][c].old = ws[d][c].new
      /\ \A e \in Drivers, b \in Conns : e # d \/ b # c => ws'[e][b] = ws[e][b]
      /\ ws' \in [Drivers -> [Conns -> Item(RowOf(Drivers))]]
      /\ \A e \in Drivers, b \in Conns : ws'[e][b] \in Item(RowOf({e}))
  <2>1. PutRow(d, c, Row(d))
    BY DEF Saved
  <2>2. QED
    BY <1>1, <2>1, WsWritten
<1>6. /\ index'[c].new = Row(d) /\ index'[c].old = index[c].new
      /\ \A b \in Conns \ {c} : index'[b] = index[b]
      /\ index' \in [Conns -> Item(RowOf(Drivers))]
  <2>1. PutIndex(c, Row(d))
    BY DEF Saved
  <2>2. QED
    BY <1>1, <2>1, IndexWritten, Zenon
<1>7. QED
  BY <1>2, <1>4, <1>5, <1>6

LEMMA ClosedEffect ==
  ASSUME WsTypes, NEW c \in Conns, conn' = Closed(c)
  PROVE  /\ conn' \in [Conns -> ConnState]
         /\ \A b \in Conns : conn'[b] = conn[b] \/ (Open(b) /\
              conn'[b] = [conn[b] EXCEPT !.state = "closed", !.disconnect = "due",
                                         !.opened = 0, !.told = Nobody, !.known = FALSE])
<1>1. [conn[c] EXCEPT !.state = "closed", !.disconnect = "due",
                      !.opened = 0, !.told = Nobody, !.known = FALSE] \in ConnState
  <2>1. conn[c] \in ConnState
    BY DEF WsTypes
  <2>2. QED
    BY <2>1 DEF ConnState
<1>2. QED
  BY <1>1 DEF Closed, WsTypes

LEMMA InvEffect ==
  ASSUME WsTypes, NEW i \in Invs
  PROVE  /\ \A pc : Step(i, pc) => inv' = [inv EXCEPT ![i] = [inv[i] EXCEPT !.pc = pc]]
         /\ \A v : Begin(i, v) => inv' = [inv EXCEPT ![i] = v]
         /\ Return(i) => inv' = [inv EXCEPT ![i] = NoInv]
BY DEF WsTypes, Step, Begin, Return

\* An invocation that begins, ends, or has a new place.
LEMMA InvTypes ==
  ASSUME WsTypes, NEW i \in Invs, NEW v \in InvState, inv' = [inv EXCEPT ![i] = v],
         v.pc # "idle" => v.driver \in Drivers,
         v.pc \in {"save", "reply", "refuse", "delete"} => v.conn \in Conns
  PROVE  /\ inv' \in [Invs -> InvState]
         /\ \A k \in Invs :
              /\ inv'[k].pc # "idle" => inv'[k].driver \in Drivers
              /\ inv'[k].pc \in {"save", "reply", "refuse", "delete"} => inv'[k].conn \in Conns
         /\ inv'[i] = v /\ \A k \in Invs \ {i} : inv'[k] = inv[k]
BY DEF WsTypes

LEMMA NoInvType == NoInv \in InvState /\ NoInv.pc = "idle"
BY DEF NoInv, InvState

LEMMA WsTypesInit == Init => WsTypes
<1> SUFFICES ASSUME Init PROVE WsTypes
  OBVIOUS
<1>1. \A D : Fresh(NoRow) \in Item(RowOf(D))
  BY DEF Fresh, Item, RowOf
<1>2. NoConn \in ConnState
  BY DEF NoConn, ConnState
<1>3. QED
  BY <1>1, <1>2, NoInvType DEF Init, WsInit, WsTypes

LEMMA WsTypesMessage ==
  ASSUME LoginTypes, WsTypes, NEW i \in Invs, Message(i) PROVE WsTypes'
<1>1. ASSUME NEW v \in InvState, Begin(i, v), UNCHANGED <<conn, ws, index>>,
             v.pc # "idle" => v.driver \in Drivers,
             v.pc \in {"save", "reply", "refuse", "delete"} => v.conn \in Conns
      PROVE  WsTypes'
  <2>1. inv' = [inv EXCEPT ![i] = v]
    BY <1>1, InvEffect
  <2>2. QED
    BY <1>1, <2>1, InvTypes DEF WsTypes
<1>2. ASSUME NEW j \in jwts, NEW c \in Conns, Auth(i, c, j) PROVE WsTypes'
  <2> DEFINE v == [NoInv EXCEPT !.pc = IF ValidToken(j) THEN "save" ELSE "refuse",
                                !.op = "auth", !.conn = c, !.driver = j.driver]
  <2>1. j.driver \in Drivers
    BY DEF LoginTypes
  <2>2. v \in InvState /\ v.driver \in Drivers /\ v.conn \in Conns
    BY <2>1 DEF NoInv, InvState
  <2>3. QED
    BY <1>1, <1>2, <2>2 DEF Auth
<1>3. ASSUME NEW j \in jwts, DeleteDriverRaces(i, j) PROVE WsTypes'
  <2>1. PICK cs \in SUBSET Conns :
          Begin(i, [NoInv EXCEPT !.pc = "batch", !.op = "reset", !.driver = j.driver,
                                 !.todo = cs])
    BY <1>3 DEF DeleteDriverRaces
  <2> DEFINE v == [NoInv EXCEPT !.pc = "batch", !.op = "reset", !.driver = j.driver, !.todo = cs]
  <2>2. j.driver \in Drivers
    BY DEF LoginTypes
  <2>3. v \in InvState /\ v.driver \in Drivers /\ v.pc = "batch"
    BY <2>2 DEF NoInv, InvState
  <2>4. QED
    BY <1>1, <1>3, <2>1, <2>3 DEF DeleteDriverRaces
<1>4. ASSUME NEW c \in Conns, NEW d \in Drivers, Ping(i, c, d) PROVE WsTypes'
  <2> DEFINE v == [NoInv EXCEPT !.pc = "refuse", !.op = "ping", !.conn = c, !.driver = d]
  <2>1. v \in InvState /\ v.driver \in Drivers /\ v.conn \in Conns
    BY DEF NoInv, InvState
  <2>2. QED
    BY <1>1, <1>4, <2>1 DEF Ping
<1>5. ASSUME NEW d \in Drivers, Broadcast(i, d) PROVE WsTypes'
  <2>1. PICK cs \in SUBSET Conns :
          Begin(i, [NoInv EXCEPT !.pc = "push", !.op = "broadcast", !.driver = d,
                                 !.todo = cs, !.expect = Expected(d)])
    BY <1>5 DEF Broadcast
  <2> DEFINE v == [NoInv EXCEPT !.pc = "push", !.op = "broadcast", !.driver = d,
                                !.todo = cs, !.expect = Expected(d)]
  <2>2. v \in InvState /\ v.driver \in Drivers /\ v.pc = "push"
    BY DEF NoInv, InvState, Expected
  <2>3. QED
    BY <1>1, <1>5, <2>1, <2>2 DEF Broadcast
<1>6. QED
  BY <1>2, <1>3, <1>4, <1>5 DEF Message

LEMMA ReplyEffect ==
  ASSUME WsTypes, NEW i \in Invs, AuthReply(i)
  PROVE  /\ conn' \in [Conns -> ConnState]
         /\ \A c \in Conns : conn'[c] = conn[c] \/
              (/\ c = inv[i].conn /\ Open(c)
               /\ conn'[c] = [conn[c] EXCEPT !.told = inv[i].driver,
                    !.known = conn[c].known /\ conn[c].told = inv[i].driver])
<1> DEFINE c == inv[i].conn
           v == [conn[c] EXCEPT !.told = inv[i].driver,
                                !.known = conn[c].known /\ conn[c].told = inv[i].driver]
<1>1. c \in Conns /\ inv[i].driver \in Drivers
  BY DEF AuthReply, WsTypes
<1>2. v \in ConnState
  <2>1. conn[c] \in ConnState /\ (conn[c].known /\ conn[c].told = inv[i].driver) \in BOOLEAN
    BY <1>1 DEF WsTypes
  <2>2. QED
    BY <1>1, <2>1 DEF ConnState
<1>3. CASE conn' = conn
  BY <1>3 DEF WsTypes
<1>4. CASE Open(c) /\ conn' = [conn EXCEPT ![c] = v]
  BY <1>1, <1>2, <1>4 DEF WsTypes
<1>5. conn' = conn \/ (Open(c) /\ conn' = [conn EXCEPT ![c] = v])
  BY <1>1 DEF AuthReply, WsTypes, ConnState
<1>6. QED
  BY <1>3, <1>4, <1>5

LEMMA LookupEffect ==
  ASSUME WsTypes, NEW i \in Invs, NEW c \in Conns, GetDriverIDByConnection(i, c)
  PROVE  /\ conn' \in [Conns -> ConnState]
         /\ conn[c].disconnect = "due"
         /\ \A b \in Conns \ {c} : conn'[b] = conn[b]
         /\ \/ /\ conn'[c] = [conn[c] EXCEPT !.disconnect = "handled",
                                 !.clean = index[c].new = NoRow /\ LeavesNothing(c)]
               /\ UNCHANGED inv
            \/ /\ conn'[c] = [conn[c] EXCEPT !.disconnect = "handled"]
               /\ \E row \in {index[c].new, index[c].old} :
                    /\ row # NoRow /\ row.driver \in Drivers
                    /\ inv' = [inv EXCEPT ![i] = [NoInv EXCEPT !.pc = "delete",
                                 !.op = "disconnect", !.conn = c, !.driver = row.driver]]
<1>1. PICK row \in Reads(index[c]) :
       IF row = NoRow
       THEN /\ inv[i].pc = "idle"
            /\ conn' = [conn EXCEPT ![c].disconnect = "handled",
                                    ![c].clean = index[c].new = NoRow /\ LeavesNothing(c)]
            /\ UNCHANGED inv
       ELSE /\ Begin(i, [NoInv EXCEPT !.pc = "delete", !.op = "disconnect",
                                      !.conn = c, !.driver = row.driver])
            /\ conn' = [conn EXCEPT ![c].disconnect = "handled"]
  BY DEF GetDriverIDByConnection
<1>2. conn[c] \in ConnState /\ index[c] \in Item(RowOf(Drivers))
  BY DEF WsTypes
<1>3. row \in {index[c].new, index[c].old}
  BY DEF Reads
<1>4. row # NoRow => row.driver \in Drivers
  BY <1>2, <1>3 DEF Item, RowOf
<1>5. /\ conn[c].disconnect = "due" /\ \A b \in Conns \ {c} : conn'[b] = conn[b]
      /\ \E f : conn' = [conn EXCEPT ![c] = f]
  BY <1>1 DEF GetDriverIDByConnection, WsTypes
<1>6. CASE row = NoRow
  <2>1. (index[c].new = NoRow /\ LeavesNothing(c)) \in BOOLEAN
    BY DEF LeavesNothing
  <2>2. conn'[c] = [conn[c] EXCEPT !.disconnect = "handled",
                      !.clean = index[c].new = NoRow /\ LeavesNothing(c)]
    BY <1>1, <1>2, <1>6 DEF WsTypes
  <2>3. conn'[c] \in ConnState
    BY <1>2, <2>1, <2>2 DEF ConnState
  <2>4. conn' \in [Conns -> ConnState]
    BY <1>5, <2>3 DEF WsTypes
  <2>5. QED
    BY <1>1, <1>5, <1>6, <2>2, <2>4
<1>7. CASE row # NoRow
  <2>1. conn'[c] = [conn[c] EXCEPT !.disconnect = "handled"]
    BY <1>1, <1>2, <1>7 DEF WsTypes
  <2>2. conn'[c] \in ConnState
    BY <1>2, <2>1 DEF ConnState
  <2>3. conn' \in [Conns -> ConnState]
    BY <1>5, <2>2 DEF WsTypes
  <2>4. Begin(i, [NoInv EXCEPT !.pc = "delete", !.op = "disconnect",
                               !.conn = c, !.driver = row.driver])
    BY <1>1, <1>7
  <2>5. QED
    BY <1>3, <1>4, <1>5, <1>7, <2>1, <2>3, <2>4, InvEffect
<1>8. QED
  BY <1>6, <1>7

LEMMA DeleteEffect ==
  ASSUME WsTypes, NEW i \in Invs, DeleteConnection(i)
  PROVE  LET d == inv[i].driver  c == inv[i].conn IN
         /\ d \in Drivers /\ c \in Conns /\ inv[i].pc = "delete"
         /\ \/ /\ ws' \in [Drivers -> [Conns -> Item(RowOf(Drivers))]]
               /\ \A e \in Drivers, b \in Conns : ws'[e][b] \in Item(RowOf({e}))
               /\ ws'[d][c].new = NoRow /\ ws'[d][c].old = ws[d][c].new
               /\ \A e \in Drivers, b \in Conns : e # d \/ b # c => ws'[e][b] = ws[e][b]
               /\ index' \in [Conns -> Item(RowOf(Drivers))]
               /\ index'[c].new = NoRow /\ index'[c].old = index[c].new
               /\ \A b \in Conns \ {c} : index'[b] = index[b]
               /\ conn' \in [Conns -> ConnState]
               /\ conn'[c] = [conn[c] EXCEPT !.clean = LeavesNothing(c)]
               /\ \A b \in Conns \ {c} : conn'[b] = conn[b]
            \/ UNCHANGED <<conn, ws, index>>
<1> DEFINE d == inv[i].driver
           c == inv[i].conn
<1>1. d \in Drivers /\ c \in Conns /\ inv[i].pc = "delete"
  BY DEF DeleteConnection, WsTypes
<1>2. CASE UNCHANGED <<conn, ws, index>>
  BY <1>1, <1>2
<1>3. CASE /\ PutRow(d, c, NoRow) /\ PutIndex(c, NoRow)
           /\ conn' = [conn EXCEPT ![c].clean = LeavesNothing(c)]
  <2>1. NoRow \in RowOf({d}) /\ NoRow \in RowOf(Drivers)
    BY DEF RowOf
  <2>2. /\ ws' \in [Drivers -> [Conns -> Item(RowOf(Drivers))]]
        /\ \A e \in Drivers, b \in Conns : ws'[e][b] \in Item(RowOf({e}))
        /\ ws'[d][c].new = NoRow /\ ws'[d][c].old = ws[d][c].new
        /\ \A e \in Drivers, b \in Conns : e # d \/ b # c => ws'[e][b] = ws[e][b]
    BY <1>1, <1>3, <2>1, WsWritten
  <2>3. /\ index' \in [Conns -> Item(RowOf(Drivers))]
        /\ index'[c].new = NoRow /\ index'[c].old = index[c].new
        /\ \A b \in Conns \ {c} : index'[b] = index[b]
    BY <1>1, <1>3, <2>1, IndexWritten
  <2>4. conn[c] \in ConnState /\ LeavesNothing(c) \in BOOLEAN
    BY <1>1 DEF WsTypes, LeavesNothing
  <2>5. /\ conn'[c] = [conn[c] EXCEPT !.clean = LeavesNothing(c)]
        /\ \A b \in Conns \ {c} : conn'[b] = conn[b]
    BY <1>1, <1>3 DEF WsTypes
  <2>6. conn' \in [Conns -> ConnState]
    BY <1>1, <1>3, <2>4 DEF WsTypes, ConnState
  <2>7. QED
    BY <1>1, <2>2, <2>3, <2>5, <2>6
<1>4. QED
  BY <1>2, <1>3 DEF DeleteConnection

LEMMA BatchEffect ==
  ASSUME WsTypes, NEW i \in Invs, BatchDelete(i)
  PROVE  /\ ws' \in [Drivers -> [Conns -> Item(RowOf(Drivers))]]
         /\ \A e \in Drivers, b \in Conns : ws'[e][b] \in Item(RowOf({e}))
         /\ conn' \in [Conns -> ConnState]
         /\ \A c \in Conns :
              \/ conn'[c] = conn[c] /\ \A e \in Drivers : ws'[e][c] = ws[e][c]
              \/ /\ conn'[c] = [conn[c] EXCEPT !.wiped = conn[c].wiped \cup {inv[i].driver}]
                 /\ \A e \in Drivers : ws'[e][c] = ws[e][c] \/
                      (e = inv[i].driver /\ ws'[e][c].new = NoRow /\ ws'[e][c].old = ws[e][c].new)
<1> DEFINE d == inv[i].driver
<1>1. d \in Drivers
  BY DEF BatchDelete, WsTypes
<1>2. PICK cs \in SUBSET inv[i].todo :
       /\ ws' = [ws EXCEPT ![d] = [c \in Conns |-> IF c \in cs THEN Written(@[c], NoRow) ELSE @[c]]]
       /\ conn' = [c \in Conns |-> IF c \in cs THEN [conn[c] EXCEPT !.wiped = @ \cup {d}]
                                               ELSE conn[c]]
  BY DEF BatchDelete
<1>3. /\ \A e \in Drivers, c \in Conns : e # d \/ c \notin cs => ws'[e][c] = ws[e][c]
      /\ \A c \in Conns \cap cs : ws'[d][c] = Written(ws[d][c], NoRow)
  BY <1>1, <1>2 DEF WsTypes
<1>4. NoRow \in RowOf({d})
  BY DEF RowOf
<1>5. \A c \in Conns : Written(ws[d][c], NoRow) \in Item(RowOf({d}))
  BY <1>1, <1>4, ItemTypes DEF WsTypes
<1>6. \A e \in Drivers, b \in Conns : ws'[e][b] \in Item(RowOf({e}))
  BY <1>3, <1>5 DEF WsTypes
<1>7. \A e \in Drivers, b \in Conns : ws'[e][b] \in Item(RowOf(Drivers))
  BY <1>6 DEF Item, RowOf
<1>8. ws' \in [Drivers -> [Conns -> Item(RowOf(Drivers))]]
  BY <1>1, <1>2, <1>7 DEF WsTypes
<1>9. \A c \in Conns : conn[c] \in ConnState
  BY DEF WsTypes
<1>10. \A c \in Conns : [conn[c] EXCEPT !.wiped = conn[c].wiped \cup {d}] \in ConnState
  BY <1>1, <1>9 DEF ConnState
<1>11. conn' \in [Conns -> ConnState]
  BY <1>2, <1>9, <1>10
<1>12. \A c \in Conns :
         \/ c \notin cs /\ conn'[c] = conn[c]
         \/ c \in cs /\ conn'[c] = [conn[c] EXCEPT !.wiped = conn[c].wiped \cup {d}]
  BY <1>2
<1>13. \A c \in Conns : Written(ws[d][c], NoRow).new = NoRow
                        /\ Written(ws[d][c], NoRow).old = ws[d][c].new
  BY DEF Written
<1>14. QED
  BY <1>3, <1>6, <1>8, <1>11, <1>12, <1>13

LEMMA WsTypesHandler ==
  ASSUME LoginTypes, WsTypes, NEW i \in Invs, Handler(i) PROVE WsTypes'
<1>1. ASSUME Return(i)
      PROVE  /\ inv' \in [Invs -> InvState]
             /\ \A k \in Invs :
                  /\ inv'[k].pc # "idle" => inv'[k].driver \in Drivers
                  /\ inv'[k].pc \in {"save", "reply", "refuse", "delete"} => inv'[k].conn \in Conns
  <2>1. inv' = [inv EXCEPT ![i] = NoInv]
    BY <1>1, InvEffect
  <2>2. QED
    BY <2>1, NoInvType, InvTypes
<1>2. CASE SaveConnection(i)
  <2> DEFINE d == inv[i].driver
             c == inv[i].conn
  <2>1. d \in Drivers /\ c \in Conns /\ inv[i] \in InvState
    BY <1>2 DEF SaveConnection, WsTypes
  <2>2. PICK pc \in {"reply", "refuse"} : Step(i, pc)
    BY <1>2 DEF SaveConnection
  <2>3. [inv[i] EXCEPT !.pc = pc] \in InvState
    BY <2>1 DEF InvState
  <2>4. inv' = [inv EXCEPT ![i] = [inv[i] EXCEPT !.pc = pc]]
    BY <2>2, InvEffect
  <2>5. /\ [inv[i] EXCEPT !.pc = pc].driver \in Drivers
        /\ [inv[i] EXCEPT !.pc = pc].conn \in Conns
    BY <2>1 DEF InvState
  <2>6. /\ inv' \in [Invs -> InvState]
        /\ \A k \in Invs :
             /\ inv'[k].pc # "idle" => inv'[k].driver \in Drivers
             /\ inv'[k].pc \in {"save", "reply", "refuse", "delete"} => inv'[k].conn \in Conns
    BY <2>3, <2>4, <2>5, InvTypes
  <2>7. Saved(d, c) \/ UNCHANGED <<conn, ws, index>>
    BY <1>2 DEF SaveConnection
  <2>8. QED
    BY <2>1, <2>6, <2>7, SavedEffect DEF WsTypes
<1>3. CASE AuthReply(i)
  BY <1>1, <1>3, ReplyEffect DEF AuthReply, WsTypes
<1>4. CASE Refuse(i)
  <2>1. inv[i].conn \in Conns
    BY <1>4 DEF Refuse, WsTypes
  <2>2. QED
    BY <1>1, <1>4, <2>1, ClosedEffect DEF Refuse, WsTypes
<1>5. CASE DeleteConnection(i)
  BY <1>1, <1>5, DeleteEffect DEF DeleteConnection, WsTypes
<1>6. CASE Push(i)
  <2>1. inv[i] \in InvState /\ inv[i].driver \in Drivers /\ inv[i].pc = "push"
    BY <1>6 DEF Push, WsTypes
  <2>2. CASE Return(i)
    BY <1>1, <1>6, <2>2 DEF Push, WsTypes
  <2>3. CASE \E c \in inv[i].todo :
               inv' = [inv EXCEPT ![i].todo = @ \ {c},
                                  ![i].got = IF Open(c) THEN @ \cup {c} ELSE @]
    <3>1. PICK c \in inv[i].todo :
               inv' = [inv EXCEPT ![i].todo = @ \ {c},
                                  ![i].got = IF Open(c) THEN @ \cup {c} ELSE @]
      BY <2>3
    <3> DEFINE v == [inv[i] EXCEPT !.todo = inv[i].todo \ {c},
                       !.got = IF Open(c) THEN inv[i].got \cup {c} ELSE inv[i].got]
    <3>2. inv' = [inv EXCEPT ![i] = v]
      BY <2>1, <3>1 DEF WsTypes, InvState
    <3>3. v \in InvState /\ v.driver \in Drivers /\ v.pc = "push"
      BY <2>1 DEF InvState
    <3>4. QED
      BY <1>6, <3>2, <3>3, InvTypes DEF Push, WsTypes
  <2>4. QED
    BY <1>6, <2>2, <2>3 DEF Push
<1>7. CASE BatchDelete(i)
  BY <1>1, <1>7, BatchEffect DEF BatchDelete, WsTypes
<1>8. QED
  BY <1>2, <1>3, <1>4, <1>5, <1>6, <1>7 DEF Handler

LEMMA TickEffect ==
  ASSUME WsTypes, Tick
  PROVE  /\ WsTypes'
         /\ UNCHANGED inv /\ \A i \in Invs : inv[i].pc = "idle"
         /\ \A d \in Drivers, c \in Conns : ws'[d][c].new = ws[d][c].new
                                            /\ ws'[d][c].old = ws[d][c].new
         /\ \A c \in Conns : /\ index'[c].new = index[c].new /\ index'[c].old = index[c].new
                             /\ conn'[c] = [conn[c] EXCEPT !.known = conn[c].told # Nobody]
<1>1. /\ \A d \in Drivers, c \in Conns : ws'[d][c] = Settled(ws[d][c])
      /\ \A c \in Conns : /\ index'[c] = Settled(index[c])
                          /\ conn'[c] = [conn[c] EXCEPT !.known = conn[c].told # Nobody]
      /\ UNCHANGED inv /\ \A i \in Invs : inv[i].pc = "idle"
  BY DEF Tick
<1>2. \A D, item : item \in Item(RowOf(D)) => Settled(item) \in Item(RowOf(D))
  BY SettledTypes
<1>3. \A c \in Conns : conn'[c] \in ConnState
  <2>1. \A c \in Conns : conn[c] \in ConnState
    BY DEF WsTypes
  <2>2. \A c \in Conns : (conn[c].told # Nobody) \in BOOLEAN
    OBVIOUS
  <2>3. QED
    <3>1. \A v \in ConnState, b \in BOOLEAN : [v EXCEPT !.known = b] \in ConnState
      BY DEF ConnState
    <3>2. QED
      BY <1>1, <2>1, <2>2, <3>1
<1>4. /\ conn' \in [Conns -> ConnState]
      /\ index' \in [Conns -> Item(RowOf(Drivers))]
  BY <1>1, <1>2, <1>3 DEF Tick, WsTypes
<1>5. /\ ws' \in [Drivers -> [Conns -> Item(RowOf(Drivers))]]
      /\ \A d \in Drivers, c \in Conns : ws'[d][c] \in Item(RowOf({d}))
  BY <1>1, <1>2 DEF Tick, WsTypes
<1>6. WsTypes'
  BY <1>1, <1>4, <1>5 DEF WsTypes
<1>7. \A item : Settled(item).new = item.new /\ Settled(item).old = item.new
  BY DEF Settled, Fresh
<1>8. QED
  BY <1>1, <1>6, <1>7

\* A connection that opens, or whose $disconnect never comes.
LEMMA ConnectEffect ==
  ASSUME LoginTypes, WsTypes, NEW c \in Conns, Connect(c)
  PROVE  /\ conn' \in [Conns -> ConnState] /\ conn[c].state = "none"
         /\ conn'[c] = [conn[c] EXCEPT !.state = "open", !.opened = now]
         /\ \A b \in Conns \ {c} : conn'[b] = conn[b]
<1>1. conn[c] \in ConnState /\ now \in Nat
  BY DEF WsTypes, LoginTypes
<1>2. /\ conn'[c] = [conn[c] EXCEPT !.state = "open", !.opened = now]
      /\ \A b \in Conns \ {c} : conn'[b] = conn[b]
  BY <1>1 DEF Connect, WsTypes, ConnState
<1>3. conn'[c] \in ConnState
  BY <1>1, <1>2 DEF ConnState
<1>4. QED
  BY <1>2, <1>3 DEF Connect, WsTypes

LEMMA NoDisconnectEffect ==
  ASSUME WsTypes, NEW c \in Conns, NoDisconnect(c)
  PROVE  /\ conn' \in [Conns -> ConnState] /\ conn[c].disconnect = "due"
         /\ conn'[c] = [conn[c] EXCEPT !.disconnect = "handled"]
         /\ \A b \in Conns \ {c} : conn'[b] = conn[b]
<1>1. conn[c] \in ConnState
  BY DEF WsTypes
<1>2. /\ conn'[c] = [conn[c] EXCEPT !.disconnect = "handled"]
      /\ \A b \in Conns \ {c} : conn'[b] = conn[b]
  BY <1>1 DEF NoDisconnect, WsTypes
<1>3. conn'[c] \in ConnState
  BY <1>1, <1>2 DEF ConnState
<1>4. QED
  BY <1>2, <1>3 DEF NoDisconnect, WsTypes

\* Each variable of the connections keeps its type.
THEOREM WsTypesHold == Spec => []WsTypes
<1>1. LoginTypes /\ WsTypes /\ [Next]_vars => WsTypes'
  <2> SUFFICES ASSUME LoginTypes, WsTypes, [Next]_vars PROVE WsTypes'
    OBVIOUS
  <2>1. CASE (LoginStep /\ UNCHANGED wsVars) \/ UNCHANGED vars
    BY <2>1 DEF wsVars, vars, WsTypes
  <2>2. CASE Tick
    BY <2>2, TickEffect
  <2>3. ASSUME NEW i \in Invs, NEW c \in Conns, GetDriverIDByConnection(i, c) PROVE WsTypes'
    <3>1. conn' \in [Conns -> ConnState] /\ UNCHANGED <<ws, index>>
      BY <2>3, LookupEffect DEF GetDriverIDByConnection
    <3>2. CASE UNCHANGED inv
      BY <3>1, <3>2 DEF WsTypes
    <3>3. CASE \E row \in {index[c].new, index[c].old} :
                    /\ row # NoRow /\ row.driver \in Drivers
                    /\ inv' = [inv EXCEPT ![i] = [NoInv EXCEPT !.pc = "delete",
                                 !.op = "disconnect", !.conn = c, !.driver = row.driver]]
      <4>1. PICK d \in Drivers :
              inv' = [inv EXCEPT ![i] = [NoInv EXCEPT !.pc = "delete",
                                 !.op = "disconnect", !.conn = c, !.driver = d]]
        BY <3>3
      <4> DEFINE v == [NoInv EXCEPT !.pc = "delete", !.op = "disconnect", !.conn = c, !.driver = d]
      <4>2. v \in InvState /\ v.driver \in Drivers /\ v.conn \in Conns
        BY DEF NoInv, InvState
      <4>3. QED
        BY <3>1, <4>1, <4>2, InvTypes DEF WsTypes
    <3>4. QED
      BY <2>3, <3>2, <3>3, LookupEffect
  <2>4. ASSUME NEW c \in Conns, Connect(c) \/ Close(c) \/ NoDisconnect(c) PROVE WsTypes'
    BY <2>4, ConnectEffect, ClosedEffect, NoDisconnectEffect
      DEF Connect, Close, NoDisconnect, WsTypes
  <2>5. ASSUME NEW c \in Conns, ExpireIndex(c) PROVE WsTypes'
    <3>1. NoRow \in RowOf(Drivers)
      BY DEF RowOf
    <3>2. QED
      BY <2>5, <3>1, IndexWritten DEF ExpireIndex, WsTypes
  <2>6. ASSUME NEW c \in Conns, NEW d \in Drivers, ExpireRow(d, c) PROVE WsTypes'
    <3>1. NoRow \in RowOf({d})
      BY DEF RowOf
    <3>2. QED
      BY <2>6, <3>1, WsWritten DEF ExpireRow, WsTypes
  <2>7. QED
    BY <2>1, <2>2, <2>3, <2>4, <2>5, <2>6, WsTypesMessage, WsTypesHandler
      DEF Next, WsStep, Expire
<1>2. QED
  BY <1>1, WsTypesInit, LoginTypesHold, PTL DEF Spec

\* TypeOK, the types the run checks (store/entities.go, store/dynamo_models.go).
THEOREM TypeCorrect == Spec => []TypeOK
<1>1. LoginTypes /\ WsTypes => TypeOK
  <2> SUFFICES ASSUME LoginTypes, WsTypes PROVE TypeOK
    OBVIOUS
  <2>1. \A d \in Drivers : info[d].new.loginCount \in Nat /\ info[d].new.entitled \in BOOLEAN
    BY RowTypes DEF DriverRow
  <2>2. \A c \in Conns : /\ conn[c].state \in {"none", "open", "closed"}
                         /\ conn[c].told \in Drivers \cup {Nobody}
    BY DEF WsTypes, ConnState
  <2>3. \A c \in Conns : index[c].new.driver \in Drivers \cup {Nobody}
    BY DEF WsTypes, Item, RowOf, NoRow
  <2>4. \A d \in Drivers, c \in Conns : ws[d][c].new.driver \in {d, Nobody}
    BY DEF WsTypes, Item, RowOf, NoRow
  <2>5. \A i \in Invs : inv[i].pc \in {"idle", "save", "reply", "refuse", "delete", "push", "batch"}
    BY DEF WsTypes, InvState
  <2>6. QED
    BY <2>1, <2>2, <2>3, <2>4, <2>5 DEF TypeOK, LoginTypes
<1>2. QED
  BY <1>1, LoginTypesHold, WsTypesHold, PTL

----------------------------------------------------------------------------
(* What a step does to one invocation.                                     *)

Begins(i, v, pcs) ==
  inv[i].pc = "idle" /\ inv'[i] = v /\ v.pc \in pcs /\ UNCHANGED <<conn, ws, index>>

StartsAuth(i) ==
  \E c \in Conns, d \in Drivers, pc \in {"save", "refuse"} :
    /\ Open(c)
    /\ Begins(i, [NoInv EXCEPT !.pc = pc, !.op = "auth", !.conn = c, !.driver = d],
              {"save", "refuse"})

StartsPing(i) ==
  \E c \in Conns, d \in Drivers :
    /\ Open(c)
    /\ Begins(i, [NoInv EXCEPT !.pc = "refuse", !.op = "ping", !.conn = c, !.driver = d],
              {"refuse"})

StartsBroadcast(i) ==
  \E d \in Drivers, cs \in SUBSET Conns :
    /\ Found(d, cs)
    /\ Begins(i, [NoInv EXCEPT !.pc = "push", !.op = "broadcast", !.driver = d,
                               !.todo = cs, !.expect = Expected(d)], {"push"})

StartsReset(i) ==
  \E d \in Drivers, cs \in SUBSET Conns :
    Begins(i, [NoInv EXCEPT !.pc = "batch", !.op = "reset", !.driver = d, !.todo = cs], {"batch"})

StartsDelete(i) ==
  \E c \in Conns : \E row \in {index[c].new, index[c].old} :
    /\ row # NoRow /\ row.driver \in Drivers
    /\ conn'[c] = [conn[c] EXCEPT !.disconnect = "handled"]
    /\ inv'[i] = [NoInv EXCEPT !.pc = "delete", !.op = "disconnect", !.conn = c,
                               !.driver = row.driver]

HasSaved(i) ==
  /\ inv[i].pc = "save"
  /\ \/ inv'[i] = [inv[i] EXCEPT !.pc = "refuse"]
     \/ inv'[i] = [inv[i] EXCEPT !.pc = "reply"] /\ Saved(inv[i].driver, inv[i].conn)

Pushes(i) ==
  /\ inv[i].pc = "push" /\ UNCHANGED <<conn, ws, index>>
  /\ \/ inv'[i] = NoInv /\ inv[i].todo = {}
     \/ inv'[i] = NoInv /\ faults' = faults + 1
     \/ \E c \in inv[i].todo :
          inv'[i] = [inv[i] EXCEPT !.todo = inv[i].todo \ {c},
                       !.got = IF Open(c) THEN inv[i].got \cup {c} ELSE inv[i].got]

Returns(i) == inv[i].pc \in {"reply", "refuse", "delete", "batch"} /\ inv'[i] = NoInv

Change(i) ==
  \/ inv'[i] = inv[i]
  \/ StartsAuth(i) \/ StartsPing(i) \/ StartsBroadcast(i) \/ StartsReset(i) \/ StartsDelete(i)
  \/ HasSaved(i) \/ Pushes(i) \/ Returns(i)

LEMMA InvChange ==
  ASSUME LoginTypes, WsTypes, [Next]_vars, NEW k \in Invs PROVE Change(k)
<1>1. ASSUME NEW i \in Invs, Message(i) PROVE Change(k)
  <2>1. \A v : Begin(i, v) => /\ inv[i].pc = "idle" /\ inv'[i] = v
                              /\ \A b \in Invs \ {i} : inv'[b] = inv[b]
    BY DEF Begin, WsTypes
  <2>2. ASSUME NEW j \in jwts, NEW c \in Conns, Auth(i, c, j) PROVE Change(k)
    <3>1. j.driver \in Drivers /\ Open(c) /\ UNCHANGED <<conn, ws, index>>
      BY <2>2 DEF LoginTypes, Auth
    <3>2. PICK pc \in {"save", "refuse"} :
            Begin(i, [NoInv EXCEPT !.pc = pc, !.op = "auth", !.conn = c, !.driver = j.driver])
      BY <2>2 DEF Auth
    <3> DEFINE v == [NoInv EXCEPT !.pc = pc, !.op = "auth", !.conn = c, !.driver = j.driver]
    <3>3. v.pc = pc
      BY DEF NoInv
    <3>4. k = i => Begins(i, v, {"save", "refuse"})
      BY <2>1, <3>1, <3>2, <3>3 DEF Begins
    <3>5. k = i => StartsAuth(k)
      BY <3>1, <3>4 DEF StartsAuth
    <3>6. QED
      BY <2>1, <3>2, <3>5 DEF Change
  <2>3. ASSUME NEW c \in Conns, NEW d \in Drivers, Ping(i, c, d) PROVE Change(k)
    <3> DEFINE v == [NoInv EXCEPT !.pc = "refuse", !.op = "ping", !.conn = c, !.driver = d]
    <3>1. Begin(i, v) /\ Open(c) /\ UNCHANGED <<conn, ws, index>> /\ v.pc = "refuse"
      BY <2>3 DEF Ping, NoInv
    <3>2. k = i => Begins(i, v, {"refuse"})
      BY <2>1, <3>1 DEF Begins
    <3>3. k = i => StartsPing(k)
      BY <3>1, <3>2 DEF StartsPing
    <3>4. QED
      BY <2>1, <3>1, <3>3 DEF Change
  <2>4. ASSUME NEW j \in jwts, DeleteDriverRaces(i, j) PROVE Change(k)
    <3>1. j.driver \in Drivers /\ UNCHANGED <<conn, ws, index>>
      BY <2>4 DEF LoginTypes, DeleteDriverRaces
    <3>2. PICK cs \in SUBSET Conns :
            Begin(i, [NoInv EXCEPT !.pc = "batch", !.op = "reset", !.driver = j.driver,
                                   !.todo = cs])
      BY <2>4 DEF DeleteDriverRaces
    <3> DEFINE v == [NoInv EXCEPT !.pc = "batch", !.op = "reset", !.driver = j.driver, !.todo = cs]
    <3>3. v.pc = "batch"
      BY DEF NoInv
    <3>4. k = i => Begins(i, v, {"batch"})
      BY <2>1, <3>1, <3>2, <3>3 DEF Begins
    <3>5. k = i => StartsReset(k)
      BY <3>1, <3>4 DEF StartsReset
    <3>6. QED
      BY <2>1, <3>2, <3>5 DEF Change
  <2>5. ASSUME NEW d \in Drivers, Broadcast(i, d) PROVE Change(k)
    <3>1. UNCHANGED <<conn, ws, index>>
      BY <2>5 DEF Broadcast
    <3>2. PICK cs \in SUBSET Conns :
            /\ Found(d, cs)
            /\ Begin(i, [NoInv EXCEPT !.pc = "push", !.op = "broadcast", !.driver = d,
                                      !.todo = cs, !.expect = Expected(d)])
      BY <2>5 DEF Broadcast
    <3> DEFINE v == [NoInv EXCEPT !.pc = "push", !.op = "broadcast", !.driver = d,
                                  !.todo = cs, !.expect = Expected(d)]
    <3>3. v.pc = "push"
      BY DEF NoInv
    <3>4. k = i => Begins(i, v, {"push"})
      BY <2>1, <3>1, <3>2, <3>3 DEF Begins
    <3>5. k = i => StartsBroadcast(k)
      BY <3>2, <3>4 DEF StartsBroadcast
    <3>6. QED
      BY <2>1, <3>2, <3>5 DEF Change
  <2>6. QED
    BY <1>1, <2>2, <2>3, <2>4, <2>5 DEF Message
<1>2. ASSUME NEW i \in Invs, Return(i), inv[i].pc \in {"reply", "refuse", "delete", "batch"}
      PROVE  Change(k)
  BY <1>2 DEF Return, Change, Returns, WsTypes
<1>3. ASSUME NEW i \in Invs, SaveConnection(i) PROVE Change(k)
  <2>1. inv[i].pc = "save" /\ inv[i] \in InvState
    BY <1>3 DEF SaveConnection, WsTypes
  <2>2. CASE Step(i, "refuse")
    <3>1. inv' = [inv EXCEPT ![i] = [inv[i] EXCEPT !.pc = "refuse"]]
      BY <2>2, InvEffect
    <3>2. QED
      BY <2>1, <3>1 DEF Change, HasSaved, WsTypes
  <2>3. CASE Step(i, "reply") /\ Saved(inv[i].driver, inv[i].conn)
    <3>1. inv' = [inv EXCEPT ![i] = [inv[i] EXCEPT !.pc = "reply"]]
      BY <2>3, InvEffect
    <3>2. QED
      BY <2>1, <2>3, <3>1 DEF Change, HasSaved, WsTypes
  <2>4. QED
    BY <1>3, <2>2, <2>3 DEF SaveConnection
<1>4. ASSUME NEW i \in Invs, Push(i) PROVE Change(k)
  <2>1. inv[i].pc = "push" /\ inv[i] \in InvState /\ UNCHANGED <<conn, ws, index>>
    BY <1>4 DEF Push, WsTypes
  <2>2. CASE Return(i) /\ (inv[i].todo = {} \/ faults' = faults + 1)
    BY <2>1, <2>2 DEF Return, Change, Pushes, WsTypes
  <2>3. CASE \E c \in inv[i].todo :
             inv' = [inv EXCEPT ![i].todo = @ \ {c},
                                ![i].got = IF Open(c) THEN @ \cup {c} ELSE @]
    <3>1. PICK c \in inv[i].todo :
             inv' = [inv EXCEPT ![i].todo = @ \ {c},
                                ![i].got = IF Open(c) THEN @ \cup {c} ELSE @]
      BY <2>3
    <3>2. /\ inv'[i] = [inv[i] EXCEPT !.todo = inv[i].todo \ {c},
                          !.got = IF Open(c) THEN inv[i].got \cup {c} ELSE inv[i].got]
          /\ \A b \in Invs \ {i} : inv'[b] = inv[b]
      BY <2>1, <3>1 DEF WsTypes, InvState
    <3>3. Pushes(i)
      BY <2>1, <3>2 DEF Pushes
    <3>4. QED
      BY <3>2, <3>3 DEF Change
  <2>4. QED
    BY <1>4, <2>2, <2>3 DEF Push, Fault
<1>5. ASSUME NEW i \in Invs, Handler(i) PROVE Change(k)
  BY <1>2, <1>3, <1>4, <1>5 DEF Handler, AuthReply, Refuse, DeleteConnection, BatchDelete
<1>6. ASSUME NEW i \in Invs, NEW c \in Conns, GetDriverIDByConnection(i, c) PROVE Change(k)
  <2>1. CASE UNCHANGED inv
    BY <2>1 DEF Change
  <2>2. CASE /\ conn'[c] = [conn[c] EXCEPT !.disconnect = "handled"]
             /\ \E row \in {index[c].new, index[c].old} :
                    /\ row # NoRow /\ row.driver \in Drivers
                    /\ inv' = [inv EXCEPT ![i] = [NoInv EXCEPT !.pc = "delete",
                                 !.op = "disconnect", !.conn = c, !.driver = row.driver]]
    <3>1. k = i => StartsDelete(k)
      BY <2>2 DEF StartsDelete, WsTypes
    <3>2. k # i => inv'[k] = inv[k]
      BY <2>2
    <3>3. QED
      BY <3>1, <3>2 DEF Change
  <2>3. QED
    BY <1>6, <2>1, <2>2, LookupEffect
<1>7. CASE UNCHANGED inv
  BY <1>7 DEF Change
<1>8. ASSUME NEW c \in Conns, Connect(c) \/ Close(c) \/ NoDisconnect(c) PROVE UNCHANGED inv
  BY <1>8 DEF Connect, Close, NoDisconnect
<1>9. ASSUME Tick \/ Expire PROVE UNCHANGED inv
  BY <1>9 DEF Tick, Expire, ExpireIndex, ExpireRow
<1>10. QED
  BY <1>1, <1>5, <1>6, <1>7, <1>8, <1>9 DEF Next, WsStep, wsVars, vars

----------------------------------------------------------------------------
(* The life of connections, and the places of invocations.                 *)

\* What a step of the WebSocket API does to one connection and its rows.
RowsSame(c) == index'[c] = index[c] /\ \A d \in Drivers : ws'[d][c] = ws[d][c]

Cleared(item, after) == after.new = NoRow /\ after.old = item.new

Same(c) == RowsSame(c) /\ conn'[c] = conn[c]

Closes(c) ==
  /\ RowsSame(c) /\ Open(c)
  /\ conn'[c] = [conn[c] EXCEPT !.state = "closed", !.disconnect = "due",
                                !.opened = 0, !.told = Nobody, !.known = FALSE]

Ends(c) ==
  /\ RowsSame(c) /\ conn[c].disconnect = "due"
  /\ \/ conn'[c] = [conn[c] EXCEPT !.disconnect = "handled"]
     \/ conn'[c] = [conn[c] EXCEPT !.disconnect = "handled",
                                   !.clean = index[c].new = NoRow /\ LeavesNothing(c)]

Told(c) ==
  /\ RowsSame(c) /\ Open(c)
  /\ \E i \in Invs :
       /\ inv[i].pc = "reply" /\ inv[i].conn = c /\ inv[i].driver \in Drivers
       /\ conn'[c] = [conn[c] EXCEPT !.told = inv[i].driver,
                                     !.known = conn[c].known /\ conn[c].told = inv[i].driver]

Saves(c) ==
  \E d \in Drivers, i \in Invs :
    /\ inv[i].pc = "save" /\ inv[i].conn = c /\ inv[i].driver = d
    /\ ws'[d][c].new = Row(d) /\ ws'[d][c].old = ws[d][c].new
    /\ \A e \in Drivers \ {d} : ws'[e][c] = ws[e][c]
    /\ index'[c].new = Row(d) /\ index'[c].old = index[c].new
    /\ conn'[c] = [conn[c] EXCEPT !.names = conn[c].names \cup {d},
                                  !.wiped = conn[c].wiped \ {d},
                                  !.known = conn[c].known /\ d \notin conn[c].wiped]

Deletes(c) ==
  \E d \in Drivers, i \in Invs :
    /\ inv[i].pc = "delete" /\ inv[i].conn = c /\ inv[i].driver = d
    /\ Cleared(ws[d][c], ws'[d][c])
    /\ \A e \in Drivers \ {d} : ws'[e][c] = ws[e][c]
    /\ Cleared(index[c], index'[c])
    /\ conn'[c] = [conn[c] EXCEPT !.clean = LeavesNothing(c)]

Wipes(c) ==
  \E d \in Drivers :
    /\ index'[c] = index[c]
    /\ \A e \in Drivers : ws'[e][c] = ws[e][c] \/ (e = d /\ Cleared(ws[e][c], ws'[e][c]))
    /\ conn'[c] = [conn[c] EXCEPT !.wiped = conn[c].wiped \cup {d}]

Expires(c) ==
  /\ conn'[c] = conn[c]
  /\ \/ /\ Expired(index[c]) /\ Cleared(index[c], index'[c])
        /\ \A d \in Drivers : ws'[d][c] = ws[d][c]
     \/ /\ index'[c] = index[c]
        /\ \A d \in Drivers : ws'[d][c] = ws[d][c] \/
                              (Expired(ws[d][c]) /\ Cleared(ws[d][c], ws'[d][c]))

Effect(c) ==
  Same(c) \/ Closes(c) \/ Ends(c) \/ Told(c) \/ Saves(c) \/ Deletes(c) \/ Wipes(c) \/ Expires(c)

Ordinary ==
  \/ \E i \in Invs : Message(i) \/ Handler(i)
  \/ \E i \in Invs, c \in Conns : GetDriverIDByConnection(i, c)
  \/ \E c \in Conns : Close(c) \/ NoDisconnect(c)
  \/ Expire

LEMMA EffectLife ==
  ASSUME LoginTypes, WsTypes, WorkInv, LifeInv, NEW c \in Conns, Effect(c)
  PROVE  /\ LifeOf(conn'[c], now)
         /\ conn[c].state # "none" => conn'[c].state # "none"
         /\ conn[c].disconnect = "handled" => conn'[c].disconnect = "handled"
<1>1. now \in Nat /\ conn[c] \in ConnState /\ LifeOf(conn[c], now)
  BY DEF LoginTypes, WsTypes, LifeInv
<1>2. CASE Same(c) \/ Closes(c) \/ Ends(c) \/ Told(c) \/ Wipes(c) \/ Expires(c)
  BY <1>1, <1>2 DEF Same, Closes, Ends, Told, Wipes, Expires, ConnState, LifeOf, Open
<1>3. CASE Saves(c)
  <2>1. conn[c].state # "none"
    BY <1>3 DEF Saves, WorkInv
  <2>2. QED
    BY <1>1, <1>3, <2>1 DEF Saves, ConnState, LifeOf
<1>4. CASE Deletes(c)
  BY <1>1, <1>4 DEF Deletes, ConnState, LifeOf
<1>5. QED
  BY <1>2, <1>3, <1>4 DEF Effect

LEMMA OrdinaryEffect ==
  ASSUME LoginTypes, WsTypes, NEW c \in Conns, Ordinary PROVE Effect(c)
<1>1. ASSUME NEW i \in Invs, Message(i) PROVE Effect(c)
  <2>1. UNCHANGED <<conn, ws, index>>
    BY <1>1 DEF Message, Auth, DeleteDriverRaces, Ping, Broadcast
  <2>2. QED
    BY <2>1 DEF Effect, Same, RowsSame
<1>2. ASSUME NEW i \in Invs, NEW b \in Conns, GetDriverIDByConnection(i, b) PROVE Effect(c)
  <2>1. UNCHANGED <<ws, index>>
    BY <1>2 DEF GetDriverIDByConnection
  <2>2. c # b => Same(c)
    BY <1>2, <2>1, LookupEffect DEF Same, RowsSame
  <2>3. Ends(b)
    BY <1>2, <2>1, LookupEffect DEF Ends, RowsSame
  <2>4. QED
    BY <2>2, <2>3 DEF Effect
<1>3. ASSUME NEW b \in Conns, conn' = Closed(b), UNCHANGED <<ws, index>> PROVE Effect(c)
  BY <1>3, ClosedEffect DEF Effect, Same, Closes, RowsSame
<1>4. ASSUME NEW b \in Conns, NoDisconnect(b) PROVE Effect(c)
  <2>1. UNCHANGED <<ws, index>>
    BY <1>4 DEF NoDisconnect
  <2>2. QED
    BY <1>4, <2>1, NoDisconnectEffect DEF Effect, Same, Ends, RowsSame
<1>5. ASSUME NEW b \in Conns, ExpireIndex(b) PROVE Effect(c)
  <2>1. NoRow \in RowOf(Drivers)
    BY DEF RowOf
  <2>2. /\ index'[b].new = NoRow /\ index'[b].old = index[b].new
        /\ \A e \in Conns \ {b} : index'[e] = index[e]
    BY <1>5, <2>1, IndexWritten DEF ExpireIndex
  <2>3. QED
    BY <1>5, <2>2 DEF ExpireIndex, Effect, Same, Expires, RowsSame, Cleared
<1>6. ASSUME NEW b \in Conns, NEW d \in Drivers, ExpireRow(d, b) PROVE Effect(c)
  <2>1. NoRow \in RowOf({d})
    BY DEF RowOf
  <2>2. /\ ws'[d][b].new = NoRow /\ ws'[d][b].old = ws[d][b].new
        /\ \A e \in Drivers, a \in Conns : e # d \/ a # b => ws'[e][a] = ws[e][a]
    BY <1>6, <2>1, WsWritten DEF ExpireRow
  <2>3. QED
    BY <1>6, <2>2 DEF ExpireRow, Effect, Expires, RowsSame, Cleared
<1>7. ASSUME NEW i \in Invs, SaveConnection(i) PROVE Effect(c)
  <2>1. PICK d \in Drivers, b \in Conns :
          inv[i].driver = d /\ inv[i].conn = b /\ inv[i].pc = "save"
    BY <1>7 DEF SaveConnection, WsTypes
  <2>2. CASE UNCHANGED <<conn, ws, index>>
    BY <2>2 DEF Effect, Same, RowsSame
  <2>3. CASE Saved(d, b)
    <3>1. /\ \A e \in Drivers, a \in Conns : e # d \/ a # b => ws'[e][a] = ws[e][a]
          /\ \A a \in Conns \ {b} : index'[a] = index[a] /\ conn'[a] = conn[a]
          /\ ws'[d][b].new = Row(d) /\ ws'[d][b].old = ws[d][b].new
          /\ index'[b].new = Row(d) /\ index'[b].old = index[b].new
          /\ conn'[b] = [conn[b] EXCEPT !.names = conn[b].names \cup {d},
                                        !.wiped = conn[b].wiped \ {d},
                                        !.known = conn[b].known /\ d \notin conn[b].wiped]
      BY <2>3, SavedEffect, Zenon
    <3>2. c # b => Same(c)
      BY <2>1, <3>1 DEF Same, RowsSame
    <3>3. Saves(b)
      <4>1. \A e \in Drivers \ {d} : ws'[e][b] = ws[e][b]
        BY <2>1, <3>1
      <4>2. QED
        BY <2>1, <3>1, <4>1, Zenon DEF Saves
    <3>4. QED
      BY <3>2, <3>3 DEF Effect
  <2>4. QED
    BY <1>7, <2>1, <2>2, <2>3 DEF SaveConnection
<1>8. ASSUME NEW i \in Invs, AuthReply(i) PROVE Effect(c)
  <2>1. inv[i].driver \in Drivers /\ inv[i].pc = "reply" /\ UNCHANGED <<ws, index>>
    BY <1>8 DEF AuthReply, WsTypes
  <2>2. QED
    BY <1>8, <2>1, ReplyEffect DEF Effect, Same, Told, RowsSame
<1>9. ASSUME NEW i \in Invs, Refuse(i) PROVE Effect(c)
  <2>1. inv[i].conn \in Conns /\ UNCHANGED <<ws, index>>
    BY <1>9 DEF Refuse, WsTypes
  <2>2. CASE conn' = Closed(inv[i].conn)
    BY <1>3, <2>1, <2>2
  <2>3. CASE UNCHANGED conn
    BY <2>1, <2>3 DEF Effect, Same, RowsSame
  <2>4. QED
    BY <1>9, <2>2, <2>3 DEF Refuse
<1>10. ASSUME NEW i \in Invs, DeleteConnection(i) PROVE Effect(c)
  <2> DEFINE b == inv[i].conn
  <2>1. CASE UNCHANGED <<conn, ws, index>>
    BY <2>1 DEF Effect, Same, RowsSame
  <2>2. CASE ~ UNCHANGED <<conn, ws, index>>
    <3>1. c # b => Same(c)
      BY <1>10, <2>2, DeleteEffect DEF Same, RowsSame
    <3>2. Deletes(b) /\ b \in Conns
      BY <1>10, <2>2, DeleteEffect DEF Deletes, Cleared
    <3>3. QED
      BY <3>1, <3>2 DEF Effect
  <2>3. QED
    BY <2>1, <2>2
<1>11. ASSUME NEW i \in Invs, Push(i) PROVE Effect(c)
  BY <1>11 DEF Push, Effect, Same, RowsSame
<1>12. ASSUME NEW i \in Invs, BatchDelete(i) PROVE Effect(c)
  <2>1. inv[i].driver \in Drivers /\ UNCHANGED index
    BY <1>12 DEF BatchDelete, WsTypes
  <2>2. QED
    BY <1>12, <2>1, BatchEffect DEF Effect, Same, Wipes, RowsSame, Cleared
<1>13. QED
  BY <1>1, <1>2, <1>3, <1>4, <1>5, <1>6, <1>7, <1>8, <1>9, <1>10, <1>11, <1>12
    DEF Ordinary, Handler, Close, Expire

LEMMA OrdinaryNow ==
  ASSUME LoginTypes, Ordinary PROVE now' = now
<1>1. requests \in Nat /\ faults \in Nat /\ (WsStep \/ Expire)
  BY DEF LoginTypes, Ordinary, WsStep
<1>2. QED
  BY <1>1, WsFrame

LEMMA NextCases ==
  ASSUME [Next]_vars
  PROVE  \/ Ordinary
         \/ \E c \in Conns : Connect(c)
         \/ Tick
         \/ now' = now /\ UNCHANGED wsVars
BY LoginFrame DEF Next, WsStep, Ordinary, vars, loginVars

LEMMA LifeStep ==
  ASSUME LoginTypes, WsTypes, WorkInv, LifeInv, [Next]_vars
  PROVE  /\ LifeInv'
         /\ \A c \in Conns :
              /\ conn[c].state # "none" => conn'[c].state # "none"
              /\ conn[c].disconnect = "handled" => conn'[c].disconnect = "handled"
<1>1. CASE Ordinary
  <2>1. \A c \in Conns : Effect(c)
    BY <1>1, OrdinaryEffect
  <2>2. \A c \in Conns :
          /\ LifeOf(conn'[c], now)
          /\ conn[c].state # "none" => conn'[c].state # "none"
          /\ conn[c].disconnect = "handled" => conn'[c].disconnect = "handled"
    BY <2>1, EffectLife
  <2>3. now' = now
    BY <1>1, OrdinaryNow
  <2>4. QED
    BY <2>2, <2>3 DEF LifeInv
<1>2. CASE Tick
  <2>1. /\ now \in Nat /\ now' = now + 1
        /\ \A c \in Conns : Open(c) => now < conn[c].opened + ConnLife
    BY <1>2 DEF Tick, LoginTick, LoginTypes
  <2>2. \A c \in Conns : /\ conn[c] \in ConnState /\ LifeOf(conn[c], now)
                         /\ conn'[c] = [conn[c] EXCEPT !.known = conn[c].told # Nobody]
    BY <1>2, TickEffect DEF WsTypes, LifeInv
  <2>3. \A c \in Conns : /\ conn'[c].state = conn[c].state /\ conn'[c].opened = conn[c].opened
                         /\ conn'[c].disconnect = conn[c].disconnect
                         /\ conn'[c].told = conn[c].told /\ conn'[c].names = conn[c].names
                         /\ conn'[c].known <=> conn[c].told # Nobody
                         /\ conn[c].opened \in Nat
    BY <2>2 DEF ConnState
  <2>4. \A c \in Conns : LifeOf(conn'[c], now')
    <3> SUFFICES ASSUME NEW c \in Conns PROVE LifeOf(conn'[c], now')
      OBVIOUS
    <3>1. LifeOf(conn[c], now)
      BY <2>2
    <3>2. conn'[c].state = "open" => conn'[c].opened <= now' /\ now' <= conn'[c].opened + ConnLife
      BY <2>1, <2>3, <3>1, LifeAssumption DEF LifeOf, Open
    <3>3. conn'[c].state # "open" => conn'[c].told = Nobody /\ ~conn'[c].known
      BY <2>3, <3>1 DEF LifeOf
    <3>4. /\ conn'[c].state = "none" => conn'[c].names = {}
          /\ conn'[c].state = "closed" <=> conn'[c].disconnect # "none"
      BY <2>3, <3>1 DEF LifeOf
    <3>5. QED
      BY <3>2, <3>3, <3>4 DEF LifeOf
  <2>5. QED
    BY <2>3, <2>4 DEF LifeInv
<1>3. ASSUME NEW c \in Conns, Connect(c)
      PROVE  /\ LifeInv'
             /\ \A b \in Conns :
                  /\ conn[b].state # "none" => conn'[b].state # "none"
                  /\ conn[b].disconnect = "handled" => conn'[b].disconnect = "handled"
  <2>1. conn[c] \in ConnState /\ LifeOf(conn[c], now) /\ now \in Nat /\ now' = now
    BY <1>3 DEF Connect, WsTypes, LifeInv, LoginTypes, loginVars
  <2>2. /\ conn'[c] = [conn[c] EXCEPT !.state = "open", !.opened = now]
        /\ conn[c].state = "none" /\ \A b \in Conns \ {c} : conn'[b] = conn[b]
    BY <1>3, ConnectEffect
  <2>3. LifeOf(conn'[c], now)
    BY <2>1, <2>2, LifeAssumption DEF LifeOf, ConnState
  <2>4. conn'[c].state = "open" /\ conn'[c].disconnect = conn[c].disconnect
    BY <2>1, <2>2 DEF ConnState
  <2>5. QED
    BY <2>1, <2>2, <2>3, <2>4 DEF LifeInv
<1>4. CASE now' = now /\ UNCHANGED wsVars
  BY <1>4 DEF LifeInv, wsVars
<1>5. QED
  BY <1>1, <1>2, <1>3, <1>4, NextCases

LEMMA WorkStep ==
  ASSUME LoginTypes, WsTypes, WorkInv, LifeInv, [Next]_vars PROVE WorkInv'
<1> DEFINE Works(v) ==
      /\ v.pc \in {"save", "reply"} => v.op = "auth"
      /\ v.op = "broadcast" => v.pc = "push"
      /\ v.pc \in {"save", "reply", "refuse"} => conn'[v.conn].state # "none"
      /\ v.pc = "delete" => conn'[v.conn].disconnect = "handled"
      /\ \A c \in v.expect : conn'[c].state # "none"
<1> SUFFICES ASSUME NEW i \in Invs PROVE Works(inv'[i])
  BY DEF WorkInv
<1>1. \A c \in Conns :
        /\ conn[c].state # "none" => conn'[c].state # "none"
        /\ conn[c].disconnect = "handled" => conn'[c].disconnect = "handled"
  BY LifeStep
<1>2. inv[i] \in InvState /\ Works(inv[i])
  <2>1. /\ inv[i] \in InvState
        /\ inv[i].pc \in {"save", "reply", "refuse", "delete"} => inv[i].conn \in Conns
    BY DEF WsTypes
  <2>2. inv[i].expect \subseteq Conns
    BY <2>1 DEF InvState
  <2>3. QED
    BY <1>1, <2>1, <2>2 DEF WorkInv
<1>3. Works(NoInv)
  BY DEF NoInv
<1>4. CASE StartsAuth(i) \/ StartsPing(i) \/ StartsReset(i)
  BY <1>1, <1>4 DEF StartsAuth, StartsPing, StartsReset, Begins, NoInv, Open
<1>5. CASE StartsBroadcast(i)
  <2>1. \A d \in Drivers : \A c \in Expected(d) : conn'[c].state # "none"
    BY <1>1 DEF Expected, Open
  <2>2. QED
    BY <1>5, <2>1 DEF StartsBroadcast, Begins, NoInv
<1>6. CASE StartsDelete(i)
  <2>1. PICK c \in Conns, d \in Drivers :
          /\ conn'[c] = [conn[c] EXCEPT !.disconnect = "handled"]
          /\ inv'[i] = [NoInv EXCEPT !.pc = "delete", !.op = "disconnect", !.conn = c,
                                     !.driver = d]
    BY <1>6 DEF StartsDelete
  <2>2. conn'[c].disconnect = "handled"
    BY <2>1 DEF WsTypes, ConnState
  <2>3. QED
    BY <2>1, <2>2 DEF NoInv
<1>7. CASE HasSaved(i)
  BY <1>2, <1>7 DEF HasSaved, InvState
<1>8. CASE Pushes(i)
  BY <1>2, <1>3, <1>8 DEF Pushes, InvState
<1>9. CASE inv'[i] = inv[i] \/ Returns(i)
  BY <1>2, <1>3, <1>9 DEF Returns
<1>10. QED
  BY <1>4, <1>5, <1>6, <1>7, <1>8, <1>9, InvChange DEF Change

----------------------------------------------------------------------------
(* The rows of a connection while it is there.                             *)

LEMMA OwnEffect ==
  ASSUME LoginTypes, WsTypes, WorkInv, LifeInv, OwnInv, NEW c \in Conns, Effect(c),
         now' = now
  PROVE  OwnAt(c)'
<1>1. /\ now \in Nat /\ conn[c] \in ConnState /\ LifeOf(conn[c], now) /\ OwnAt(c)
      /\ index[c].new # NoRow => index[c].new.ttl \in Nat
      /\ \A d \in Drivers : ws[d][c].new # NoRow => ws[d][c].new.ttl \in Nat
  BY DEF LoginTypes, WsTypes, LifeInv, OwnInv, Item, RowOf
<1>2. CASE RowsSame(c) /\ conn'[c].names = conn[c].names
           /\ (Open(c)' => Open(c) /\ conn'[c].opened = conn[c].opened)
           /\ (Present(c)' => Present(c))
  BY <1>1, <1>2 DEF OwnAt, RowsSame, Expired
<1>3. CASE Same(c) \/ Closes(c) \/ Ends(c) \/ Told(c)
  <2>1. /\ RowsSame(c) /\ conn'[c].names = conn[c].names
        /\ Open(c)' => Open(c) /\ conn'[c].opened = conn[c].opened
        /\ Present(c)' => Present(c)
    BY <1>1, <1>3 DEF Same, Closes, Ends, Told, ConnState, Open, Present, LifeOf
  <2>2. QED
    BY <1>2, <2>1
<1>4. CASE Saves(c)
  <2>1. PICK d \in Drivers :
          /\ ws'[d][c].new = Row(d)
          /\ \A e \in Drivers \ {d} : ws'[e][c] = ws[e][c]
          /\ index'[c].new = Row(d) /\ index'[c].old = index[c].new
          /\ conn'[c] = [conn[c] EXCEPT !.names = conn[c].names \cup {d},
                           !.wiped = conn[c].wiped \ {d},
                           !.known = conn[c].known /\ d \notin conn[c].wiped]
    BY <1>4 DEF Saves
  <2>2. Row(d) # NoRow /\ Row(d).ttl = now + RowLife /\ Row(d).driver = d
    BY RowTypesWs
  <2>3. /\ conn'[c].names = conn[c].names \cup {d}
        /\ conn'[c].state = conn[c].state /\ conn'[c].opened = conn[c].opened
        /\ conn'[c].disconnect = conn[c].disconnect
    BY <1>1, <2>1 DEF ConnState
  <2>4. Open(c) => now + RowLife >= conn[c].opened + RowLife
    BY <1>1, LifeAssumption DEF LifeOf, Open, ConnState
  <2>5. ~(now + RowLife <= now)
    BY <1>1, LifeAssumption
  <2>6. \A e \in Drivers :
          /\ ws'[e][c].new # NoRow => e \in conn'[c].names
          /\ Open(c)' /\ ws'[e][c].new # NoRow => ws'[e][c].new.ttl >= conn'[c].opened + RowLife
          /\ Present(c)' => ~Expired(ws[e][c])'
    BY <1>1, <2>1, <2>2, <2>3, <2>4, <2>5 DEF OwnAt, Open, Present, Expired
  <2>7. QED
    BY <1>1, <2>1, <2>2, <2>3, <2>4, <2>5, <2>6 DEF OwnAt, Open, Present, Expired
<1>5. CASE Deletes(c)
  <2>1. conn[c].disconnect = "handled"
    BY <1>5 DEF Deletes, WorkInv
  <2>2. /\ conn'[c].names = conn[c].names /\ conn'[c].state = conn[c].state
        /\ conn'[c].disconnect = "handled"
    BY <1>1, <1>5, <2>1 DEF Deletes, ConnState
  <2>3. ~Open(c)' /\ ~Present(c)'
    BY <1>1, <2>1, <2>2 DEF LifeOf, Open, Present
  <2>4. /\ index'[c].new = NoRow /\ index'[c].old = index[c].new
        /\ \A d \in Drivers : ws'[d][c] = ws[d][c] \/ ws'[d][c].new = NoRow
    BY <1>5 DEF Deletes, Cleared
  <2>5. QED
    BY <1>1, <2>2, <2>3, <2>4 DEF OwnAt
<1>6. CASE Wipes(c)
  <2>1. /\ index'[c] = index[c]
        /\ \A d \in Drivers : ws'[d][c] = ws[d][c] \/ ws'[d][c].new = NoRow
    BY <1>6 DEF Wipes, Cleared
  <2>2. /\ conn'[c].names = conn[c].names /\ conn'[c].state = conn[c].state
        /\ conn'[c].opened = conn[c].opened /\ conn'[c].disconnect = conn[c].disconnect
    BY <1>1, <1>6 DEF Wipes, ConnState
  <2>3. QED
    BY <1>1, <2>1, <2>2 DEF OwnAt, Open, Present, Expired
<1>7. CASE Expires(c)
  <2>1. \/ /\ Expired(index[c]) /\ index'[c].new = NoRow /\ index'[c].old = index[c].new
           /\ \A d \in Drivers : ws'[d][c] = ws[d][c]
        \/ /\ index'[c] = index[c]
           /\ \A d \in Drivers : ws'[d][c] = ws[d][c] \/ ws'[d][c].new = NoRow
    BY <1>7 DEF Expires, Cleared
  <2>2. conn'[c] = conn[c]
    BY <1>7 DEF Expires
  <2>3. QED
    BY <1>1, <2>1, <2>2 DEF OwnAt, Open, Present, Expired
<1>8. QED
  BY <1>3, <1>4, <1>5, <1>6, <1>7 DEF Effect

LEMMA OwnStep ==
  ASSUME LoginTypes, WsTypes, WorkInv, LifeInv, OwnInv, [Next]_vars PROVE OwnInv'
<1> SUFFICES ASSUME NEW c \in Conns PROVE OwnAt(c)'
  BY DEF OwnInv
<1>1. /\ now \in Nat /\ conn[c] \in ConnState /\ LifeOf(conn[c], now) /\ OwnAt(c)
      /\ index[c].new # NoRow => index[c].new.ttl \in Nat
      /\ \A d \in Drivers : ws[d][c].new # NoRow => ws[d][c].new.ttl \in Nat
  BY DEF LoginTypes, WsTypes, LifeInv, OwnInv, Item, RowOf
<1>2. CASE Ordinary
  BY <1>2, OwnEffect, OrdinaryEffect, OrdinaryNow
<1>3. CASE now' = now /\ UNCHANGED wsVars
  BY <1>1, <1>3 DEF OwnAt, Open, Present, Expired, wsVars
<1>4. ASSUME NEW b \in Conns, Connect(b) PROVE OwnAt(c)'
  <2>1. now' = now /\ UNCHANGED <<ws, index>>
    BY <1>4 DEF Connect, loginVars
  <2>2. CASE b # c
    <3>1. conn'[c] = conn[c]
      BY <1>4, <2>2, ConnectEffect
    <3>2. QED
      BY <1>1, <2>1, <3>1 DEF OwnAt, Open, Present, Expired
  <2>3. CASE b = c
    <3>1. conn[c].names = {} /\ conn'[c].names = {}
      <4>1. conn[c].state = "none" /\ conn'[c] = [conn[c] EXCEPT !.state = "open", !.opened = now]
        BY <1>4, <2>3, ConnectEffect
      <4>2. QED
        BY <1>1, <4>1 DEF LifeOf, ConnState
    <3>2. index[c].new = NoRow /\ index[c].old = NoRow /\ \A d \in Drivers : ws[d][c].new = NoRow
      BY <1>1, <3>1 DEF OwnAt
    <3>3. QED
      BY <2>1, <3>2 DEF OwnAt, Expired
  <2>4. QED
    BY <2>2, <2>3
<1>5. CASE Tick
  <2>1. /\ now' = now + 1 /\ conn[c].disconnect # "due"
        /\ Open(c) => now < conn[c].opened + ConnLife
    BY <1>5 DEF Tick, LoginTick
  <2>2. /\ index'[c].new = index[c].new /\ index'[c].old = index[c].new
        /\ \A d \in Drivers : ws'[d][c].new = ws[d][c].new
        /\ conn'[c] = [conn[c] EXCEPT !.known = conn[c].told # Nobody]
    BY <1>5, TickEffect
  <2>3. /\ conn'[c].names = conn[c].names /\ conn'[c].state = conn[c].state
        /\ conn'[c].opened = conn[c].opened /\ conn'[c].disconnect = conn[c].disconnect
        /\ conn[c].opened \in Nat
    BY <1>1, <2>2 DEF ConnState
  <2>4. /\ Present(c)' => Open(c)
        /\ Open(c) => conn[c].opened + RowLife > now'
    BY <1>1, <2>1, <2>3, LifeAssumption DEF Open, Present
  <2>5. /\ index'[c].new # NoRow => index'[c].new.driver \in conn'[c].names
        /\ index'[c].old # NoRow => index'[c].old.driver \in conn'[c].names
        /\ Open(c)' /\ index'[c].new # NoRow => index'[c].new.ttl >= conn'[c].opened + RowLife
        /\ Present(c)' => ~Expired(index[c])'
    BY <1>1, <2>1, <2>2, <2>3, <2>4, LifeAssumption DEF OwnAt, Open, Expired
  <2>6. ASSUME NEW d \in Drivers
        PROVE  /\ ws'[d][c].new # NoRow => d \in conn'[c].names
               /\ Open(c)' /\ ws'[d][c].new # NoRow => ws'[d][c].new.ttl >= conn'[c].opened + RowLife
               /\ Present(c)' => ~Expired(ws[d][c])'
               /\ Present(c)' /\ ws'[d][c].new # NoRow => index'[c].new # NoRow
    BY <1>1, <2>1, <2>2, <2>3, <2>4, LifeAssumption DEF OwnAt, Open, Present, Expired
  <2>7. QED
    BY <2>5, <2>6 DEF OwnAt
<1>6. QED
  BY <1>2, <1>3, <1>4, <1>5, NextCases


LEMMA PushesOrReturns ==
  ASSUME NEW i \in Invs, inv[i] \in InvState, Pushes(i) \/ Returns(i)
  PROVE  \/ inv'[i] = NoInv /\ inv'[i].pc = "idle" /\ inv'[i].op = "none"
         \/ Pushes(i) /\ inv'[i].pc = "push" /\ inv'[i].op = inv[i].op /\ inv'[i].expect = inv[i].expect
<1>1. NoInv.pc = "idle" /\ NoInv.op = "none"
  BY DEF NoInv
<1>2. CASE inv'[i] = NoInv
  BY <1>1, <1>2
<1>3. CASE Returns(i)
  BY <1>2, <1>3 DEF Returns
<1>4. ASSUME Pushes(i), inv'[i] # NoInv
      PROVE  /\ inv'[i].pc = "push" /\ inv'[i].op = inv[i].op /\ inv'[i].expect = inv[i].expect
  <2>1. PICK t, g : inv'[i] = [inv[i] EXCEPT !.todo = t, !.got = g]
    BY <1>4 DEF Pushes
  <2>2. inv[i].pc = "push"
    BY <1>4 DEF Pushes
  <2>3. QED
    BY <2>1, <2>2 DEF InvState
<1>5. QED
  BY <1>2, <1>3, <1>4

\* Names are not forgotten, and nobody begins to save what is not open.
LEMMA NamesGrow ==
  ASSUME LoginTypes, WsTypes, [Next]_vars, NEW c \in Conns
  PROVE  /\ conn[c].names \subseteq conn'[c].names
         /\ ~Open(c) /\ LeavesNothing(c) => \A i \in Invs : ~Saving(i, c)'
<1>1. conn[c] \in ConnState
  BY DEF WsTypes
<1>2. ASSUME Ordinary PROVE conn[c].names \subseteq conn'[c].names
  <2>1. CASE Same(c) \/ Closes(c) \/ Ends(c) \/ Told(c)
    BY <1>1, <2>1 DEF Same, Closes, Ends, Told, ConnState
  <2>2. CASE Saves(c)
    BY <1>1, <2>2 DEF Saves, ConnState
  <2>3. CASE Deletes(c) \/ Wipes(c) \/ Expires(c)
    BY <1>1, <2>3 DEF Deletes, Wipes, Expires, ConnState
  <2>4. QED
    BY <1>2, <2>1, <2>2, <2>3, OrdinaryEffect DEF Effect
<1>3. ASSUME NEW b \in Conns, Connect(b) PROVE conn'[c].names = conn[c].names
  BY <1>1, <1>3, ConnectEffect DEF ConnState
<1>4. Tick => conn'[c].names = conn[c].names
  BY <1>1, TickEffect DEF ConnState
<1>5. conn[c].names \subseteq conn'[c].names
  BY <1>2, <1>3, <1>4, NextCases DEF wsVars
<1>6. ASSUME ~Open(c), LeavesNothing(c), NEW i \in Invs PROVE ~Saving(i, c)'
  <2>1. ~Saving(i, c) /\ inv[i] \in InvState
    BY <1>6 DEF LeavesNothing, Saving, WsTypes
  <2>2. CASE StartsAuth(i)
    BY <1>6, <2>2 DEF StartsAuth, Begins, Saving, NoInv
  <2>3. CASE StartsPing(i) \/ StartsBroadcast(i) \/ StartsReset(i) \/ StartsDelete(i)
    BY <2>3 DEF StartsPing, StartsBroadcast, StartsReset, StartsDelete, Begins, Saving, NoInv
  <2>4. CASE HasSaved(i)
    BY <2>1, <2>4 DEF HasSaved, Saving, InvState
  <2>5. CASE Pushes(i) \/ Returns(i)
    <3>1. inv'[i].pc # "save"
      BY <2>1, <2>5, PushesOrReturns
    <3>2. QED
      BY <3>1 DEF Saving
  <2>6. CASE inv'[i] = inv[i]
    BY <2>1, <2>6 DEF Saving
  <2>7. QED
    BY <2>2, <2>3, <2>4, <2>5, <2>6, InvChange DEF Change
<1>7. QED
  BY <1>5, <1>6

LEMMA DeleteStep ==
  ASSUME LoginTypes, WsTypes, OwnInv, DeleteInv, [Next]_vars PROVE DeleteInv'
<1> SUFFICES ASSUME NEW i \in Invs, inv'[i].pc = "delete"
    PROVE  inv'[i].driver \in conn'[inv'[i].conn].names
  BY DEF DeleteInv
<1>1. inv[i] \in InvState /\ (inv[i].pc = "delete" => inv[i].conn \in Conns)
  BY DEF WsTypes
<1>2. CASE inv'[i] = inv[i]
  BY <1>1, <1>2, NamesGrow DEF DeleteInv
<1>3. CASE StartsDelete(i)
  <2>1. PICK c \in Conns : \E row \in {index[c].new, index[c].old} :
          /\ row # NoRow
          /\ inv'[i] = [NoInv EXCEPT !.pc = "delete", !.op = "disconnect", !.conn = c,
                                     !.driver = row.driver]
    BY <1>3 DEF StartsDelete
  <2>2. PICK row \in {index[c].new, index[c].old} :
          /\ row # NoRow
          /\ inv'[i] = [NoInv EXCEPT !.pc = "delete", !.op = "disconnect", !.conn = c,
                                     !.driver = row.driver]
    BY <2>1
  <2>3. row.driver \in conn[c].names
    BY <2>2 DEF OwnInv, OwnAt
  <2>4. inv'[i].conn = c /\ inv'[i].driver = row.driver
    BY <2>2 DEF NoInv
  <2>5. QED
    BY <2>3, <2>4, NamesGrow
<1>4. CASE StartsAuth(i) \/ StartsPing(i) \/ StartsBroadcast(i) \/ StartsReset(i)
  BY <1>4 DEF StartsAuth, StartsPing, StartsBroadcast, StartsReset, Begins
<1>5. CASE HasSaved(i)
  BY <1>1, <1>5 DEF HasSaved, InvState
<1>6. CASE Pushes(i) \/ Returns(i)
  BY <1>1, <1>6, PushesOrReturns
<1>7. QED
  BY <1>2, <1>3, <1>4, <1>5, <1>6, InvChange DEF Change

LEMMA CleanStep ==
  ASSUME LoginTypes, WsTypes, WorkInv, LifeInv, CleanInv, [Next]_vars PROVE CleanInv'
<1> SUFFICES ASSUME NEW c \in Conns, conn'[c].clean
    PROVE  conn'[c].disconnect = "handled" /\ \A i \in Invs : ~Saving(i, c)'
  BY DEF CleanInv
<1>1. conn[c] \in ConnState /\ LifeOf(conn[c], now)
  BY DEF WsTypes, LifeInv
<1>2. CASE conn[c].clean
  <2>1. conn[c].disconnect = "handled" /\ LeavesNothing(c)
    BY <1>2 DEF CleanInv, LeavesNothing, Saving
  <2>2. ~Open(c)
    BY <1>1, <2>1 DEF LifeOf, Open
  <2>3. QED
    BY <2>1, <2>2, LifeStep, NamesGrow
<1>3. CASE ~conn[c].clean
  <2>1. CASE Ordinary
    <3>1. Ends(c) \/ Deletes(c)
      BY <1>1, <1>3, <2>1, OrdinaryEffect DEF Effect, Same, Closes, Told, Saves, Wipes,
        Expires, ConnState
    <3>2. CASE Ends(c)
      <4>1. conn[c].disconnect = "due" /\ conn'[c].disconnect = "handled" /\ LeavesNothing(c)
        BY <1>1, <1>3, <3>2 DEF Ends, ConnState
      <4>2. ~Open(c)
        BY <1>1, <4>1 DEF LifeOf, Open
      <4>3. QED
        BY <4>1, <4>2, NamesGrow
    <3>3. CASE Deletes(c)
      <4>1. conn[c].disconnect = "handled"
        BY <3>3 DEF Deletes, WorkInv
      <4>2. conn'[c].disconnect = "handled" /\ LeavesNothing(c)
        BY <1>1, <3>3, <4>1 DEF Deletes, ConnState
      <4>3. ~Open(c)
        BY <1>1, <4>1 DEF LifeOf, Open
      <4>4. QED
        BY <4>2, <4>3, NamesGrow
    <3>4. QED
      BY <3>1, <3>2, <3>3
  <2>2. ASSUME NEW b \in Conns, Connect(b) PROVE FALSE
    <3>1. conn'[c] = conn[c] \/ conn'[c] = [conn[c] EXCEPT !.state = "open", !.opened = now]
      BY <2>2, ConnectEffect
    <3>2. QED
      BY <1>1, <1>3, <3>1 DEF ConnState
  <2>3. CASE Tick
    BY <1>1, <1>3, <2>3, TickEffect DEF ConnState
  <2>4. QED
    BY <1>3, <2>1, <2>2, <2>3, NextCases DEF wsVars
<1>4. QED
  BY <1>2, <1>3

----------------------------------------------------------------------------
(* The two rows of a connection.                                           *)

LEMMA PairEffect ==
  ASSUME LoginTypes, WsTypes, DeleteInv, PairInv, NEW c \in Conns, Effect(c), now' = now
  PROVE  PairAt(c)'
<1> SUFFICES ASSUME NEW d \in Drivers, conn'[c].names \subseteq {d}, d \notin conn'[c].wiped
    PROVE  /\ ws'[d][c].new = NoRow => index'[c].new = NoRow \/ Expired(index[c])'
           /\ index'[c].new = NoRow => ws'[d][c].new = NoRow \/ Expired(ws[d][c])'
           /\ ws'[d][c].new # NoRow /\ index'[c].new # NoRow
                => ws'[d][c].new.ttl = index'[c].new.ttl
  BY DEF PairAt
<1>1. conn[c] \in ConnState /\ PairAt(c)
  BY DEF WsTypes, PairInv
<1> DEFINE Paired(w, x) ==
      /\ w.new = NoRow => x.new = NoRow \/ Expired(x)
      /\ x.new = NoRow => w.new = NoRow \/ Expired(w)
      /\ w.new # NoRow /\ x.new # NoRow => w.new.ttl = x.new.ttl
<1>2. conn[c].names \subseteq {d} /\ d \notin conn[c].wiped => Paired(ws[d][c], index[c])
  BY <1>1 DEF PairAt
<1>3. SUFFICES Paired(ws'[d][c], index'[c])
  BY <1>3 DEF Expired
<1>4. CASE Same(c) \/ Closes(c) \/ Ends(c) \/ Told(c)
  <2>1. RowsSame(c)
    BY <1>4 DEF Same, Closes, Ends, Told
  <2>2. conn'[c].names = conn[c].names /\ conn'[c].wiped = conn[c].wiped
    BY <1>1, <1>4 DEF Same, Closes, Ends, Told, ConnState
  <2>3. QED
    BY <1>2, <2>1, <2>2 DEF RowsSame
<1>5. CASE Saves(c)
  <2>1. PICK e \in Drivers :
          /\ ws'[e][c].new = Row(e) /\ index'[c].new = Row(e)
          /\ conn'[c] = [conn[c] EXCEPT !.names = conn[c].names \cup {e},
                           !.wiped = conn[c].wiped \ {e},
                           !.known = conn[c].known /\ e \notin conn[c].wiped]
    BY <1>5 DEF Saves
  <2>2. e = d
    <3>1. conn'[c].names = conn[c].names \cup {e}
      BY <1>1, <2>1 DEF ConnState
    <3>2. e \in conn'[c].names
      BY <3>1
    <3>3. QED
      BY <3>2
  <2>3. Row(d) # NoRow
    BY RowTypesWs
  <2>4. QED
    BY <2>1, <2>2, <2>3
<1>6. CASE Deletes(c)
  <2>1. PICK e \in Drivers, i \in Invs :
          /\ inv[i].pc = "delete" /\ inv[i].conn = c /\ inv[i].driver = e
          /\ Cleared(ws[e][c], ws'[e][c]) /\ Cleared(index[c], index'[c])
          /\ conn'[c] = [conn[c] EXCEPT !.clean = LeavesNothing(c)]
    BY <1>6 DEF Deletes
  <2>2. e \in conn[c].names /\ conn'[c].names = conn[c].names
    BY <1>1, <2>1 DEF DeleteInv, ConnState
  <2>3. e = d
    BY <2>2
  <2>4. QED
    BY <2>1, <2>3 DEF Cleared
<1>7. CASE Wipes(c)
  <2>1. PICK e \in Drivers :
          /\ index'[c] = index[c]
          /\ ws'[d][c] = ws[d][c] \/ d = e
          /\ conn'[c] = [conn[c] EXCEPT !.wiped = conn[c].wiped \cup {e}]
    BY <1>7 DEF Wipes
  <2>2. conn'[c].names = conn[c].names /\ conn'[c].wiped = conn[c].wiped \cup {e}
    BY <1>1, <2>1 DEF ConnState
  <2>3. QED
    BY <1>2, <2>1, <2>2
<1>8. CASE Expires(c)
  <2>1. Paired(ws[d][c], index[c])
    BY <1>2, <1>8 DEF Expires
  <2>2. CASE /\ Expired(index[c]) /\ Cleared(index[c], index'[c])
             /\ ws'[d][c] = ws[d][c]
    BY <2>1, <2>2 DEF Cleared, Expired
  <2>3. CASE index'[c] = index[c] /\ Expired(ws[d][c]) /\ Cleared(ws[d][c], ws'[d][c])
    BY <2>1, <2>3 DEF Cleared, Expired
  <2>4. CASE index'[c] = index[c] /\ ws'[d][c] = ws[d][c]
    BY <2>1, <2>4
  <2>5. QED
    BY <1>8, <2>2, <2>3, <2>4 DEF Expires
<1>9. QED
  BY <1>4, <1>5, <1>6, <1>7, <1>8 DEF Effect

LEMMA PairStep ==
  ASSUME LoginTypes, WsTypes, LifeInv, OwnInv, DeleteInv, PairInv, [Next]_vars PROVE PairInv'
<1> SUFFICES ASSUME NEW c \in Conns PROVE PairAt(c)'
  BY DEF PairInv
<1>1. /\ now \in Nat /\ conn[c] \in ConnState /\ PairAt(c) /\ OwnAt(c) /\ LifeOf(conn[c], now)
      /\ index[c].new # NoRow => index[c].new.ttl \in Nat
      /\ \A d \in Drivers : ws[d][c].new # NoRow => ws[d][c].new.ttl \in Nat
  BY DEF LoginTypes, WsTypes, LifeInv, OwnInv, PairInv, Item, RowOf
<1>2. CASE Ordinary
  BY <1>2, PairEffect, OrdinaryEffect, OrdinaryNow
<1>3. CASE now' = now /\ UNCHANGED wsVars
  BY <1>1, <1>3 DEF PairAt, Expired, wsVars
<1>4. ASSUME NEW b \in Conns, Connect(b) PROVE PairAt(c)'
  <2>1. now' = now /\ UNCHANGED <<ws, index>>
    BY <1>4 DEF Connect, loginVars
  <2>2. conn'[c].names = conn[c].names /\ conn'[c].wiped = conn[c].wiped
    <3>1. conn'[c] = conn[c] \/ conn'[c] = [conn[c] EXCEPT !.state = "open", !.opened = now]
      BY <1>4, ConnectEffect
    <3>2. QED
      BY <1>1, <3>1 DEF ConnState
  <2>3. QED
    BY <1>1, <2>1, <2>2 DEF PairAt, Expired
<1>5. CASE Tick
  <2>1. now' = now + 1
    BY <1>5 DEF Tick, LoginTick
  <2>2. /\ index'[c].new = index[c].new
        /\ \A d \in Drivers : ws'[d][c].new = ws[d][c].new
        /\ conn'[c] = [conn[c] EXCEPT !.known = conn[c].told # Nobody]
    BY <1>5, TickEffect
  <2>3. conn'[c].names = conn[c].names /\ conn'[c].wiped = conn[c].wiped
    BY <1>1, <2>2 DEF ConnState
  <2>4. /\ Expired(index[c]) => Expired(index[c])'
        /\ \A d \in Drivers : Expired(ws[d][c]) => Expired(ws[d][c])'
    BY <1>1, <2>1, <2>2 DEF Expired
  <2>5. QED
    BY <1>1, <2>2, <2>3, <2>4 DEF PairAt
<1>6. QED
  BY <1>2, <1>3, <1>4, <1>5, NextCases

----------------------------------------------------------------------------
(* What clients have been told.                                            *)

\* The row of a connection that is open stays, or is wiped, or is put again.
LEMMA RowStays ==
  ASSUME LoginTypes, WsTypes, WorkInv, LifeInv, OwnInv,
         NEW c \in Conns, Open(c), Effect(c), NEW d \in Drivers, d \notin conn'[c].wiped
  PROVE  \/ /\ d \in conn[c].wiped
            /\ ws'[d][c].new # NoRow /\ ~conn'[c].known
         \/ /\ d \notin conn[c].wiped
            /\ ws[d][c].new # NoRow =>
                 /\ ws'[d][c].new # NoRow
                 /\ ws[d][c].old # NoRow => ws'[d][c].old # NoRow
<1>1. /\ conn[c] \in ConnState /\ LifeOf(conn[c], now)
      /\ conn[c].disconnect = "none" /\ ~Expired(index[c]) /\ ~Expired(ws[d][c])
  BY DEF WsTypes, LifeInv, LifeOf, OwnInv, OwnAt, Open, Present
<1>2. CASE Same(c) \/ Closes(c) \/ Ends(c) \/ Told(c)
  <2>1. RowsSame(c)
    BY <1>2 DEF Same, Closes, Ends, Told
  <2>2. conn'[c].wiped = conn[c].wiped
    BY <1>1, <1>2 DEF Same, Closes, Ends, Told, ConnState
  <2>3. QED
    BY <2>1, <2>2 DEF RowsSame
<1>3. CASE Saves(c)
  <2>1. PICK e \in Drivers :
          /\ ws'[e][c].new = Row(e) /\ ws'[e][c].old = ws[e][c].new
          /\ \A b \in Drivers \ {e} : ws'[b][c] = ws[b][c]
          /\ conn'[c] = [conn[c] EXCEPT !.names = conn[c].names \cup {e},
                           !.wiped = conn[c].wiped \ {e},
                           !.known = conn[c].known /\ e \notin conn[c].wiped]
    BY <1>3 DEF Saves
  <2>2. /\ conn'[c].wiped = conn[c].wiped \ {e}
        /\ conn'[c].known => e \notin conn[c].wiped
    BY <1>1, <2>1 DEF ConnState
  <2>3. Row(d) # NoRow
    BY RowTypesWs
  <2>4. CASE e = d
    BY <2>1, <2>2, <2>3, <2>4
  <2>5. CASE e # d
    BY <2>1, <2>2, <2>5
  <2>6. QED
    BY <2>4, <2>5
<1>4. CASE Deletes(c)
  BY <1>1, <1>4 DEF Deletes, WorkInv
<1>5. CASE Wipes(c)
  <2>1. PICK e \in Drivers :
          /\ ws'[d][c] = ws[d][c] \/ d = e
          /\ conn'[c] = [conn[c] EXCEPT !.wiped = conn[c].wiped \cup {e}]
    BY <1>5 DEF Wipes
  <2>2. conn'[c].wiped = conn[c].wiped \cup {e}
    BY <1>1, <2>1 DEF ConnState
  <2>3. QED
    BY <2>1, <2>2
<1>6. CASE Expires(c)
  BY <1>1, <1>6 DEF Expires
<1>7. QED
  BY <1>2, <1>3, <1>4, <1>5, <1>6 DEF Effect

\* What a step that only takes time, opens connections or logs in leaves alone.
LEMMA RowsRest ==
  ASSUME LoginTypes, WsTypes, [Next]_vars, ~Ordinary, NEW c \in Conns, conn[c].state # "none"
  PROVE  /\ conn'[c].state = conn[c].state /\ conn'[c].told = conn[c].told
         /\ conn'[c].wiped = conn[c].wiped /\ conn'[c].names = conn[c].names
         /\ conn'[c].clean = conn[c].clean
         /\ index'[c].new = index[c].new
         /\ \A d \in Drivers : ws'[d][c].new = ws[d][c].new
         /\ \/ conn'[c] = conn[c] /\ \A d \in Drivers : ws'[d][c] = ws[d][c]
            \/ \A d \in Drivers : ws'[d][c].old = ws[d][c].new
<1>1. conn[c] \in ConnState
  BY DEF WsTypes
<1>2. ASSUME NEW b \in Conns, Connect(b) PROVE conn'[c] = conn[c] /\ UNCHANGED <<ws, index>>
  <2>1. b # c /\ UNCHANGED <<ws, index>>
    BY <1>2 DEF Connect
  <2>2. QED
    BY <1>2, <2>1, ConnectEffect
<1>3. CASE Tick
  <2>1. /\ conn'[c] = [conn[c] EXCEPT !.known = conn[c].told # Nobody]
        /\ index'[c].new = index[c].new
        /\ \A d \in Drivers : ws'[d][c].new = ws[d][c].new /\ ws'[d][c].old = ws[d][c].new
    BY <1>3, TickEffect
  <2>2. QED
    BY <1>1, <2>1 DEF ConnState
<1>4. QED
  BY <1>2, <1>3, NextCases DEF wsVars

\* A connection that has been opened stays open or is closed: none is opened anew.
LEMMA OpenBefore ==
  ASSUME LoginTypes, WsTypes, WorkInv, LifeInv, [Next]_vars, NEW c \in Conns,
         conn[c].state # "none", Open(c)'
  PROVE  Open(c)
<1>1. conn[c] \in ConnState
  BY DEF WsTypes
<1>2. CASE Ordinary
  <2>1. CASE Same(c) \/ Closes(c) \/ Ends(c) \/ Told(c)
    BY <1>1, <2>1 DEF Same, Closes, Ends, Told, ConnState, Open
  <2>2. CASE Saves(c)
    BY <1>1, <2>2 DEF Saves, ConnState, Open
  <2>3. CASE Deletes(c) \/ Wipes(c) \/ Expires(c)
    BY <1>1, <2>3 DEF Deletes, Wipes, Expires, ConnState, Open
  <2>4. QED
    BY <1>2, <2>1, <2>2, <2>3, OrdinaryEffect DEF Effect
<1>3. CASE ~Ordinary
  BY <1>3, RowsRest DEF Open
<1>4. QED
  BY <1>2, <1>3

LEMMA ReplyStep ==
  ASSUME LoginTypes, WsTypes, WorkInv, LifeInv, OwnInv, ToldInv, [Next]_vars, NEW i \in Invs
  PROVE  ReplyAt(i)'
<1> DEFINE d == inv'[i].driver
           c == inv'[i].conn
<1> SUFFICES ASSUME inv'[i].pc = "reply", conn'[c].state = "open", d \notin conn'[c].wiped
    PROVE  ws'[d][c].new # NoRow
  BY DEF ReplyAt, Open
<1>1. inv[i] \in InvState
  BY DEF WsTypes
<1>2. CASE inv'[i] = inv[i]
  <2>1. c \in Conns /\ d \in Drivers /\ conn[c].state # "none" /\ ReplyAt(i)
    BY <1>2 DEF WsTypes, WorkInv, ToldInv
  <2>2. Open(c)
    <3>1. \A b \in Conns : conn[b].state # "none" /\ Open(b)' => Open(b)
      BY OpenBefore
    <3>2. QED
      BY <2>1, <3>1 DEF Open
  <2>3. d \notin conn[c].wiped => ws[d][c].new # NoRow
    BY <1>2, <2>1, <2>2 DEF ReplyAt
  <2>4. CASE Ordinary
    BY <2>1, <2>2, <2>3, <2>4, OrdinaryEffect, RowStays
  <2>5. CASE ~Ordinary
    BY <2>1, <2>3, <2>5, RowsRest
  <2>6. QED
    BY <2>4, <2>5
<1>3. CASE HasSaved(i)
  <2>1. inv[i].driver \in Drivers /\ inv[i].conn \in Conns
    BY <1>3 DEF HasSaved, WsTypes
  <2>2. /\ inv'[i] = [inv[i] EXCEPT !.pc = "reply"]
        /\ Saved(inv[i].driver, inv[i].conn)
    BY <1>1, <1>3 DEF HasSaved, InvState
  <2>3. d = inv[i].driver /\ c = inv[i].conn
    BY <1>1, <2>2 DEF InvState
  <2>4. ws'[d][c].new = Row(d) /\ Row(d) # NoRow
    BY <2>1, <2>2, <2>3, SavedEffect, RowTypesWs
  <2>5. QED
    BY <2>4
<1>4. CASE Pushes(i) \/ Returns(i)
  BY <1>1, <1>4, PushesOrReturns
<1>5. CASE StartsAuth(i) \/ StartsPing(i) \/ StartsBroadcast(i) \/ StartsReset(i)
  BY <1>5 DEF StartsAuth, StartsPing, StartsBroadcast, StartsReset, Begins
<1>6. CASE StartsDelete(i)
  BY <1>6 DEF StartsDelete, NoInv
<1>7. QED
  BY <1>2, <1>3, <1>4, <1>5, <1>6, InvChange DEF Change

LEMMA ToldStep ==
  ASSUME LoginTypes, WsTypes, WorkInv, LifeInv, OwnInv, ToldInv, [Next]_vars PROVE ToldInv'
<1> SUFFICES ASSUME NEW c \in Conns PROVE ToldAt(c)'
  BY ReplyStep DEF ToldInv
<1> DEFINE d == conn'[c].told
<1> SUFFICES ASSUME d # Nobody, d \notin conn'[c].wiped
    PROVE  ws'[d][c].new # NoRow /\ (conn'[c].known => ws'[d][c].old # NoRow)
  BY DEF ToldAt
<1>1. conn[c] \in ConnState /\ LifeOf(conn[c], now) /\ ToldAt(c)
  BY DEF WsTypes, LifeInv, ToldInv
<1>2. ASSUME conn[c].told = d, Ordinary, conn'[c].known => conn[c].known
      PROVE  ws'[d][c].new # NoRow /\ (conn'[c].known => ws'[d][c].old # NoRow)
  <2>1. Open(c) /\ d \in Drivers
    BY <1>1, <1>2 DEF LifeOf, Open, ConnState
  <2>2. d \notin conn[c].wiped =>
          ws[d][c].new # NoRow /\ (conn[c].known => ws[d][c].old # NoRow)
    BY <1>1, <1>2 DEF ToldAt
  <2>3. QED
    BY <1>2, <2>1, <2>2, OrdinaryEffect, RowStays
<1>3. CASE Ordinary /\ Told(c)
  <2>1. RowsSame(c) /\ Open(c)
    BY <1>3 DEF Told
  <2>2. PICK i \in Invs :
          /\ inv[i].pc = "reply" /\ inv[i].conn = c /\ inv[i].driver \in Drivers
          /\ conn'[c] = [conn[c] EXCEPT !.told = inv[i].driver,
                           !.known = conn[c].known /\ conn[c].told = inv[i].driver]
    BY <1>3 DEF Told
  <2>3. /\ d = inv[i].driver /\ conn'[c].wiped = conn[c].wiped
        /\ conn'[c].known => conn[c].known /\ conn[c].told = d
    BY <1>1, <2>2 DEF ConnState
  <2>4. ws[d][c].new # NoRow
    BY <2>1, <2>2, <2>3 DEF ToldInv, ReplyAt
  <2>5. conn'[c].known => ws[d][c].old # NoRow
    BY <1>1, <2>3 DEF ToldAt
  <2>6. QED
    BY <2>1, <2>2, <2>3, <2>4, <2>5 DEF RowsSame
<1>4. CASE Ordinary /\ ~Told(c)
  <2>1. CASE Same(c) \/ Ends(c)
    BY <1>1, <1>2, <1>4, <2>1 DEF Same, Ends, ConnState
  <2>2. CASE Closes(c)
    BY <1>1, <2>2 DEF Closes, ConnState
  <2>3. CASE Saves(c)
    BY <1>1, <1>2, <1>4, <2>3 DEF Saves, ConnState
  <2>4. CASE Deletes(c) \/ Wipes(c) \/ Expires(c)
    BY <1>1, <1>2, <1>4, <2>4 DEF Deletes, Wipes, Expires, ConnState
  <2>5. QED
    BY <1>4, <2>1, <2>2, <2>3, <2>4, OrdinaryEffect DEF Effect
<1>5. CASE ~Ordinary
  <2>1. conn[c].state # "none"
    <3>1. SUFFICES ASSUME conn[c].state = "none" PROVE FALSE
      OBVIOUS
    <3>2. conn[c].told = Nobody
      BY <1>1, <3>1 DEF LifeOf
    <3>3. ASSUME NEW b \in Conns, Connect(b) PROVE FALSE
      <4>1. conn'[c] = conn[c] \/ conn'[c] = [conn[c] EXCEPT !.state = "open", !.opened = now]
        BY <3>3, ConnectEffect
      <4>2. QED
        BY <1>1, <3>2, <4>1 DEF ConnState
    <3>4. CASE Tick
      BY <1>1, <3>2, <3>4, TickEffect DEF ConnState
    <3>5. QED
      BY <1>5, <3>2, <3>3, <3>4, NextCases DEF wsVars
  <2>2. /\ conn[c].told = d /\ d \in Drivers /\ conn'[c].wiped = conn[c].wiped
        /\ ws'[d][c].new = ws[d][c].new
        /\ \/ conn'[c] = conn[c] /\ ws'[d][c] = ws[d][c]
           \/ ws'[d][c].old = ws[d][c].new
    BY <1>1, <1>5, <2>1, RowsRest DEF ConnState
  <2>3. QED
    BY <1>1, <2>2 DEF ToldAt
<1>6. QED
  BY <1>3, <1>4, <1>5

----------------------------------------------------------------------------
(* Broadcasts.                                                             *)

LEMMA BroadcastStep ==
  ASSUME LoginTypes, WsTypes, WorkInv, LifeInv, ToldInv, BroadcastInv, [Next]_vars
  PROVE  BroadcastInv'
<1> SUFFICES ASSUME NEW i \in Invs, inv'[i].op = "broadcast", NEW c \in inv'[i].expect,
                    conn'[c].state = "open"
    PROVE  c \in inv'[i].todo \cup inv'[i].got
  BY DEF BroadcastInv, Open
<1>1. inv[i] \in InvState
  BY DEF WsTypes
<1>2. ASSUME inv[i].op = "broadcast", c \in inv[i].expect
      PROVE  Open(c) /\ c \in inv[i].todo \cup inv[i].got
  <2>1. c \in Conns /\ conn[c].state # "none"
    BY <1>1, <1>2 DEF InvState, WorkInv
  <2>2. \A b \in Conns : conn[b].state # "none" /\ Open(b)' => Open(b)
    BY OpenBefore
  <2>3. Open(c)
    BY <2>1, <2>2 DEF Open
  <2>4. QED
    BY <1>2, <2>3 DEF BroadcastInv
<1>3. CASE inv'[i] = inv[i]
  BY <1>2, <1>3
<1>4. CASE StartsBroadcast(i)
  <2>1. PICK d \in Drivers, cs \in SUBSET Conns :
          /\ Found(d, cs)
          /\ inv'[i] = [NoInv EXCEPT !.pc = "push", !.op = "broadcast", !.driver = d,
                                     !.todo = cs, !.expect = Expected(d)]
    BY <1>4 DEF StartsBroadcast, Begins
  <2>2. inv'[i].todo = cs /\ inv'[i].expect = Expected(d)
    BY <2>1 DEF NoInv
  <2>3. c \in Conns /\ conn[c].told = d /\ d \notin conn[c].wiped /\ conn[c].known
    BY <2>2 DEF Expected
  <2>4. ws[d][c].new # NoRow /\ ws[d][c].old # NoRow
    BY <2>3, LoginAssumption DEF ToldInv, ToldAt
  <2>5. c \in cs
    BY <2>1, <2>3, <2>4 DEF Found, Reads
  <2>6. QED
    BY <2>2, <2>5
<1>5. CASE Pushes(i)
  <2>1. inv'[i].op = inv[i].op /\ inv'[i].expect = inv[i].expect /\ inv'[i] # NoInv
    BY <1>1, <1>5, PushesOrReturns DEF NoInv
  <2>2. PICK b \in inv[i].todo :
          inv'[i] = [inv[i] EXCEPT !.todo = inv[i].todo \ {b},
                       !.got = IF Open(b) THEN inv[i].got \cup {b} ELSE inv[i].got]
    BY <1>5, <2>1 DEF Pushes
  <2>3. /\ inv'[i].todo = inv[i].todo \ {b}
        /\ Open(b) => inv'[i].got = inv[i].got \cup {b}
        /\ ~Open(b) => inv'[i].got = inv[i].got
    BY <1>1, <2>2 DEF InvState
  <2>4. Open(c) /\ c \in inv[i].todo \cup inv[i].got
    BY <1>2, <2>1
  <2>5. QED
    BY <2>3, <2>4
<1>6. CASE Returns(i)
  BY <1>6 DEF Returns, NoInv
<1>7. CASE HasSaved(i)
  <2>1. inv[i].op = "auth"
    BY <1>7 DEF HasSaved, WorkInv
  <2>2. QED
    BY <1>1, <1>7, <2>1 DEF HasSaved, InvState
<1>8. CASE StartsAuth(i) \/ StartsPing(i) \/ StartsReset(i) \/ StartsDelete(i)
  BY <1>8 DEF StartsAuth, StartsPing, StartsReset, StartsDelete, Begins, NoInv
<1>9. QED
  BY <1>3, <1>4, <1>5, <1>6, <1>7, <1>8, InvChange DEF Change

----------------------------------------------------------------------------
(* The end of a connection.                                                *)

LEMMA EmptyEffect ==
  ASSUME WsTypes, WorkInv, CleanInv, OwnInv, DeleteInv, CleanDisconnect,
         NEW c \in Conns, Effect(c), NEW d \in Drivers,
         conn'[c].clean, conn'[c].names \subseteq {d}
  PROVE  NoRows(c)'
<1>1. conn[c] \in ConnState /\ OwnAt(c)
  BY DEF WsTypes, OwnInv
<1>2. ASSUME conn[c].clean, conn[c].names \subseteq {d} PROVE NoRows(c)
  BY <1>2 DEF CleanDisconnect
<1>3. CASE Same(c) \/ Closes(c) \/ Told(c)
  <2>1. RowsSame(c)
    BY <1>3 DEF Same, Closes, Told
  <2>2. conn[c].clean /\ conn[c].names \subseteq {d}
    BY <1>1, <1>3 DEF Same, Closes, Told, ConnState
  <2>3. QED
    BY <1>2, <2>1, <2>2 DEF RowsSame, NoRows
<1>4. CASE Ends(c)
  <2>1. RowsSame(c) /\ Present(c)
    BY <1>4 DEF Ends, Present
  <2>2. (conn[c].clean /\ conn[c].names \subseteq {d}) \/ index[c].new = NoRow
    BY <1>1, <1>4 DEF Ends, ConnState
  <2>3. index[c].new = NoRow => NoRows(c)
    BY <1>1, <2>1 DEF OwnAt, NoRows
  <2>4. QED
    BY <1>2, <2>1, <2>2, <2>3 DEF RowsSame, NoRows
<1>5. CASE Saves(c)
  <2>1. PICK i \in Invs : Saving(i, c)
    BY <1>5 DEF Saves, Saving, WorkInv
  <2>2. conn[c].clean
    BY <1>1, <1>5 DEF Saves, ConnState
  <2>3. QED
    BY <2>1, <2>2 DEF CleanInv
<1>6. CASE Deletes(c)
  <2>1. PICK e \in Drivers, i \in Invs :
          /\ inv[i].pc = "delete" /\ inv[i].conn = c /\ inv[i].driver = e
          /\ Cleared(ws[e][c], ws'[e][c]) /\ Cleared(index[c], index'[c])
          /\ \A b \in Drivers \ {e} : ws'[b][c] = ws[b][c]
          /\ conn'[c] = [conn[c] EXCEPT !.clean = LeavesNothing(c)]
    BY <1>6 DEF Deletes
  <2>2. e \in conn[c].names /\ conn'[c].names = conn[c].names
    BY <1>1, <2>1 DEF DeleteInv, ConnState
  <2>3. conn[c].names \subseteq {e}
    BY <2>2
  <2>4. \A b \in Drivers \ {e} : ws[b][c].new = NoRow
    BY <1>1, <2>3 DEF OwnAt
  <2>5. QED
    BY <2>1, <2>4 DEF Cleared, NoRows
<1>7. CASE Wipes(c) \/ Expires(c)
  <2>1. conn[c].clean /\ conn[c].names \subseteq {d}
    BY <1>1, <1>7 DEF Wipes, Expires, ConnState
  <2>2. /\ index'[c] = index[c] \/ index'[c].new = NoRow
        /\ \A b \in Drivers : ws'[b][c] = ws[b][c] \/ ws'[b][c].new = NoRow
    BY <1>7 DEF Wipes, Expires, Cleared
  <2>3. QED
    BY <1>2, <2>1, <2>2 DEF NoRows
<1>8. QED
  BY <1>3, <1>4, <1>5, <1>6, <1>7 DEF Effect

LEMMA EmptyStep ==
  ASSUME LoginTypes, WsTypes, WorkInv, LifeInv, CleanInv, OwnInv, DeleteInv, CleanDisconnect,
         [Next]_vars
  PROVE  CleanDisconnect'
<1> SUFFICES ASSUME NEW c \in Conns, NEW d \in Drivers,
                    conn'[c].clean, conn'[c].names \subseteq {d}
    PROVE  NoRows(c)'
  BY DEF CleanDisconnect
<1>1. conn[c] \in ConnState
  BY DEF WsTypes
<1>2. CASE Ordinary
  BY <1>2, OrdinaryEffect, EmptyEffect
<1>3. CASE ~Ordinary /\ conn[c].state # "none"
  <2>1. /\ conn[c].clean /\ conn[c].names \subseteq {d} /\ index'[c].new = index[c].new
        /\ \A e \in Drivers : ws'[e][c].new = ws[e][c].new
    BY <1>3, RowsRest
  <2>2. NoRows(c)
    BY <2>1 DEF CleanDisconnect
  <2>3. QED
    BY <2>1, <2>2 DEF NoRows
<1>4. CASE ~Ordinary /\ conn[c].state = "none"
  <2>1. ~conn[c].clean
    BY <1>4 DEF CleanInv, LifeInv, LifeOf
  <2>2. ASSUME NEW b \in Conns, Connect(b) PROVE FALSE
    <3>1. conn'[c] = conn[c] \/ conn'[c] = [conn[c] EXCEPT !.state = "open", !.opened = now]
      BY <2>2, ConnectEffect
    <3>2. QED
      BY <1>1, <2>1, <3>1 DEF ConnState
  <2>3. CASE Tick
    BY <1>1, <2>1, <2>3, TickEffect DEF ConnState
  <2>4. QED
    BY <1>4, <2>1, <2>2, <2>3, NextCases DEF wsVars
<1>5. QED
  BY <1>2, <1>3, <1>4

----------------------------------------------------------------------------
(* What connections and their rows keep.                                   *)

LEMMA ConnInit == Init => ConnInv
<1> SUFFICES ASSUME Init PROVE ConnInv
  OBVIOUS
<1>1. /\ \A i \in Invs : inv[i] = NoInv
      /\ \A c \in Conns : conn[c] = NoConn /\ index[c] = Fresh(NoRow)
      /\ \A d \in Drivers, c \in Conns : ws[d][c] = Fresh(NoRow)
  BY DEF Init, WsInit
<1>2. /\ NoInv.pc = "idle" /\ NoInv.op = "none" /\ NoInv.expect = {}
      /\ Fresh(NoRow).new = NoRow /\ Fresh(NoRow).old = NoRow
  BY DEF NoInv, Fresh
<1>3. /\ NoConn.state = "none" /\ NoConn.disconnect = "none" /\ NoConn.told = Nobody
      /\ NoConn.known = FALSE /\ NoConn.names = {} /\ NoConn.clean = FALSE
  BY DEF NoConn
<1>4. WorkInv /\ BroadcastInv /\ DeleteInv /\ CleanInv /\ CleanDisconnect
  BY <1>1, <1>2, <1>3 DEF WorkInv, BroadcastInv, DeleteInv, CleanInv, CleanDisconnect
<1>5. LifeInv
  BY <1>1, <1>3 DEF LifeInv, LifeOf
<1>6. OwnInv /\ PairInv
  BY <1>1, <1>2, <1>3 DEF OwnInv, OwnAt, PairInv, PairAt, Expired, Present, Open
<1>7. ToldInv
  BY <1>1, <1>2, <1>3 DEF ToldInv, ReplyAt, ToldAt
<1>8. QED
  BY <1>4, <1>5, <1>6, <1>7 DEF ConnInv

\* ConnInv: what invocations are about, how long rows live, that they come and go
\* with the auth message, $disconnect and the TTL (ws/auth, ws/disconnect, store).
THEOREM ConnectionsHold == Spec => []ConnInv
<1>1. LoginTypes /\ WsTypes /\ ConnInv /\ [Next]_vars => ConnInv'
  BY WorkStep, LifeStep, CleanStep, OwnStep, DeleteStep, PairStep, ToldStep, BroadcastStep,
    EmptyStep DEF ConnInv
<1>2. QED
  BY <1>1, ConnInit, LoginTypesHold, WsTypesHold, PTL DEF Spec

\* An open connection that was told of its success has its row (ws/auth/handler.go).
THEOREM AuthenticatedHasRowHolds == Spec => []AuthenticatedHasRow
<1>1. ConnInv => AuthenticatedHasRow
  BY DEF ConnInv, ToldInv, ToldAt, AuthenticatedHasRow
<1>2. QED
  BY <1>1, ConnectionsHold, PTL

\* The two rows of a connection of one driver go together (store/dynamo_models.go).
THEOREM RowsAgreeHolds == Spec => []RowsAgree
<1>1. ConnInv => RowsAgree
  BY DEF ConnInv, PairInv, PairAt, RowsAgree
<1>2. QED
  BY <1>1, ConnectionsHold, PTL

\* A $disconnect that was handled cleanly leaves no row (ws/disconnect/handler.go).
THEOREM CleanDisconnectHolds == Spec => []CleanDisconnect
<1>1. ConnInv => CleanDisconnect
  BY DEF ConnInv
<1>2. QED
  BY <1>1, ConnectionsHold, PTL

\* A broadcast without an error reaches every connection replicas knew (ws/push.go).
THEOREM BroadcastReachesHolds == Spec => BroadcastReaches
<1>1. ASSUME LoginTypes, WsTypes, ConnInv, [Next]_vars, NEW i \in Invs,
             inv[i].op = "broadcast", inv'[i].pc = "idle", faults' = faults,
             NEW c \in inv[i].expect, Open(c)
      PROVE  c \in inv[i].got
  <2>1. inv[i].pc = "push" /\ c \in inv[i].todo \cup inv[i].got /\ inv[i] \in InvState
    BY <1>1 DEF ConnInv, WorkInv, BroadcastInv, WsTypes
  <2>2. Pushes(i)
    <3>1. ~HasSaved(i) /\ ~Returns(i) /\ inv'[i] # inv[i]
      BY <1>1, <2>1 DEF HasSaved, Returns
    <3>2. ~StartsAuth(i) /\ ~StartsPing(i) /\ ~StartsBroadcast(i) /\ ~StartsReset(i)
      BY <1>1, <2>1 DEF StartsAuth, StartsPing, StartsBroadcast, StartsReset, Begins
    <3>3. ~StartsDelete(i)
      BY <1>1 DEF StartsDelete, NoInv
    <3>4. QED
      BY <1>1, <3>1, <3>2, <3>3, InvChange DEF Change
  <2>3. faults' # faults + 1
    BY <1>1 DEF LoginTypes
  <2>4. inv[i].todo = {}
    <3>1. ASSUME NEW t, NEW g, inv'[i] = [inv[i] EXCEPT !.todo = t, !.got = g] PROVE FALSE
      BY <1>1, <2>1, <3>1 DEF InvState
    <3>2. QED
      BY <2>2, <2>3, <3>1 DEF Pushes
  <2>5. QED
    BY <2>1, <2>4
<1>2. LoginTypes /\ WsTypes /\ ConnInv /\ [Next]_vars
        => [\A i \in Invs :
              /\ inv[i].op = "broadcast" /\ inv'[i].pc = "idle"
              /\ faults' = faults
              => \A c \in inv[i].expect : Open(c) => c \in inv[i].got]_vars
  BY <1>1
<1>3. QED
  BY <1>2, ConnectionsHold, LoginTypesHold, WsTypesHold, PTL DEF Spec, BroadcastReaches
============================================================================
