------------------------ MODULE ClientSession_proofs ------------------------
(***************************************************************************)
(* Proofs about one load of the page, for any number of sockets, requests  *)
(* and reference-data stores, and any failures, expiries and logouts, in   *)
(* any order.                                                              *)
(***************************************************************************)
EXTENDS ClientSession, TLAPS

----------------------------------------------------------------------------
(* The page's record.                                                      *)

Fields == {"token", "refreshing", "socket", "status", "driverId", "connectionId",
           "timer", "heartbeat", "conn", "req", "loaded", "ingestion", "error",
           "waiting"}
ConnIds == Conns \cup {NoConn, GoneConn}
Stages == {"idle", "sent", "refreshing", "resent"}
Request == [pc : Stages, token : Nat, conn : ConnIds]
Replies == {"ok", "failed", "stale", "close"}

\* A socket, whatever the client has sent on it.
SocketOK(s) ==
  /\ DOMAIN s = {"state", "row", "in", "out"}
  /\ s.state \in {"none", "connecting", "open", "closing", "aborted"}
  /\ s.in \in Seq(Replies)

\* The page, when n JWTs have been issued.
PageOK(p, n) ==
  /\ DOMAIN p = Fields
  /\ p.token \in NoToken .. n
  /\ p.refreshing \subseteq [by : Callers, token : 1 .. n]
  /\ p.socket \in Conns \cup {NoConn}
  /\ p.status \in {"disconnected", "connecting", "authenticating", "connected", "error"}
  /\ p.connectionId \in ConnIds
  /\ p.timer \in BOOLEAN
  /\ DOMAIN p.conn = Conns /\ \A c \in Conns : SocketOK(p.conn[c])
  /\ p.req \in [Requests -> Request]
  /\ p.loaded \subseteq Resources
  /\ p.ingestion \in {"idle", "loading", "success", "error"}

\* The store's socket is being made or open, and its status says so; who is logged
\* in has one or a timer that makes one, and who is not has neither.
Served(p) ==
  /\ p.socket # NoConn => Live(p) /\ p.status # "disconnected"
  /\ p.token # NoToken => p.socket # NoConn \/ p.timer
  /\ p.token = NoToken => p.socket = NoConn /\ ~p.timer

\* At most one refresh is under way.
Single(p) == \A r, s \in p.refreshing : r = s

\* The token stays, and a refresh begins only beside a token and no other refresh.
SameLogin(p, q) ==
  /\ q.token = p.token
  /\ \/ q.refreshing = p.refreshing
     \/ /\ p.token # NoToken /\ p.refreshing = {}
        /\ \E r : q.refreshing = {r}

\* What leaves socket, timer and the states of the sockets alone too.
Spares(p, q) ==
  /\ SameLogin(p, q)
  /\ q.socket = p.socket /\ q.timer = p.timer
  /\ q.status = "disconnected" => p.status = "disconnected"
  /\ \A c \in Conns : q.conn[c].state = p.conn[c].state

\* What begins no refresh either.
Beside(p, q) == Spares(p, q) /\ q.refreshing = p.refreshing

Room(p) == \E c \in Conns : p.conn[c].state = "none"

\* It keeps the session served, and a place for a socket.
LEMMA BesideServed ==
  ASSUME NEW p, NEW q, NEW n, PageOK(p, n), Served(p), Spares(p, q)
  PROVE  Served(q) /\ (Room(p) => Room(q))
<1>1. p.socket \in Conns \cup {NoConn}
  BY DEF PageOK
<1>2. QED
  BY <1>1 DEF Spares, SameLogin, Served, Live, Room

\* A later page may know of more JWTs.
LEMMA PageMore ==
  ASSUME NEW p, NEW n \in Nat, PageOK(p, n)
  PROVE  PageOK(p, n + 1)
BY DEF PageOK, NoToken

----------------------------------------------------------------------------
(* stores/websocket.ts                                                     *)

\* A message sent changes what is on its way only.
LEMMA SendKeeps ==
  ASSUME NEW p, NEW n \in Nat, PageOK(p, n), NEW msg
  PROVE  PageOK(Send(p, msg), n) /\ Beside(p, Send(p, msg))
<1>1. CASE Send(p, msg) = p
  BY <1>1 DEF Beside, Spares, SameLogin
<1>2. CASE /\ p.socket # NoConn
           /\ Send(p, msg) = [p EXCEPT !.conn[p.socket].out = Append(@, msg)]
  <2>1. p.socket \in Conns
    BY <1>2 DEF PageOK
  <2>2. SocketOK(p.conn[p.socket])
    BY <2>1 DEF PageOK
  <2> DEFINE s == [p.conn[p.socket] EXCEPT !.out = Append(p.conn[p.socket].out, msg)]
             q == [p EXCEPT !.conn = [p.conn EXCEPT ![p.socket] = s]]
  <2>3. Send(p, msg) = q
    BY <1>2
  <2>4. SocketOK(s) /\ s.state = p.conn[p.socket].state
    BY <2>2 DEF SocketOK
  <2> HIDE DEF s
  <2>5. PageOK(q, n) /\ Beside(p, q)
    BY <2>1, <2>4 DEF PageOK, Beside, Spares, SameLogin, Fields
  <2>6. QED
    BY <2>3, <2>5
<1>3. QED
  BY <1>1, <1>2 DEF Send

\* A socket is made where there is room for one, if the user is logged in and has
\* none.
LEMMA ConnectServes ==
  ASSUME NEW p, NEW n \in Nat, PageOK(p, n), p.token = NoToken \/ Live(p) \/ Room(p),
         p.socket = NoConn \/ (Live(p) /\ p.status # "disconnected"),
         p.token = NoToken => p.socket = NoConn /\ ~p.timer
  PROVE  /\ PageOK(connect(p), n) /\ Served(connect(p))
         /\ connect(p).token = p.token /\ connect(p).refreshing = p.refreshing
<1>1. CASE p.token = NoToken \/ Live(p)
  <2>1. connect(p) = p
    BY <1>1 DEF connect
  <2>2. Live(p) => p.socket # NoConn
    BY DEF Live
  <2>3. QED
    BY <1>1, <2>1, <2>2 DEF Served
<1>2. CASE p.token # NoToken /\ ~Live(p)
  <2> DEFINE c == CHOOSE c \in Conns : p.conn[c].state = "none"
             s == [NoSocket EXCEPT !.state = "connecting"]
             q == [p EXCEPT !.status = "connecting", !.socket = c, !.conn[c] = s]
  <2>1. c \in Conns /\ p.conn[c].state = "none"
    BY <1>2 DEF Room
  <2>2. connect(p) = q
    BY <1>2 DEF connect
  <2>3. SocketOK(s) /\ s.state = "connecting"
    BY DEF SocketOK, NoSocket
  <2> HIDE DEF c, s
  <2>4. /\ DOMAIN q = Fields /\ q.token = p.token /\ q.refreshing = p.refreshing
        /\ q.socket = c /\ q.status = "connecting" /\ q.connectionId = p.connectionId
        /\ q.timer = p.timer /\ q.conn = [p.conn EXCEPT ![c] = s] /\ q.req = p.req
        /\ q.loaded = p.loaded /\ q.ingestion = p.ingestion /\ q.waiting = p.waiting
    BY DEF PageOK, Fields
  <2> HIDE DEF q
  <2>5. /\ DOMAIN q.conn = Conns /\ q.conn[c] = s
        /\ \A d \in Conns : SocketOK(q.conn[d])
    BY <2>1, <2>3, <2>4 DEF PageOK
  <2>6. PageOK(q, n)
    BY <2>1, <2>4, <2>5 DEF PageOK
  <2>7. c # NoConn
    BY <2>1, ConnsAssumption
  <2>8. Served(q)
    BY <1>2, <2>3, <2>4, <2>5, <2>7 DEF Served, Live
  <2>9. QED
    BY <2>2, <2>4, <2>6, <2>8
<1>3. QED
  BY <1>1, <1>2

\* The socket the client closes keeps no message.
LEMMA ClosingIs ==
  ASSUME NEW s PROVE SocketOK(Closing(s)) /\ Closing(s).state # "none"
BY DEF Closing, NoSocket, SocketOK

\* After disconnect there is no socket and no timer; a place that was free still is.
LEMMA DisconnectIs ==
  ASSUME NEW p, NEW n \in Nat, PageOK(p, n), p.socket # NoConn => Live(p)
  PROVE  /\ PageOK(disconnect(p), n)
         /\ disconnect(p).socket = NoConn /\ disconnect(p).timer = FALSE
         /\ disconnect(p).token = p.token /\ disconnect(p).refreshing = p.refreshing
         /\ Room(p) => Room(disconnect(p))
<1> DEFINE q == IF p.socket = NoConn THEN p
                ELSE [p EXCEPT !.conn[p.socket] = Closing(p.conn[p.socket])]
           r == [q EXCEPT !.socket = NoConn, !.timer = FALSE, !.heartbeat = FALSE,
                          !.status = "disconnected", !.driverId = FALSE,
                          !.connectionId = NoConn]
<1>1. disconnect(p) = r
  BY DEF disconnect
<1>2. /\ DOMAIN q = Fields /\ q.token = p.token /\ q.refreshing = p.refreshing
      /\ q.req = p.req /\ q.loaded = p.loaded /\ q.ingestion = p.ingestion
      /\ q.waiting = p.waiting
      /\ DOMAIN q.conn = Conns
      /\ \A c \in Conns : SocketOK(q.conn[c])
      /\ \A c \in Conns : p.conn[c].state = "none" => q.conn[c].state = "none"
  <2>1. CASE p.socket = NoConn
    BY <2>1 DEF PageOK
  <2>2. CASE p.socket # NoConn
    <3> DEFINE s == Closing(p.conn[p.socket])
    <3>1. SocketOK(s) /\ p.socket \in Conns /\ p.conn[p.socket].state # "none"
      BY <2>2, ClosingIs DEF PageOK, Live
    <3>2. q = [p EXCEPT !.conn = [p.conn EXCEPT ![p.socket] = s]]
      BY <2>2
    <3> HIDE DEF s, q
    <3>3. QED
      BY <3>1, <3>2 DEF PageOK, Fields
  <2>3. QED
    BY <2>1, <2>2
<1> HIDE DEF q
<1>3. /\ DOMAIN r = Fields /\ r.token = q.token /\ r.refreshing = q.refreshing
      /\ r.req = q.req /\ r.loaded = q.loaded /\ r.ingestion = q.ingestion
      /\ r.waiting = q.waiting /\ r.conn = q.conn
      /\ r.socket = NoConn /\ r.timer = FALSE
      /\ r.status = "disconnected" /\ r.connectionId = NoConn
  BY <1>2 DEF Fields
<1> HIDE DEF r
<1>4. PageOK(r, n)
  BY <1>2, <1>3 DEF PageOK, ConnIds
<1>5. QED
  BY <1>1, <1>2, <1>3, <1>4 DEF Room

\* Closing one socket and making another.
LEMMA ReconnectServes ==
  ASSUME NEW p, NEW n \in Nat, PageOK(p, n), p.token # NoToken, Room(p),
         p.socket # NoConn => Live(p)
  PROVE  /\ PageOK(reconnect(p), n) /\ Served(reconnect(p))
         /\ reconnect(p).token = p.token /\ reconnect(p).refreshing = p.refreshing
<1> DEFINE d == disconnect(p)
<1>1. /\ PageOK(d, n) /\ d.socket = NoConn /\ d.timer = FALSE
      /\ d.token = p.token /\ d.refreshing = p.refreshing /\ Room(d)
  BY DisconnectIs
<1> HIDE DEF d
<1>2. /\ PageOK(connect(d), n) /\ Served(connect(d))
      /\ connect(d).token = d.token /\ connect(d).refreshing = d.refreshing
  <2>1. /\ d.token = NoToken \/ Live(d) \/ Room(d)
        /\ d.socket = NoConn \/ (Live(d) /\ d.status # "disconnected")
        /\ d.token = NoToken => d.socket = NoConn /\ ~d.timer
    BY <1>1
  <2>2. QED
    BY <1>1, <2>1, ConnectServes
<1>3. QED
  BY <1>1, <1>2 DEF reconnect, d

\* A connection that is gone is nobody's, and its place is free.
LEMMA GoneIs ==
  ASSUME NEW p, NEW n \in Nat, PageOK(p, n), NEW c \in Conns
  PROVE  LET q == Gone(p, c)
         IN  /\ DOMAIN q = Fields /\ q.token = p.token /\ q.refreshing = p.refreshing
             /\ q.socket = p.socket /\ q.status = p.status /\ q.timer = p.timer
             /\ q.connectionId \in ConnIds
             /\ DOMAIN q.conn = Conns /\ \A d \in Conns : SocketOK(q.conn[d])
             /\ q.req \in [Requests -> Request] /\ q.loaded = p.loaded
             /\ q.ingestion = p.ingestion
             /\ Room(q)
<1> DEFINE Named(d) == IF d = c THEN GoneConn ELSE d
           reqs == [x \in Requests |-> [p.req[x] EXCEPT !.conn = Named(p.req[x].conn)]]
           q == [p EXCEPT !.conn[c] = NoSocket, !.connectionId = Named(p.connectionId),
                          !.req = reqs]
<1>1. Gone(p, c) = q
  BY DEF Gone
<1>2. reqs \in [Requests -> Request]
  <2> SUFFICES ASSUME NEW x \in Requests
               PROVE  [p.req[x] EXCEPT !.conn = Named(p.req[x].conn)] \in Request
    OBVIOUS
  <2>1. p.req[x] \in Request
    BY DEF PageOK
  <2>2. Named(p.req[x].conn) \in ConnIds
    BY <2>1 DEF Request, ConnIds
  <2> HIDE DEF Named
  <2>3. QED
    BY <2>1, <2>2 DEF Request
<1>3. Named(p.connectionId) \in ConnIds
  BY DEF PageOK, ConnIds
<1>4. SocketOK(NoSocket) /\ NoSocket.state = "none"
  BY DEF SocketOK, NoSocket
<1> HIDE DEF Named, reqs
<1>5. /\ DOMAIN q = Fields /\ q.token = p.token /\ q.refreshing = p.refreshing
      /\ q.socket = p.socket /\ q.status = p.status /\ q.timer = p.timer
      /\ q.connectionId = Named(p.connectionId)
      /\ q.conn = [p.conn EXCEPT ![c] = NoSocket]
      /\ q.req = reqs /\ q.loaded = p.loaded /\ q.ingestion = p.ingestion
  BY DEF PageOK, Fields
<1> HIDE DEF q
<1>6. /\ DOMAIN q.conn = Conns /\ q.conn[c] = NoSocket
      /\ \A d \in Conns : SocketOK(q.conn[d])
  BY <1>4, <1>5 DEF PageOK
<1>7. QED
  BY <1>1, <1>2, <1>3, <1>4, <1>5, <1>6 DEF Room

\* The handler of a close event leaves the page without a socket, and with a timer
\* if the user is logged in, whichever socket has closed.
LEMMA OncloseServes ==
  ASSUME NEW p, NEW n \in Nat, PageOK(p, n), Served(p), NEW c \in Conns, NEW error
  PROVE  /\ PageOK(onclose(p, c, error), n) /\ Served(onclose(p, c, error))
         /\ onclose(p, c, error).token = p.token
         /\ onclose(p, c, error).refreshing = p.refreshing
<1> DEFINE g == Gone(p, c)
           q == [g EXCEPT !.socket = NoConn]
           timer == p.timer \/ p.token # NoToken
           r == [q EXCEPT !.status = "disconnected", !.timer = timer]
<1>1. /\ DOMAIN g = Fields /\ g.token = p.token /\ g.refreshing = p.refreshing
      /\ g.status = p.status /\ g.timer = p.timer /\ g.connectionId \in ConnIds
      /\ DOMAIN g.conn = Conns /\ \A d \in Conns : SocketOK(g.conn[d])
      /\ g.req \in [Requests -> Request] /\ g.loaded = p.loaded
      /\ g.ingestion = p.ingestion
  BY GoneIs
<1> HIDE DEF g
<1>2. /\ DOMAIN q = Fields /\ q.token = p.token /\ q.refreshing = p.refreshing
      /\ q.socket = NoConn
      /\ q.status = p.status /\ q.timer = p.timer /\ q.connectionId \in ConnIds
      /\ DOMAIN q.conn = Conns /\ \A d \in Conns : SocketOK(q.conn[d])
      /\ q.req \in [Requests -> Request] /\ q.loaded = p.loaded
      /\ q.ingestion = p.ingestion
  BY <1>1 DEF Fields
<1>3. CASE error \/ p.status # "disconnected"
  <2>1. onclose(p, c, error) = r
    BY <1>2, <1>3 DEF onclose, g
  <2> HIDE DEF q, timer
  <2>2. /\ DOMAIN r = Fields /\ r.token = p.token /\ r.refreshing = p.refreshing
        /\ r.socket = NoConn
        /\ r.status = "disconnected" /\ r.timer = timer /\ r.connectionId \in ConnIds
        /\ DOMAIN r.conn = Conns /\ \A d \in Conns : SocketOK(r.conn[d])
        /\ r.req \in [Requests -> Request] /\ r.loaded = p.loaded
        /\ r.ingestion = p.ingestion
    BY <1>2 DEF Fields
  <2> HIDE DEF r
  <2>3. PageOK(r, n)
    BY <2>2 DEF PageOK, timer
  <2>4. Served(r)
    BY <2>2 DEF Served, timer
  <2>5. QED
    BY <2>1, <2>2, <2>3, <2>4
<1>4. CASE ~(error \/ p.status # "disconnected")
  <2>1. onclose(p, c, error) = q
    BY <1>2, <1>4 DEF onclose, g
  <2> HIDE DEF q
  <2>2. PageOK(q, n)
    BY <1>2 DEF PageOK
  <2>3. Served(q)
    BY <1>2, <1>4 DEF Served
  <2>4. QED
    BY <1>2, <2>1, <2>2, <2>3
<1>5. QED
  BY <1>3, <1>4

----------------------------------------------------------------------------
(* The requests, the credentials and the watchers.                         *)

\* A request takes another value.
LEMMA RequestSet ==
  ASSUME NEW p, NEW n \in Nat, PageOK(p, n), NEW x, NEW r \in Request
  PROVE  LET q == [p EXCEPT !.req[x] = r] IN PageOK(q, n) /\ Beside(p, q)
<1> DEFINE reqs == [p.req EXCEPT ![x] = r]
           q == [p EXCEPT !.req = reqs]
<1>1. reqs \in [Requests -> Request]
  BY DEF PageOK
<1> HIDE DEF reqs
<1>2. PageOK(q, n) /\ Beside(p, q)
  BY <1>1 DEF PageOK, Beside, Spares, SameLogin, Fields
<1>3. QED
  BY <1>2 DEF reqs

LEMMA NoRequestOK == NoRequest \in Request
BY DEF NoRequest, Request, Stages, ConnIds, NoToken

LEMMA IngestionFailsKeeps ==
  ASSUME NEW p, NEW n \in Nat, PageOK(p, n), NEW why
  PROVE  PageOK(IngestionFails(p, why), n) /\ Beside(p, IngestionFails(p, why))
BY DEF IngestionFails, PageOK, Beside, Spares, SameLogin, Fields

LEMMA GiveUpKeeps ==
  ASSUME NEW p, NEW n \in Nat, PageOK(p, n), NEW x, NEW why
  PROVE  PageOK(GiveUp(p, x, why), n) /\ Beside(p, GiveUp(p, x, why))
<1> DEFINE q == [p EXCEPT !.req[x] = NoRequest]
<1>1. PageOK(q, n) /\ Beside(p, q)
  BY RequestSet, NoRequestOK
<1>2. GiveUp(p, x, why) = IF x \in Syncs THEN IngestionFails(q, why) ELSE q
  BY DEF GiveUp
<1> HIDE DEF q
<1>3. PageOK(IngestionFails(q, why), n) /\ Beside(q, IngestionFails(q, why))
  BY <1>1, IngestionFailsKeeps
<1>4. QED
  BY <1>1, <1>2, <1>3 DEF Beside, Spares, SameLogin

\* Whichever place the request takes.
LEMMA TriggerKeeps ==
  ASSUME NEW p, NEW n \in Nat, PageOK(p, n)
  PROVE  PageOK(triggerIngestion(p), n) /\ Beside(p, triggerIngestion(p))
<1>1. CASE ~isReady(p)
  BY <1>1 DEF triggerIngestion, Beside, Spares, SameLogin
<1>2. CASE isReady(p)
  <2> DEFINE x == CHOOSE x \in Syncs : p.req[x].pc = "idle"
             r == [pc |-> "sent", token |-> p.token, conn |-> p.connectionId]
             g == [p EXCEPT !.ingestion = "loading", !.error = "none"]
             q == [g EXCEPT !.req[x] = r]
  <2>1. r \in Request
    BY DEF Request, Stages, PageOK, NoToken
  <2>2. triggerIngestion(p) = [p EXCEPT !.ingestion = "loading", !.error = "none",
                                        !.req[x] = r]
    BY <1>2 DEF triggerIngestion
  <2> HIDE DEF x, r
  <2>3. triggerIngestion(p) = q
    BY <2>2
  <2>4. PageOK(g, n) /\ Beside(p, g)
    BY DEF PageOK, Beside, Spares, SameLogin, Fields
  <2> HIDE DEF g
  <2>5. PageOK(q, n) /\ Beside(g, q)
    BY <2>1, <2>4, RequestSet
  <2>6. QED
    BY <2>3, <2>4, <2>5 DEF Beside, Spares, SameLogin
<1>3. QED
  BY <1>1, <1>2

LEMMA SettleKeeps ==
  ASSUME NEW p, NEW n \in Nat, PageOK(p, n)
  PROVE  PageOK(Settle(p), n) /\ Beside(p, Settle(p))
<1> DEFINE q == [p EXCEPT !.waiting = FALSE]
<1>1. PageOK(q, n) /\ Beside(p, q)
  BY DEF PageOK, Beside, Spares, SameLogin, Fields
<1>2. Settle(p) = p \/ Settle(p) = triggerIngestion(q)
  BY DEF Settle
<1> HIDE DEF q
<1>3. PageOK(triggerIngestion(q), n) /\ Beside(q, triggerIngestion(q))
  BY <1>1, TriggerKeeps
<1>4. QED
  BY <1>1, <1>2, <1>3 DEF Beside, Spares, SameLogin

LEMMA FetchAllKeeps ==
  ASSUME NEW p, NEW n \in Nat, PageOK(p, n)
  PROVE  PageOK(fetchAll(p), n) /\ Beside(p, fetchAll(p))
<1> DEFINE r == [NoRequest EXCEPT !.pc = "sent", !.token = p.token]
           reqs == [x \in Requests |->
                      IF x \in Resources /\ p.req[x].pc = "idle" THEN r ELSE p.req[x]]
           q == [p EXCEPT !.req = reqs]
<1>1. r \in Request
  <2>1. "sent" \in Stages /\ p.token \in Nat
    BY DEF Stages, PageOK, NoToken
  <2>2. QED
    BY <2>1, NoRequestOK DEF Request
<1>2. fetchAll(p) = q
  BY DEF fetchAll
<1> HIDE DEF r
<1>3. reqs \in [Requests -> Request]
  BY <1>1 DEF PageOK
<1> HIDE DEF reqs
<1>4. PageOK(q, n) /\ Beside(p, q)
  BY <1>3 DEF PageOK, Beside, Spares, SameLogin, Fields
<1>5. QED
  BY <1>2, <1>4

\* What follows a refresh does not touch the session.
LEMMA ResumeKeeps ==
  ASSUME NEW p, NEW n \in Nat, PageOK(p, n), NEW by \in Callers, NEW refreshed
  PROVE  /\ PageOK(Resume(p, by, refreshed), n)
         /\ Beside(p, Resume(p, by, refreshed))
<1> USE DEF Callers
<1>0. "auth" \notin Requests /\ "stale" \notin Requests
  BY RequestsAssumption DEF Requests
<1>1. CASE by = "auth"
  <2> DEFINE q == [p EXCEPT !.status = "error"]
  <2>1. PageOK(q, n) /\ Beside(p, q)
    BY DEF PageOK, Beside, Spares, SameLogin, Fields
  <2>2. Resume(p, by, refreshed) = p \/ Resume(p, by, refreshed) = q
    BY <1>0, <1>1 DEF Resume
  <2> HIDE DEF q
  <2>3. QED
    BY <2>1, <2>2 DEF Beside, Spares, SameLogin
<1>2. CASE by = "stale"
  <2> DEFINE q == [p EXCEPT !.waiting = TRUE]
  <2>1. PageOK(q, n) /\ Beside(p, q)
    BY DEF PageOK, Beside, Spares, SameLogin, Fields
  <2>2. Resume(p, by, refreshed) \in {IngestionFails(p, "expired"), triggerIngestion(p), q}
    BY <1>0, <1>2 DEF Resume
  <2> HIDE DEF q
  <2>3. /\ PageOK(IngestionFails(p, "expired"), n)
        /\ Beside(p, IngestionFails(p, "expired"))
    BY IngestionFailsKeeps
  <2>4. PageOK(triggerIngestion(p), n) /\ Beside(p, triggerIngestion(p))
    BY TriggerKeeps
  <2>5. QED
    BY <2>1, <2>2, <2>3, <2>4
<1>3. CASE by \in Requests
  <2> DEFINE r == [p.req[by] EXCEPT !.pc = "resent", !.token = p.token]
             q == [p EXCEPT !.req[by] = r]
  <2>1. r \in Request
    <3>1. "resent" \in Stages /\ p.token \in Nat /\ p.req[by] \in Request
      BY <1>3 DEF Stages, PageOK, NoToken
    <3>2. QED
      BY <3>1 DEF Request
  <2>2. \/ Resume(p, by, refreshed) = GiveUp(p, by, "expired")
        \/ Resume(p, by, refreshed)
             = [p EXCEPT !.req[by].pc = "resent", !.req[by].token = p.token]
    BY <1>0, <1>3 DEF Resume
  <2>3. [p EXCEPT !.req[by].pc = "resent", !.req[by].token = p.token] = q
    BY <1>3 DEF PageOK, Fields
  <2> HIDE DEF r
  <2>4. PageOK(q, n) /\ Beside(p, q)
    BY <2>1, RequestSet
  <2>5. PageOK(GiveUp(p, by, "expired"), n) /\ Beside(p, GiveUp(p, by, "expired"))
    BY GiveUpKeeps
  <2>6. QED
    BY <2>2, <2>3, <2>4, <2>5
<1>4. QED
  BY <1>1, <1>2, <1>3

\* A refresh carries the token of the page, which was issued.
LEMMA RefreshKeeps ==
  ASSUME NEW p, NEW n \in Nat, PageOK(p, n), NEW by \in Callers
  PROVE  PageOK(refreshToken(p, by), n) /\ Spares(p, refreshToken(p, by))
<1>1. CASE canRefresh(p)
  <2> DEFINE r == [by |-> by, token |-> p.token]
             under == p.refreshing \cup {r}
             q == [p EXCEPT !.refreshing = under]
  <2>1. refreshToken(p, by) = q
    BY <1>1 DEF refreshToken
  <2>2. r \in [by : Callers, token : 1 .. n]
    BY <1>1 DEF canRefresh, PageOK, NoToken
  <2>3. under \subseteq [by : Callers, token : 1 .. n]
    BY <2>2 DEF PageOK
  <2> HIDE DEF under
  <2>4. PageOK(q, n) /\ q.refreshing = under
    BY <2>3 DEF PageOK, Fields
  <2>5. p.token # NoToken /\ p.refreshing = {} /\ under = {r}
    BY <1>1 DEF canRefresh, under
  <2>6. Spares(p, q)
    BY <2>4, <2>5 DEF Spares, SameLogin, PageOK, Fields
  <2>7. QED
    BY <2>1, <2>4, <2>6
<1>2. CASE ~canRefresh(p)
  BY <1>2, ResumeKeeps DEF refreshToken, Beside
<1>3. QED
  BY <1>1, <1>2

\* The watchers serve the new credentials, wherever the old ones were served.
LEMMA FlushServes ==
  ASSUME NEW p, NEW n \in Nat, PageOK(p, n), NEW old,
         p.socket # NoConn => Live(p) /\ p.status # "disconnected",
         old # NoToken => p.socket # NoConn \/ p.timer,
         old = NoToken => p.socket = NoConn /\ ~p.timer,
         p.token = NoToken \/ p.token = old \/ Room(p)
  PROVE  /\ PageOK(Flush(old, p), n) /\ Served(Flush(old, p))
         /\ Flush(old, p).token = p.token /\ Flush(old, p).refreshing = p.refreshing
<1>1. CASE old = p.token
  BY <1>1 DEF Flush, Served
<1>2. CASE old # NoToken /\ p.token = NoToken
  <2> DEFINE d == disconnect(p)
             q == [d EXCEPT !.loaded = {}]
  <2>1. Flush(old, p) = q
    BY <1>2 DEF Flush
  <2>2. /\ PageOK(d, n) /\ d.socket = NoConn /\ d.timer = FALSE
        /\ d.token = p.token /\ d.refreshing = p.refreshing
    BY DisconnectIs
  <2> HIDE DEF d
  <2>3. PageOK(q, n) /\ Beside(d, q)
    BY <2>2 DEF PageOK, Beside, Spares, SameLogin, Fields
  <2>4. Served(d)
    BY <1>2, <2>2 DEF Served
  <2>5. QED
    BY <2>1, <2>2, <2>3, <2>4, BesideServed DEF Beside, Spares, SameLogin
<1>3. CASE old = NoToken /\ p.token # NoToken
  <2> DEFINE f == fetchAll(p)
  <2>1. PageOK(f, n) /\ Beside(p, f)
    BY FetchAllKeeps
  <2>2. Flush(old, p) = connect(f)
    BY <1>3 DEF Flush
  <2> HIDE DEF f
  <2>3. f.socket = NoConn /\ f.token # NoToken /\ Room(f)
    BY <1>3, <2>1 DEF Beside, Spares, SameLogin, Room
  <2>4. /\ PageOK(connect(f), n) /\ Served(connect(f))
        /\ connect(f).token = f.token /\ connect(f).refreshing = f.refreshing
    BY <2>1, <2>3, ConnectServes
  <2>5. QED
    BY <2>1, <2>2, <2>4 DEF Beside, Spares, SameLogin
<1>4. CASE old # p.token /\ old # NoToken /\ p.token # NoToken
  <2>1. Flush(old, p) = reconnect(p)
    BY <1>4 DEF Flush
  <2>2. QED
    BY <1>4, <2>1, ReconnectServes
<1>5. QED
  BY <1>1, <1>2, <1>3, <1>4

----------------------------------------------------------------------------
(* The messages.                                                           *)

\* A socket keeps its state, whatever is on its way.
LEMMA SocketSet ==
  ASSUME NEW p, NEW n \in Nat, PageOK(p, n), NEW c \in Conns, NEW s,
         SocketOK(s), s.state = p.conn[c].state
  PROVE  LET q == [p EXCEPT !.conn[c] = s]
         IN  PageOK(q, n) /\ Beside(p, q) /\ q.conn[c] = s
<1> DEFINE conns == [p.conn EXCEPT ![c] = s]
           q == [p EXCEPT !.conn = conns]
<1>1. /\ DOMAIN conns = Conns /\ conns[c] = s
      /\ \A d \in Conns : SocketOK(conns[d]) /\ conns[d].state = p.conn[d].state
  BY DEF PageOK
<1> HIDE DEF conns
<1>2. PageOK(q, n) /\ Beside(p, q) /\ q.conn[c] = s
  BY <1>1 DEF PageOK, Beside, Spares, SameLogin, Fields
<1>3. QED
  BY <1>2 DEF conns

LEMMA SendPingKeeps ==
  ASSUME NEW p, NEW n \in Nat, PageOK(p, n)
  PROVE  PageOK(sendPing(p), n) /\ Beside(p, sendPing(p))
<1>1. sendPing(p) = p \/ sendPing(p) = Send(p, [kind |-> "ping", token |-> NoToken])
  BY DEF sendPing
<1>2. QED
  BY <1>1, SendKeeps DEF Beside, Spares, SameLogin

LEMMA SendAuthKeeps ==
  ASSUME NEW p, NEW n \in Nat, PageOK(p, n)
  PROVE  PageOK(sendAuth(p), n) /\ Beside(p, sendAuth(p))
<1>1. sendAuth(p) = p \/ sendAuth(p) = Send(p, [kind |-> "auth", token |-> p.token])
  BY DEF sendAuth
<1>2. QED
  BY <1>1, SendKeeps DEF Beside, Spares, SameLogin

LEMMA AuthenticatedKeeps ==
  ASSUME NEW p, NEW n \in Nat, PageOK(p, n), NEW c \in Conns
  PROVE  PageOK(Authenticated(p, c), n) /\ Beside(p, Authenticated(p, c))
<1> DEFINE q == [p EXCEPT !.status = "connected", !.driverId = TRUE,
                          !.connectionId = c, !.heartbeat = TRUE]
<1>1. PageOK(q, n) /\ Beside(p, q)
  BY DEF PageOK, Beside, Spares, SameLogin, Fields, ConnIds
<1>2. Authenticated(p, c) = sendPing(q)
  BY DEF Authenticated
<1> HIDE DEF q
<1>3. PageOK(sendPing(q), n) /\ Beside(q, sendPing(q))
  BY <1>1, SendPingKeeps
<1>4. QED
  BY <1>1, <1>2, <1>3 DEF Beside, Spares, SameLogin

\* The server takes a message and answers.
LEMMA ServesKeeps ==
  ASSUME NEW n \in Nat, PageOK(page, n), NEW c \in Conns, NEW i, NEW row,
         NEW replies \in Seq(Replies), Serves(c, i, row, replies)
  PROVE  PageOK(page', n) /\ Beside(page, page')
<1> DEFINE s == page.conn[c]
           t == [s EXCEPT !.out = RemoveAt(s.out, i), !.row = row,
                          !.in = s.in \o replies]
           q == [page EXCEPT !.conn[c] = t]
<1>1. SocketOK(s) /\ DOMAIN page = Fields /\ DOMAIN page.conn = Conns
  BY DEF PageOK
<1>2. SocketOK(t) /\ t.state = s.state
  BY <1>1 DEF SocketOK
<1>3. page' = q
  BY <1>1 DEF Serves, SocketOK, Fields
<1> HIDE DEF t
<1>4. PageOK(q, n) /\ Beside(page, q)
  BY <1>2, SocketSet
<1>5. QED
  BY <1>3, <1>4

----------------------------------------------------------------------------
(* The invariant: the page is well formed, its session served, at most one  *)
(* refresh is under way, and a page the OAuth redirect opened has done      *)
(* nothing until it is processed.                                           *)

SessionOK ==
  /\ issued \in Nat
  /\ PageOK(page, issued)
  /\ Served(page)
  /\ Single(page)
  /\ job.conn \in ConnIds

Unprocessed == callback => page = NewPage(NoToken) /\ job = NoJob

SessionInv == SessionOK /\ Unprocessed

\* Nothing of a new page is in use.
LEMMA NewPageOK ==
  ASSUME NEW t \in 0 .. 1
  PROVE  LET p == NewPage(t)
         IN  /\ PageOK(p, 1) /\ Room(p) /\ p.token = t /\ p.refreshing = {}
             /\ p.socket = NoConn /\ ~p.timer /\ ~p.heartbeat
             /\ \A c \in Conns : p.conn[c].state = "none"
             /\ \A x \in Requests : p.req[x].pc = "idle"
<1> DEFINE conns == [c \in Conns |-> NoSocket]
           reqs == [x \in Requests |-> NoRequest]
           p == NewPage(t)
<1>1. /\ DOMAIN conns = Conns
      /\ \A c \in Conns : SocketOK(conns[c]) /\ conns[c].state = "none"
  <2>1. SocketOK(NoSocket) /\ NoSocket.state = "none"
    BY DEF SocketOK, NoSocket
  <2>2. QED
    BY <2>1
<1>2. reqs \in [Requests -> Request] /\ \A x \in Requests : reqs[x].pc = "idle"
  BY NoRequestOK DEF NoRequest
<1>3. p = [token |-> t, refreshing |-> {},
           socket |-> NoConn, status |-> "disconnected", driverId |-> FALSE,
           connectionId |-> NoConn, timer |-> FALSE, heartbeat |-> FALSE,
           conn |-> conns, req |-> reqs, loaded |-> {},
           ingestion |-> "idle", error |-> "none", waiting |-> FALSE]
  BY DEF NewPage
<1> HIDE DEF conns, reqs
<1>4. /\ DOMAIN p = Fields /\ p.token = t /\ p.refreshing = {} /\ p.socket = NoConn
      /\ p.status = "disconnected" /\ p.connectionId = NoConn /\ p.timer = FALSE
      /\ p.heartbeat = FALSE /\ p.conn = conns /\ p.req = reqs /\ p.loaded = {}
      /\ p.ingestion = "idle"
  BY <1>3 DEF Fields
<1> HIDE DEF p
<1>5. PageOK(p, 1)
  BY <1>1, <1>2, <1>4 DEF PageOK, NoToken, ConnIds
<1>6. Room(p)
  BY <1>1, <1>4, ConnsAssumption DEF Room
<1>7. QED
  BY <1>1, <1>2, <1>4, <1>5, <1>6 DEF p

LEMMA InitSession == Init => SessionInv
<1> SUFFICES ASSUME Init PROVE SessionInv
  OBVIOUS
<1>1. PICK t \in {NoToken, 1} : page = Flush(NoToken, NewPage(t))
  BY DEF Init
<1> DEFINE p == NewPage(t)
<1>2. /\ PageOK(p, 1) /\ Room(p) /\ p.token = t /\ p.socket = NoConn /\ ~p.timer
      /\ p.refreshing = {}
  BY NewPageOK DEF NoToken
<1>3. t = NoToken => page = p
  BY <1>1, <1>2 DEF Flush
<1> HIDE DEF p
<1>4. /\ PageOK(page, 1) /\ Served(page)
      /\ page.token = t /\ page.refreshing = {}
  <2>1. /\ PageOK(Flush(NoToken, p), 1) /\ Served(Flush(NoToken, p))
        /\ Flush(NoToken, p).token = p.token
        /\ Flush(NoToken, p).refreshing = p.refreshing
    BY <1>2, FlushServes
  <2>2. QED
    BY <1>1, <1>2, <2>1 DEF p
<1>5. Unprocessed
  BY <1>3, <1>4 DEF Unprocessed, Init, p
<1>6. issued = 1 /\ job = NoJob
  BY DEF Init
<1>7. QED
  BY <1>4, <1>5, <1>6 DEF SessionInv, SessionOK, Single, NoJob, ConnIds

----------------------------------------------------------------------------
(* The steps.                                                              *)

\* No step makes a second refresh out of one.
LEMMA StaysSingle ==
  ASSUME NEW p, NEW q, Single(p), SameLogin(p, q) PROVE Single(q)
BY DEF Single, SameLogin

\* A step that leaves the session beside.
LEMMA StepBeside ==
  ASSUME SessionOK, PageOK(page', issued), Spares(page, page'), issued' = issued,
         job'.conn \in ConnIds
  PROVE  SessionOK' /\ SameLogin(page, page')
BY BesideServed, StaysSingle DEF SessionOK, Spares

LEMMA LoginIs ==
  ASSUME SessionInv, Login
  PROVE  SessionOK' /\ page.refreshing = {} /\ page'.refreshing = {}
<1> DEFINE q == setSession(page, issued')
           f == Flush(page.token, q)
<1>1. /\ PageOK(page, issued) /\ issued \in Nat /\ job.conn \in ConnIds
      /\ Room(page) /\ page.token = NoToken /\ page.socket = NoConn /\ ~page.timer
      /\ page.refreshing = {}
  BY NewPageOK DEF SessionInv, SessionOK, Unprocessed, Login, NoToken
<1>2. issued' = issued + 1 /\ page' = Settle(f) /\ job' = job
  BY DEF Login
<1>3. /\ PageOK(q, issued') /\ Room(q) /\ q.token # NoToken
      /\ q.socket = NoConn /\ ~q.timer /\ q.refreshing = {}
  BY <1>1, <1>2 DEF setSession, PageOK, Fields, Room, NoToken
<1> HIDE DEF q
<1>4. PageOK(f, issued') /\ Served(f) /\ f.refreshing = {}
  BY <1>1, <1>2, <1>3, FlushServes
<1> HIDE DEF f
<1>5. PageOK(page', issued') /\ Beside(f, page')
  BY <1>1, <1>2, <1>4, SettleKeeps
<1>6. QED
  BY <1>1, <1>2, <1>4, <1>5, BesideServed DEF SessionOK, Beside, Single

LEMMA LogoutStep == ASSUME SessionOK, Logout PROVE SessionOK'
<1> DEFINE q == [page EXCEPT !.token = NoToken]
           f == Flush(page.token, q)
<1>1. PageOK(page, issued) /\ issued \in Nat /\ job.conn \in ConnIds /\ Served(page)
  BY DEF SessionOK
<1>2. issued' = issued /\ page' = f /\ job' = job /\ page.token # NoToken
  BY DEF Logout
<1>3. /\ PageOK(q, issued) /\ q.token = NoToken /\ q.socket = page.socket
      /\ q.timer = page.timer /\ q.status = page.status /\ (Live(q) <=> Live(page))
      /\ q.refreshing = page.refreshing
  BY <1>1 DEF PageOK, Fields, NoToken, Live
<1> HIDE DEF q
<1>4. PageOK(f, issued) /\ Served(f) /\ f.refreshing = page.refreshing
  BY <1>1, <1>2, <1>3, FlushServes DEF Served
<1>5. QED
  BY <1>1, <1>2, <1>4 DEF SessionOK, Single

LEMMA ClickSyncStep ==
  ASSUME SessionOK, ClickSync
  PROVE  SessionOK' /\ SameLogin(page, page')
BY TriggerKeeps, StepBeside DEF ClickSync, SessionOK, Beside

\* onopen, whichever socket opened.
LEMMA OpensStep ==
  ASSUME SessionOK, NEW c \in Conns, Opens(c)
  PROVE  SessionOK' /\ SameLogin(page, page')
<1> DEFINE s == [page.conn[c] EXCEPT !.state = "open"]
           conns == [page.conn EXCEPT ![c] = s]
           q == [page EXCEPT !.conn = conns, !.status = "authenticating"]
<1>1. PageOK(page, issued) /\ issued \in Nat /\ job.conn \in ConnIds /\ Served(page)
  BY DEF SessionOK
<1>2. issued' = issued /\ page' = sendAuth(q) /\ job' = job
  BY DEF Opens
<1>3. /\ DOMAIN conns = Conns
      /\ \A d \in Conns : /\ SocketOK(conns[d])
                          /\ \/ conns[d].state = page.conn[d].state
                             \/ conns[d].state = "open"
  BY <1>1 DEF PageOK, SocketOK
<1> HIDE DEF conns
<1>4. PageOK(q, issued) /\ SameLogin(page, q)
  BY <1>1, <1>3 DEF PageOK, Fields, SameLogin
<1>5. Served(q)
  BY <1>1, <1>3 DEF PageOK, Fields, Served, Live
<1> HIDE DEF q
<1>6. PageOK(page', issued) /\ Beside(q, page')
  BY <1>1, <1>2, <1>4, SendAuthKeeps
<1>7. Served(page') /\ SameLogin(page, page')
  BY <1>4, <1>5, <1>6, BesideServed DEF Beside, Spares, SameLogin
<1>8. QED
  BY <1>1, <1>2, <1>6, <1>7, StaysSingle DEF SessionOK

\* A connection closes, at whichever side, and its job ends with it.
LEMMA ClosedStep ==
  ASSUME SessionOK, NEW c \in Conns, NEW error, page' = onclose(page, c, error),
         job' = IF job.conn = c THEN NoJob ELSE job, issued' = issued
  PROVE  SessionOK' /\ SameLogin(page, page')
BY OncloseServes, StaysSingle DEF SessionOK, NoJob, ConnIds, SameLogin

LEMMA ArrivesStep ==
  ASSUME SessionOK, NEW c \in Conns, Arrives(c)
  PROVE  SessionOK' /\ SameLogin(page, page')
<1> DEFINE s == page.conn[c]
           t == [s EXCEPT !.in = Tail(s.in)]
           p == [page EXCEPT !.conn[c] = t]
           msg == Head(s.in)
<1>1. /\ PageOK(page, issued) /\ issued \in Nat /\ job.conn \in ConnIds /\ Served(page)
      /\ SocketOK(s)
  BY DEF SessionOK, PageOK
<1>2. SocketOK(t) /\ t.state = s.state /\ msg \in Replies
  BY <1>1 DEF Arrives, SocketOK
<1>3. [page EXCEPT !.conn[c].in = Tail(@)] = p
  OBVIOUS
<1>4. /\ page' = CASE msg = "ok" -> Authenticated(p, c)
                   [] msg = "failed" -> refreshToken(p, "auth")
                   [] msg = "stale" -> refreshToken(p, "stale")
                   [] msg = "close" -> onclose(p, c, FALSE)
      /\ job' = IF msg = "close" /\ job.conn = c THEN NoJob ELSE job
      /\ issued' = issued
  BY <1>3 DEF Arrives
<1> HIDE DEF t, msg
<1>5. PageOK(p, issued) /\ Beside(page, p)
  BY <1>1, <1>2, SocketSet
<1> HIDE DEF p
<1>6. Served(p)
  BY <1>1, <1>5, BesideServed DEF Beside
<1>7. job'.conn \in ConnIds
  BY <1>1, <1>4 DEF NoJob, ConnIds
<1>8. CASE msg = "ok"
  <2>1. PageOK(page', issued) /\ Beside(p, page')
    BY <1>1, <1>4, <1>5, <1>8, AuthenticatedKeeps
  <2>2. QED
    BY <1>1, <1>4, <1>5, <1>7, <2>1, StepBeside DEF Beside, Spares, SameLogin
<1>9. CASE msg \in {"failed", "stale"}
  <2>1. PICK by \in {"auth", "stale"} : page' = refreshToken(p, by)
    BY <1>4, <1>9
  <2>2. PageOK(page', issued) /\ Spares(p, page')
    BY <1>1, <1>5, <2>1, RefreshKeeps DEF Callers
  <2>3. QED
    BY <1>1, <1>4, <1>5, <1>7, <2>2, StepBeside DEF Beside, Spares, SameLogin
<1>10. CASE msg = "close"
  <2>1. page' = onclose(p, c, FALSE)
    BY <1>4, <1>10
  <2>2. /\ PageOK(page', issued) /\ Served(page')
        /\ page'.token = p.token /\ page'.refreshing = p.refreshing
    BY <1>1, <1>5, <1>6, <2>1, OncloseServes
  <2>3. SameLogin(page, page')
    BY <1>5, <2>2 DEF Beside, Spares, SameLogin
  <2>4. QED
    BY <1>1, <1>4, <1>7, <2>2, <2>3, StaysSingle DEF SessionOK
<1>11. QED
  BY <1>2, <1>8, <1>9, <1>10 DEF Replies

LEMMA TimeoutStep ==
  ASSUME SessionOK, ReconnectTimeout
  PROVE  SessionOK' /\ SameLogin(page, page')
<1> DEFINE q == [page EXCEPT !.timer = FALSE]
<1>1. PageOK(page, issued) /\ issued \in Nat /\ job.conn \in ConnIds /\ Served(page)
  BY DEF SessionOK
<1>2. issued' = issued /\ page' = connect(q) /\ job' = job /\ page.timer /\ Room(page)
  BY DEF ReconnectTimeout, RoomForSocket, Room
<1>3. /\ PageOK(q, issued) /\ Room(q) /\ q.token = page.token /\ ~q.timer
      /\ q.socket = page.socket /\ q.status = page.status /\ (Live(q) <=> Live(page))
      /\ q.refreshing = page.refreshing
  BY <1>1, <1>2 DEF PageOK, Fields, Room, Live
<1> HIDE DEF q
<1>4. /\ PageOK(connect(q), issued) /\ Served(connect(q))
      /\ connect(q).token = q.token /\ connect(q).refreshing = q.refreshing
  BY <1>1, <1>3, ConnectServes DEF Served
<1>5. SameLogin(page, page')
  BY <1>2, <1>3, <1>4 DEF SameLogin
<1>6. QED
  BY <1>1, <1>2, <1>4, <1>5, StaysSingle DEF SessionOK

LEMMA HeartbeatStep ==
  ASSUME SessionOK, Heartbeat
  PROVE  SessionOK' /\ SameLogin(page, page')
BY SendPingKeeps, StepBeside DEF Heartbeat, SessionOK, Beside

\* The refresh answers with a JWT or with an error; the page meanwhile may have
\* logged out, reconnected or lost its socket.
LEMMA RefreshStep ==
  ASSUME SessionOK, NEW r \in page.refreshing, RefreshAnswered(r)
  PROVE  SessionOK' /\ page'.refreshing = page.refreshing \ {r}
<1> DEFINE rest == page.refreshing \ {r}
           q == [page EXCEPT !.refreshing = rest]
<1>1. PageOK(page, issued) /\ issued \in Nat /\ job.conn \in ConnIds /\ Served(page)
  BY DEF SessionOK
<1>2. r.by \in Callers /\ rest \subseteq [by : Callers, token : 1 .. issued]
  BY <1>1 DEF PageOK
<1> HIDE DEF rest
<1>3. /\ PageOK(q, issued) /\ q.refreshing = rest /\ q.token = page.token
      /\ q.socket = page.socket /\ q.timer = page.timer /\ q.status = page.status
      /\ q.conn = page.conn
  BY <1>1, <1>2 DEF PageOK, Fields
<1> HIDE DEF q
<1>4. Served(q) /\ (Room(page) => Room(q))
  BY <1>1, <1>3 DEF Served, Live, Room
<1>5. ASSUME NEW n \in Nat, NEW t \in NoToken .. n, NEW ok, PageOK(q, n),
             t = NoToken \/ Room(q),
             n = issued',
             page' \in {Resume(Flush(page.token, [q EXCEPT !.token = t]), r.by, ok),
                        Settle(Resume(Flush(page.token, [q EXCEPT !.token = t]), r.by, ok))}
      PROVE  PageOK(page', n) /\ Served(page') /\ page'.refreshing = rest
  <2> DEFINE s == [q EXCEPT !.token = t]
             f == Flush(page.token, s)
             u == Resume(f, r.by, ok)
  <2>1. /\ PageOK(s, n) /\ s.token = t /\ s.socket = q.socket /\ s.timer = q.timer
        /\ s.status = q.status /\ (Live(s) <=> Live(q)) /\ (Room(q) => Room(s))
        /\ s.refreshing = rest
    BY <1>3, <1>5 DEF PageOK, Fields, Live, Room, NoToken
  <2>2. page.token = q.token
    BY <1>3
  <2>3. page' = u \/ page' = Settle(u)
    BY <1>5
  <2> HIDE DEF s
  <2>4. PageOK(f, n) /\ Served(f) /\ f.refreshing = rest
    BY <1>4, <1>5, <2>1, <2>2, FlushServes DEF Served
  <2> HIDE DEF f
  <2>5. PageOK(u, n) /\ Beside(f, u)
    BY <1>2, <2>4, ResumeKeeps
  <2> HIDE DEF u
  <2>6. PageOK(Settle(u), n) /\ Beside(u, Settle(u))
    BY <2>5, SettleKeeps
  <2>7. /\ Served(u) /\ Served(Settle(u))
        /\ u.refreshing = rest /\ Settle(u).refreshing = rest
    BY <2>4, <2>5, <2>6, BesideServed DEF Beside
  <2>8. QED
    BY <2>3, <2>5, <2>6, <2>7
<1>6. /\ job' = job
      /\ \/ /\ Room(page) /\ issued' = issued + 1
            /\ page' = Settle(Resume(Flush(page.token, [q EXCEPT !.token = issued']),
                                     r.by, TRUE))
         \/ /\ issued' = issued
            /\ page' = Resume(Flush(page.token, [q EXCEPT !.token = NoToken]), r.by, FALSE)
  BY DEF RefreshAnswered, setSession, RoomForSocket, Room, rest, q
<1>7. rest = page.refreshing \ {r} /\ (page'.refreshing = rest => Single(page'))
  BY DEF rest, SessionOK, Single
<1>8. CASE issued' = issued + 1 /\ Room(page)
           /\ page' = Settle(Resume(Flush(page.token, [q EXCEPT !.token = issued']),
                                    r.by, TRUE))
  <2>1. issued' \in Nat /\ issued' \in NoToken .. issued' /\ PageOK(q, issued')
    BY <1>1, <1>3, <1>8, PageMore DEF NoToken
  <2>2. PageOK(page', issued') /\ Served(page') /\ page'.refreshing = rest
    BY <1>4, <1>5, <1>8, <2>1
  <2>3. QED
    BY <1>1, <1>6, <1>7, <2>1, <2>2 DEF SessionOK
<1>9. CASE issued' = issued
           /\ page' = Resume(Flush(page.token, [q EXCEPT !.token = NoToken]), r.by, FALSE)
  <2>1. NoToken \in NoToken .. issued
    BY <1>1 DEF NoToken
  <2>2. PageOK(page', issued) /\ Served(page') /\ page'.refreshing = rest
    BY <1>1, <1>3, <1>5, <1>9, <2>1
  <2>3. QED
    BY <1>1, <1>6, <1>9, <1>7, <2>2 DEF SessionOK
<1>10. QED
  BY <1>6, <1>8, <1>9

LEMMA UnauthorizedKeeps ==
  ASSUME SessionOK, NEW x \in Requests, Unauthorized(x)
  PROVE  PageOK(page', issued) /\ Spares(page, page')
<1> DEFINE r == [page.req[x] EXCEPT !.pc = "refreshing"]
           q == [page EXCEPT !.req[x] = r]
<1>1. PageOK(page, issued) /\ issued \in Nat
  BY DEF SessionOK
<1>2. r \in Request
  <2>1. "refreshing" \in Stages /\ page.req[x] \in Request
    BY <1>1 DEF Stages, PageOK
  <2>2. QED
    BY <2>1 DEF Request
<1>3. page' = GiveUp(page, x, "failed") \/ page' = refreshToken(q, x)
  BY DEF Unauthorized
<1> HIDE DEF r
<1>4. PageOK(q, issued) /\ Beside(page, q)
  BY <1>1, <1>2, RequestSet
<1> HIDE DEF q
<1>5. PageOK(refreshToken(q, x), issued) /\ Spares(q, refreshToken(q, x))
  BY <1>1, <1>4, RefreshKeeps DEF Callers
<1>6. PageOK(GiveUp(page, x, "failed"), issued) /\ Beside(page, GiveUp(page, x, "failed"))
  BY <1>1, GiveUpKeeps
<1>7. QED
  BY <1>3, <1>4, <1>5, <1>6 DEF Beside, Spares, SameLogin

LEMMA GrantedKeeps ==
  ASSUME SessionOK, NEW x \in Requests, Granted(x)
  PROVE  PageOK(page', issued) /\ Beside(page, page') /\ job'.conn \in ConnIds
<1> DEFINE q == [page EXCEPT !.req[x] = NoRequest]
<1>1. /\ PageOK(page, issued) /\ issued \in Nat /\ job.conn \in ConnIds
      /\ page.req[x].conn \in ConnIds
  BY DEF SessionOK, PageOK, Request
<1>2. PageOK(q, issued) /\ Beside(page, q)
  BY <1>1, NoRequestOK, RequestSet
<1>3. /\ job' = job \/ job'.conn = page.req[x].conn
      /\ \/ x \in Resources /\ page' = Settle([q EXCEPT !.loaded = @ \cup {x}])
         \/ page' = [q EXCEPT !.ingestion = "idle"]
         \/ page' = [q EXCEPT !.ingestion = "success"]
         \/ page' = GiveUp(page, x, "failed")
  BY DEF Granted
<1> HIDE DEF q
<1>4. CASE x \in Resources /\ page' = Settle([q EXCEPT !.loaded = @ \cup {x}])
  <2> DEFINE u == [q EXCEPT !.loaded = q.loaded \cup {x}]
  <2>1. PageOK(u, issued) /\ Beside(q, u)
    BY <1>2, <1>4 DEF PageOK, Beside, Spares, SameLogin, Fields
  <2>2. page' = Settle(u)
    BY <1>4
  <2> HIDE DEF u
  <2>3. PageOK(page', issued) /\ Beside(u, page')
    BY <1>1, <2>1, <2>2, SettleKeeps
  <2>4. QED
    BY <1>1, <1>2, <1>3, <2>1, <2>3 DEF Beside, Spares, SameLogin
<1>5. CASE \/ page' = [q EXCEPT !.ingestion = "idle"]
           \/ page' = [q EXCEPT !.ingestion = "success"]
  <2>1. PageOK(page', issued) /\ Beside(q, page')
    BY <1>2, <1>5 DEF PageOK, Beside, Spares, SameLogin, Fields
  <2>2. QED
    BY <1>1, <1>2, <1>3, <2>1 DEF Beside, Spares, SameLogin
<1>6. CASE page' = GiveUp(page, x, "failed")
  BY <1>1, <1>3, <1>6, GiveUpKeeps
<1>7. QED
  BY <1>3, <1>4, <1>5, <1>6

LEMMA AnsweredStep ==
  ASSUME SessionOK, NEW x \in Requests, Answered(x)
  PROVE  SessionOK' /\ SameLogin(page, page')
<1>1. PageOK(page, issued) /\ issued \in Nat /\ job.conn \in ConnIds /\ issued' = issued
  BY DEF SessionOK, Answered
<1>2. CASE Unauthorized(x)
  BY <1>1, <1>2, UnauthorizedKeeps, StepBeside DEF Unauthorized
<1>3. CASE Granted(x)
  BY <1>1, <1>3, GrantedKeeps, StepBeside DEF Beside
<1>4. CASE page' = GiveUp(page, x, "failed") /\ UNCHANGED job
  BY <1>1, <1>4, GiveUpKeeps, StepBeside DEF Beside
<1>5. QED
  BY <1>2, <1>3, <1>4 DEF Answered

LEMMA HandlerStep ==
  ASSUME SessionOK, NEW c \in Conns, HandleAuth(c) \/ HandlePing(c)
  PROVE  SessionOK' /\ SameLogin(page, page')
<1>1. PageOK(page, issued) /\ issued \in Nat /\ job.conn \in ConnIds
  BY DEF SessionOK
<1>2. /\ <<>> \in Seq(Replies) /\ <<"ok">> \in Seq(Replies)
      /\ <<"close">> \in Seq(Replies) /\ <<"failed", "close">> \in Seq(Replies)
  BY DEF Replies
<1>3. /\ issued' = issued /\ job' = job
      /\ \E i, row :
           \E replies \in {<<>>, <<"ok">>, <<"close">>, <<"failed", "close">>} :
             Serves(c, i, row, replies)
  <2>1. CASE HandleAuth(c)
    BY <2>1 DEF HandleAuth, AuthHandler
  <2>2. CASE HandlePing(c)
    BY <2>2 DEF HandlePing, PingHandler
  <2>3. QED
    BY <2>1, <2>2
<1>4. PICK i, row : \E replies \in {<<>>, <<"ok">>, <<"close">>, <<"failed", "close">>} :
                      Serves(c, i, row, replies)
  BY <1>3
<1>5. PICK replies \in {<<>>, <<"ok">>, <<"close">>, <<"failed", "close">>} :
        Serves(c, i, row, replies)
  BY <1>4
<1>6. PageOK(page', issued) /\ Beside(page, page')
  BY <1>1, <1>2, <1>5, ServesKeeps
<1>7. QED
  BY <1>1, <1>3, <1>6, StepBeside DEF Beside

LEMMA JobEndsStep ==
  ASSUME SessionOK, JobEnds
  PROVE  SessionOK' /\ SameLogin(page, page')
<1> DEFINE c == job.conn
           s == page.conn[c]
           t == [s EXCEPT !.in = Append(s.in, "stale")]
           q == [page EXCEPT !.conn[c] = t]
<1>1. PageOK(page, issued) /\ issued \in Nat
  BY DEF SessionOK
<1>2. /\ issued' = issued /\ job'.conn \in ConnIds
      /\ page' = page \/ (c \in Conns /\ page' = q)
  BY DEF JobEnds, NoJob, ConnIds
<1>3. CASE page' = page
  BY <1>1, <1>2, <1>3, StepBeside DEF Beside, Spares, SameLogin
<1>4. CASE c \in Conns /\ page' = q
  <2>1. SocketOK(s)
    BY <1>1, <1>4 DEF PageOK
  <2>2. SocketOK(t) /\ t.state = s.state
    BY <2>1 DEF SocketOK, Replies
  <2> HIDE DEF t, c
  <2>3. PageOK(page', issued) /\ Beside(page, page')
    BY <1>1, <1>4, <2>2, SocketSet
  <2>4. QED
    BY <1>1, <1>2, <2>3, StepBeside DEF Beside
<1>5. QED
  BY <1>2, <1>3, <1>4

\* A page that is not processed yet does nothing but that.
LEMMA Waits ==
  ASSUME Unprocessed, callback, Next, ~Login
  PROVE  UNCHANGED <<page, job>>
<1>1. /\ page.token = NoToken /\ page.refreshing = {} /\ ~page.timer /\ ~page.heartbeat
      /\ \A c \in Conns : page.conn[c].state = "none"
      /\ \A x \in Requests : page.req[x].pc = "idle"
      /\ job = NoJob
  BY NewPageOK DEF Unprocessed, NoToken
<1>2. ~Logout /\ ~ClickSync /\ ~ReconnectTimeout /\ ~Heartbeat /\ ~JobEnds
  BY <1>1 DEF Logout, ClickSync, isReady, ReconnectTimeout, Heartbeat, JobEnds
<1>3. ASSUME NEW c \in Conns
      PROVE  /\ ~Opens(c) /\ ~ClosedByClient(c) /\ ~ConnectionLost(c) /\ ~ConnectionAges(c)
             /\ ~Arrives(c) /\ ~HandleAuth(c) /\ ~HandlePing(c)
  BY <1>1 DEF Opens, ClosedByClient, ConnectionLost, ConnectionAges, Arrives, HandleAuth,
              HandlePing, Connected
<1>4. ASSUME NEW x \in Requests PROVE ~Answered(x)
  BY <1>1 DEF Answered
<1>5. CASE AccessExpires \/ JwtExpires
  BY <1>5 DEF AccessExpires, JwtExpires
<1>6. QED
  BY <1>1, <1>2, <1>3, <1>4, <1>5 DEF Next

\* Only Login says that the page is processed, and nothing says it is not.
LEMMA CallbackStays ==
  ASSUME Next PROVE  (Login /\ ~callback') \/ callback' = callback
BY DEF Next, Login, Logout, ClickSync, ReconnectTimeout, Heartbeat, JobEnds, AccessExpires,
       JwtExpires, Opens, ClosedByClient, ConnectionLost, ConnectionAges, Arrives,
       HandleAuth, AuthHandler, HandlePing, PingHandler, RefreshAnswered, Answered

\* What is neither a login, a logout nor the answer of a refresh.
LEMMA StepRest ==
  ASSUME SessionOK, Next, ~Login, ~Logout,
         ~\E r \in page.refreshing : RefreshAnswered(r)
  PROVE  SessionOK' /\ SameLogin(page, page')
<1>1. CASE AccessExpires \/ JwtExpires
  BY <1>1, StepBeside
  DEF AccessExpires, JwtExpires, SessionOK, Spares, SameLogin
<1>2. CASE \E c \in Conns : ClosedByClient(c) \/ ConnectionLost(c) \/ ConnectionAges(c)
  BY <1>2, ClosedStep DEF ClosedByClient, ConnectionLost, ConnectionAges
<1>3. QED
  BY <1>1, <1>2, ClickSyncStep, TimeoutStep, HeartbeatStep, JobEndsStep, OpensStep,
     ArrivesStep, HandlerStep, AnsweredStep DEF Next

LEMMA StepSession == SessionInv /\ [Next]_vars => SessionInv'
<1> SUFFICES ASSUME SessionInv, [Next]_vars PROVE SessionInv'
  OBVIOUS
<1>1. SessionOK /\ Unprocessed
  BY DEF SessionInv
<1>2. CASE UNCHANGED vars
  BY <1>1, <1>2 DEF vars, SessionInv, SessionOK, Unprocessed, PageOK, Served, Live
<1>3. CASE Next
  <2>1. SessionOK'
    BY <1>1, <1>3, LoginIs, LogoutStep, RefreshStep, StepRest DEF SessionInv
  <2>2. Unprocessed'
    <3> SUFFICES ASSUME callback' PROVE page' = NewPage(NoToken) /\ job' = NoJob
      BY DEF Unprocessed, NewPage
    <3>1. ~Login /\ callback
      BY <1>3, CallbackStays DEF Login
    <3>2. page' = page /\ job' = job
      BY <1>1, <1>3, <3>1, Waits
    <3>3. QED
      BY <1>1, <3>1, <3>2 DEF Unprocessed
  <2>3. QED
    BY <2>1, <2>2 DEF SessionInv
<1>4. QED
  BY <1>2, <1>3

LEMMA SessionInvariant == Spec => []SessionInv
BY InitSession, StepSession, PTL DEF Spec

----------------------------------------------------------------------------
(* Theorems.                                                               *)

\* The page keeps its shape, and a refresh under way carries a JWT that was issued.
THEOREM TypeCorrect == Spec => []TypeOK
<1>1. SessionInv => TypeOK
  BY DEF SessionInv, SessionOK, PageOK, SocketOK, Request, Stages, ConnIds, TypeOK
<1>2. QED
  BY <1>1, SessionInvariant, PTL

\* Who is logged in has a socket that is being made or open, or a timer that makes
\* one, whatever closes, fails or is replaced.
THEOREM NeverStrandedHolds == Spec => []NeverStranded
<1>1. SessionInv => NeverStranded
  BY DEF SessionInv, SessionOK, Served, NeverStranded
<1>2. QED
  BY <1>1, SessionInvariant, PTL

\* A page without a token gets one only by the login or by the answer of the only
\* refresh under way, and begins no refresh.
LEMMA StepLogout == SessionInv /\ [Next]_vars => LogoutStands
<1> SUFFICES ASSUME SessionInv, [Next]_vars, page.token = NoToken PROVE LogoutStands
  BY DEF LogoutStands
<1>1. SessionOK /\ page.socket = NoConn /\ ~page.timer
  BY DEF SessionInv, SessionOK, Served
<1>2. CASE SameLogin(page, page')
  BY <1>1, <1>2 DEF SameLogin, LogoutStands
<1>3. CASE Login
  <2>1. page.refreshing = {} /\ page'.refreshing = {}
    BY <1>3, LoginIs
  <2>2. QED
    BY <1>1, <1>3, <2>1 DEF Login, LogoutStands
<1>4. CASE \E r \in page.refreshing : RefreshAnswered(r)
  <2>1. PICK r \in page.refreshing : RefreshAnswered(r)
    BY <1>4
  <2>2. page'.refreshing = page.refreshing \ {r}
    BY <1>1, <2>1, RefreshStep
  <2>3. page'.refreshing = {}
    BY <1>1, <2>2 DEF SessionOK, Single
  <2>4. QED
    BY <1>1, <2>3 DEF LogoutStands
<1>5. ~Logout
  BY DEF Logout
<1>6. CASE UNCHANGED vars
  BY <1>2, <1>6 DEF vars, SameLogin
<1>7. CASE Next
  BY <1>1, <1>2, <1>3, <1>4, <1>5, <1>7, StepRest
<1>8. QED
  BY <1>6, <1>7

\* Who is logged out has no socket in use and no timer, and stays logged out but by
\* the login page or the answer of the refresh that was under way.
THEOREM LogoutLastsHolds == Spec => LogoutLasts
<1>1. SessionInv /\ [Next]_vars => [LogoutStands]_vars
  BY StepLogout
<1>2. QED
  BY <1>1, SessionInvariant, PTL DEF Spec, LogoutLasts, LogoutStands
=============================================================================
