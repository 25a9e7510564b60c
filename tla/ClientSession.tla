---------------------------- MODULE ClientSession ----------------------------
(***************************************************************************)
(* One load of the front end's page: the Pinia stores auth, websocket,     *)
(* session and raceIngestion, and the reference-data stores, against the   *)
(* REST API and the WebSocket API.  An action is a macrotask of the        *)
(* browser: an event handler, the watchers it flushes and the awaits it    *)
(* resumes.  The stores' functions are operators from page to page.        *)
(***************************************************************************)
EXTENDS Naturals, Sequences, SequencesExt, FiniteSets

CONSTANTS
  Resources,    \* tracks, cars, series
  Syncs,        \* places for a POST /ingestion/race in flight
  Conns,        \* places for a WebSocket object (bound of the model)
  NoConn,       \* a null connection id
  GoneConn,     \* the id of a connection that is gone
  Events,       \* what users and failures may do in a run
  MaxEvents     \* how often, all together (bound of the model)

EventKinds ==
  {"sync", "logout", "accessExpires", "jwtExpires", "refreshFails",
   "saveFails", "pushFails", "network", "api", "earlyPing"}

ASSUME ConnsAssumption ==
  NoConn # GoneConn /\ Conns # {} /\ Conns \cap {NoConn, GoneConn} = {}
ASSUME EventsAssumption == Events \subseteq EventKinds /\ MaxEvents \in Nat
ASSUME RequestsAssumption ==
  /\ Resources \cap Syncs = {}
  /\ {"auth", "stale"} \cap (Resources \cup Syncs) = {}

VARIABLES
  page,         \* the stores, the sockets and the requests in flight
  issued,       \* JWTs are numbered; the last one issued
  jwtFrom,      \* JWTs older than this have expired
  accessFrom,   \* the iRacing token inside JWTs older than this has expired
  job,          \* an ingestion the server accepted: its token and connection
  callback,     \* the page was opened by the OAuth redirect, not yet processed
  events

vars == <<page, issued, jwtFrom, accessFrom, job, callback, events>>

Requests == Resources \cup Syncs
NoToken == 0
NoJob == [token |-> NoToken, conn |-> NoConn]
NoRequest == [pc |-> "idle", token |-> NoToken, conn |-> NoConn]
NoSocket == [state |-> "none", row |-> FALSE, in |-> <<>>, out |-> <<>>]

Happens(kind) ==
  /\ kind \in Events
  /\ events < MaxEvents
  /\ events' = events + 1

----------------------------------------------------------------------------
(* stores/websocket.ts                                                     *)

\* readyState of the store's socket is CONNECTING or OPEN.
Live(p) == p.socket # NoConn /\ p.conn[p.socket].state \in {"connecting", "open"}

\* Two pings in a row are one.
Send(p, msg) ==
  IF /\ p.socket # NoConn
     /\ p.conn[p.socket].state = "open"
     /\ ~(msg.kind = "ping" /\ IsSuffix(<<msg>>, p.conn[p.socket].out))
  THEN [p EXCEPT !.conn[p.socket].out = Append(@, msg)]
  ELSE p

sendPing(p) ==
  IF p.driverId THEN Send(p, [kind |-> "ping", token |-> NoToken]) ELSE p

sendAuth(p) ==
  IF p.token # NoToken THEN Send(p, [kind |-> "auth", token |-> p.token]) ELSE p

\* A socket that is made needs a place; places are interchangeable.
RoomForSocket == \E c \in Conns : page.conn[c].state = "none"

connect(p) ==
  IF p.token = NoToken \/ Live(p) THEN p
  ELSE LET c == CHOOSE c \in Conns : p.conn[c].state = "none"
       IN [p EXCEPT !.status = "connecting",
                    !.socket = c,
                    !.conn[c] = [NoSocket EXCEPT !.state = "connecting"]]

\* close() of a socket still connecting fails it: an error, then a close event.
Closing(s) ==
  [NoSocket EXCEPT !.state = IF s.state = "open" THEN "closing" ELSE "aborted"]

disconnect(p) ==
  LET q == IF p.socket = NoConn THEN p
           ELSE [p EXCEPT !.conn[p.socket] = Closing(@)]
  IN [q EXCEPT !.socket = NoConn, !.timer = FALSE, !.heartbeat = FALSE,
               !.status = "disconnected", !.driverId = FALSE,
               !.connectionId = NoConn]

reconnect(p) == connect(disconnect(p))

\* A connection is gone; those who have its id keep an id that names nobody.
Gone(p, c) ==
  LET Named(d) == IF d = c THEN GoneConn ELSE d
  IN [p EXCEPT !.conn[c] = NoSocket,
               !.connectionId = Named(@),
               !.req = [x \in Requests |-> [p.req[x] EXCEPT !.conn = Named(@)]]]

\* Mutant: a socket that failed before it authenticated is not replaced.
oncloseMutant(p, c, error) ==
  LET q == [Gone(p, c) EXCEPT !.socket = NoConn]
  IN IF p.status # "disconnected"
     THEN [q EXCEPT !.status = "disconnected",
                    !.timer = @ \/ (p.token # NoToken /\ p.status = "connected")]
     ELSE q

\* onclose, after onerror if the connection failed.  The handler does not ask
\* whether the socket that closed is the store's.
onclose(p, c, error) ==
  LET q == [Gone(p, c) EXCEPT !.socket = NoConn]
  IN IF error \/ p.status # "disconnected"
     THEN [q EXCEPT !.status = "disconnected", !.timer = @ \/ p.token # NoToken]
     ELSE q

----------------------------------------------------------------------------
(* stores/session.ts, stores/tracks.ts and its siblings; the watchers.      *)

isReady(p) == p.token # NoToken /\ Resources \subseteq p.loaded

\* A store whose fetch is under way does not start another.
fetchAll(p) ==
  [p EXCEPT !.req =
     [x \in Requests |->
        IF x \in Resources /\ p.req[x].pc = "idle"
        THEN [NoRequest EXCEPT !.pc = "sent", !.token = p.token]
        ELSE p.req[x]]]

\* The watchers of isLoggedIn and of the token, flushed after a change from old.
Flush(old, p) ==
  CASE old = p.token -> p
    [] old # NoToken /\ p.token = NoToken ->
         [disconnect(p) EXCEPT !.loaded = {}]
    [] old = NoToken /\ p.token # NoToken -> connect(fetchAll(p))
    [] OTHER -> reconnect(p)

----------------------------------------------------------------------------
(* stores/auth.ts and stores/raceIngestion.ts                              *)

setSession(p, t) == [p EXCEPT !.token = t]

\* Mutant: whether there is a token is not looked at.
canRefreshNoToken(p) == p.refreshing = {}

\* refreshToken() goes to the server; otherwise it returns false at once.
canRefresh(p) == p.token # NoToken /\ p.refreshing = {}

triggerIngestion(p) ==
  IF ~isReady(p) THEN p
  ELSE LET x == CHOOSE x \in Syncs : p.req[x].pc = "idle"
       IN [p EXCEPT !.ingestion = "loading",
                    !.error = "none",
                    !.req[x] = [pc |-> "sent", token |-> p.token,
                                conn |-> p.connectionId]]

\* The watcher of isReady that a handler of stale credentials waits on.
Settle(p) ==
  IF p.waiting /\ isReady(p) THEN triggerIngestion([p EXCEPT !.waiting = FALSE])
  ELSE p

IngestionFails(p, why) == [p EXCEPT !.ingestion = "error", !.error = why]

\* Mutant: the error of a request for ingestion is not caught.
GiveUpMutant(p, x, why) == [p EXCEPT !.req[x] = NoRequest]

\* request() throws, or its answer is an error: the caller gives up.
GiveUp(p, x, why) ==
  LET q == [p EXCEPT !.req[x] = NoRequest]
  IN IF x \in Syncs THEN IngestionFails(q, why) ELSE q

\* What follows "await refreshToken()" at its three callers.
Resume(p, by, refreshed) ==
  CASE by = "auth" -> IF refreshed THEN p ELSE [p EXCEPT !.status = "error"]
    [] by = "stale" ->
         IF ~refreshed THEN IngestionFails(p, "expired")
         ELSE IF isReady(p) THEN triggerIngestion(p)
         ELSE [p EXCEPT !.waiting = TRUE]
    [] by \in Requests ->
         IF ~refreshed THEN GiveUp(p, by, "expired")
         ELSE [p EXCEPT !.req[by].pc = "resent", !.req[by].token = p.token]

refreshToken(p, by) ==
  IF canRefresh(p) THEN [p EXCEPT !.refreshing = @ \cup {[by |-> by, token |-> p.token]}]
  ELSE Resume(p, by, FALSE)

----------------------------------------------------------------------------

NewPage(t) ==
  [token |-> t, refreshing |-> {},
   socket |-> NoConn, status |-> "disconnected", driverId |-> FALSE,
   connectionId |-> NoConn, timer |-> FALSE, heartbeat |-> FALSE,
   conn |-> [c \in Conns |-> NoSocket],
   req |-> [x \in Requests |-> NoRequest], loaded |-> {},
   ingestion |-> "idle", error |-> "none", waiting |-> FALSE]

\* The page loads, with or without persisted credentials, fresh or not.
Init ==
  /\ \E t \in {NoToken, 1} : page = Flush(NoToken, NewPage(t))
  /\ callback = (page.token = NoToken)
  /\ issued = 1
  /\ jwtFrom = 1
  /\ accessFrom \in {1, 2}
  /\ job = NoJob
  /\ events = 0

\* AuthCallbackView: the code was exchanged for a JWT.
Login ==
  /\ callback
  /\ callback' = FALSE
  /\ issued' = issued + 1
  /\ page' = Settle(Flush(page.token, setSession(page, issued')))
  /\ UNCHANGED <<jwtFrom, accessFrom, job, events>>

Logout ==
  /\ page.token # NoToken
  /\ Happens("logout")
  /\ page' = Flush(page.token, [page EXCEPT !.token = NoToken])
  /\ UNCHANGED <<issued, jwtFrom, accessFrom, job, callback>>

\* The Sync button, where it is enabled.
ClickSync ==
  /\ isReady(page)
  /\ page.status = "connected" /\ page.connectionId # NoConn
  /\ page.ingestion # "loading"
  /\ Happens("sync")
  /\ page' = triggerIngestion(page)
  /\ UNCHANGED <<issued, jwtFrom, accessFrom, job, callback>>

----------------------------------------------------------------------------
(* Socket events and timers.                                               *)

\* onopen: the auth message goes to the store's socket, whichever opened.
Opens(c) ==
  /\ page.conn[c].state = "connecting"
  /\ page' = sendAuth([page EXCEPT !.conn[c].state = "open",
                                   !.status = "authenticating"])
  /\ UNCHANGED <<issued, jwtFrom, accessFrom, job, callback, events>>

\* The close event of a socket the client closed.
ClosedByClient(c) ==
  /\ page.conn[c].state \in {"closing", "aborted"}
  /\ page' = onclose(page, c, page.conn[c].state = "aborted")
  /\ job' = IF job.conn = c THEN NoJob ELSE job
  /\ UNCHANGED <<issued, jwtFrom, accessFrom, callback, events>>

\* The network drops a connection or does not let one be made.
ConnectionLost(c) ==
  /\ page.conn[c].state \in {"connecting", "open"}
  /\ Happens("network")
  /\ page' = onclose(page, c, page.conn[c].state = "connecting")
  /\ job' = IF job.conn = c THEN NoJob ELSE job
  /\ UNCHANGED <<issued, jwtFrom, accessFrom, callback>>

\* No connection is being made or closed and no message is under way.
Quiet ==
  /\ ~page.timer
  /\ \A c \in Conns : /\ page.conn[c].state \in {"none", "open"}
                      /\ page.conn[c].in = <<>> /\ page.conn[c].out = <<>>

\* API Gateway ends a connection idle for minutes or two hours old, which is
\* long beside every exchange.  One that ends in mid-exchange is lost, above.
ConnectionAges(c) ==
  /\ Quiet
  /\ page.conn[c].state = "open"
  /\ page' = onclose(page, c, FALSE)
  /\ job' = IF job.conn = c THEN NoJob ELSE job
  /\ UNCHANGED <<issued, jwtFrom, accessFrom, callback, events>>

\* handleAuthResponse of a success, with the heartbeat's first ping.
Authenticated(p, c) ==
  sendPing([p EXCEPT !.status = "connected", !.driverId = TRUE,
                     !.connectionId = c, !.heartbeat = TRUE])

\* onmessage, or the close event the server's disconnect brings.
Arrives(c) ==
  /\ page.conn[c].state = "open"
  /\ page.conn[c].in # <<>>
  /\ LET msg == Head(page.conn[c].in)
         p == [page EXCEPT !.conn[c].in = Tail(@)]
     IN /\ page' = CASE msg = "ok" -> Authenticated(p, c)
                     [] msg = "failed" -> refreshToken(p, "auth")
                     [] msg = "stale" -> refreshToken(p, "stale")
                     [] msg = "close" -> onclose(p, c, FALSE)
        /\ job' = IF msg = "close" /\ job.conn = c THEN NoJob ELSE job
  /\ UNCHANGED <<issued, jwtFrom, accessFrom, callback, events>>

ReconnectTimeout ==
  /\ page.timer
  /\ RoomForSocket
  /\ page' = connect([page EXCEPT !.timer = FALSE])
  /\ UNCHANGED <<issued, jwtFrom, accessFrom, job, callback, events>>

\* The interval, 120 s, outlives its socket, so it may fire in the moment a new
\* one is authenticating.  That is rare beside the reconnect's 3 s: an event.
Heartbeat ==
  /\ page.heartbeat
  /\ page' = sendPing(page)
  /\ IF \A c \in Conns : page'.conn[c].out # page.conn[c].out => page.conn[c].row
     THEN UNCHANGED events
     ELSE Happens("earlyPing")
  /\ UNCHANGED <<issued, jwtFrom, accessFrom, job, callback>>

----------------------------------------------------------------------------
(* Answers of the REST API.                                                *)

\* The refresh endpoint answers; it needs a JWT that has not expired.
RefreshAnswered(r) ==
  LET q == [page EXCEPT !.refreshing = @ \ {r}] IN
  \/ /\ r.token >= jwtFrom
     /\ RoomForSocket
     /\ issued' = issued + 1
     /\ page' = Settle(Resume(Flush(page.token, setSession(q, issued')), r.by, TRUE))
     /\ UNCHANGED <<jwtFrom, accessFrom, job, callback, events>>
  \/ /\ IF r.token >= jwtFrom THEN Happens("refreshFails") ELSE events' = events
     /\ page' = Resume(Flush(page.token, [q EXCEPT !.token = NoToken]), r.by, FALSE)
     /\ UNCHANGED <<issued, jwtFrom, accessFrom, job, callback>>

\* 401: an expired JWT, or for reference data an expired iRacing token.  The
\* second 401 of a request is an error like any other.
Unauthorized(x) ==
  /\ \/ page.req[x].token < jwtFrom
     \/ x \in Resources /\ page.req[x].token < accessFrom
  /\ page' = IF page.req[x].pc = "resent" THEN GiveUp(page, x, "failed")
             ELSE refreshToken([page EXCEPT !.req[x].pc = "refreshing"], x)
  /\ UNCHANGED <<job, events>>

\* 200 with reference data, which the server may have in its cache; for an
\* ingestion 429, 400 if it names no connection, or 202.
Granted(x) ==
  /\ page.req[x].token >= jwtFrom
  /\ LET q == [page EXCEPT !.req[x] = NoRequest] IN
     \/ /\ x \in Resources
        /\ page' = Settle([q EXCEPT !.loaded = @ \cup {x}])
        /\ UNCHANGED job
     \/ /\ x \in Syncs
        /\ page' = [q EXCEPT !.ingestion = "idle"]
        /\ UNCHANGED job
     \/ /\ x \in Syncs /\ page.req[x].conn = NoConn
        /\ page' = GiveUp(page, x, "failed")
        /\ UNCHANGED job
     \/ /\ x \in Syncs /\ page.req[x].conn # NoConn /\ job = NoJob
        /\ page' = [q EXCEPT !.ingestion = "success"]
        /\ job' = [token |-> page.req[x].token, conn |-> page.req[x].conn]
  /\ UNCHANGED events

Answered(x) ==
  /\ page.req[x].pc \in {"sent", "resent"}
  /\ \/ Unauthorized(x)
     \/ Granted(x)
     \/ Happens("api") /\ page' = GiveUp(page, x, "failed") /\ UNCHANGED job
  /\ UNCHANGED <<issued, jwtFrom, accessFrom, callback>>

----------------------------------------------------------------------------
(* The server's side of the sockets (ws/) and of an ingestion.             *)

\* The server has not closed the connection.
Connected(c) ==
  page.conn[c].state = "open" /\ ~IsSuffix(<<"close">>, page.conn[c].in)

Serves(c, i, row, replies) ==
  page' = [page EXCEPT !.conn[c].out = RemoveAt(@, i),
                       !.conn[c].row = row,
                       !.conn[c].in = @ \o replies]

\* Each message is a Lambda invocation of its own, so they may overtake.
AuthHandler(c, i) ==
  /\ page.conn[c].out[i].kind = "auth"
  /\ UNCHANGED <<issued, jwtFrom, accessFrom, job, callback>>
  /\ LET valid == page.conn[c].out[i].token >= jwtFrom IN
     \/ ~valid /\ Serves(c, i, page.conn[c].row, <<"failed", "close">>) /\ events' = events
     \/ valid /\ Serves(c, i, TRUE, <<"ok">>) /\ events' = events
     \/ valid /\ Happens("saveFails") /\ Serves(c, i, page.conn[c].row, <<"failed", "close">>)
     \/ valid /\ Happens("pushFails") /\ Serves(c, i, TRUE, <<>>)

\* The pong changes nothing at the client that matters here.
PingHandler(c, i) ==
  /\ page.conn[c].out[i].kind = "ping"
  /\ Serves(c, i, page.conn[c].row, IF page.conn[c].row THEN <<>> ELSE <<"close">>)
  /\ UNCHANGED <<issued, jwtFrom, accessFrom, job, callback, events>>

HandleAuth(c) == Connected(c) /\ \E i \in DOMAIN page.conn[c].out : AuthHandler(c, i)
HandlePing(c) == Connected(c) /\ \E i \in DOMAIN page.conn[c].out : PingHandler(c, i)

\* The ingestion ends; with an expired iRacing token it tells the connection
\* the request named, if that is still there.
JobEnds ==
  /\ job # NoJob
  /\ job' = NoJob
  /\ page' = IF /\ job.token < accessFrom
                /\ job.conn \in Conns
                /\ Connected(job.conn)
             THEN [page EXCEPT !.conn[job.conn].in = Append(@, "stale")]
             ELSE page
  /\ UNCHANGED <<issued, jwtFrom, accessFrom, callback, events>>

AccessExpires ==
  /\ accessFrom <= issued
  /\ Happens("accessExpires")
  /\ accessFrom' = issued + 1
  /\ UNCHANGED <<page, issued, jwtFrom, job, callback>>

JwtExpires ==
  /\ jwtFrom <= issued
  /\ Happens("jwtExpires")
  /\ jwtFrom' = issued + 1
  /\ accessFrom' = issued + 1
  /\ UNCHANGED <<page, issued, job, callback>>

----------------------------------------------------------------------------

Next ==
  \/ Login \/ Logout \/ ClickSync \/ ReconnectTimeout \/ Heartbeat
  \/ JobEnds \/ AccessExpires \/ JwtExpires
  \/ \E c \in Conns : \/ Opens(c) \/ ClosedByClient(c) \/ ConnectionLost(c)
                      \/ ConnectionAges(c) \/ Arrives(c)
                      \/ HandleAuth(c) \/ HandlePing(c)
  \/ \E r \in page.refreshing : RefreshAnswered(r)
  \/ \E x \in Requests : Answered(x)

Spec == Init /\ [][Next]_vars

\* The browser delivers events and runs timers, requests are answered, and API
\* Gateway serves messages and ends old connections.  Nothing is asked of
\* users and failures.
FairSpec ==
  /\ Spec
  /\ WF_vars(ReconnectTimeout)
  /\ WF_vars(\E r \in page.refreshing : RefreshAnswered(r))
  /\ \A x \in Requests : WF_vars(Answered(x))
  /\ \A c \in Conns :
       /\ WF_vars(Opens(c)) /\ WF_vars(ClosedByClient(c))
       /\ WF_vars(Arrives(c))
       /\ WF_vars(HandleAuth(c)) /\ WF_vars(HandlePing(c))
       /\ SF_vars(ConnectionAges(c))

----------------------------------------------------------------------------
(* Properties.                                                             *)

Callers == {"auth", "stale"} \cup Requests

\* The shape of the page and of what the server knows; a refresh under way
\* carries a JWT that was issued.
TypeOK ==
  /\ page.token \in NoToken .. issued
  /\ page.refreshing \subseteq [by : Callers, token : 1 .. issued]
  /\ page.socket \in Conns \cup {NoConn}
  /\ {page.connectionId, job.conn} \subseteq Conns \cup {NoConn, GoneConn}
  /\ page.status \in {"disconnected", "connecting", "authenticating",
                      "connected", "error"}
  /\ page.loaded \subseteq Resources
  /\ page.ingestion \in {"idle", "loading", "success", "error"}
  /\ \A c \in Conns :
       page.conn[c].state \in {"none", "connecting", "open", "closing", "aborted"}
  /\ \A x \in Requests : page.req[x].pc \in {"idle", "sent", "refreshing", "resent"}

\* A user who is logged in is never left without a socket and without a timer
\* that makes one, whatever closes, fails or is replaced, in whatever order.
NeverStranded == page.token # NoToken => Live(page) \/ page.timer

\* A user who is logged out has no socket in use and no timer, and no late 401,
\* message or close event begins a refresh.  The user is logged in by the login
\* page, or by the answer of the refresh that was under way at the logout:
\* refreshToken() does not ask after its await whether the token it used is still
\* the page's, so that answer undoes a logout.  Nothing else does.
LogoutStands ==
  page.token = NoToken =>
    /\ page.socket = NoConn /\ ~page.timer
    /\ page'.refreshing \subseteq page.refreshing
    /\ page'.token # NoToken =>
         \/ callback /\ ~callback'
         \/ page.refreshing # {} /\ page'.refreshing = {}

LogoutLasts == [][LogoutStands]_vars

\* A user who stays logged in gets a connection, whatever failed before.
GetsConnected ==
  page.token # NoToken ~> page.status = "connected" \/ page.token = NoToken

\* The Sync button does not stay disabled: a request for ingestion ends in
\* success, throttling or an error, also across a refresh or a logout.
SyncEnds == page.ingestion = "loading" ~> page.ingestion # "loading"

\* A request for ingestion names a connection, which the endpoint requires.  The
\* retry after stale credentials is to "wait for session to be ready", because
\* the "token refresh triggers websocket reconnect".
SyncNamesConnection ==
  [][\A x \in Syncs : page.req[x].pc = "idle" /\ page'.req[x].pc = "sent"
                        => page'.req[x].conn # NoConn]_vars

============================================================================
