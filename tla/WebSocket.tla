------------------------------ MODULE WebSocket ------------------------------
(***************************************************************************)
(* The WebSocket API beside Login, whose tokens it accepts: the rows that  *)
(* say which connections a driver has, written by the auth message, read   *)
(* by pings and broadcasts, deleted by $disconnect, by a deletion of the   *)
(* driver's races and by the table's TTL.  API Gateway runs a Lambda per   *)
(* message, so handlers of one connection may overtake each other.         *)
(***************************************************************************)
EXTENDS Login

CONSTANTS
  Conns,          \* connection ids, never used again
  Invs,           \* places for an invocation in flight
  ConnLife,       \* API Gateway ends a connection of this age
  RowLife,        \* wsConnectionTTLDuration
  MaxNow          \* bound of the model

WebSocketFaults == LoginFaults \cup {"pushFails", "noDisconnect"}

ASSUME LifeAssumption ==
  /\ ConnLife \in Nat \ {0} /\ {RowLife, MaxNow} \subseteq Nat
  /\ ConnLife < RowLife

VARIABLES
  conn,           \* each connection, and what its client has been told
  ws,             \* the rows ws#<conn> of each driver, items
  index,          \* the rows websocket#<conn>, items
  inv             \* where each invocation stands

wsVars == <<conn, ws, index, inv>>
vars == <<loginVars, wsVars>>

NoRow == [driver |-> Nobody, ttl |-> 0]
NoConn == [state |-> "none", opened |-> 0, disconnect |-> "none", told |-> Nobody,
           known |-> FALSE, names |-> {}, wiped |-> {}, clean |-> FALSE]
NoInv == [pc |-> "idle", op |-> "none", conn |-> "none", driver |-> Nobody,
          todo |-> {}, expect |-> {}, got |-> {}]

WsInit ==
  /\ conn = [c \in Conns |-> NoConn]
  /\ ws = [d \in Drivers |-> [c \in Conns |-> Fresh(NoRow)]]
  /\ index = [c \in Conns |-> Fresh(NoRow)]
  /\ inv = [i \in Invs |-> NoInv]

Init == LoginInit /\ WsInit

Open(c) == conn[c].state = "open"

Begin(i, fields) ==
  /\ inv[i].pc = "idle"
  /\ inv' = [inv EXCEPT ![i] = fields]

Step(i, pc) == inv' = [inv EXCEPT ![i].pc = pc]
Return(i) == inv' = [inv EXCEPT ![i] = NoInv]

\* API Gateway deletes the connection of a Disconnect, or of a client that left.
Closed(c) ==
  IF Open(c)
  THEN [conn EXCEPT ![c] = [conn[c] EXCEPT !.state = "closed", !.disconnect = "due",
                                           !.opened = 0, !.told = Nobody, !.known = FALSE]]
  ELSE conn

----------------------------------------------------------------------------
(* $connect, auth                                                          *)

Connect(c) ==
  /\ conn[c].state = "none"
  /\ now <= LastRequest
  /\ conn' = [conn EXCEPT ![c].state = "open", ![c].opened = now]
  /\ UNCHANGED <<loginVars, ws, index, inv>>

\* A token that is not valid is refused before the table is touched.
Auth(i, c, j) ==
  /\ Open(c)
  /\ Request
  /\ Begin(i, [NoInv EXCEPT !.pc = IF ValidToken(j) THEN "save" ELSE "refuse",
                            !.op = "auth", !.conn = c, !.driver = j.driver])
  /\ UNCHANGED <<now, info, drivers, jwts, call, faults, counted, edited, conn, ws, index>>

Row(d) == [driver |-> d, ttl |-> now + RowLife]

PutRow(d, c, row) == ws' = [ws EXCEPT ![d][c] = Written(@, row)]
PutIndex(c, row) == index' = [index EXCEPT ![c] = Written(@, row)]

Saved(d, c) ==
  /\ PutRow(d, c, Row(d))
  /\ PutIndex(c, Row(d))
  /\ conn' = [conn EXCEPT ![c].names = @ \cup {d}, ![c].wiped = @ \ {d},
                          ![c].known = @ /\ d \notin conn[c].wiped]

\* Mutants: two puts instead of a transaction; the reply does not wait for the save.
SaveConnectionApart(i) ==
  LET d == inv[i].driver  c == inv[i].conn IN
  /\ inv[i].pc = "save"
  /\ \/ Saved(d, c) /\ Step(i, "reply") /\ UNCHANGED faults
     \/ /\ Fault("fail")
        /\ PutRow(d, c, Row(d))
        /\ Step(i, "refuse")
        /\ UNCHANGED <<conn, index>>
  /\ UNCHANGED <<now, info, drivers, jwts, call, requests, counted, edited>>

SaveConnectionUnchecked(i) ==
  LET d == inv[i].driver  c == inv[i].conn IN
  /\ inv[i].pc = "save"
  /\ Step(i, "reply")
  /\ \/ Saved(d, c) /\ UNCHANGED faults
     \/ Fault("fail") /\ UNCHANGED <<conn, ws, index>>
  /\ UNCHANGED <<now, info, drivers, jwts, call, requests, counted, edited>>

\* One transaction puts both rows, over whatever is there.
SaveConnection(i) ==
  LET d == inv[i].driver  c == inv[i].conn IN
  /\ inv[i].pc = "save"
  /\ \/ Saved(d, c) /\ Step(i, "reply") /\ UNCHANGED faults
     \/ Saved(d, c) /\ Fault("lost") /\ Step(i, "refuse")
     \/ Fault("fail") /\ Step(i, "refuse") /\ UNCHANGED <<conn, ws, index>>
  /\ UNCHANGED <<now, info, drivers, jwts, call, requests, counted, edited>>

\* Push answers "gone" for a connection that is no more, which is not an error.
AuthReply(i) ==
  /\ inv[i].pc = "reply"
  /\ Return(i)
  /\ \/ /\ conn' = IF Open(inv[i].conn)
                   THEN [conn EXCEPT ![inv[i].conn].told = inv[i].driver,
                                     ![inv[i].conn].known = @ /\ conn[inv[i].conn].told
                                                                = inv[i].driver]
                   ELSE conn
        /\ UNCHANGED faults
     \/ Fault("pushFails") /\ UNCHANGED conn
  /\ UNCHANGED <<now, info, drivers, jwts, call, requests, counted, edited, ws, index>>

\* A refusal is pushed and the connection closed; auth leaves it open if the
\* push fails, ping does not.
Refuse(i) ==
  /\ inv[i].pc = "refuse"
  /\ Return(i)
  /\ \/ conn' = Closed(inv[i].conn) /\ UNCHANGED faults
     \/ inv[i].op = "auth" /\ Fault("pushFails") /\ UNCHANGED conn
  /\ UNCHANGED <<now, info, drivers, jwts, call, requests, counted, edited, ws, index>>

----------------------------------------------------------------------------
(* ping                                                                    *)

\* The message names the driver; a connection without that driver's row is closed.
Ping(i, c, d) ==
  /\ Open(c)
  /\ Request
  /\ \E row \in Reads(ws[d][c]) :
       /\ row = NoRow
       /\ Begin(i, [NoInv EXCEPT !.pc = "refuse", !.op = "ping", !.conn = c, !.driver = d])
  /\ UNCHANGED <<now, info, drivers, jwts, call, faults, counted, edited, conn, ws, index>>

----------------------------------------------------------------------------
(* The end of a connection, $disconnect                                    *)

Close(c) ==
  /\ Open(c)
  /\ conn' = Closed(c)
  /\ UNCHANGED <<loginVars, ws, index, inv>>

\* API Gateway calls $disconnect at best: it may leave it out.
NoDisconnect(c) ==
  /\ conn[c].disconnect = "due"
  /\ Fault("noDisconnect")
  /\ conn' = [conn EXCEPT ![c].disconnect = "handled"]
  /\ UNCHANGED <<now, info, drivers, jwts, call, requests, counted, edited, ws, index, inv>>

\* The connection has no rows and no handler that will still write them.
LeavesNothing(c) ==
  ~ \E i \in Invs : inv[i].op = "auth" /\ inv[i].conn = c /\ inv[i].pc = "save"

GetDriverIDByConnection(i, c) ==
  /\ conn[c].disconnect = "due"
  /\ \E row \in Reads(index[c]) :
       IF row = NoRow
       THEN /\ inv[i].pc = "idle"
            /\ conn' = [conn EXCEPT ![c].disconnect = "handled",
                                    ![c].clean = index[c].new = NoRow /\ LeavesNothing(c)]
            /\ UNCHANGED inv
       ELSE /\ Begin(i, [NoInv EXCEPT !.pc = "delete", !.op = "disconnect",
                                      !.conn = c, !.driver = row.driver])
            /\ conn' = [conn EXCEPT ![c].disconnect = "handled"]
  /\ UNCHANGED <<loginVars, ws, index>>

\* Mutant: the row of the driver is deleted, that of the connection is left.
DeleteConnectionMutant(i) ==
  LET d == inv[i].driver  c == inv[i].conn IN
  /\ inv[i].pc = "delete"
  /\ Return(i)
  /\ \/ /\ PutRow(d, c, NoRow)
        /\ conn' = [conn EXCEPT ![c].clean = LeavesNothing(c)]
        /\ UNCHANGED <<faults, index>>
     \/ Fault("fail") /\ UNCHANGED <<conn, ws, index>>
  /\ UNCHANGED <<now, info, drivers, jwts, call, requests, counted, edited>>

\* One transaction deletes both rows.
DeleteConnection(i) ==
  LET d == inv[i].driver  c == inv[i].conn IN
  /\ inv[i].pc = "delete"
  /\ Return(i)
  /\ \/ /\ PutRow(d, c, NoRow)
        /\ PutIndex(c, NoRow)
        /\ conn' = [conn EXCEPT ![c].clean = LeavesNothing(c)]
        /\ UNCHANGED faults
     \/ Fault("fail") /\ UNCHANGED <<conn, ws, index>>
  /\ UNCHANGED <<now, info, drivers, jwts, call, requests, counted, edited>>

----------------------------------------------------------------------------
(* Broadcast, called by the race processor; the deletion of a driver's races *)

\* The connections a query of the driver's ws# rows may find.
Found(d, cs) == \A c \in Conns : \E row \in Reads(ws[d][c]) : c \in cs <=> row # NoRow

\* Connections that were told of their success an hour ago: replicas know them.
Expected(d) ==
  {c \in Conns : Open(c) /\ conn[c].told = d /\ d \notin conn[c].wiped /\ conn[c].known}

Broadcast(i, d) ==
  /\ Request
  /\ \E cs \in SUBSET Conns :
       /\ Found(d, cs)
       /\ Begin(i, [NoInv EXCEPT !.pc = "push", !.op = "broadcast", !.driver = d,
                                 !.todo = cs, !.expect = Expected(d)])
  /\ UNCHANGED <<now, info, drivers, jwts, call, faults, counted, edited, conn, ws, index>>

\* Mutant: a connection that is gone is an error, and ends the broadcast.
PushMutant(i) ==
  /\ inv[i].pc = "push"
  /\ IF inv[i].todo = {}
     THEN Return(i) /\ UNCHANGED faults
     ELSE \E c \in inv[i].todo :
            IF Open(c)
            THEN /\ inv' = [inv EXCEPT ![i].todo = @ \ {c}, ![i].got = @ \cup {c}]
                 /\ UNCHANGED faults
            ELSE Return(i) /\ UNCHANGED faults
  /\ UNCHANGED <<now, info, drivers, jwts, call, requests, counted, edited, conn, ws, index>>

\* One push after the other; one that fails ends the broadcast.  Ids are random,
\* so the order of the rows says nothing.
Push(i) ==
  /\ inv[i].pc = "push"
  /\ \/ inv[i].todo = {} /\ Return(i) /\ UNCHANGED faults
     \/ /\ \E c \in inv[i].todo :
             inv' = [inv EXCEPT ![i].todo = @ \ {c},
                                ![i].got = IF Open(c) THEN @ \cup {c} ELSE @]
        /\ UNCHANGED faults
     \/ inv[i].todo # {} /\ Fault("pushFails") /\ Return(i)
  /\ UNCHANGED <<now, info, drivers, jwts, call, requests, counted, edited, conn, ws, index>>

\* Of all the rows it deletes, those of connections; the index is not under the
\* driver's key.  Its caller is a developer, and the driver.
DeleteDriverRaces(i, j) ==
  /\ ValidToken(j) /\ j.entitled
  /\ Request
  /\ \E cs \in SUBSET Conns :
       /\ Found(j.driver, cs)
       /\ Begin(i, [NoInv EXCEPT !.pc = "batch", !.op = "reset", !.driver = j.driver,
                                 !.todo = cs])
  /\ UNCHANGED <<now, info, drivers, jwts, call, faults, counted, edited, conn, ws, index>>

BatchDelete(i) ==
  LET d == inv[i].driver IN
  /\ inv[i].pc = "batch"
  /\ Return(i)
  /\ \E cs \in SUBSET inv[i].todo :
       /\ \/ cs = inv[i].todo /\ UNCHANGED faults
          \/ Fault("fail")
       /\ ws' = [ws EXCEPT ![d] = [c \in Conns |-> IF c \in cs THEN Written(@[c], NoRow) ELSE @[c]]]
       /\ conn' = [c \in Conns |-> IF c \in cs THEN [conn[c] EXCEPT !.wiped = @ \cup {d}]
                                               ELSE conn[c]]
  /\ UNCHANGED <<now, info, drivers, jwts, call, requests, counted, edited, index>>

----------------------------------------------------------------------------
(* Time                                                                    *)

\* The table's TTL deletes rows one by one, some time after they have expired.
Expired(item) == item.new # NoRow /\ item.new.ttl <= now

ExpireRow(d, c) ==
  /\ Expired(ws[d][c])
  /\ PutRow(d, c, NoRow)
  /\ UNCHANGED <<loginVars, conn, index, inv>>

ExpireIndex(c) ==
  /\ Expired(index[c])
  /\ PutIndex(c, NoRow)
  /\ UNCHANGED <<loginVars, conn, ws, inv>>

\* Invocations last seconds, connections no longer than API Gateway lets them.
Tick ==
  /\ \A i \in Invs : inv[i].pc = "idle"
  /\ \A c \in Conns :
       /\ Open(c) => now < conn[c].opened + ConnLife
       /\ conn[c].disconnect # "due"
  /\ now < MaxNow
  /\ LoginTick
  /\ ws' = [d \in Drivers |-> [c \in Conns |-> Settled(ws[d][c])]]
  /\ index' = [c \in Conns |-> Settled(index[c])]
  /\ conn' = [c \in Conns |-> [conn[c] EXCEPT !.known = conn[c].told # Nobody]]
  /\ UNCHANGED inv

Handler(i) ==
  \/ SaveConnection(i) \/ AuthReply(i) \/ Refuse(i)
  \/ DeleteConnection(i) \/ Push(i) \/ BatchDelete(i)

Message(i) ==
  \/ \E j \in jwts : \/ \E c \in Conns : Auth(i, c, j)
                     \/ DeleteDriverRaces(i, j)
  \/ \E d \in Drivers : \/ \E c \in Conns : Ping(i, c, d)
                        \/ Broadcast(i, d)

WsStep ==
  \/ \E c \in Conns : Connect(c) \/ Close(c) \/ NoDisconnect(c)
  \/ \E i \in Invs :
       \/ Message(i) \/ Handler(i)
       \/ \E c \in Conns : GetDriverIDByConnection(i, c)

Expire == \E c \in Conns : ExpireIndex(c) \/ \E d \in Drivers : ExpireRow(d, c)

Next ==
  \/ LoginStep /\ UNCHANGED wsVars
  \/ WsStep
  \/ Expire
  \/ Tick

Spec == Init /\ [][Next]_vars

----------------------------------------------------------------------------
NoRows(c) == index[c].new = NoRow /\ \A d \in Drivers : ws[d][c].new = NoRow

TypeOK ==
  /\ now \in 0 .. MaxNow
  /\ \A d \in Drivers : info[d].new.loginCount \in Nat /\ info[d].new.entitled \in BOOLEAN
  /\ jwts \subseteq [driver : Drivers, entitled : BOOLEAN, exp : 1 .. now + JwtLife]
  /\ \A c \in Conns :
       /\ conn[c].state \in {"none", "open", "closed"}
       /\ conn[c].told \in Drivers \cup {Nobody}
       /\ index[c].new.driver \in Drivers \cup {Nobody}
  /\ \A d \in Drivers, c \in Conns : ws[d][c].new.driver \in {d, Nobody}
  /\ \A i \in Invs : inv[i].pc \in {"idle", "save", "reply", "refuse", "delete", "push", "batch"}

\* ws/auth/handler.go: a connection that is open and was told that it is
\* authenticated has its driver's row, so broadcasts find it and its pings are
\* answered, unless a deletion of the driver's races took the row.
AuthenticatedHasRow ==
  \A c \in Conns :
    LET d == conn[c].told IN
    Open(c) /\ d # Nobody /\ d \notin conn[c].wiped => ws[d][c].new # NoRow

\* store/dynamo_models.go: the two rows of a connection that never authenticated
\* as somebody else come and go together, until the TTL or a deletion of races.
RowsAgree ==
  \A c \in Conns, d \in Drivers :
    /\ conn[c].names \subseteq {d} /\ d \notin conn[c].wiped
    /\ ~Expired(index[c]) /\ ~Expired(ws[d][c])
    => (ws[d][c].new = NoRow <=> index[c].new = NoRow)

\* ws/disconnect/handler.go: once $disconnect has been handled without an error
\* and with no authentication of the connection under way, nothing is left of a
\* connection that authenticated as no driver or one.
CleanDisconnect ==
  \A c \in Conns, d \in Drivers : conn[c].clean /\ conn[c].names \subseteq {d} => NoRows(c)

\* ws/push.go: a broadcast that returns no error has reached every connection that
\* replicas knew to be the driver's when it began and that is still open.
BroadcastReaches ==
  [][\A i \in Invs :
       /\ inv[i].op = "broadcast" /\ inv'[i].pc = "idle"
       /\ faults' = faults
       => \A c \in inv[i].expect : Open(c) => c \in inv[i].got]_vars
============================================================================
