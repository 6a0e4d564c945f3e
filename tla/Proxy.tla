------------------------------- MODULE Proxy -------------------------------
(***************************************************************************)
(* The proxy provider: one HTTP reverse proxy per enabled service and      *)
(* network interface (pkg/providers/proxy/proxy.go, routes.go), over the   *)
(* table of services (pkg/storage/repositories/service_repository.go).     *)
(*                                                                         *)
(* A worker is a goroutine that runs one operation at a time: a fiber      *)
(* request handler, the goroutine the WireGuard manager spawns for an      *)
(* interface notification, the goroutine the registry starts the provider  *)
(* in, or main calling Stop.  Every database call, every section under     *)
(* p.mu and every listen or shutdown is one action; anything may happen in *)
(* between, because nothing in the code spans two of them.                 *)
(***************************************************************************)
EXTENDS Naturals, FiniteSets

CONSTANTS
    Workers,         \* the goroutines that run operations of the provider
    Ops,             \* the operations they run, a subset of AllOps
    Ids,             \* service ids
    EdgeID,          \* the id of the default Edge UI service
    Ports,           \* portRange: the tunnel ports
    Targets,         \* values of local_host:local_port
    Routes,          \* values of protocol and path
    HATarget,        \* homeassistant.local:8123
    Requests,        \* bodies of PUT /api/services/:id
    Keep,            \* a field a request leaves out
    Names,           \* names of TUN interfaces
    Ips,             \* addresses of TUN interfaces
    NoIp,            \* the interface is not in p.interfaces
    Slots,           \* numbers that tell the http.Servers of an address apart
    None,            \* nil
    Unborn,          \* an id no service has had yet
    Gone,            \* the id of a deleted service
    InitRows,        \* the table as ExposeUIAsService leaves it at boot
    MaxStarts,       \* bound: how often the provider is started
    maxBindRetries,  \* attempts to bind an address (3 in the code)
    DbMayFail,       \* BOOLEAN: a database call may return an error
    ListenMayFail,   \* BOOLEAN: the OS may refuse a free address
    SyncMayDrop,     \* BOOLEAN: the sync channel may be full
    StopMayTimeOut,  \* BOOLEAN: Stop may return before everything is shut
    OrderedNotifications  \* BOOLEAN: the WireGuard manager's notifications
                          \* arrive in the order in which they were sent

AllOps == {"create", "expose", "modify", "update", "delete",
           "addInterface", "removeInterface", "setInterfaces", "start", "stop"}

\* A row of proxy_services; the target and the route stand for the columns
\* that the reverse proxy of a running service is built from.
Row == [port: Ports, target: Targets, route: Routes, enabled: BOOLEAN]

\* The fields of an update; a request that is not valid is one the
\* repository refuses (unknown protocol, local port out of range).
Request == [target: Targets \cup {Keep}, route: Routes \cup {Keep},
            enabled: BOOLEAN \cup {Keep}, valid: BOOLEAN]

\* What a reverse proxy is started with: the service as read from the
\* database, and the interface address to listen on.
Binding == [id: Ids, row: Row, name: Names, ip: Ips]

\* An http.Server object, by the address it is created with.
Servers == Ips \X Ports \X Slots

Epochs == 0..MaxStarts

ASSUME ProxyAssumption ==
    /\ Ops \subseteq AllOps
    /\ EdgeID \in Ids
    /\ Ports \subseteq Nat
    /\ HATarget \in Targets
    /\ Requests \subseteq Request
    /\ Names # {}
    /\ NoIp \notin Ips
    /\ Slots \subseteq Nat
    /\ None \notin Servers /\ None \notin Binding
    /\ Unborn \notin Row /\ Gone \notin Row
    /\ InitRows \in [Ids -> Row \cup {Unborn}]
    /\ MaxStarts \in Nat
    /\ maxBindRetries \in Nat \ {0}
    /\ {DbMayFail, ListenMayFail, SyncMayDrop, StopMayTimeOut, OrderedNotifications}
          \subseteq BOOLEAN

VARIABLES
    db,          \* the proxy_services table
    told,        \* per id, the last content queued for the cloud
    interfaces,  \* p.interfaces
    started,     \* p.started
    ctx,         \* p.ctx: 0 is nil, otherwise the number of the start
    cancelled,   \* the contexts that have been cancelled
    servers,     \* the values of p.servers; at[s] gives the key of s
    st,          \* the life of an http.Server
    at,          \* the Binding and context a server was started with
    pc,          \* where each worker is
    loc,         \* the local variables of its operation
    hand,        \* the server it has bound and not yet recorded
    kill         \* the servers it has taken out of the map to shut down

tableVars == <<db, told>>
runVars   == <<started, ctx, cancelled>>
srvVars   == <<servers, st, at>>
ownVars   == <<hand, kill>>
vars == <<db, told, interfaces, started, ctx, cancelled, servers, st, at,
          pc, loc, hand, kill>>

Locals == [op: AllOps \cup {"none"}, id: Ids, req: Request \cup {None},
           row: Row \cup {None}, name: Names, ip: Ips \cup {NoIp},
           todo: SUBSET (Ids \X Row), binds: SUBSET Binding,
           cur: Binding \cup {None}, tries: 0..maxBindRetries,
           ctx: Epochs, failed: BOOLEAN, restart: BOOLEAN]

Idle == [op |-> "none", id |-> EdgeID, req |-> None, row |-> None,
         name |-> CHOOSE n \in Names : TRUE, ip |-> NoIp,
         todo |-> {}, binds |-> {}, cur |-> None, tries |-> 0,
         ctx |-> 0, failed |-> FALSE, restart |-> FALSE]

Statuses == {"unused", "bound", "spawned", "serving", "shut", "closed"}
Open == {"bound", "spawned", "serving", "shut"}

Labels == {"idle", "exists", "alloc", "insert", "write", "detach", "shut",
           "reread", "fetch", "load", "probe", "look", "erase", "started",
           "interfaces", "bind", "record", "wait", "sync", "ifStarted",
           "ifList", "ifDetach", "list", "next", "cancel", "drain"}

-----------------------------------------------------------------------------
(* Observations *)

Stored(i) == db[i] \in Row

\* The address a server listens on, and its key in p.servers.
Addr(s) == <<s[1], s[2]>>
\* Mutant: the key leaves out the address.
KeyWithoutIp(s) == <<at[s].id, s[2]>>

Key(s)  == <<at[s].id, s[1], s[2]>>

\* isServiceRunning
Running(i) == \E s \in servers : at[s].id = i

AddrFree(ip, p) == ~ \E s \in Servers : st[s] \in Open /\ Addr(s) = <<ip, p>>

\* Mutant: ports that rows use are not excluded.
PortFreeUnchecked(p) == ~ \E s \in Servers : st[s] \in Open /\ s[2] = p

\* A port allocatePort can bind on every address of the host.
PortFree(p) == /\ ~ \E i \in Ids : Stored(i) /\ db[i].port = p
               /\ ~ \E s \in Servers : st[s] \in Open /\ s[2] = p

\* A worker holds a server outside the map: it is about to record it or to
\* shut it down.
Held(s) == \E w \in Workers : hand[w] = s \/ s \in kill[w]

Patch(row, req) ==
    [row EXCEPT !.target  = IF req.target = Keep THEN @ ELSE req.target,
                !.route   = IF req.route = Keep THEN @ ELSE req.route,
                !.enabled = IF req.enabled = Keep THEN @ ELSE req.enabled]

SetEnabled(b) == [target |-> Keep, route |-> Keep, enabled |-> b, valid |-> TRUE]

-----------------------------------------------------------------------------
(* Control flow of a worker *)

Goto(w, l) == pc' = [pc EXCEPT ![w] = l]

Return(w) == /\ pc'  = [pc EXCEPT ![w] = "idle"]
             /\ loc' = [loc EXCEPT ![w] = Idle]

Call(w, op, l, args) ==
    /\ op \in Ops
    /\ pc[w] = "idle"
    /\ pc' = [pc EXCEPT ![w] = l]
    /\ loc' = [loc EXCEPT ![w] = args]
    /\ UNCHANGED <<tableVars, interfaces, runVars, srvVars, ownVars>>

\* A database call that returns an error ends the operation.
DbError(w) ==
    /\ DbMayFail
    /\ pc[w] \in {"alloc", "insert", "write", "fetch", "load",
                  "look", "erase", "ifList"}
    /\ Return(w)
    /\ UNCHANGED <<tableVars, interfaces, runVars, srvVars, ownVars>>

-----------------------------------------------------------------------------
(* AddService and CreateHAAddonService *)

\* Bound: ids are left for the creations under way and for one more.
IdsLeft == Cardinality({w \in Workers : pc[w] \in {"exists", "alloc", "insert"}})
             < Cardinality({i \in Ids : db[i] = Unborn})

Create(w) == \E t \in Targets, r \in Routes :
    /\ IdsLeft
    /\ Call(w, "create", "alloc",
         [Idle EXCEPT !.op = "create",
                      !.req = [target |-> t, route |-> r, enabled |-> TRUE, valid |-> TRUE]])

Expose(w) == \E r \in Routes :
    /\ IdsLeft
    /\ Call(w, "expose", "exists",
         [Idle EXCEPT !.op = "expose",
                      !.req = [target |-> HATarget, route |-> r, enabled |-> TRUE, valid |-> TRUE]])

\* An existing tunnel to Home Assistant is left alone; any error of the
\* lookup is taken to mean that there is none.
CheckExposed(w) ==
    /\ pc[w] = "exists"
    /\ LET exists == \E i \in Ids : Stored(i) /\ db[i].target = HATarget IN
       \/ exists /\ Return(w)
       \/ (~ exists \/ DbMayFail) /\ Goto(w, "alloc") /\ UNCHANGED loc
    /\ UNCHANGED <<tableVars, interfaces, runVars, srvVars, ownVars>>

\* The lowest port that no row uses and that can be bound; p.mu is released
\* before the row that uses it exists.
AllocatePort(w) ==
    /\ pc[w] = "alloc"
    /\ LET free == {p \in Ports : PortFree(p)} IN
       \/ /\ free = {}
          /\ Return(w)
       \/ \E p \in free :
             /\ \A q \in free : p <= q
             /\ loc' = [loc EXCEPT ![w].row =
                           [port |-> p, target |-> loc[w].req.target,
                            route |-> loc[w].req.route, enabled |-> TRUE]]
             /\ Goto(w, "insert")
    /\ UNCHANGED <<tableVars, interfaces, runVars, srvVars, ownVars>>

InsertRow(w) ==
    /\ pc[w] = "insert"
    /\ \E i \in Ids :
          /\ db[i] = Unborn
          /\ db' = [db EXCEPT ![i] = loc[w].row]
          /\ loc' = [loc EXCEPT ![w].id = i]
    /\ Goto(w, "started")
    /\ UNCHANGED <<told, interfaces, runVars, srvVars, ownVars>>

-----------------------------------------------------------------------------
(* ModifyService (enable, disable), handleUpdateService, DeleteService *)

Modify(w) == \E i \in Ids, b \in BOOLEAN :
    /\ db[i] # Unborn
    /\ Call(w, "modify", "write",
            [Idle EXCEPT !.op = "modify", !.id = i, !.req = SetEnabled(b)])

Update(w) == \E i \in Ids, r \in Requests :
    /\ db[i] # Unborn
    /\ Call(w, "update", "load", [Idle EXCEPT !.op = "update", !.id = i, !.req = r])

\* The default Edge UI service cannot be deleted.
Delete(w) == \E i \in Ids \ {EdgeID} :
    /\ db[i] # Unborn
    /\ Call(w, "delete", "look", [Idle EXCEPT !.op = "delete", !.id = i])

\* Mutant: a change of the enabled flag is no reason to restart.
LoadExistingIgnoresToggle(w) ==
    /\ pc[w] = "load"
    /\ LET i == loc[w].id
           q == loc[w].req
       IN  IF Stored(i)
           THEN /\ loc' = [loc EXCEPT ![w].restart = q.target # Keep /\ q.target # db[i].target]
                /\ Goto(w, "probe")
           ELSE Return(w)
    /\ UNCHANGED <<tableVars, interfaces, runVars, srvVars, ownVars>>

\* Mutant: a change of the target is no reason to restart.
LoadExistingIgnoresTarget(w) ==
    /\ pc[w] = "load"
    /\ LET i == loc[w].id
           q == loc[w].req
       IN  IF Stored(i)
           THEN /\ loc' = [loc EXCEPT ![w].restart = q.enabled # Keep /\ q.enabled # db[i].enabled]
                /\ Goto(w, "probe")
           ELSE Return(w)
    /\ UNCHANGED <<tableVars, interfaces, runVars, srvVars, ownVars>>

\* handleUpdateService reads the row and decides on a restart from it.
LoadExisting(w) ==
    /\ pc[w] = "load"
    /\ LET i == loc[w].id
           q == loc[w].req
       IN  IF Stored(i)
           THEN /\ loc' = [loc EXCEPT ![w].restart =
                              \/ q.target # Keep /\ q.target # db[i].target
                              \/ q.enabled # Keep /\ q.enabled # db[i].enabled]
                /\ Goto(w, "probe")
           ELSE Return(w)
    /\ UNCHANGED <<tableVars, interfaces, runVars, srvVars, ownVars>>

ProbeRunning(w) ==
    /\ pc[w] = "probe"
    /\ Goto(w, IF Running(loc[w].id) /\ loc[w].restart THEN "detach" ELSE "write")
    /\ UNCHANGED <<tableVars, interfaces, runVars, srvVars, ownVars, loc>>

\* DeleteService reads the row it will report to the cloud.
LookUp(w) ==
    /\ pc[w] = "look"
    /\ IF Stored(loc[w].id) THEN Goto(w, "detach") /\ UNCHANGED loc ELSE Return(w)
    /\ UNCHANGED <<tableVars, interfaces, runVars, srvVars, ownVars>>

\* UpdateService: refused as a whole, or written; no row is no error.
WriteRow(w) ==
    /\ pc[w] = "write"
    /\ IF loc[w].req.valid
       THEN /\ db' = [db EXCEPT ![loc[w].id] =
                         IF Stored(loc[w].id) THEN Patch(@, loc[w].req) ELSE @]
            /\ Goto(w, IF loc[w].op = "modify" THEN "detach" ELSE "fetch")
            /\ UNCHANGED loc
       ELSE Return(w) /\ UNCHANGED db
    /\ UNCHANGED <<told, interfaces, runVars, srvVars, ownVars>>

\* Mutant: a deletion is not reported.
EraseRowSilently(w) ==
    /\ pc[w] = "erase"
    /\ db' = [db EXCEPT ![loc[w].id] = Gone]
    /\ Return(w)
    /\ UNCHANGED <<told, interfaces, runVars, srvVars, ownVars>>

EraseRow(w) ==
    /\ pc[w] = "erase"
    /\ db' = [db EXCEPT ![loc[w].id] = Gone]
    /\ Goto(w, "sync")
    /\ UNCHANGED <<told, interfaces, runVars, srvVars, ownVars, loc>>

\* Mutant: the service is started again whether it is enabled or not.
RereadIgnoresFlag(w) ==
    /\ pc[w] = "reread"
    /\ IF Stored(loc[w].id)
       THEN loc' = [loc EXCEPT ![w].row = db[loc[w].id]] /\ Goto(w, "started")
       ELSE Goto(w, "fetch") /\ UNCHANGED loc
    /\ UNCHANGED <<tableVars, interfaces, runVars, srvVars, ownVars>>

\* Mutant: the flag is taken from the request instead of the row.
RereadTrustsRequest(w) ==
    /\ pc[w] = "reread"
    /\ IF Stored(loc[w].id)
       THEN /\ loc' = [loc EXCEPT ![w].row = db[loc[w].id]]
            /\ Goto(w, IF loc[w].req.enabled THEN "started" ELSE "fetch")
       ELSE Goto(w, "fetch") /\ UNCHANGED loc
    /\ UNCHANGED <<tableVars, interfaces, runVars, srvVars, ownVars>>

\* restartService reads the row back; an error is only logged.
Reread(w) ==
    /\ pc[w] = "reread"
    /\ \/ /\ Stored(loc[w].id)
          /\ loc' = [loc EXCEPT ![w].row = db[loc[w].id]]
          /\ Goto(w, IF db[loc[w].id].enabled THEN "started" ELSE "fetch")
       \/ /\ ~ Stored(loc[w].id) \/ DbMayFail
          /\ Goto(w, "fetch")
          /\ UNCHANGED loc
    /\ UNCHANGED <<tableVars, interfaces, runVars, srvVars, ownVars>>

\* The row handleUpdateService restarts from and reports, and the row
\* ModifyService reports.
FetchRow(w) ==
    /\ pc[w] = "fetch"
    /\ LET row == db[loc[w].id] IN
       IF Stored(loc[w].id)
       THEN /\ loc' = [loc EXCEPT ![w].row = row]
            /\ Goto(w, IF loc[w].op = "update" /\ loc[w].restart /\ row.enabled
                       THEN "started" ELSE "sync")
       ELSE Return(w)
    /\ UNCHANGED <<tableVars, interfaces, runVars, srvVars, ownVars>>

\* syncServiceOperation hands the row to the signaling client or, when the
\* channel is full, drops it.
Sync(w) ==
    /\ pc[w] = "sync"
    /\ \/ told' = [told EXCEPT ![loc[w].id] =
                      IF loc[w].op = "delete" THEN Gone ELSE loc[w].row]
       \/ SyncMayDrop /\ UNCHANGED told
    /\ Return(w)
    /\ UNCHANGED <<db, interfaces, runVars, srvVars, ownVars>>

-----------------------------------------------------------------------------
(* stopService and stopServicesOnInterface *)

\* Mutant: the keys stay in the map.
DetachKeepsKeys(w, doomed) ==
    /\ kill' = [kill EXCEPT ![w] = doomed]
    /\ Goto(w, "shut")
    /\ UNCHANGED <<tableVars, interfaces, runVars, srvVars, hand, loc>>

\* The keys leave the map under p.mu ...
Detach(w, doomed) ==
    /\ servers' = servers \ doomed
    /\ kill' = [kill EXCEPT ![w] = doomed]
    /\ Goto(w, "shut")
    /\ UNCHANGED <<tableVars, interfaces, runVars, st, at, hand, loc>>

StopService(w) ==
    /\ pc[w] = "detach"
    /\ Detach(w, {s \in servers : at[s].id = loc[w].id})

StopServicesOnInterface(w) ==
    /\ pc[w] = "ifDetach"
    /\ Detach(w, {s \in servers : s[1] = loc[w].ip})

\* ... and the servers are shut down afterwards, without it.  A server whose
\* Serve has not run yet keeps its listener until it does.
ShutdownServer(w) ==
    /\ pc[w] = "shut"
    /\ \E s \in kill[w] :
          /\ kill' = [kill EXCEPT ![w] = @ \ {s}]
          /\ IF st[s] \in {"spawned", "shut"}
             THEN st' = [st EXCEPT ![s] = "shut"] /\ UNCHANGED at
             ELSE /\ st' = [st EXCEPT ![s] = "unused"]
                  /\ at' = [at EXCEPT ![s] = None]
    /\ UNCHANGED <<tableVars, interfaces, runVars, servers, hand, pc, loc>>

StopDone(w) ==
    /\ pc[w] = "shut"
    /\ kill[w] = {}
    /\ \/ loc[w].op = "modify" /\ Goto(w, "reread") /\ UNCHANGED loc
       \/ loc[w].op = "update" /\ Goto(w, "write") /\ UNCHANGED loc
       \/ loc[w].op = "delete" /\ Goto(w, "erase") /\ UNCHANGED loc
       \/ loc[w].op = "removeInterface" /\ Return(w)
    /\ UNCHANGED <<tableVars, interfaces, runVars, srvVars, ownVars>>

-----------------------------------------------------------------------------
(* startService and startReverseProxyService *)

\* Read p.started and p.ctx before starting a service.
CheckStarted(w) ==
    /\ pc[w] = "started"
    /\ IF started
       THEN /\ loc' = [loc EXCEPT ![w].ctx = ctx]
            /\ Goto(w, "interfaces")
       ELSE /\ Goto(w, IF loc[w].op = "modify" THEN "fetch" ELSE "sync")
            /\ UNCHANGED loc
    /\ UNCHANGED <<tableVars, interfaces, runVars, srvVars, ownVars>>

\* startService copies p.interfaces under p.mu.
CopyInterfaces(w) ==
    /\ pc[w] = "interfaces"
    /\ loc' = [loc EXCEPT ![w].binds =
                  {[id |-> loc[w].id, row |-> loc[w].row, name |-> n, ip |-> interfaces[n]] :
                      n \in {m \in Names : interfaces[m] # NoIp}}]
    /\ Goto(w, "bind")
    /\ UNCHANGED <<tableVars, interfaces, runVars, srvVars, ownVars>>

\* The binding being tried: the current one, or any of those left.
Candidates(w) == IF loc[w].cur # None THEN {loc[w].cur} ELSE loc[w].binds

\* A new server takes the first slot that is free.
Fresh(s) == /\ st[s] = "unused"
            /\ \A k \in Slots : st[<<s[1], s[2], k>>] = "unused" => s[3] <= k

\* net.Listen succeeds.
Listen(w) ==
    /\ pc[w] = "bind"
    /\ \E b \in Candidates(w), k \in Slots : LET s == <<b.ip, b.row.port, k>> IN
          /\ AddrFree(b.ip, b.row.port)
          /\ Fresh(s)
          /\ st' = [st EXCEPT ![s] = "bound"]
          /\ at' = [at EXCEPT ![s] = [id |-> b.id, row |-> b.row, ctx |-> loc[w].ctx]]
          /\ hand' = [hand EXCEPT ![w] = s]
          /\ loc' = [loc EXCEPT ![w].binds = @ \ {b}, ![w].cur = None, ![w].tries = 0]
    /\ Goto(w, "record")
    /\ UNCHANGED <<tableVars, interfaces, runVars, servers, kill>>

\* net.Listen fails: the address is taken, or not assigned yet.
ListenFails(w) ==
    /\ pc[w] = "bind"
    /\ \E b \in Candidates(w) :
          /\ ~ AddrFree(b.ip, b.row.port) \/ ListenMayFail
          /\ loc' = [loc EXCEPT ![w].cur = b, ![w].tries = @ + 1]
    /\ Goto(w, "wait")
    /\ UNCHANGED <<tableVars, interfaces, runVars, srvVars, ownVars>>

\* Mutant: one attempt too many.
RetryListenOnceMore(w) ==
    /\ pc[w] = "wait"
    /\ loc[w].tries <= maxBindRetries
    /\ loc[w].ctx \notin cancelled
    /\ Goto(w, "bind")
    /\ UNCHANGED <<tableVars, interfaces, runVars, srvVars, ownVars, loc>>

\* The delay before the next attempt.  It is at least a second, long enough
\* for the Serve goroutine of a server that is shut to release the address.
RetryListen(w) ==
    /\ pc[w] = "wait"
    /\ loc[w].tries < maxBindRetries
    /\ loc[w].ctx \notin cancelled
    /\ ~ \E s \in Servers : st[s] = "shut" /\ Addr(s) = <<loc[w].cur.ip, loc[w].cur.row.port>>
    /\ Goto(w, "bind")
    /\ UNCHANGED <<tableVars, interfaces, runVars, srvVars, ownVars, loc>>

\* Mutant: giving up waits for one attempt more than there is.
GiveUpTooLate(w) ==
    /\ pc[w] = "wait"
    /\ loc[w].tries > maxBindRetries \/ loc[w].ctx \in cancelled
    /\ loc' = [loc EXCEPT ![w].binds = @ \ {loc[w].cur}, ![w].cur = None,
                          ![w].tries = 0, ![w].failed = TRUE]
    /\ Goto(w, "bind")
    /\ UNCHANGED <<tableVars, interfaces, runVars, srvVars, ownVars>>

\* No attempt is left, or the context is cancelled during the delay.
GiveUp(w) ==
    /\ pc[w] = "wait"
    /\ loc[w].tries = maxBindRetries \/ loc[w].ctx \in cancelled
    /\ loc' = [loc EXCEPT ![w].binds = @ \ {loc[w].cur}, ![w].cur = None,
                          ![w].tries = 0, ![w].failed = TRUE]
    /\ Goto(w, "bind")
    /\ UNCHANGED <<tableVars, interfaces, runVars, srvVars, ownVars>>

\* p.servers[key] = server: an entry with the same key is overwritten, and a
\* closed server nothing else refers to is garbage.  Then the goroutines that
\* serve and that wait for the context are spawned.
Record(w) ==
    /\ pc[w] = "record"
    /\ LET s == hand[w]
           old == {t \in servers : Key(t) = Key(s)}
           dead == {t \in old : st[t] = "closed"}
       IN  /\ servers' = (servers \ old) \cup {s}
           /\ st' = [t \in Servers |-> IF t = s THEN "spawned"
                                       ELSE IF t \in dead THEN "unused" ELSE st[t]]
           /\ at' = [t \in Servers |-> IF t \in dead THEN None ELSE at[t]]
    /\ hand' = [hand EXCEPT ![w] = None]
    /\ Goto(w, "bind")
    /\ UNCHANGED <<tableVars, interfaces, runVars, kill, loc>>

\* The caller of startService: AddService and handleUpdateService return the
\* error and skip the sync, restartService and Start only log it.
StartDone(w) ==
    /\ pc[w] = "bind"
    /\ loc[w].binds = {} /\ loc[w].cur = None
    /\ \/ /\ loc[w].op \in {"create", "expose", "update"}
          /\ IF loc[w].failed THEN Return(w) ELSE Goto(w, "sync") /\ UNCHANGED loc
       \/ loc[w].op = "modify" /\ Goto(w, "fetch") /\ UNCHANGED loc
       \/ loc[w].op = "start" /\ Goto(w, "next") /\ UNCHANGED loc
       \/ loc[w].op = "addInterface" /\ Return(w)
    /\ UNCHANGED <<tableVars, interfaces, runVars, srvVars, ownVars>>

-----------------------------------------------------------------------------
(* The goroutines of a server *)

\* Mutant: Serve returns from a server that is shut without closing the listener.
ServeLeaks(s) ==
    /\ st[s] = "spawned"
    /\ st' = [st EXCEPT ![s] = "serving"]
    /\ UNCHANGED <<tableVars, interfaces, runVars, servers, at, ownVars, pc, loc>>

\* Serve tracks the listener, or finds the server shut and closes it.
Serve(s) ==
    /\ \/ st[s] = "spawned" /\ st' = [st EXCEPT ![s] = "serving"] /\ UNCHANGED at
       \/ /\ st[s] = "shut"
          /\ IF s \in servers \/ Held(s)
             THEN st' = [st EXCEPT ![s] = "closed"] /\ UNCHANGED at
             ELSE /\ st' = [st EXCEPT ![s] = "unused"]
                  /\ at' = [at EXCEPT ![s] = None]
    /\ UNCHANGED <<tableVars, interfaces, runVars, servers, ownVars, pc, loc>>

\* <-ctx.Done(): the server shuts down and stays in the map.
ShutdownOnCancel(s) ==
    /\ st[s] \in {"spawned", "serving"}
    /\ at[s].ctx \in cancelled
    /\ st' = [st EXCEPT ![s] = IF @ = "serving" THEN "closed" ELSE "shut"]
    /\ UNCHANGED <<tableVars, interfaces, runVars, servers, at, ownVars, pc, loc>>

-----------------------------------------------------------------------------
(* AddInterface, RemoveInterface, SetInterfaceIPs *)

\* The WireGuard manager gives an interface one address, and no address to two
\* interfaces; a notification that comes late does not respect this.
Assignable(n, ip) == /\ interfaces[n] \in {NoIp, ip}
                     /\ \A m \in Names \ {n} : interfaces[m] # ip

AddInterface(w) == \E n \in Names, ip \in Ips :
    /\ "addInterface" \in Ops
    /\ pc[w] = "idle"
    /\ OrderedNotifications => Assignable(n, ip)
    /\ interfaces' = [interfaces EXCEPT ![n] = ip]
    /\ loc' = [loc EXCEPT ![w] = [Idle EXCEPT !.op = "addInterface", !.name = n, !.ip = ip]]
    /\ Goto(w, "ifStarted")
    /\ UNCHANGED <<tableVars, runVars, srvVars, ownVars>>

CheckStartedOnInterface(w) ==
    /\ pc[w] = "ifStarted"
    /\ IF started
       THEN /\ loc' = [loc EXCEPT ![w].ctx = ctx]
            /\ Goto(w, "ifList")
       ELSE Return(w)
    /\ UNCHANGED <<tableVars, interfaces, runVars, srvVars, ownVars>>

ListServicesOnInterface(w) ==
    /\ pc[w] = "ifList"
    /\ loc' = [loc EXCEPT ![w].binds =
                  {[id |-> i, row |-> db[i], name |-> loc[w].name, ip |-> loc[w].ip] :
                      i \in {j \in Ids : Stored(j) /\ db[j].enabled}}]
    /\ Goto(w, "bind")
    /\ UNCHANGED <<tableVars, interfaces, runVars, srvVars, ownVars>>

RemoveInterface(w) == \E n \in Names :
    /\ "removeInterface" \in Ops
    /\ pc[w] = "idle"
    /\ interfaces[n] # NoIp
    /\ interfaces' = [interfaces EXCEPT ![n] = NoIp]
    /\ loc' = [loc EXCEPT ![w] = [Idle EXCEPT !.op = "removeInterface", !.name = n,
                                              !.ip = interfaces[n]]]
    /\ Goto(w, "ifDetach")
    /\ UNCHANGED <<tableVars, runVars, srvVars, ownVars>>

\* The map is replaced; no service is started or stopped for it.
SetInterfaceIPs(w) ==
    /\ "setInterfaces" \in Ops
    /\ pc[w] = "idle"
    /\ interfaces' \in [Names -> Ips \cup {NoIp}]
    /\ UNCHANGED <<tableVars, runVars, srvVars, ownVars, pc, loc>>

-----------------------------------------------------------------------------
(* Start and Stop *)

Start(w) ==
    /\ "start" \in Ops
    /\ pc[w] = "idle"
    /\ ~ started /\ ctx < MaxStarts
    /\ started' = TRUE
    /\ ctx' = ctx + 1
    /\ loc' = [loc EXCEPT ![w] = [Idle EXCEPT !.op = "start", !.ctx = ctx + 1]]
    /\ Goto(w, "list")
    /\ UNCHANGED <<tableVars, interfaces, cancelled, srvVars, ownVars>>

ListServices(w) ==
    /\ pc[w] = "list"
    /\ \/ /\ loc' = [loc EXCEPT ![w].todo =
                        {<<i, db[i]>> : i \in {j \in Ids : Stored(j) /\ db[j].enabled}}]
          /\ Goto(w, "next")
          /\ UNCHANGED runVars
       \/ /\ DbMayFail
          /\ started' = FALSE
          /\ cancelled' = cancelled \cup {loc[w].ctx}
          /\ Return(w)
          /\ UNCHANGED ctx
    /\ UNCHANGED <<tableVars, interfaces, srvVars, ownVars>>

NextService(w) ==
    /\ pc[w] = "next"
    /\ \/ \E e \in loc[w].todo :
             /\ loc' = [loc EXCEPT ![w].todo = @ \ {e}, ![w].id = e[1], ![w].row = e[2]]
             /\ Goto(w, "interfaces")
       \/ loc[w].todo = {} /\ Return(w)
    /\ UNCHANGED <<tableVars, interfaces, runVars, srvVars, ownVars>>

Stop(w) ==
    /\ "stop" \in Ops
    /\ pc[w] = "idle"
    /\ started
    /\ started' = FALSE
    /\ loc' = [loc EXCEPT ![w] = [Idle EXCEPT !.op = "stop"]]
    /\ Goto(w, "cancel")
    /\ UNCHANGED <<tableVars, interfaces, ctx, cancelled, srvVars, ownVars>>

\* p.cancel is read after p.mu is released.
CancelContext(w) ==
    /\ pc[w] = "cancel"
    /\ cancelled' = cancelled \cup {ctx}
    /\ Goto(w, "drain")
    /\ UNCHANGED <<tableVars, interfaces, started, ctx, srvVars, ownVars, loc>>

\* p.wg.Wait: every goroutine of a server is done; or shutdownTimeout, which
\* is longer than it takes to shut a server, has passed.
StopReturns(w) ==
    /\ pc[w] = "drain"
    /\ StopMayTimeOut \/ \A s \in Servers : st[s] \notin {"spawned", "serving", "shut"}
    /\ Return(w)
    /\ UNCHANGED <<tableVars, interfaces, runVars, srvVars, ownVars>>

-----------------------------------------------------------------------------

Init ==
    /\ db = InitRows
    /\ told = InitRows
    /\ interfaces = [n \in Names |-> NoIp]
    /\ started = FALSE /\ ctx = 0 /\ cancelled = {}
    /\ servers = {}
    /\ st = [s \in Servers |-> "unused"]
    /\ at = [s \in Servers |-> None]
    /\ pc = [w \in Workers |-> "idle"]
    /\ loc = [w \in Workers |-> Idle]
    /\ hand = [w \in Workers |-> None]
    /\ kill = [w \in Workers |-> {}]

Begin(w) == \/ Create(w) \/ Expose(w) \/ Modify(w) \/ Update(w) \/ Delete(w)
            \/ AddInterface(w) \/ RemoveInterface(w) \/ SetInterfaceIPs(w)
            \/ Start(w) \/ Stop(w)

Read(w) == \/ CheckExposed(w) \/ AllocatePort(w) \/ LoadExisting(w) \/ ProbeRunning(w)
           \/ LookUp(w) \/ Reread(w) \/ FetchRow(w) \/ CheckStarted(w)
           \/ CopyInterfaces(w) \/ CheckStartedOnInterface(w)
           \/ ListServicesOnInterface(w) \/ ListServices(w) \/ NextService(w)

Write(w) == InsertRow(w) \/ WriteRow(w) \/ EraseRow(w) \/ Sync(w)

Bind(w) == Listen(w) \/ ListenFails(w) \/ RetryListen(w) \/ GiveUp(w) \/ Record(w) \/ StartDone(w)

Unbind(w) == StopService(w) \/ StopServicesOnInterface(w) \/ ShutdownServer(w) \/ StopDone(w)

\* A worker continues the operation it has begun.
Step(w) == \/ Read(w) \/ Write(w) \/ Bind(w) \/ Unbind(w)
           \/ CancelContext(w) \/ StopReturns(w) \/ DbError(w)

Goroutine(s) == Serve(s) \/ ShutdownOnCancel(s)

Next == \/ \E w \in Workers : Begin(w) \/ Step(w)
        \/ \E s \in Servers : Goroutine(s)

Spec == Init /\ [][Next]_vars

\* The Go scheduler runs every goroutine; a delay always ends.
Fairness == /\ \A w \in Workers : WF_vars(Step(w)) /\ SF_vars(RetryListen(w))
            /\ \A s \in Servers : WF_vars(Goroutine(s))

LiveSpec == Spec /\ Fairness

-----------------------------------------------------------------------------
(* Properties *)

Started == [id: Ids, row: Row, ctx: Epochs]

\* The type invariant.
TypeOK ==
    /\ db \in [Ids -> Row \cup {Unborn, Gone}]
    /\ told \in [Ids -> Row \cup {Unborn, Gone}]
    /\ interfaces \in [Names -> Ips \cup {NoIp}]
    /\ started \in BOOLEAN /\ ctx \in Epochs /\ cancelled \subseteq Epochs
    /\ servers \subseteq Servers
    /\ st \in [Servers -> Statuses]
    /\ at \in [Servers -> Started \cup {None}]
    /\ pc \in [Workers -> Labels]
    /\ loc \in [Workers -> Locals]
    /\ hand \in [Workers -> Servers \cup {None}]
    /\ kill \in [Workers -> SUBSET Servers]

Attended(s) == s \in servers \/ Held(s)

\* A listener never escapes: whatever operations overlap, one that is open is
\* in p.servers, or in the hand of the worker that is about to record or to
\* shut it, so a later stopService or RemoveInterface reaches it (a server
\* shut before its Serve ran closes its listener itself).
NoOrphanListener ==
    \A s \in Servers : st[s] \in {"bound", "spawned", "serving"} => Attended(s)

\* A key in p.servers means that the listener is bound, which is what
\* isServiceRunning takes it to mean, unless its context was cancelled:
\* stopInternal leaves the map alone.
RecordedIsBound ==
    \A s \in servers : st[s] \in {"spawned", "serving"} \/ at[s].ctx \in cancelled

AllIdle == \A w \in Workers : pc[w] = "idle"
Quiet == AllIdle /\ started /\ ctx \notin cancelled

Wanted == {<<i, interfaces[n]>> : i \in {j \in Ids : Stored(j) /\ db[j].enabled},
                                  n \in {m \in Names : interfaces[m] # NoIp}}
Serving == {s \in servers : st[s] \in {"spawned", "serving"}}
Served == {<<at[s].id, s[1]>> : s \in Serving}

\* No service misses an interface: once no operation is under way, every
\* enabled service listens on every interface.  AddService writes its row and
\* then reads the interfaces, AddInterface writes the interface and then reads
\* the rows, Start writes started and then reads both: whichever write comes
\* last, its worker sees the others.
NoMissedListener == Quiet => Wanted \subseteq Served

\* "running (i.e. it's enabled and the proxy provider has started it)",
\* the comment of isServiceRunning: once no operation is under way, a service
\* that has a key in p.servers is stored and enabled.
RunningIsEnabled ==
    Quiet => \A i \in Ids : Running(i) => Stored(i) /\ db[i].enabled

\* A running service forwards to the local host and port that its row has.
ServesStoredTarget ==
    Quiet => \A s \in Serving : Stored(at[s].id) => at[s].row.target = db[at[s].id].target

\* What the cloud was last told of every service is what is stored.
ToldIsStored == AllIdle => told = db

\* No two services share a tunnel port, which is all that separates them on
\* an interface; the table has no constraint for it.
TunnelPortsDistinct ==
    \A i, j \in Ids : Stored(i) /\ Stored(j) /\ db[i].port = db[j].port => i = j

\* Every operation returns, whatever the others do.
OperationsReturn == \A w \in Workers : pc[w] # "idle" ~> pc[w] = "idle"

\* Once the provider is stopped, the listeners it was started with are
\* released, those that a late AddService or AddInterface binds included.
StopReleases ==
    \A s \in Servers : (st[s] \in Open /\ at[s].ctx \in cancelled) ~> st[s] \notin Open
=============================================================================
