-------------------------- MODULE ProxyOverlapProofs ------------------------
(***************************************************************************)
(* Which overlaps of operations the provider withstands, and which it does *)
(* not: a property that fails when any two operations overlap is proved    *)
(* here of the behaviours without the overlaps that break it.              *)
(***************************************************************************)
EXTENDS ProxyListenerProofs

-----------------------------------------------------------------------------
(* Tunnel ports.                                                             *)

\* No two creations are between the choice of a port and the row that has it.
PortsApart == \A v, w \in Workers : pc[v] = "insert" /\ pc[w] = "insert" => v = w

\* The table at boot has no two rows with one port.
InitPortsDistinct ==
    \A i, j \in Ids : InitRows[i] \in Row /\ InitRows[j] \in Row /\ InitRows[i].port = InitRows[j].port
                          => i = j

PortInv ==
    /\ TunnelPortsDistinct
    /\ \A w \in Workers : pc[w] = "insert" =>
          \A i \in Ids : Stored(i) => db[i].port # loc[w].row.port

(* Initially no worker inserts, and the table is the one of the boot. *)
LEMMA PortInit == InitPortsDistinct /\ Init => PortInv
  BY DEF InitPortsDistinct, Init, PortInv, TunnelPortsDistinct, Stored

(* A step that gives no service another port, and after which no worker *)
(* inserts that did not before.                                         *)
LEMMA PortsKept ==
    ASSUME TypeInv, PortInv,
           \A i \in Ids : Stored(i)' => Stored(i) /\ db'[i].port = db[i].port,
           \A v \in Workers : pc'[v] = "insert" => pc[v] = "insert" /\ loc'[v] = loc[v]
    PROVE  PortInv'
  <1>1. TunnelPortsDistinct'
    BY DEF PortInv, TunnelPortsDistinct
  <1>2. ASSUME NEW v \in Workers, pc'[v] = "insert", NEW i \in Ids, Stored(i)'
        PROVE  db'[i].port # loc'[v].row.port
    BY <1>2 DEF PortInv
  <1> QED
    BY <1>1, <1>2 DEF PortInv

(* No stored service has the port that a creation chooses. *)
LEMMA AllocatePortKeeps ==
    ASSUME TypeInv, PortInv, NEW w \in Workers, AllocatePort(w)
    PROVE  PortInv'
  <1>0. db' = db /\ \A v \in Workers \ {w} : pc'[v] = pc[v] /\ loc'[v] = loc[v]
    BY OthersStay, WritersOfRows DEF AllocatePort, Step, Read, tableVars
  <1>1. CASE Return(w)
    <2>1. pc'[w] = "idle"
      BY <1>1 DEF Return, TypeInv, TypeOK
    <2> QED
      BY <1>0, <2>1, PortsKept DEF Stored
  <1>2. ASSUME NEW p \in Ports, PortFree(p),
               loc' = [loc EXCEPT ![w].row =
                           [port |-> p, target |-> loc[w].req.target,
                            route |-> loc[w].req.route, enabled |-> TRUE]]
        PROVE  PortInv'
    <2>1. loc'[w].row.port = p
      BY <1>2 DEF TypeInv, TypeOK, Locals
    <2>2. \A i \in Ids : Stored(i)' => db'[i].port # loc'[w].row.port
      BY <1>0, <1>2, <2>1 DEF PortFree, Stored
    <2>3. \A v \in Workers : pc'[v] = "insert" =>
             \A i \in Ids : Stored(i)' => db'[i].port # loc'[v].row.port
      BY <1>0, <2>2 DEF PortInv, Stored
    <2> QED
      BY <1>0, <2>3 DEF PortInv, TunnelPortsDistinct, Stored
  <1> QED
    BY <1>1, <1>2 DEF AllocatePort

(* The row of a creation has a port of its own. *)
LEMMA InsertRowKeeps ==
    ASSUME TypeInv, PortInv, PortsApart, NEW w \in Workers, InsertRow(w)
    PROVE  PortInv'
  <1>0. \A v \in Workers \ {w} : pc'[v] = pc[v] /\ loc'[v] = loc[v]
    BY OthersStay DEF Step, Write
  <1>1. PICK i \in Ids : db[i] = Unborn /\ db' = [db EXCEPT ![i] = loc[w].row]
    BY DEF InsertRow
  <1>2. /\ db'[i] = loc[w].row
        /\ \A j \in Ids \ {i} : db'[j] = db[j]
    BY <1>1 DEF TypeInv, TypeOK
  <1>3. \A j \in Ids : Stored(j) => db[j].port # loc[w].row.port
    BY DEF InsertRow, PortInv
  <1>4. TunnelPortsDistinct'
    BY <1>2, <1>3 DEF PortInv, TunnelPortsDistinct, Stored
  <1>5. \A v \in Workers : pc'[v] # "insert"
    BY <1>0 DEF InsertRow, Goto, PortsApart, TypeInv, TypeOK
  <1> QED
    BY <1>4, <1>5 DEF PortInv

(* A change of a service leaves it its port. *)
LEMMA WriteRowKeeps ==
    ASSUME TypeInv, PortInv, NEW w \in Workers, WriteRow(w)
    PROVE  PortInv'
  <1>0. \A v \in Workers \ {w} : pc'[v] = pc[v] /\ loc'[v] = loc[v]
    BY OthersStay DEF Step, Write
  <1>1. pc'[w] # "insert"
    BY DEF WriteRow, Goto, Return, TypeInv, TypeOK
  <1>2. ASSUME NEW i \in Ids, Stored(i)'
        PROVE  Stored(i) /\ db'[i].port = db[i].port
    <2>1. CASE db' = db
      BY <1>2, <2>1 DEF Stored
    <2>2. CASE db' # db
      <3>1. db' = [db EXCEPT ![loc[w].id] =
                      IF Stored(loc[w].id) THEN Patch(@, loc[w].req) ELSE @]
        BY <2>2 DEF WriteRow
      <3>2. CASE i = loc[w].id /\ Stored(i)
        <4>1. db'[i] = Patch(db[i], loc[w].req)
          BY <3>1, <3>2 DEF TypeInv, TypeOK
        <4> QED
          BY <3>2, <4>1 DEF Patch, Stored, Row
      <3>3. CASE ~ (i = loc[w].id /\ Stored(i))
        <4>1. db'[i] = db[i]
          BY <3>1, <3>3 DEF TypeInv, TypeOK, Stored
        <4> QED
          BY <1>2, <4>1 DEF Stored
      <3> QED
        BY <3>2, <3>3
    <2> QED
      BY <2>1, <2>2
  <1> QED
    BY <1>0, <1>1, <1>2, PortsKept

(* A deletion takes a port away. *)
LEMMA EraseRowKeeps ==
    ASSUME TypeInv, PortInv, NEW w \in Workers, EraseRow(w)
    PROVE  PortInv'
  <1>0. \A v \in Workers \ {w} : pc'[v] = pc[v] /\ loc'[v] = loc[v]
    BY OthersStay DEF Step, Write
  <1>1. pc'[w] # "insert"
    BY DEF EraseRow, Goto, TypeInv, TypeOK
  <1>2. \A i \in Ids : Stored(i)' => db'[i] = db[i]
    BY ProxyAssumption DEF EraseRow, TypeInv, TypeOK, Stored
  <1> QED
    BY <1>0, <1>1, <1>2, PortsKept DEF Stored

(* Every step keeps the ports distinct, if creations do not overlap. *)
LEMMA PortStep == TypeInv /\ PortInv /\ PortsApart /\ [Next]_vars => PortInv'
  <1> SUFFICES ASSUME TypeInv, PortInv, PortsApart, [Next]_vars
               PROVE  PortInv'
    OBVIOUS
  <1>1. ASSUME NEW w \in Workers, Begin(w) \/ Step(w)
        PROVE  PortInv'
    <2>1. CASE AllocatePort(w)
      BY <2>1, AllocatePortKeeps
    <2>2. CASE InsertRow(w) \/ WriteRow(w) \/ EraseRow(w)
      BY <2>2, InsertRowKeeps, WriteRowKeeps, EraseRowKeeps
    <2>3. CASE ~ (AllocatePort(w) \/ InsertRow(w) \/ WriteRow(w) \/ EraseRow(w))
      <3>1. db' = db
        BY <1>1, <2>3, WritersOfRows
      <3>2. \A v \in Workers : pc'[v] = "insert" => pc[v] = "insert" /\ loc'[v] = loc[v]
        BY <1>1, <2>3, ComesToInsert, OthersStay
      <3> QED
        BY <3>1, <3>2, PortsKept DEF Stored
    <2> QED
      BY <2>1, <2>2, <2>3
  <1>2. CASE UNCHANGED <<db, pc, loc>>
    BY <1>2, PortsKept DEF Stored
  <1>3. ASSUME NEW s \in Servers, Goroutine(s)
        PROVE  UNCHANGED <<db, pc, loc>>
    BY <1>3 DEF Goroutine, Serve, ShutdownOnCancel, tableVars
  <1> QED
    BY <1>1, <1>2, <1>3 DEF Next, vars

(* Two services never share a tunnel port, provided that no two creations  *)
(* are between allocatePort and CreateService at once: nothing else that   *)
(* the provider does, failures included, can break it.                     *)
THEOREM PortsStayDistinct ==
    ASSUME InitPortsDistinct
    PROVE  Spec /\ []PortsApart => []TunnelPortsDistinct
  <1>1. Init => TypeInv /\ PortInv
    BY TypeInit, PortInit
  <1>2. TypeInv /\ PortInv /\ PortsApart /\ [Next]_vars => TypeInv' /\ PortInv'
    BY TypeStep, PortStep
  <1>3. PortInv => TunnelPortsDistinct
    BY DEF PortInv
  <1> QED
    BY <1>1, <1>2, <1>3, PTL DEF Spec

-----------------------------------------------------------------------------
(***************************************************************************)
(* Running services.  A request that changes or deletes a service runs     *)
(* alone: creations, interfaces that come and go, starts and stops may     *)
(* overlap one another, and any call may fail.                             *)
(***************************************************************************)
Changing(w) == pc[w] # "idle" /\ loc[w].op \in {"modify", "update", "delete"}
ChangesAlone == \A v, w \in Workers : Changing(w) /\ pc[v] # "idle" => v = w

\* The row says what the table says of the service, which is enabled.
Faithful(i, row) == Stored(i) /\ db[i].enabled /\ row.target = db[i].target

\* ModifyService has written the row, and is about to stop the service.
Stopping(i) == \E w \in Workers : pc[w] = "detach" /\ loc[w].op = "modify" /\ loc[w].id = i

ServersOK == \A s \in servers : Faithful(at[s].id, at[s].row) \/ Stopping(at[s].id)

\* What a worker is about to start was read from the table.
StartOK(w) ==
    /\ pc[w] = "insert" => loc[w].row.enabled
    /\ pc[w] \in {"started", "interfaces"} => Faithful(loc[w].id, loc[w].row)
    /\ \A b \in loc[w].binds : Faithful(b.id, b.row)
    /\ \A e \in loc[w].todo : Faithful(e[1], e[2])
    /\ hand[w] # None => Faithful(at[hand[w]].id, at[hand[w]].row)

\* handleUpdateService restarts a service when its target or flag changes.
Restarts(i, q) == \/ q.target # Keep /\ q.target # db[i].target
                  \/ q.enabled # Keep /\ q.enabled # db[i].enabled

\* The service is stopped before its row is changed or deleted.
StopOK(w) ==
    /\ loc[w].op = "update" /\ pc[w] \in {"probe", "detach", "shut", "write"} =>
          Stored(loc[w].id) /\ (loc[w].restart <=> Restarts(loc[w].id, loc[w].req))
    /\ \/ loc[w].op = "update" /\ (pc[w] = "shut" \/ (pc[w] = "write" /\ loc[w].restart))
       \/ loc[w].op = "delete" /\ pc[w] \in {"shut", "erase"}
       => ~ Running(loc[w].id)

RunInv == KnownInv /\ ServersOK /\ \A w \in Workers : StartOK(w) /\ StopOK(w)

(* A worker that changes a service finds the others idle, and idle workers *)
(* have nothing to start or to stop.                                       *)
LEMMA OthersIdle ==
    ASSUME TypeInv, ListenerInv, PathInv, ChangesAlone,
           NEW w \in Workers, Changing(w), NEW v \in Workers \ {w}
    PROVE  pc[v] = "idle" /\ loc[v] = Idle /\ hand[v] = None
  <1>1. pc[v] = "idle"
    BY DEF ChangesAlone
  <1> QED
    BY <1>1, EmptyHanded DEF PathInv, OnPath

(* A worker at rest starts and stops nothing (as a fact to cite). *)
LEMMA IdleOKs ==
    ASSUME NEW v \in Workers, pc[v] = "idle", loc[v] = Idle, hand[v] = None
    PROVE  StartOK(v) /\ StopOK(v)
  BY DEF StartOK, StopOK, Idle

(* The same of the next state. *)
LEMMA IdleOKsNext ==
    ASSUME NEW v \in Workers, pc'[v] = "idle", loc'[v] = Idle, hand'[v] = None
    PROVE  StartOK(v)' /\ StopOK(v)'
  BY DEF StartOK, StopOK, Idle

(* A step of another worker leaves what a worker may start as it was. *)
LEMMA StartOthers ==
    ASSUME TypeInv, ListenerInv, KnownInv, [Next]_vars,
           NEW w \in Workers, Begin(w) \/ Step(w), ~ WriteRow(w), ~ EraseRow(w),
           NEW v \in Workers \ {w}, StartOK(v), hand'[v] = hand[v]
    PROVE  StartOK(v)'
  <1>1. pc'[v] = pc[v] /\ loc'[v] = loc[v]
    BY OthersStay
  <1>2. hand'[v] # None => at'[hand[v]] = at[hand[v]]
    <2>1. ~ Listen(v) \/ hand[v] = None
      BY EmptyHanded DEF Listen
    <2> QED
      BY <2>1, HandStep
  <1> QED
    BY <1>1, <1>2, RowsStay, StartTypes DEF StartOK, Faithful, Stored

(* At "detach" the only step is stopService. *)
LEMMA OnlyStopService ==
    ASSUME NEW w \in Workers, Begin(w) \/ Step(w), pc[w] = "detach"
    PROVE  StopService(w)
  <1>1. ~ Begin(w)
    BY BeginTouchesNothing
  <1>2. ~ Read(w)
    BY DEF Read, CheckExposed, AllocatePort, LoadExisting, ProbeRunning, LookUp, Reread,
           FetchRow, CheckStarted, CopyInterfaces, CheckStartedOnInterface,
           ListServicesOnInterface, ListServices, NextService
  <1>3. ~ Write(w) /\ ~ Bind(w) /\ ~ CancelContext(w) /\ ~ StopReturns(w) /\ ~ DbError(w)
    BY DEF Write, InsertRow, WriteRow, EraseRow, Sync, Bind, Listen, ListenFails, RetryListen,
           GiveUp, Record, StartDone, CancelContext, StopReturns, DbError
  <1> QED
    BY <1>1, <1>2, <1>3 DEF Step, Unbind, StopServicesOnInterface, ShutdownServer, StopDone

(* A worker is in no stop that it is not at. *)
LEMMA StopElsewhere ==
    ASSUME NEW w \in Workers,
           \/ pc'[w] \notin {"probe", "detach", "shut", "write", "erase"}
           \/ loc'[w].op \notin {"update", "delete"}
    PROVE  StopOK(w)'
  BY DEF StopOK

(* A worker that does not move stops what it was stopping, if nobody else *)
(* moved it.                                                              *)
LEMMA StopUnmoved ==
    ASSUME NEW w \in Workers, StopOK(w), UNCHANGED <<db, servers, at>>,
           pc'[w] = pc[w], loc'[w] = loc[w]
    PROVE  StopOK(w)'
  BY DEF StopOK, Stored, Restarts, Running

(* A step of another worker leaves what a worker stops as it was. *)
LEMMA StopOthers ==
    ASSUME TypeInv, ChangesAlone, NEW w \in Workers, Begin(w) \/ Step(w),
           NEW v \in Workers \ {w}, StopOK(v)
    PROVE  StopOK(v)'
  <1>1. pc'[v] = pc[v] /\ loc'[v] = loc[v]
    BY OthersStay
  <1>2. CASE Changing(v)
    <2>1. Begin(w)
      BY <1>2, StepsAreBusy DEF ChangesAlone
    <2> QED
      BY <1>1, <2>1, BeginTouchesNothing, StopUnmoved
  <1>3. CASE ~ Changing(v)
    BY <1>1, <1>3, StopElsewhere DEF Changing
  <1> QED
    BY <1>2, <1>3

(* A worker goes on stopping until the listeners are gone. *)
LEMMA StopOwn ==
    ASSUME TypeInv, ListenerInv, PathInv, NEW w \in Workers, Begin(w) \/ Step(w), StopOK(w)
    PROVE  StopOK(w)'
  <1>t. /\ loc \in [Workers -> Locals] /\ pc \in [Workers -> Labels]
        /\ loc[w] \in Locals
    BY DEF TypeInv, TypeOK
  <1>p. OnPath(pc[w], loc[w])
    BY DEF PathInv
  <1>1. CASE LoadExisting(w) /\ ~ Return(w)
    <2>0. PICK b : /\ loc' = [loc EXCEPT ![w].restart = b]
                   /\ b <=> Restarts(loc[w].id, loc[w].req)
                   /\ Stored(loc[w].id)
      BY <1>1 DEF LoadExisting, Restarts
    <2>1. /\ loc'[w].op = loc[w].op /\ loc'[w].id = loc[w].id /\ loc'[w].req = loc[w].req
          /\ loc'[w].restart = b
      BY <1>t, <2>0 DEF Locals
    <2>2. pc'[w] = "probe" /\ db' = db
      BY <1>1, <1>t DEF LoadExisting, Goto, tableVars
    <2> QED
      BY <2>0, <2>1, <2>2 DEF StopOK, Stored, Restarts
  <1>2. CASE ProbeRunning(w)
    <2>1. /\ loc' = loc /\ UNCHANGED <<db, servers, at>>
          /\ pc'[w] = IF Running(loc[w].id) /\ loc[w].restart THEN "detach" ELSE "write"
      BY <1>2, <1>t DEF ProbeRunning, Goto, tableVars, srvVars
    <2>2. pc[w] = "probe" /\ loc[w].op = "update"
      BY <1>2, <1>p DEF ProbeRunning, OnPath
    <2> QED
      BY <2>1, <2>2 DEF StopOK, Stored, Restarts, Running
  <1>3. CASE StopService(w)
    <2>1. /\ loc' = loc /\ UNCHANGED <<db, at>> /\ pc[w] = "detach" /\ pc'[w] = "shut"
          /\ servers' = servers \ {s \in servers : at[s].id = loc[w].id}
      BY <1>3, <1>t DEF StopService, Detach, Goto, tableVars
    <2>2. ~ Running(loc[w].id)'
      BY <2>1 DEF Running
    <2> QED
      BY <2>1, <2>2 DEF StopOK, Stored, Restarts
  <1>4. CASE ShutdownServer(w)
    <2>1. UNCHANGED <<db, servers, pc, loc>>
      BY <1>4 DEF ShutdownServer, tableVars
    <2>2. \A s \in servers : at'[s] = at[s]
      BY <1>4, <2>1, MapStep DEF Next, Step, Unbind
    <2> QED
      BY <2>1, <2>2 DEF StopOK, Stored, Restarts, Running
  <1>5. CASE StopDone(w) /\ ~ Return(w)
    <2>1. loc' = loc /\ UNCHANGED <<db, servers, at>> /\ pc[w] = "shut"
      BY <1>5 DEF StopDone, Return, tableVars, srvVars
    <2>2. \/ loc[w].op = "modify"
          \/ loc[w].op = "update" /\ pc'[w] = "write"
          \/ loc[w].op = "delete" /\ pc'[w] = "erase"
      BY <1>5, <1>t DEF StopDone, Goto
    <2> QED
      BY <2>1, <2>2 DEF StopOK, Stored, Restarts, Running
  <1>6. CASE LookUp(w) /\ ~ Return(w)
    <2>1. loc'[w] = loc[w] /\ pc'[w] = "detach" /\ loc[w].op = "delete"
      BY <1>6, <1>t, <1>p DEF LookUp, Goto, OnPath
    <2> QED
      BY <2>1 DEF StopOK
  <1>7. CASE WriteRow(w) /\ ~ Return(w)
    <2>1. loc' = loc /\ (pc'[w] = "fetch" \/ loc[w].op = "modify")
      BY <1>7, <1>t DEF WriteRow, Goto
    <2> QED
      BY <2>1, StopElsewhere
  <1>8. CASE StopServicesOnInterface(w)
    <2>1. loc' = loc /\ loc[w].op = "removeInterface"
      BY <1>8, <1>p DEF StopServicesOnInterface, Detach, OnPath
    <2> QED
      BY <2>1, StopElsewhere
  <1>9. CASE Return(w)
    <2>1. pc'[w] = "idle"
      BY <1>9, <1>t DEF Return
    <2> QED
      BY <2>1, StopElsewhere
  <1>10. CASE Begin(w)
    <2>1. pc'[w] \notin {"probe", "detach", "shut", "erase"}
      BY <1>10, <1>t DEF Begin, Create, Expose, Modify, Update, Delete, AddInterface,
             RemoveInterface, SetInterfaceIPs, Start, Stop, Call, Goto
    <2>2. pc'[w] = "write" => loc'[w].op = "modify"
      <3>1. CASE Modify(w)
        BY <1>t, <3>1 DEF Modify, Call, Idle
      <3>2. CASE SetInterfaceIPs(w)
        BY <3>2 DEF SetInterfaceIPs
      <3> QED
        BY <1>10, <1>t, <3>1, <3>2 DEF Begin, Create, Expose, Update, Delete, AddInterface,
               RemoveInterface, Start, Stop, Call, Goto
    <2> QED
      BY <2>1, <2>2, StopElsewhere
  <1>11. CASE Read(w) /\ ~ Return(w) /\ ~ LoadExisting(w) /\ ~ ProbeRunning(w) /\ ~ LookUp(w)
    <2>1. pc'[w] \notin {"probe", "detach", "shut", "write", "erase"}
      BY <1>11, <1>t DEF Read, CheckExposed, AllocatePort, Reread, FetchRow, CheckStarted,
             CopyInterfaces, CheckStartedOnInterface, ListServicesOnInterface, ListServices,
             NextService, Goto
    <2> QED
      BY <2>1, StopElsewhere
  <1>12. CASE Write(w) /\ ~ Return(w) /\ ~ WriteRow(w)
    <2>1. pc'[w] \notin {"probe", "detach", "shut", "write", "erase"}
      BY <1>12, <1>t DEF Write, InsertRow, EraseRow, Sync, Goto
    <2> QED
      BY <2>1, StopElsewhere
  <1>13. CASE Bind(w) /\ ~ Return(w)
    <2>1. pc'[w] \notin {"probe", "detach", "shut", "write", "erase"}
      BY <1>13, <1>t DEF Bind, Listen, ListenFails, RetryListen, GiveUp, Record, StartDone, Goto
    <2> QED
      BY <2>1, StopElsewhere
  <1>14. CASE CancelContext(w) \/ StopReturns(w) \/ DbError(w)
    <2>1. pc'[w] \notin {"probe", "detach", "shut", "write", "erase"}
      BY <1>14, <1>t DEF CancelContext, StopReturns, DbError, Goto, Return
    <2> QED
      BY <2>1, StopElsewhere
  <1> QED
    BY <1>1, <1>2, <1>3, <1>4, <1>5, <1>6, <1>7, <1>8, <1>9, <1>10, <1>11, <1>12, <1>13, <1>14
       DEF Step, Unbind, StopDone

(* A server is in the map because its service is enabled and unchanged, or *)
(* because ModifyService is about to stop it.                              *)
LEMMA ServersKept ==
    ASSUME TypeInv, ListenerInv, RunInv, [Next]_vars,
           NEW w \in Workers, Begin(w) \/ Step(w), ~ WriteRow(w), ~ EraseRow(w)
    PROVE  ServersOK'
  <1> SUFFICES ASSUME NEW s \in servers'
               PROVE  (Faithful(at[s].id, at[s].row) \/ Stopping(at[s].id))'
    BY DEF ServersOK
  <1>1. /\ s \in Servers /\ at'[s] = at[s]
        /\ s \in servers \/ \E v \in Workers : Record(v) /\ s = hand[v]
    BY MapStep
  <1>2. s \in servers \/ \E v \in Workers : hand[v] = s /\ s # None
    BY <1>1, ProxyAssumption
  <1>3. at[s] \in Started
    BY <1>1, <1>2 DEF RunInv, KnownInv, ListenerInv, HandsOK, MapOK, Taken
  <1>4. at[s].id \in Ids
    BY <1>3 DEF Started
  <1>5. CASE Faithful(at[s].id, at[s].row)
    BY <1>1, <1>4, <1>5, RowsStay DEF Faithful, Stored
  <1>6. CASE s \in servers /\ Stopping(at[s].id)
    <2>1. PICK v \in Workers : pc[v] = "detach" /\ loc[v].op = "modify" /\ loc[v].id = at[s].id
      BY <1>6 DEF Stopping
    <2>2. v # w
      <3> SUFFICES ASSUME v = w PROVE FALSE
        OBVIOUS
      <3>1. StopService(w)
        BY <2>1, OnlyStopService
      <3> QED
        BY <1>6, <2>1, <3>1 DEF StopService, Detach
    <2>3. pc'[v] = pc[v] /\ loc'[v] = loc[v]
      BY <2>2, OthersStay
    <2> QED
      BY <1>1, <2>1, <2>3 DEF Stopping
  <1> QED
    BY <1>2, <1>5, <1>6 DEF RunInv, ServersOK, StartOK

(* ModifyService and handleUpdateService write the row. *)
LEMMA WriteRowRun ==
    ASSUME TypeInv, ListenerInv, PathInv, RunInv, ChangesAlone, [Next]_vars,
           NEW w \in Workers, WriteRow(w)
    PROVE  ServersOK' /\ StartOK(w)'
  <1>s. Step(w) /\ pc[w] = "write"
    BY DEF Step, Write, WriteRow
  <1>t. /\ loc \in [Workers -> Locals] /\ pc \in [Workers -> Labels]
        /\ db \in [Ids -> Row \cup {Unborn, Gone}]
        /\ loc[w] \in Locals /\ loc[w].id \in Ids
    BY StartTypes DEF TypeInv, TypeOK, RunInv
  <1>p. /\ loc[w].op \in {"modify", "update"} /\ loc[w].binds = {} /\ loc[w].todo = {}
        /\ Changing(w) /\ hand[w] = None
    BY <1>s, EmptyHanded DEF PathInv, OnPath, AtBind, Changing
  <1>h. UNCHANGED <<servers, at, hand>>
    BY DEF WriteRow, srvVars, ownVars
  <1>1. StartOK(w)'
    <2>1. pc'[w] \in {"idle", "detach", "fetch"} /\ loc'[w].binds = {} /\ loc'[w].todo = {}
      BY <1>t, <1>p DEF WriteRow, Goto, Return, Idle
    <2> QED
      BY <1>p, <1>h, <2>1 DEF StartOK
  <1>2. ASSUME NEW s \in servers
        PROVE  (Faithful(at[s].id, at[s].row) \/ Stopping(at[s].id))'
    <2> DEFINE i == at[s].id
    <2>1. at[s] \in Started /\ i \in Ids
      BY DEF RunInv, KnownInv, ListenerInv, MapOK, Taken, Started, TypeInv, TypeOK
    <2>2. Faithful(i, at[s].row)
      <3>1. ~ Stopping(i)
        BY <1>s, <1>p DEF Stopping, ChangesAlone, Changing
      <3> QED
        BY <3>1 DEF RunInv, ServersOK
    <2>3. CASE i # loc[w].id \/ db' = db
      <3>1. db'[i] = db[i]
        BY <1>t, <2>1, <2>3 DEF WriteRow
      <3> QED
        BY <1>h, <2>2, <3>1 DEF Faithful, Stored
    <2>4. CASE i = loc[w].id /\ db' # db
      <3>1. loc[w].req.valid /\ db'[i] = Patch(db[i], loc[w].req)
        BY <1>t, <2>1, <2>2, <2>4 DEF WriteRow, Faithful, Stored
      <3>2. CASE loc[w].op = "modify"
        <4>1. Stopping(i)'
          BY <1>t, <1>h, <2>4, <3>1, <3>2 DEF WriteRow, Goto, Stopping
        <4> QED
          BY <1>h, <4>1
      <3>3. CASE loc[w].op = "update"
        <4>1. ~ Restarts(i, loc[w].req)
          BY <1>s, <2>4, <3>3 DEF RunInv, StopOK, Running
        <4>2. db[i] \in Row /\ db[i].enabled /\ at[s].row.target = db[i].target
              /\ loc[w].req \in Request
          BY <1>s, <1>p, <2>2, WorkerOK DEF Faithful, Stored, LocalOK
        <4>3. /\ db'[i].enabled = db[i].enabled /\ db'[i].target = db[i].target
          BY <3>1, <4>1, <4>2 DEF Restarts, Patch, Row, Request
        <4>4. db'[i] \in Row
          BY <3>1, <4>2, PatchType
        <4> QED
          BY <1>h, <4>2, <4>3, <4>4 DEF Faithful, Stored
      <3> QED
        BY <1>p, <3>2, <3>3
    <2> QED
      BY <2>3, <2>4
  <1>3. ServersOK'
    BY <1>h, <1>2 DEF ServersOK
  <1> QED
    BY <1>1, <1>3

(* DeleteService erases the row of a service that it has stopped. *)
LEMMA EraseRowRun ==
    ASSUME TypeInv, ListenerInv, PathInv, RunInv, ChangesAlone, [Next]_vars,
           NEW w \in Workers, EraseRow(w)
    PROVE  ServersOK' /\ StartOK(w)'
  <1>s. pc[w] = "erase" /\ loc' = loc /\ UNCHANGED <<servers, at, hand>>
    BY DEF EraseRow, srvVars, ownVars
  <1>t. /\ pc \in [Workers -> Labels] /\ db \in [Ids -> Row \cup {Unborn, Gone}]
    BY DEF TypeInv, TypeOK
  <1>p. /\ loc[w].op = "delete" /\ loc[w].binds = {} /\ loc[w].todo = {}
        /\ Changing(w) /\ hand[w] = None
    BY <1>s, EmptyHanded DEF PathInv, OnPath, AtBind, Changing
  <1>1. StartOK(w)'
    <2>1. pc'[w] = "sync"
      BY <1>t DEF EraseRow, Goto
    <2> QED
      BY <1>s, <1>p, <2>1 DEF StartOK
  <1>2. ASSUME NEW s \in servers
        PROVE  Faithful(at[s].id, at[s].row)'
    <2>1. at[s] \in Started /\ at[s].id \in Ids
      BY DEF RunInv, KnownInv, ListenerInv, MapOK, Taken, Started, TypeInv, TypeOK
    <2>2. at[s].id # loc[w].id
      BY <1>s, <1>p DEF RunInv, StopOK, Running
    <2>3. db'[at[s].id] = db[at[s].id]
      BY <1>t, <2>1, <2>2 DEF EraseRow
    <2>4. ~ Stopping(at[s].id)
      BY <1>s, <1>p DEF Stopping, ChangesAlone, Changing
    <2> QED
      BY <1>s, <2>3, <2>4 DEF RunInv, ServersOK, Faithful, Stored
  <1>3. ServersOK'
    BY <1>s, <1>2 DEF ServersOK
  <1> QED
    BY <1>1, <1>3

(* The steps of a worker that do not write a row, seen from itself. *)
LEMMA StartOwn ==
    ASSUME TypeInv, ListenerInv, PathInv, RunInv, [Next]_vars,
           NEW w \in Workers, Begin(w) \/ Step(w), ~ WriteRow(w), ~ EraseRow(w)
    PROVE  StartOK(w)'
  <1>t. /\ loc \in [Workers -> Locals] /\ pc \in [Workers -> Labels] /\ loc[w] \in Locals
        /\ StartOK(w) /\ KnownInv
    BY DEF TypeInv, TypeOK, RunInv
  <1>d. \A i \in Ids : Stored(i) => db'[i] = db[i]
    BY RowsStay
  <1>1. pc'[w] = "insert" => loc'[w].row.enabled
    <2>1. CASE AllocatePort(w)
      BY <1>t, <2>1 DEF AllocatePort, Goto, Return, Locals
    <2>2. CASE ~ AllocatePort(w)
      BY <1>t, <2>2, ComesToInsert DEF StartOK
    <2> QED
      BY <2>1, <2>2
  <1>2. pc'[w] \in {"started", "interfaces"} => Faithful(loc[w].id, loc[w].row)'
    <2>1. CASE InsertRow(w)
      <3>1. loc[w].row \in Row /\ loc[w].row.enabled /\ pc[w] = "insert"
        BY <1>t, <2>1, WorkerOK DEF InsertRow, LocalOK, StartOK
      <3> QED
        BY <2>1, <3>1, CarriedInsert DEF Faithful, Stored
    <2>2. CASE ~ InsertRow(w)
      <3> SUFFICES ASSUME pc'[w] \in {"started", "interfaces"}
                   PROVE  Faithful(loc[w].id, loc[w].row)'
        OBVIOUS
      <3>1. CASE /\ pc[w] \in {"started", "interfaces"}
                 /\ loc'[w].id = loc[w].id /\ loc'[w].row = loc[w].row
        BY <1>d, <1>t, <3>1, StartTypes DEF StartOK, Faithful, Stored
      <3>2. CASE <<loc'[w].id, loc'[w].row>> \in loc[w].todo
        <4>1. Faithful(<<loc'[w].id, loc'[w].row>>[1], <<loc'[w].id, loc'[w].row>>[2])
          BY <1>t, <3>2 DEF StartOK
        <4> QED
          BY <1>d, <4>1, CarriedTypes DEF Faithful, Stored
      <3>3. CASE /\ Stored(loc[w].id) /\ db[loc[w].id].enabled
                 /\ loc'[w].id = loc[w].id /\ loc'[w].row = db[loc[w].id]
        BY <1>d, <3>3, StartTypes, <1>t DEF Faithful, Stored
      <3> QED
        BY <2>2, <3>1, <3>2, <3>3, CarriedFrom
    <2> QED
      BY <2>1, <2>2
  <1>3. \A b \in loc'[w].binds : Faithful(b.id, b.row)'
    <2> SUFFICES ASSUME NEW b \in loc'[w].binds
                 PROVE  Faithful(b.id, b.row)'
      OBVIOUS
    <2>1. Faithful(b.id, b.row)
      BY <1>t, CarriedFrom DEF StartOK, Faithful
    <2>2. b.id \in Ids
      BY CarriedTypes
    <2> QED
      BY <1>d, <2>1, <2>2 DEF Faithful, Stored
  <1>4. \A e \in loc'[w].todo : Faithful(e[1], e[2])'
    <2> SUFFICES ASSUME NEW e \in loc'[w].todo
                 PROVE  Faithful(e[1], e[2])'
      OBVIOUS
    <2>1. Faithful(e[1], e[2])
      BY <1>t, CarriedFrom DEF StartOK, Faithful
    <2>2. e[1] \in Ids
      BY CarriedTypes
    <2> QED
      BY <1>d, <2>1, <2>2 DEF Faithful, Stored
  <1>5. hand'[w] # None => Faithful(at[hand[w]].id, at[hand[w]].row)'
    <2>1. CASE Listen(w)
      <3>1. PICK r \in Servers, b \in Candidates(w) : Takes(w, r, b)
        BY <2>1, ListenTakes
      <3>2. b \in loc[w].binds
        BY <2>1 DEF Candidates, PathInv, OnPath
      <3>3. at'[r].id = b.id /\ at'[r].row = b.row /\ hand'[w] = r
        BY <3>1 DEF Takes, TypeInv, TypeOK
      <3>4. Faithful(b.id, b.row) /\ b.id \in Ids
        BY <1>t, <3>2, StartTypes DEF StartOK
      <3> QED
        BY <1>d, <3>3, <3>4 DEF Faithful, Stored
    <2>2. CASE ~ Listen(w) /\ hand'[w] # None
      <3>1. hand'[w] = hand[w] /\ at'[hand[w]] = at[hand[w]]
        BY <2>2, HandStep
      <3>2. Faithful(at[hand[w]].id, at[hand[w]].row) /\ at[hand[w]].id \in Ids
        BY <1>t, <2>2, <3>1, StartTypes DEF StartOK
      <3> QED
        BY <1>d, <3>1, <3>2 DEF Faithful, Stored
    <2> QED
      BY <2>1, <2>2
  <1> QED
    BY <1>1, <1>2, <1>3, <1>4, <1>5 DEF StartOK

(* Every step keeps what runs enabled and with the stored target. *)
LEMMA RunStep ==
    ASSUME TypeInv, ListenerInv, PathInv, RunInv, ChangesAlone, [Next]_vars
    PROVE  RunInv'
  <1>k. KnownInv'
    BY KnownStep DEF RunInv
  <1>1. ASSUME NEW w \in Workers, Begin(w) \/ Step(w)
        PROVE  RunInv'
    <2>1. \A v \in Workers : StopOK(v)'
      BY <1>1, StopOwn, StopOthers DEF RunInv
    <2>2. CASE WriteRow(w) \/ EraseRow(w)
      <3>1. Changing(w)
        BY <2>2 DEF WriteRow, EraseRow, PathInv, OnPath, Changing
      <3>2. ASSUME NEW v \in Workers \ {w}
            PROVE  StartOK(v)'
        <4>1. pc[v] = "idle" /\ loc[v] = Idle /\ hand[v] = None
          BY <3>1, OthersIdle
        <4>2. hand' = hand
          BY <2>2 DEF WriteRow, EraseRow, ownVars
        <4> QED
          BY <1>1, <4>1, <4>2, OthersStay, IdleOKsNext
      <3> QED
        BY <1>k, <2>1, <2>2, <3>2, WriteRowRun, EraseRowRun DEF RunInv
    <2>3. CASE ~ WriteRow(w) /\ ~ EraseRow(w)
      <3>1. ASSUME NEW v \in Workers \ {w}
            PROVE  StartOK(v)'
        <4>1. hand'[v] = hand[v]
          BY <1>1, HandOthers
        <4> QED
          BY <1>1, <2>3, <4>1, StartOthers DEF RunInv
      <3> QED
        BY <1>k, <1>1, <2>1, <2>3, <3>1, ServersKept, StartOwn DEF RunInv
    <2> QED
      BY <2>2, <2>3
  <1>2. CASE UNCHANGED vars
    BY <1>2, <1>k DEF vars, RunInv, ServersOK, StartOK, StopOK, Faithful, Stopping, Stored,
                Restarts, Running
  <1>3. ASSUME NEW r \in Servers, Goroutine(r)
        PROVE  RunInv'
    <2>1. UNCHANGED <<db, servers, pc, loc, hand>>
      BY <1>3 DEF Goroutine, Serve, ShutdownOnCancel, tableVars, ownVars
    <2>2. \A s \in servers : at'[s] = at[s]
      BY <1>3, <2>1, MapStep
    <2>3. \A v \in Workers : hand[v] # None => at'[hand[v]] = at[hand[v]]
      BY <1>3, <2>1, HandStep, EmptyHanded DEF Listen
    <2>4. ServersOK'
      BY <2>1, <2>2 DEF RunInv, ServersOK, Faithful, Stopping, Stored
    <2>5. \A v \in Workers : StartOK(v)'
      BY <2>1, <2>3 DEF RunInv, StartOK, Faithful, Stored
    <2>6. \A v \in Workers : StopOK(v)'
      BY <2>1, <2>2 DEF RunInv, StopOK, Stored, Restarts, Running
    <2> QED
      BY <1>k, <2>4, <2>5, <2>6 DEF RunInv
  <1> QED
    BY <1>1, <1>2, <1>3 DEF Next

(* Initially nothing runs. *)
LEMMA RunInit == Init => RunInv
  <1> SUFFICES ASSUME Init PROVE RunInv
    OBVIOUS
  <1>1. \A w \in Workers : StartOK(w) /\ StopOK(w)
    BY IdleOKs DEF Init
  <1>2. KnownInv /\ ServersOK
    BY DEF Init, KnownInv, ServersOK
  <1> QED
    BY <1>1, <1>2 DEF RunInv

(* The invariant says it of every listener that is reported as running. *)
LEMMA RunInvMeans ==
    ASSUME TypeInv, RunInv
    PROVE  RunningIsEnabled /\ ServesStoredTarget
  <1>1. Quiet => \A s \in servers : Faithful(at[s].id, at[s].row)
    BY DEF Quiet, AllIdle, RunInv, ServersOK, Stopping
  <1> QED
    BY <1>1 DEF RunningIsEnabled, ServesStoredTarget, Running, Serving, Faithful

(* It holds as long as changes of a service do not overlap another *)
(* operation.                                                      *)
LEMMA RunsAsStored == Spec /\ []ChangesAlone => [](TypeInv /\ RunInv)
  <1>1. Init => TypeInv /\ ListenerInv /\ PathInv /\ RunInv
    BY TypeInit, ListenerInit, PathInit, RunInit
  <1>2. TypeInv /\ ListenerInv /\ PathInv /\ RunInv /\ ChangesAlone /\ [Next]_vars
           => TypeInv' /\ ListenerInv' /\ PathInv' /\ RunInv'
    BY TypeStep, ListenerStep, PathStep, RunStep
  <1> QED
    BY <1>1, <1>2, PTL DEF Spec

(* Once no operation is under way, whatever has a key in p.servers is a    *)
(* stored and enabled service, provided that every request that changes or *)
(* deletes a service ran alone.  Creations, interfaces, starts and stops   *)
(* may overlap one another; any database call and any listen may fail, an  *)
(* update may end half way, interfaces may come out of order.              *)
THEOREM RunningServicesAreEnabled == Spec /\ []ChangesAlone => []RunningIsEnabled
  <1>1. TypeInv /\ RunInv => RunningIsEnabled
    BY RunInvMeans
  <1> QED
    BY <1>1, RunsAsStored, PTL

(* Under the same condition, a running service forwards to the target that *)
(* its row has.                                                            *)
THEOREM TargetsAreStored == Spec /\ []ChangesAlone => []ServesStoredTarget
  <1>1. TypeInv /\ RunInv => ServesStoredTarget
    BY RunInvMeans
  <1> QED
    BY <1>1, RunsAsStored, PTL

-----------------------------------------------------------------------------
(* What the cloud was told.                                                  *)

\* The starts of a creation or an update do not fail, and nothing else does.
StartsSucceed == \A w \in Workers : loc[w].op \in {"create", "expose", "update"} => ~ loc[w].failed

\* The row was changed, and the cloud is not yet told.
Untold(w) ==
    \/ loc[w].op \in {"create", "expose"} /\ pc[w] \notin {"idle", "exists", "alloc", "insert"}
    \/ loc[w].op = "modify" /\ pc[w] \notin {"idle", "write"}
    \/ loc[w].op = "update" /\ pc[w] \in {"fetch", "started", "interfaces", "bind", "record", "wait", "sync"}
    \/ loc[w].op = "delete" /\ pc[w] = "sync"

WillTell == \A i \in Ids : told[i] = db[i] \/ \E w \in Workers : Untold(w) /\ loc[w].id = i

\* What worker w is going to tell is what is stored.
TellsStored(w) ==
    /\ loc[w].op = "delete" /\ pc[w] = "sync" => db[loc[w].id] = Gone
    /\ loc[w].op # "delete" /\ pc[w] = "sync" => loc[w].row = db[loc[w].id]
    /\ loc[w].op \in {"create", "expose", "update"} /\ pc[w] \in {"started", "interfaces"} \cup AtBind
         => loc[w].row = db[loc[w].id]

\* A change of a service that is not there changes nothing.
NothingToTell(w) ==
    loc[w].op \in {"modify", "update"} /\ ~ Stored(loc[w].id) => told[loc[w].id] = db[loc[w].id]

ToldInv == WillTell /\ \A w \in Workers : TellsStored(w) /\ NothingToTell(w)

(* The row that a worker is about to tell exists. *)
LEMMA TellsARow ==
    ASSUME TypeInv, PathInv, NEW w \in Workers,
           \/ loc[w].op # "delete" /\ pc[w] = "sync"
           \/ /\ loc[w].op \in {"create", "expose", "update"}
              /\ pc[w] \in {"started", "interfaces"} \cup AtBind
    PROVE  loc[w].row \in Row
  BY WorkerOK DEF LocalOK, AtBind

(* A step of another worker leaves a notification to be sent. *)
LEMMA TellsOthers ==
    ASSUME TypeInv, PathInv, ChangesAlone, NEW w \in Workers, Begin(w) \/ Step(w),
           NEW v \in Workers \ {w}, TellsStored(v), NothingToTell(v)
    PROVE  TellsStored(v)' /\ NothingToTell(v)'
  <1>1. pc'[v] = pc[v] /\ loc'[v] = loc[v]
    BY OthersStay
  <1>2. CASE Changing(v)
    <2>1. Begin(w) /\ ~ Sync(w)
      BY <1>2, StepsAreBusy DEF ChangesAlone, Step, Write
    <2>2. db' = db /\ told' = told
      BY <2>1, BeginTouchesNothing, TellerOfRows
    <2> QED
      BY <1>1, <2>2 DEF TellsStored, NothingToTell, Stored
  <1>3. CASE pc[v] = "idle"
    <2>1. loc'[v] = Idle /\ pc'[v] = "idle"
      BY <1>1, <1>3 DEF PathInv, OnPath
    <2>2. loc'[v].op = "none"
      BY <2>1 DEF Idle
    <2> QED
      BY <2>1, <2>2 DEF TellsStored, NothingToTell
  <1>4. CASE ~ Changing(v) /\ pc[v] # "idle"
    <2>1. loc[v].op \notin {"modify", "update", "delete"}
      BY <1>4 DEF Changing
    <2>2. ~ WriteRow(w) /\ ~ EraseRow(w)
      BY <1>4 DEF WriteRow, EraseRow, PathInv, OnPath, Changing, ChangesAlone
    <2>3. loc[v].id \in Ids
      BY WorkerOK DEF Locals
    <2>4. Stored(loc[v].id) => db'[loc[v].id] = db[loc[v].id]
      BY <2>2, <2>3, RowsStay
    <2> QED
      BY <1>1, <2>1, <2>4, TellsARow DEF TellsStored, NothingToTell, Stored
  <1> QED
    BY <1>2, <1>3, <1>4

(* The worker that is to send a notification sends it, or still is to. *)
LEMMA TellsOwn ==
    ASSUME TypeInv, PathInv, NEW w \in Workers, Begin(w) \/ Step(w), TellsStored(w)
    PROVE  TellsStored(w)'
  <1>t. /\ loc \in [Workers -> Locals] /\ pc \in [Workers -> Labels] /\ loc[w] \in Locals
        /\ db \in [Ids -> Row \cup {Unborn, Gone}] /\ loc[w].id \in Ids
    BY DEF TypeInv, TypeOK, Locals
  <1>p. OnPath(pc[w], loc[w]) /\ OnPath(pc[w], loc[w])'
    <2>1. PathInv'
      BY PathBegin, PathRead, PathWrite, PathBind, PathUnbind DEF Step
    <2> QED
      BY <2>1 DEF PathInv
  <1>1. CASE pc'[w] \notin {"sync", "started", "interfaces"} \cup AtBind
    BY <1>1 DEF TellsStored
  <1>2. CASE Begin(w)
    <2>1. pc'[w] \notin {"sync", "started", "interfaces"} \cup AtBind
      BY <1>2, <1>t DEF Begin, Create, Expose, Modify, Update, Delete, AddInterface,
             RemoveInterface, SetInterfaceIPs, Start, Stop, Call, Goto, AtBind
    <2> QED
      BY <1>1, <2>1
  <1>3. CASE InsertRow(w)
    <2>1. PICK i \in Ids : db' = [db EXCEPT ![i] = loc[w].row] /\ loc' = [loc EXCEPT ![w].id = i]
      BY <1>3 DEF InsertRow
    <2>2. /\ loc'[w].id = i /\ loc'[w].row = loc[w].row /\ db'[i] = loc[w].row
          /\ pc'[w] = "started"
      BY <1>3, <1>t, <2>1 DEF InsertRow, Goto, Locals
    <2> QED
      BY <2>2 DEF TellsStored
  <1>4. CASE EraseRow(w)
    <2>1. loc' = loc /\ db'[loc[w].id] = Gone /\ pc'[w] = "sync" /\ loc[w].op = "delete"
      BY <1>4, <1>t, <1>p DEF EraseRow, Goto, OnPath
    <2> QED
      BY <2>1 DEF TellsStored, AtBind
  <1>5. CASE FetchRow(w) /\ ~ Return(w)
    <2>1. /\ loc'[w].id = loc[w].id /\ loc'[w].row = db[loc[w].id] /\ loc'[w].op = loc[w].op
          /\ db' = db /\ loc[w].op # "delete"
      BY <1>5, <1>t, <1>p DEF FetchRow, Locals, OnPath, tableVars
    <2> QED
      BY <2>1 DEF TellsStored
  <1>6. CASE NextService(w)
    <2>1. loc'[w].op = loc[w].op \/ pc'[w] = "idle"
      BY <1>6, KeepsOp DEF Step, Read
    <2>2. pc[w] = "next" /\ pc'[w] \in {"idle", "interfaces"}
      BY <1>6, <1>t DEF NextService, Goto, Return
    <2> QED
      BY <1>p, <2>1, <2>2 DEF TellsStored, OnPath, AtBind
  <1>7. CASE Reread(w)
    <2>1. loc'[w].op = loc[w].op \/ pc'[w] = "idle"
      BY <1>7, KeepsOp DEF Step, Read
    <2>2. pc[w] = "reread" /\ pc'[w] # "sync"
      BY <1>7, <1>t DEF Reread, Goto
    <2> QED
      BY <1>p, <2>1, <2>2 DEF TellsStored, OnPath, AtBind
  <1>8. CASE AllocatePort(w)
    <2>1. pc'[w] \in {"idle", "insert"}
      BY <1>8, <1>t DEF AllocatePort, Goto, Return
    <2> QED
      BY <1>1, <2>1 DEF AtBind
  <1>9. CASE \/ CheckStarted(w) \/ CopyInterfaces(w) \/ Bind(w)
    <2>1. db' = db
      BY <1>9, WritersOfRows DEF Step, Read, CheckStarted, CopyInterfaces, Bind, Listen, ListenFails,
             RetryListen, GiveUp, Record, StartDone, tableVars
    <2>2. \/ pc'[w] = "idle" /\ loc'[w] = Idle
          \/ loc'[w].op = loc[w].op /\ loc'[w].id = loc[w].id /\ loc'[w].row = loc[w].row
      <3>1. pc[w] \in {"started", "interfaces"} \cup AtBind
        BY <1>9 DEF CheckStarted, CopyInterfaces, Bind, Listen, ListenFails,
               RetryListen, GiveUp, Record, StartDone, AtBind
      <3> QED
        BY <1>9, <3>1, KeepsOp DEF Step, Read, InsertRow, NextService, AllocatePort, Reread,
               FetchRow, AtBind
    <2>3. pc[w] \in {"started", "interfaces"} \cup AtBind
      BY <1>9 DEF CheckStarted, CopyInterfaces, Bind, Listen, ListenFails,
             RetryListen, GiveUp, Record, StartDone, AtBind
    <2>4. pc'[w] = "sync" => loc[w].op \in {"create", "expose", "update"}
      BY <1>9, <1>t, <1>p DEF CheckStarted, CopyInterfaces, Bind, Listen, ListenFails,
             RetryListen, GiveUp, Record, StartDone, AtBind, Goto, Return, OnPath, Starters
    <2> QED
      BY <2>1, <2>2, <2>3, <2>4 DEF TellsStored, AtBind
  <1>10. CASE ListServicesOnInterface(w)
    <2>1. pc'[w] = "bind" /\ loc'[w].op = loc[w].op /\ loc[w].op = "addInterface"
      BY <1>10, <1>t, <1>p DEF ListServicesOnInterface, Goto, Locals, OnPath
    <2> QED
      BY <2>1 DEF TellsStored
  <1>11. CASE \/ CheckExposed(w) \/ LoadExisting(w) \/ ProbeRunning(w) \/ LookUp(w)
              \/ CheckStartedOnInterface(w) \/ ListServices(w) \/ WriteRow(w) \/ Sync(w)
              \/ Unbind(w) \/ CancelContext(w) \/ StopReturns(w) \/ DbError(w) \/ Return(w)
    <2>1. pc'[w] \notin {"sync", "started", "interfaces"} \cup AtBind
      BY <1>11, <1>t DEF CheckExposed, LoadExisting, ProbeRunning, LookUp,
             CheckStartedOnInterface, ListServices, WriteRow, Sync, Unbind, StopService,
             StopServicesOnInterface, Detach, ShutdownServer, StopDone, CancelContext,
             StopReturns, DbError, Goto, Return, AtBind
    <2> QED
      BY <1>1, <2>1
  <1> QED
    BY <1>2, <1>3, <1>4, <1>5, <1>6, <1>7, <1>8, <1>9, <1>10, <1>11 DEF Step, Read, Write

(* A request for a service that is not there has nothing to tell of it. *)
LEMMA NothingOwn ==
    ASSUME TypeInv, PathInv, ChangesAlone', WillTell, NEW w \in Workers, Begin(w) \/ Step(w),
           NothingToTell(w)
    PROVE  NothingToTell(w)'
  <1>t. /\ loc \in [Workers -> Locals] /\ pc \in [Workers -> Labels]
        /\ db \in [Ids -> Row \cup {Unborn, Gone}] /\ told \in [Ids -> Row \cup {Unborn, Gone}]
        /\ loc[w].id \in Ids
    BY DEF TypeInv, TypeOK, Locals
  <1>p. OnPath(pc[w], loc[w])
    BY DEF PathInv
  <1>i. Idle.op = "none"
    BY DEF Idle
  <1> SUFFICES ASSUME loc'[w].op \in {"modify", "update"}, ~ Stored(loc[w].id)'
               PROVE  told'[loc'[w].id] = db'[loc'[w].id]
    BY DEF NothingToTell
  <1>1. CASE Begin(w)
    <2>0. db' = db /\ told' = told /\ pc[w] = "idle"
      BY <1>1, BeginTouchesNothing, TellerOfRows DEF Sync
    <2>1. loc'[w].id \in Ids
      <3>1. TypeInv'
        BY <1>1, BeginType
      <3> QED
        BY <3>1 DEF TypeInv, TypeOK, Locals
    <2>2. pc'[w] # "idle"
      <3>1. OnPath(pc'[w], loc'[w])
        BY <1>1, PathBegin DEF PathInv
      <3> QED
        BY <3>1 DEF OnPath, Idle
    <2>3. Changing(w)'
      BY <2>2 DEF Changing
    <2>4. ASSUME NEW v \in Workers, Untold(v)
          PROVE  FALSE
      <3>1. pc[v] # "idle"
        BY <2>4 DEF Untold
      <3>2. v # w /\ pc'[v] = pc[v]
        BY <1>1, <2>0, <3>1, OthersStay
      <3> QED
        BY <2>3, <3>1, <3>2 DEF ChangesAlone
    <2> QED
      BY <2>0, <2>1, <2>4 DEF WillTell
  <1>2. CASE Step(w)
    <2>1. loc'[w].op = loc[w].op
      BY <1>2, <1>i, KeepsOp
    <2>2. loc'[w].id = loc[w].id
      BY <1>2, <1>i, <1>p, <2>1, KeepsOp DEF InsertRow, NextService, OnPath
    <2>3. ~ Sync(w)
      BY <1>t DEF Sync, Return, Idle
    <2>4. told' = told
      BY <1>2, <2>3, TellerOfRows
    <2>5. db'[loc[w].id] = db[loc[w].id] /\ ~ Stored(loc[w].id)
      <3>1. CASE WriteRow(w)
        <4>1. CASE Stored(loc[w].id) /\ db' # db
          <5>1. db'[loc[w].id] = Patch(db[loc[w].id], loc[w].req) /\ loc[w].req \in Request
            BY <1>t, <1>p, <2>1, <3>1, <4>1, WorkerOK DEF WriteRow, LocalOK
          <5>2. db'[loc[w].id] \in Row
            BY <4>1, <5>1, PatchType DEF Stored
          <5> QED
            BY <2>2, <5>2 DEF Stored
        <4>2. CASE ~ Stored(loc[w].id) \/ db' = db
          BY <1>t, <2>2, <3>1, <4>2 DEF WriteRow, Stored
        <4> QED
          BY <4>1, <4>2
      <3>2. CASE InsertRow(w) \/ EraseRow(w)
        BY <1>p, <2>1, <3>2 DEF InsertRow, EraseRow, OnPath
      <3>3. CASE db' = db
        BY <2>2, <3>3 DEF Stored
      <3> QED
        BY <1>2, <3>1, <3>2, <3>3, WritersOfRows
    <2> QED
      BY <2>1, <2>2, <2>4, <2>5 DEF NothingToTell
  <1> QED
    BY <1>1, <1>2

(* The operation that changed a row is on its way to the cloud. *)
LEMMA StaysUntold ==
    ASSUME TypeInv, PathInv, DbMayFail = FALSE, StartsSucceed,
           NEW w \in Workers, Step(w), Untold(w), NothingToTell(w), TellsStored(w),
           SyncMayDrop = FALSE
    PROVE  \/ Untold(w)' /\ loc'[w].id = loc[w].id
           \/ told'[loc[w].id] = db[loc[w].id]
  <1>t. /\ loc \in [Workers -> Locals] /\ pc \in [Workers -> Labels]
        /\ told \in [Ids -> Row \cup {Unborn, Gone}]
        /\ loc[w].id \in Ids
    BY DEF TypeInv, TypeOK, Locals
  <1>p. OnPath(pc[w], loc[w])
    BY DEF PathInv
  <1>u. \/ /\ loc[w].op \in {"create", "expose", "modify", "update"}
           /\ pc[w] \in {"detach", "shut", "reread", "fetch", "started", "interfaces", "sync"} \cup AtBind
        \/ loc[w].op = "delete" /\ pc[w] = "sync"
    BY <1>p, WorkerOK DEF Untold, OnPath, Labels, AtBind
  <1>r. /\ Read(w) => Reread(w) \/ FetchRow(w) \/ CheckStarted(w) \/ CopyInterfaces(w)
        /\ Write(w) => Sync(w)
        /\ ~ StopServicesOnInterface(w) /\ ~ CancelContext(w) /\ ~ StopReturns(w) /\ ~ DbError(w)
    BY <1>u DEF Read, CheckExposed, AllocatePort, LoadExisting, ProbeRunning, LookUp,
           CheckStartedOnInterface, ListServicesOnInterface, ListServices, NextService,
           Write, InsertRow, WriteRow, EraseRow, StopServicesOnInterface, CancelContext, StopReturns,
           DbError, AtBind
  <1>1. CASE Sync(w)
    BY <1>1, <1>t DEF Sync, TellsStored
  <1>2. CASE Return(w) /\ ~ Sync(w)
    <2>0. pc'[w] = "idle" /\ pc[w] # "idle"
      BY <1>2, <1>t, <1>u DEF Return, AtBind
    <2>1. ~ Reread(w) /\ ~ CheckStarted(w) /\ ~ CopyInterfaces(w)
      BY <1>t, <2>0 DEF Reread, CheckStarted, CopyInterfaces, Goto
    <2>2. ~ Bind(w)
      <3>1. ~ StartDone(w)
        BY <1>t, <1>u, <2>0 DEF StartDone, Goto, StartsSucceed
      <3> QED
        BY <1>t, <2>0, <3>1 DEF Bind, Listen, ListenFails, RetryListen, GiveUp, Record, Goto
    <2>3. ~ Unbind(w)
      BY <1>r, <1>t, <1>u, <2>0 DEF Unbind, StopService, Detach, ShutdownServer, StopDone, Goto
    <2>4. FetchRow(w) /\ ~ Stored(loc[w].id)
      BY <1>2, <1>r, <1>t, <2>0, <2>1, <2>2, <2>3 DEF Step, FetchRow, Goto
    <2> QED
      BY <1>p, <2>4 DEF NothingToTell, FetchRow, OnPath, tableVars
  <1>3. CASE ~ Return(w) /\ ~ Sync(w)
    <2>0. loc[w].op # "delete"
      <3>1. pc[w] # "sync"
        BY <1>3, <1>r DEF Step, Read, Bind, Unbind, Reread, FetchRow, CheckStarted, CopyInterfaces,
               Listen, ListenFails, RetryListen, GiveUp, Record, StartDone, StopService,
               ShutdownServer, StopDone
      <3> QED
        BY <1>u, <3>1
    <2>1. CASE Read(w)
      <3>1. pc'[w] \in {"fetch", "started", "interfaces", "bind", "sync"}
        BY <1>3, <1>r, <1>t, <2>1 DEF Reread, FetchRow, CheckStarted, CopyInterfaces, Goto
      <3>2. loc'[w].op = loc[w].op /\ loc'[w].id = loc[w].id
        BY <1>r, <1>u, <2>1, <3>1, KeepsOp DEF InsertRow, NextService, AtBind
      <3> QED
        BY <1>u, <2>0, <3>1, <3>2 DEF Untold
    <2>2. CASE Bind(w)
      <3>1. pc'[w] \in {"bind", "record", "wait", "sync", "fetch"}
        BY <1>3, <1>t, <1>u, <2>2 DEF Bind, Listen, ListenFails, RetryListen, GiveUp, Record,
               StartDone, Goto
      <3>2. loc'[w].op = loc[w].op /\ loc'[w].id = loc[w].id
        BY <1>u, <2>2, <3>1, KeepsOp DEF InsertRow, NextService, AtBind
      <3> QED
        BY <1>u, <2>0, <3>1, <3>2 DEF Untold
    <2>3. CASE Unbind(w)
      <3>1. loc' = loc /\ loc[w].op \in {"modify", "update", "create", "expose"}
        BY <1>3, <1>r, <1>u, <2>0, <2>3 DEF Unbind, StopService, Detach, ShutdownServer, StopDone
      <3>2. loc[w].op = "modify"
        <4>1. pc[w] \in {"detach", "shut"}
          BY <1>r, <2>3 DEF Unbind, StopService, ShutdownServer, StopDone
        <4> QED
          BY <1>p, <2>0, <3>1, <4>1 DEF OnPath, Untold
      <3>3. pc'[w] \in {"shut", "reread"}
        BY <1>3, <1>r, <1>t, <2>3, <3>2 DEF Unbind, StopService, Detach, ShutdownServer, StopDone, Goto
      <3> QED
        BY <3>1, <3>2, <3>3 DEF Untold
    <2> QED
      BY <1>3, <1>r, <2>1, <2>2, <2>3 DEF Step
  <1> QED
    BY <1>1, <1>2, <1>3

(* Who will tell of a row tells of it or will tell of it after the step. *)
LEMMA WillTellStep ==
    ASSUME TypeInv, PathInv, ChangesAlone, DbMayFail = FALSE, SyncMayDrop = FALSE, StartsSucceed,
           ToldInv, NEW w \in Workers, Begin(w) \/ Step(w)
    PROVE  WillTell'
  <1>t. /\ loc \in [Workers -> Locals] /\ pc \in [Workers -> Labels]
        /\ db \in [Ids -> Row \cup {Unborn, Gone}] /\ told \in [Ids -> Row \cup {Unborn, Gone}]
        /\ loc[w].id \in Ids
    BY DEF TypeInv, TypeOK, Locals
  <1>p. OnPath(pc[w], loc[w])
    BY DEF PathInv
  <1> SUFFICES ASSUME NEW i \in Ids, told'[i] # db'[i]
               PROVE  \E v \in Workers : Untold(v)' /\ loc'[v].id = i
    BY DEF WillTell
  <1>1. ASSUME NEW v \in Workers, v # w, Untold(v), loc[v].id = i
        PROVE  Untold(v)' /\ loc'[v].id = i
    BY <1>1, OthersStay DEF Untold
  <1>2. CASE db'[i] = db[i] /\ told[i] # db[i]
    <2>1. PICK v \in Workers : Untold(v) /\ loc[v].id = i
      BY <1>2 DEF ToldInv, WillTell
    <2>2. CASE v # w
      BY <1>1, <2>1, <2>2
    <2>3. CASE v = w
      <3>1. Step(w)
        BY <2>1, <2>3, BeginTouchesNothing DEF Untold
      <3> QED
        BY <1>2, <2>1, <2>3, <3>1, StaysUntold DEF ToldInv
    <2> QED
      BY <2>2, <2>3
  <1>3. CASE db'[i] = db[i] /\ told[i] = db[i]
    <2>1. Sync(w) /\ loc[w].id = i
      BY <1>3, <1>t, TellerOfRows DEF Sync
    <2> QED
      BY <1>3, <1>t, <2>1 DEF Sync, ToldInv, TellsStored
  <1>4. CASE db'[i] # db[i]
    <2>1. CASE InsertRow(w)
      <3>1. loc'[w].id = i /\ loc'[w].op = loc[w].op /\ pc'[w] = "started"
        BY <1>4, <1>t, <2>1 DEF InsertRow, Goto, Locals
      <3> QED
        BY <1>p, <2>1, <3>1 DEF Untold, InsertRow, OnPath
    <2>2. CASE WriteRow(w)
      <3>1. loc[w].id = i /\ loc' = loc
        BY <1>4, <1>t, <2>2 DEF WriteRow
      <3>2. pc'[w] = IF loc[w].op = "modify" THEN "detach" ELSE "fetch"
        BY <1>4, <1>t, <2>2 DEF WriteRow, Goto
      <3> QED
        BY <1>p, <2>2, <3>1, <3>2 DEF Untold, WriteRow, OnPath
    <2>3. CASE EraseRow(w)
      <3>1. loc[w].id = i /\ loc' = loc /\ pc'[w] = "sync"
        BY <1>4, <1>t, <2>3 DEF EraseRow, Goto
      <3> QED
        BY <1>p, <2>3, <3>1 DEF Untold, EraseRow, OnPath
    <2> QED
      BY <1>4, <2>1, <2>2, <2>3, WritersOfRows
  <1> QED
    BY <1>2, <1>3, <1>4

(* Every step keeps the last notification of a row true or on its way. *)
LEMMA ToldStep ==
    ASSUME TypeInv, PathInv, ChangesAlone, ChangesAlone', StartsSucceed,
           DbMayFail = FALSE, SyncMayDrop = FALSE, ToldInv, [Next]_vars
    PROVE  ToldInv'
  <1>1. ASSUME NEW w \in Workers, Begin(w) \/ Step(w)
        PROVE  ToldInv'
    BY <1>1, WillTellStep, TellsOwn, NothingOwn, TellsOthers DEF ToldInv
  <1>2. CASE UNCHANGED <<db, told, pc, loc>>
    BY <1>2 DEF ToldInv, WillTell, TellsStored, NothingToTell, Untold, Stored
  <1>3. ASSUME NEW r \in Servers, Goroutine(r)
        PROVE  UNCHANGED <<db, told, pc, loc>>
    BY <1>3 DEF Goroutine, Serve, ShutdownOnCancel, tableVars
  <1> QED
    BY <1>1, <1>2, <1>3 DEF Next, vars

(* Initially the cloud knows the table. *)
LEMMA ToldInit == Init => ToldInv
  <1> SUFFICES ASSUME Init PROVE ToldInv
    OBVIOUS
  <1>1. Idle.op = "none"
    BY DEF Idle
  <1> QED
    BY <1>1 DEF Init, ToldInv, WillTell, TellsStored, NothingToTell

(* Once no operation is under way, what the cloud was last told of every   *)
(* service is its row, provided that changes run alone, that the service   *)
(* an AddService or an update starts does start, and that neither the      *)
(* database nor the sync channel refuses a call: handleUpdateService and   *)
(* AddService return without a sync when the start fails.                  *)
THEOREM ToldWhatIsStored ==
    ASSUME DbMayFail = FALSE, SyncMayDrop = FALSE
    PROVE  Spec /\ [](ChangesAlone /\ StartsSucceed) => []ToldIsStored
  <1>1. Init => TypeInv /\ PathInv /\ ToldInv
    BY TypeInit, PathInit, ToldInit
  <1>2. TypeInv /\ PathInv /\ ToldInv /\ ChangesAlone /\ StartsSucceed /\ ChangesAlone' /\ [Next]_vars
           => TypeInv' /\ PathInv' /\ ToldInv'
    BY TypeStep, PathStep, ToldStep
  <1>3. TypeInv /\ ToldInv => ToldIsStored
    <2> SUFFICES ASSUME TypeInv, ToldInv, AllIdle PROVE told = db
      BY DEF ToldIsStored
    <2>1. \A i \in Ids : told[i] = db[i]
      BY DEF ToldInv, WillTell, AllIdle, Untold
    <2> QED
      BY <2>1 DEF TypeInv, TypeOK
  <1> QED
    BY <1>1, <1>2, <1>3, PTL DEF Spec

-----------------------------------------------------------------------------
(* No enabled service misses an interface: NoMissedListener, when services   *)
(* are created, enabled and disabled, interfaces come up and the provider    *)
(* starts, in any overlap.                                                   *)

\* Services are created, enabled and disabled, interfaces come up and the
\* provider starts; the database and a free address refuse nothing.
Growing ==
    /\ Ops \subseteq {"create", "expose", "modify", "addInterface", "start"}
    /\ DbMayFail = FALSE /\ ListenMayFail = FALSE
    /\ maxBindRetries >= 2

\* The row is that of a stored service, and has its port.
Owns(i, row) == Stored(i) /\ db[i].port = row.port

\* What worker w starts, and what it shuts down.
OwnsOK(w) ==
    /\ loc[w].op \in Ops \cup {"none"}
    /\ pc[w] \in {"started", "interfaces"} => Owns(loc[w].id, loc[w].row)
    /\ \A b \in loc[w].binds : Owns(b.id, b.row)
    /\ \A e \in loc[w].todo : Owns(e[1], e[2])
    /\ loc[w].cur = None => loc[w].tries = 0
    /\ \A s \in kill[w] : loc[w].op = "modify" /\ loc[w].id = at[s].id

OwnInv ==
    /\ cancelled = {}
    /\ \A w \in Workers : OwnsOK(w)
    /\ \A s \in Servers : st[s] # "unused" =>
          Owns(at[s].id, at[s].row) /\ s[2] = at[s].row.port

(* The operations that are left do not take these steps. *)
LEMMA Excluded ==
    ASSUME Growing, TypeInv, PathInv, OwnInv, NEW w \in Workers
    PROVE  /\ ~ EraseRow(w) /\ ~ StopServicesOnInterface(w) /\ ~ CancelContext(w)
           /\ ~ DbError(w) /\ ~ StopReturns(w) /\ ~ Stop(w) /\ ~ RemoveInterface(w)
           /\ ~ SetInterfaceIPs(w) /\ ~ Update(w) /\ ~ Delete(w)
           /\ ~ LookUp(w) /\ ~ LoadExisting(w) /\ ~ ProbeRunning(w)
           /\ pc[w] \in {"write", "detach", "shut", "fetch"} => loc[w].op = "modify"
  <1>1. OnPath(pc[w], loc[w]) /\ loc[w].op \in Ops \cup {"none"}
    BY DEF PathInv, OwnInv, OwnsOK
  <1>2. loc[w].op \notin {"update", "delete", "removeInterface", "stop", "setInterfaces"}
    BY <1>1 DEF Growing
  <1>3. ~ DbError(w) /\ ~ Stop(w) /\ ~ RemoveInterface(w) /\ ~ SetInterfaceIPs(w)
        /\ ~ Update(w) /\ ~ Delete(w)
    BY DEF Growing, DbError, Stop, RemoveInterface, SetInterfaceIPs, Update, Delete, Call
  <1>4. ~ EraseRow(w) /\ ~ StopServicesOnInterface(w) /\ ~ CancelContext(w) /\ ~ StopReturns(w)
        /\ ~ LookUp(w) /\ ~ LoadExisting(w) /\ ~ ProbeRunning(w)
    BY <1>1, <1>2 DEF OnPath, EraseRow, StopServicesOnInterface, CancelContext, StopReturns,
                      LookUp, LoadExisting, ProbeRunning
  <1> QED
    BY <1>1, <1>2, <1>3, <1>4 DEF OnPath

(* No operation gives a stored service another port. *)
LEMMA OwnsStays ==
    ASSUME TypeInv, NEW w \in Workers, Begin(w) \/ Step(w), ~ EraseRow(w),
           NEW i \in Ids, NEW row, Owns(i, row)
    PROVE  Owns(i, row)'
  <1>1. CASE WriteRow(w) /\ db' # db
    <2>1. db' = [db EXCEPT ![loc[w].id] =
                    IF Stored(loc[w].id) THEN Patch(@, loc[w].req) ELSE @]
      BY <1>1 DEF WriteRow
    <2>2. db \in [Ids -> Row \cup {Unborn, Gone}] /\ db[i] \in Row
      BY DEF TypeInv, TypeOK, Owns, Stored
    <2>3. CASE i = loc[w].id
      <3>1. db'[i] = Patch(db[i], loc[w].req) /\ loc[w].req \in Request
        BY <1>1, <2>1, <2>2, <2>3, WorkerOK DEF Stored, LocalOK, WriteRow
      <3>2. db'[i] \in Row /\ db'[i].port = db[i].port
        BY <2>2, <3>1 DEF Patch, Row, Request
      <3> QED
        BY <3>2 DEF Owns, Stored
    <2>4. CASE i # loc[w].id
      <3>1. db'[i] = db[i]
        BY <2>1, <2>2, <2>4
      <3> QED
        BY <3>1 DEF Owns, Stored
    <2> QED
      BY <2>3, <2>4
  <1>2. CASE ~ WriteRow(w) \/ db' = db
    <2>1. db'[i] = db[i]
      BY <1>2, RowsStay DEF Owns
    <2> QED
      BY <2>1 DEF Owns, Stored
  <1> QED
    BY <1>1, <1>2

(* Only the binding of an address changes which address is being tried. *)
LEMMA TriesStep ==
    ASSUME TypeInv, NEW w \in Workers, Begin(w) \/ Step(w),
           loc[w].cur = None => loc[w].tries = 0
    PROVE  loc'[w].cur = None => loc'[w].tries = 0
  <1>t. /\ loc \in [Workers -> Locals] /\ loc[w] \in Locals
        /\ Idle.tries = 0 /\ Idle.cur = None /\ Idle \in Locals
    BY IdleOK DEF TypeInv, TypeOK, Idle, LocalOK
  <1> USE <1>t DEF Locals
  <1>1. CASE Return(w)
    BY <1>1 DEF Return
  <1>2. CASE loc' = loc
    BY <1>2
  <1>3. CASE Begin(w)
    BY <1>3, BeginsEmpty
  <1>4. CASE Read(w) /\ ~ Return(w) /\ loc' # loc
    <2>1. CASE AllocatePort(w)
      BY <1>4, <2>1 DEF AllocatePort
    <2>2. CASE LoadExisting(w)
      BY <1>4, <2>2 DEF LoadExisting
    <2>3. CASE Reread(w)
      BY <1>4, <2>3 DEF Reread
    <2>4. CASE FetchRow(w)
      BY <1>4, <2>4 DEF FetchRow
    <2>5. CASE CheckStarted(w)
      BY <1>4, <2>5 DEF CheckStarted
    <2>6. CASE CopyInterfaces(w)
      BY <1>4, <2>6 DEF CopyInterfaces
    <2>7. CASE CheckStartedOnInterface(w)
      BY <1>4, <2>7 DEF CheckStartedOnInterface
    <2>8. CASE ListServicesOnInterface(w)
      BY <1>4, <2>8 DEF ListServicesOnInterface
    <2>9. CASE ListServices(w)
      BY <1>4, <2>9 DEF ListServices
    <2>10. CASE NextService(w)
      <3>1. PICK e \in loc[w].todo :
               loc' = [loc EXCEPT ![w].todo = @ \ {e}, ![w].id = e[1], ![w].row = e[2]]
        BY <1>4, <2>10 DEF NextService
      <3> QED
        BY <3>1
    <2> QED
      BY <1>4, <2>1, <2>2, <2>3, <2>4, <2>5, <2>6, <2>7, <2>8, <2>9, <2>10
         DEF Read, CheckExposed, ProbeRunning, LookUp
  <1>5. CASE InsertRow(w)
    <2>1. PICK i \in Ids : loc' = [loc EXCEPT ![w].id = i]
      BY <1>5 DEF InsertRow
    <2> QED
      BY <2>1
  <1>6. CASE Listen(w)
    <2>1. PICK r \in Servers, b \in Candidates(w) : Takes(w, r, b)
      BY <1>6, ListenTakes
    <2> QED
      BY <2>1 DEF Takes
  <1>7. CASE ListenFails(w)
    <2>1. PICK b \in Candidates(w) : loc' = [loc EXCEPT ![w].cur = b, ![w].tries = @ + 1]
      BY <1>7 DEF ListenFails
    <2>2. b # None
      BY ProxyAssumption DEF Candidates
    <2> QED
      BY <2>1, <2>2
  <1>8. CASE GiveUp(w)
    BY <1>8 DEF GiveUp
  <1> QED
    BY <1>1, <1>2, <1>3, <1>4, <1>5, <1>6, <1>7, <1>8
       DEF Step, Write, WriteRow, EraseRow, Sync, Bind, RetryListen, Record, StartDone, Unbind,
           StopService, StopServicesOnInterface, Detach, ShutdownServer, StopDone,
           CancelContext, StopReturns, DbError

(* A new listener gets the address of the binding that is being tried, at *)
(* which nothing listened.                                                *)
LEMMA ListenTakesAddress ==
    ASSUME TypeInv, NEW w \in Workers, Listen(w)
    PROVE  \E r \in Servers, b \in Candidates(w) :
              Takes(w, r, b) /\ Addr(r) = <<b.ip, b.row.port>> /\ AddrFree(b.ip, b.row.port)
  <1>1. PICK b \in Candidates(w), k \in Slots : LET s == <<b.ip, b.row.port, k>> IN
          /\ AddrFree(b.ip, b.row.port)
          /\ Fresh(s)
          /\ st' = [st EXCEPT ![s] = "bound"]
          /\ at' = [at EXCEPT ![s] = [id |-> b.id, row |-> b.row, ctx |-> loc[w].ctx]]
          /\ hand' = [hand EXCEPT ![w] = s]
          /\ loc' = [loc EXCEPT ![w].binds = @ \ {b}, ![w].cur = None, ![w].tries = 0]
    BY DEF Listen
  <1>2. b \in Binding /\ loc[w].ctx \in Epochs
    BY WorkerOK, ProxyAssumption DEF Listen, Candidates, LocalOK, Locals
  <1>3. <<b.ip, b.row.port, k>> \in Servers
    BY <1>2 DEF Binding, Row, Servers
  <1>4. [id |-> b.id, row |-> b.row, ctx |-> loc[w].ctx] \in Started
    BY <1>2 DEF Binding, Started
  <1> QED
    BY <1>1, <1>2, <1>3, <1>4 DEF Fresh, Takes, Addr

(* A server keeps what it was started with, and is made by Listen only. *)
LEMMA ServerStep ==
    ASSUME TypeInv, ListenerInv, [Next]_vars, NEW s \in Servers, st'[s] # "unused"
    PROVE  \/ st[s] # "unused" /\ at'[s] = at[s]
           \/ \E w \in Workers : \E b \in Candidates(w) :
                 Listen(w) /\ at'[s].id = b.id /\ at'[s].row = b.row /\ s[2] = b.row.port
  <1>t. /\ st \in [Servers -> Statuses] /\ at \in [Servers -> Started \cup {None}]
        /\ kill \in [Workers -> SUBSET Servers]
    BY DEF TypeInv, TypeOK
  <1>1. CASE UNCHANGED <<st, at>>
    BY <1>1
  <1>2. ASSUME NEW w \in Workers, Listen(w)
        PROVE  \/ st[s] # "unused" /\ at'[s] = at[s]
               \/ \E b \in Candidates(w) :
                     at'[s].id = b.id /\ at'[s].row = b.row /\ s[2] = b.row.port
    <2>1. PICK r \in Servers, b \in Candidates(w) :
             Takes(w, r, b) /\ Addr(r) = <<b.ip, b.row.port>>
      BY <1>2, ListenTakesAddress
    <2>2. CASE s = r
      BY <1>t, <2>1, <2>2 DEF Takes, Addr
    <2>3. CASE s # r
      BY <1>t, <2>1, <2>3 DEF Takes
    <2> QED
      BY <2>2, <2>3
  <1>3. ASSUME NEW w \in Workers, Record(w)
        PROVE  st[s] # "unused" /\ at'[s] = at[s]
    <2>1. hand[w] \in Servers /\ st[hand[w]] = "bound"
      BY <1>3, ProxyAssumption DEF Record, TypeInv, ListenerInv, HandsOK
    <2> QED
      BY <1>3, <1>t, <2>1 DEF Record
  <1>4. ASSUME NEW w \in Workers, ShutdownServer(w)
        PROVE  st[s] # "unused" /\ at'[s] = at[s]
    <2>1. PICK r \in kill[w] :
             IF st[r] \in {"spawned", "shut"}
             THEN st' = [st EXCEPT ![r] = "shut"] /\ UNCHANGED at
             ELSE st' = [st EXCEPT ![r] = "unused"] /\ at' = [at EXCEPT ![r] = None]
      BY <1>4 DEF ShutdownServer
    <2>2. r \in Servers
      BY <1>t
    <2> QED
      BY <2>1, <2>2, <1>t
  <1>5. ASSUME NEW w \in Workers, StopService(w) \/ StopServicesOnInterface(w)
        PROVE  UNCHANGED <<st, at>>
    BY <1>5 DEF StopService, StopServicesOnInterface, Detach
  <1>6. ASSUME NEW r \in Servers, Goroutine(r)
        PROVE  st[s] # "unused" /\ at'[s] = at[s]
    BY <1>6, <1>t DEF Goroutine, Serve, ShutdownOnCancel
  <1> QED
    BY <1>1, <1>2, <1>3, <1>4, <1>5, <1>6, ServersStay DEF Next, vars

(* What a worker shuts down it took out of the map itself. *)
LEMMA KillStep ==
    ASSUME TypeInv, ListenerInv, [Next]_vars, NEW v \in Workers, NEW s \in kill'[v]
    PROVE  /\ at'[s] = at[s]
           /\ \/ s \in kill[v]
              \/ s \in servers /\ StopService(v) /\ at[s].id = loc[v].id
              \/ s \in servers /\ StopServicesOnInterface(v)
  <1>t. /\ st \in [Servers -> Statuses] /\ at \in [Servers -> Started \cup {None}]
        /\ kill \in [Workers -> SUBSET Servers] /\ hand \in [Workers -> Servers \cup {None}]
        /\ servers \subseteq Servers
    BY DEF TypeInv, TypeOK
  <1>k. \A r \in kill[v] : r \notin servers /\ st[r] \in Taken /\ r \in Servers
    BY <1>t DEF ListenerInv, KillsOK
  <1>1. CASE UNCHANGED <<kill, at>>
    BY <1>1
  <1>2. ASSUME NEW w \in Workers, Listen(w)
        PROVE  at'[s] = at[s] /\ s \in kill[v]
    <2>1. PICK r \in Servers, b \in Candidates(w) : Takes(w, r, b)
      BY <1>2, ListenTakes
    <2>2. s \in kill[v]
      BY <1>2 DEF Listen
    <2> QED
      BY <1>t, <1>k, <2>1, <2>2 DEF Takes, Taken
  <1>3. ASSUME NEW w \in Workers, Record(w)
        PROVE  at'[s] = at[s] /\ s \in kill[v]
    BY <1>3, <1>t, <1>k DEF Record
  <1>4. ASSUME NEW w \in Workers, ShutdownServer(w)
        PROVE  at'[s] = at[s] /\ s \in kill[v]
    <2>1. PICK r \in kill[w] : /\ kill' = [kill EXCEPT ![w] = @ \ {r}]
                               /\ at' = at \/ at' = [at EXCEPT ![r] = None]
      BY <1>4 DEF ShutdownServer
    <2>2. r \in Servers /\ \A u \in Workers : r \in kill[u] => u = w
      BY <1>t DEF ListenerInv, KillsOK
    <2>3. s \in kill[v] /\ s # r
      BY <1>t, <2>1, <2>2
    <2> QED
      BY <1>t, <1>k, <2>1, <2>3
  <1>5. ASSUME NEW w \in Workers, StopService(w) \/ StopServicesOnInterface(w)
        PROVE  /\ at'[s] = at[s]
               /\ \/ s \in kill[v]
                  \/ s \in servers /\ StopService(v) /\ at[s].id = loc[v].id
                  \/ s \in servers /\ StopServicesOnInterface(v)
    BY <1>5, <1>t DEF StopService, StopServicesOnInterface, Detach
  <1>6. ASSUME NEW r \in Servers, Goroutine(r)
        PROVE  at'[s] = at[s] /\ s \in kill[v]
    <2>1. s \in kill[v]
      BY <1>6 DEF Goroutine, Serve, ShutdownOnCancel, ownVars
    <2>2. Held(s)
      BY <2>1 DEF Held
    <2> QED
      BY <1>6, <1>t, <1>k, <2>1, <2>2 DEF Goroutine, Serve, ShutdownOnCancel
  <1> QED
    BY <1>1, <1>2, <1>3, <1>4, <1>5, <1>6, ServersStay DEF Next, vars

(* While there is something to shut down, its worker does nothing else. *)
LEMMA BusyKilling ==
    ASSUME TypeInv, ListenerInv, NEW w \in Workers, Begin(w) \/ Step(w), kill[w] # {}
    PROVE  ShutdownServer(w) /\ loc'[w] = loc[w]
  <1>1. pc[w] = "shut"
    BY DEF ListenerInv, KillsOK
  <1>2. ~ Begin(w)
    BY <1>1, BeginTouchesNothing
  <1>3. ~ Read(w)
    BY <1>1 DEF Read, CheckExposed, AllocatePort, LoadExisting, ProbeRunning, LookUp, Reread,
           FetchRow, CheckStarted, CopyInterfaces, CheckStartedOnInterface,
           ListServicesOnInterface, ListServices, NextService
  <1>4. ~ Write(w) /\ ~ Bind(w) /\ ~ CancelContext(w) /\ ~ StopReturns(w) /\ ~ DbError(w)
    BY <1>1 DEF Write, InsertRow, WriteRow, EraseRow, Sync, Bind, Listen, ListenFails, RetryListen,
           GiveUp, Record, StartDone, CancelContext, StopReturns, DbError
  <1>5. ~ StopService(w) /\ ~ StopServicesOnInterface(w) /\ ~ StopDone(w)
    BY <1>1 DEF StopService, StopServicesOnInterface, StopDone
  <1> QED
    BY <1>2, <1>3, <1>4, <1>5 DEF Step, Unbind, ShutdownServer

(* The operation under way is one of Ops. *)
LEMMA OpStep ==
    ASSUME TypeInv, NEW w \in Workers, Begin(w) \/ Step(w), loc[w].op \in Ops \cup {"none"}
    PROVE  loc'[w].op \in Ops \cup {"none"}
  <1>t. /\ loc \in [Workers -> Locals] /\ loc[w] \in Locals
        /\ Idle.op = "none" /\ Idle \in Locals
    BY IdleOK DEF TypeInv, TypeOK, Idle, LocalOK
  <1>1. CASE Step(w)
    BY <1>1, <1>t, KeepsOp
  <1> USE <1>t DEF Locals
  <1>2. CASE Create(w)
    <2>1. PICK q : loc' = [loc EXCEPT ![w] = [Idle EXCEPT !.op = "create", !.req = q]]
      BY <1>2 DEF Create, Call
    <2> QED
      BY <1>2, <2>1 DEF Create, Call
  <1>3. CASE Expose(w)
    <2>1. PICK q : loc' = [loc EXCEPT ![w] = [Idle EXCEPT !.op = "expose", !.req = q]]
      BY <1>3 DEF Expose, Call
    <2> QED
      BY <1>3, <2>1 DEF Expose, Call
  <1>4. CASE Modify(w)
    <2>1. PICK i \in Ids, b \in BOOLEAN :
             loc' = [loc EXCEPT ![w] = [Idle EXCEPT !.op = "modify", !.id = i, !.req = SetEnabled(b)]]
      BY <1>4 DEF Modify, Call
    <2> QED
      BY <1>4, <2>1 DEF Modify, Call
  <1>5. CASE Update(w)
    <2>1. PICK i \in Ids, r \in Requests :
             loc' = [loc EXCEPT ![w] = [Idle EXCEPT !.op = "update", !.id = i, !.req = r]]
      BY <1>5 DEF Update, Call
    <2> QED
      BY <1>5, <2>1 DEF Update, Call
  <1>6. CASE Delete(w)
    <2>1. PICK i : loc' = [loc EXCEPT ![w] = [Idle EXCEPT !.op = "delete", !.id = i]]
      BY <1>6 DEF Delete, Call
    <2> QED
      BY <1>6, <2>1 DEF Delete, Call
  <1>7. CASE AddInterface(w)
    <2>1. PICK n \in Names, ip \in Ips :
             loc' = [loc EXCEPT ![w] = [Idle EXCEPT !.op = "addInterface", !.name = n, !.ip = ip]]
      BY <1>7 DEF AddInterface
    <2> QED
      BY <1>7, <2>1 DEF AddInterface
  <1>8. CASE RemoveInterface(w)
    <2>1. PICK n \in Names :
             loc' = [loc EXCEPT ![w] = [Idle EXCEPT !.op = "removeInterface", !.name = n,
                                                    !.ip = interfaces[n]]]
      BY <1>8 DEF RemoveInterface
    <2> QED
      BY <1>8, <2>1 DEF RemoveInterface
  <1>9. CASE SetInterfaceIPs(w)
    BY <1>9 DEF SetInterfaceIPs
  <1>10. CASE Start(w)
    BY <1>10 DEF Start
  <1>11. CASE Stop(w)
    BY <1>11 DEF Stop
  <1> QED
    BY <1>1, <1>2, <1>3, <1>4, <1>5, <1>6, <1>7, <1>8, <1>9, <1>10, <1>11 DEF Begin

(* With no stop among the operations no context is cancelled. *)
LEMMA NothingCancelled ==
    ASSUME Growing, TypeInv, PathInv, OwnInv, [Next]_vars
    PROVE  cancelled' = {}
  <1>1. cancelled = {}
    BY DEF OwnInv
  <1>2. ASSUME NEW w \in Workers, Begin(w) \/ Step(w)
        PROVE  cancelled' = cancelled
    <2> USE DEF runVars
    <2>1. CASE Begin(w)
      BY <2>1 DEF Begin, Create, Expose, Modify, Update, Delete, AddInterface, RemoveInterface,
                  SetInterfaceIPs, Start, Stop, Call
    <2>2. CASE Read(w)
      BY <2>2 DEF Growing, Read, CheckExposed, AllocatePort, LoadExisting, ProbeRunning, LookUp,
                  Reread, FetchRow, CheckStarted, CopyInterfaces, CheckStartedOnInterface,
                  ListServicesOnInterface, ListServices, NextService
    <2>3. CASE Write(w) \/ Bind(w)
      BY <2>3 DEF Write, InsertRow, WriteRow, EraseRow, Sync, Bind, Listen, ListenFails,
                  RetryListen, GiveUp, Record, StartDone
    <2>4. CASE Unbind(w)
      BY <2>4 DEF Unbind, StopService, StopServicesOnInterface, Detach, ShutdownServer, StopDone
    <2> QED
      BY <1>2, <2>1, <2>2, <2>3, <2>4, Excluded DEF Step
  <1>3. ASSUME NEW s \in Servers, Goroutine(s)
        PROVE  cancelled' = cancelled
    BY <1>3 DEF Goroutine, Serve, ShutdownOnCancel, runVars
  <1> QED
    BY <1>1, <1>2, <1>3 DEF Next, vars

(* Every step keeps what is started that of a stored service. *)
LEMMA OwnStep ==
    ASSUME Growing, TypeInv, PathInv, ListenerInv, KnownInv, OwnInv, [Next]_vars
    PROVE  OwnInv'
  <1>t. TypeInv' /\ KnownInv' /\ at \in [Servers -> Started \cup {None}] /\ servers \subseteq Servers
    BY TypeStep, KnownStep DEF TypeInv, TypeOK
  <1>1. ASSUME NEW i \in Ids, NEW row, Owns(i, row)
        PROVE  Owns(i, row)'
    <2>1. ASSUME NEW w \in Workers, Begin(w) \/ Step(w)
          PROVE  Owns(i, row)'
      BY <1>1, <2>1, Excluded, OwnsStays
    <2>2. CASE db' = db
      BY <1>1, <2>2 DEF Owns, Stored
    <2> QED
      BY <2>1, <2>2 DEF Next, vars, Goroutine, Serve, ShutdownOnCancel, tableVars
  <1>2. ASSUME NEW s \in Servers, st'[s] # "unused"
        PROVE  Owns(at[s].id, at[s].row)' /\ s[2] = at'[s].row.port
    <2>1. CASE st[s] # "unused" /\ at'[s] = at[s]
      <3>1. at[s].id \in Ids
        BY <2>1 DEF KnownInv, Started
      <3>2. Owns(at[s].id, at[s].row) /\ s[2] = at[s].row.port
        BY <2>1 DEF OwnInv
      <3> QED
        BY <1>1, <2>1, <3>1, <3>2 DEF Owns, Stored
    <2>2. ASSUME NEW w \in Workers, NEW b \in Candidates(w), Listen(w),
                 at'[s].id = b.id, at'[s].row = b.row, s[2] = b.row.port
          PROVE  Owns(at[s].id, at[s].row)' /\ s[2] = at'[s].row.port
      <3>1. b \in loc[w].binds
        BY DEF Candidates, PathInv, OnPath
      <3>2. b.id \in Ids /\ Owns(b.id, b.row)
        BY <3>1, StartTypes DEF OwnInv, OwnsOK
      <3>3. Owns(b.id, b.row)'
        BY <1>1, <3>2
      <3> QED
        BY <2>2, <3>3 DEF Owns, Stored
    <2> QED
      BY <1>2, <2>1, <2>2, ServerStep
  <1>3. ASSUME NEW w \in Workers, Begin(w) \/ Step(w), NEW v \in Workers \ {w}
        PROVE  OwnsOK(v)'
    <2>1. pc'[v] = pc[v] /\ loc'[v] = loc[v] /\ OwnsOK(v)
      BY <1>3, OthersStay DEF OwnInv
    <2>2. ASSUME NEW s \in kill'[v]
          PROVE  loc'[v].op = "modify" /\ loc'[v].id = at'[s].id
      <3>1. ~ StopService(v) /\ ~ StopServicesOnInterface(v)
        BY <2>1, <1>t DEF StopService, StopServicesOnInterface, Detach, Goto, TypeInv, TypeOK
      <3>2. s \in kill[v] /\ at'[s] = at[s]
        BY <3>1, KillStep
      <3> QED
        BY <2>1, <3>2 DEF OwnsOK
    <2>3. /\ loc[v].id \in Ids /\ \A b \in loc[v].binds : b.id \in Ids
          /\ \A e \in loc[v].todo : e[1] \in Ids
      BY StartTypes
    <2> QED
      BY <1>1, <2>1, <2>2, <2>3 DEF OwnsOK, Owns, Stored
  <1>4. ASSUME NEW w \in Workers, Begin(w) \/ Step(w)
        PROVE  OwnsOK(w)'
    <2>0. OwnsOK(w)
      BY DEF OwnInv
    <2>t. /\ loc[w].id \in Ids /\ \A b \in loc[w].binds : b.id \in Ids
          /\ \A e \in loc[w].todo : e \in Ids \X Row
      BY WorkerOK DEF Locals, Binding
    <2>1. loc'[w].op \in Ops \cup {"none"}
      BY <1>4, <2>0, OpStep DEF OwnsOK
    <2>2. ASSUME pc'[w] \in {"started", "interfaces"}
          PROVE  Owns(loc[w].id, loc[w].row)'
      <3>1. CASE /\ pc[w] \in {"started", "interfaces"}
                 /\ loc'[w].id = loc[w].id /\ loc'[w].row = loc[w].row
        <4>1. Owns(loc[w].id, loc[w].row)
          BY <2>0, <3>1 DEF OwnsOK
        <4> QED
          BY <1>1, <2>t, <3>1, <4>1 DEF Owns, Stored
      <3>2. CASE <<loc'[w].id, loc'[w].row>> \in loc[w].todo
        <4>1. Owns(loc'[w].id, loc'[w].row) /\ loc'[w].id \in Ids
          BY <2>0, <2>t, <3>2 DEF OwnsOK
        <4> QED
          BY <1>1, <4>1 DEF Owns, Stored
      <3>3. CASE InsertRow(w)
        <4>1. loc[w].row \in Row
          BY <3>3, WorkerOK DEF InsertRow, LocalOK
        <4> QED
          BY <3>3, <4>1, CarriedInsert DEF Owns, Stored
      <3>4. CASE Stored(loc[w].id) /\ loc'[w].id = loc[w].id /\ loc'[w].row = db[loc[w].id]
        <4>1. Owns(loc[w].id, db[loc[w].id])
          BY <3>4 DEF Owns
        <4> QED
          BY <1>1, <2>t, <3>4, <4>1 DEF Owns, Stored
      <3> QED
        BY <1>4, <2>2, <3>1, <3>2, <3>3, <3>4, CarriedFrom
    <2>3. ASSUME NEW b \in loc'[w].binds
          PROVE  Owns(b.id, b.row)'
      <3>1. b.id \in Ids
        BY CarriedTypes
      <3>2. Owns(b.id, b.row)
        BY <1>4, <2>0, CarriedFrom DEF OwnsOK, Owns
      <3> QED
        BY <1>1, <3>1, <3>2
    <2>4. ASSUME NEW e \in loc'[w].todo
          PROVE  Owns(e[1], e[2])'
      <3>1. e[1] \in Ids
        BY CarriedTypes
      <3>2. Owns(e[1], e[2])
        BY <1>4, <2>0, CarriedFrom DEF OwnsOK, Owns
      <3> QED
        BY <1>1, <3>1, <3>2
    <2>5. loc'[w].cur = None => loc'[w].tries = 0
      BY <1>4, <2>0, TriesStep DEF OwnsOK
    <2>6. ASSUME NEW s \in kill'[w]
          PROVE  loc'[w].op = "modify" /\ loc'[w].id = at'[s].id
      <3>1. CASE s \in kill[w]
        BY <1>4, <2>0, <2>6, <3>1, KillStep, BusyKilling DEF OwnsOK
      <3>2. CASE StopService(w) /\ at[s].id = loc[w].id
        <4>1. loc[w].op = "modify" /\ loc' = loc
          BY <3>2, Excluded DEF StopService, Detach
        <4> QED
          BY <2>6, <3>2, <4>1, KillStep
      <3> QED
        BY <2>6, <3>1, <3>2, KillStep, Excluded
    <2> QED
      BY <2>1, <2>2, <2>3, <2>4, <2>5, <2>6 DEF OwnsOK
  <1>5. ASSUME NEW w \in Workers, UNCHANGED <<pc, loc>>, \A s \in kill'[w] : s \in kill[w]
        PROVE  OwnsOK(w)'
    <2>1. /\ loc[w].id \in Ids /\ \A b \in loc[w].binds : b.id \in Ids
          /\ \A e \in loc[w].todo : e[1] \in Ids
      BY StartTypes
    <2>2. \A s \in kill'[w] : at'[s] = at[s]
      BY KillStep
    <2> QED
      BY <1>1, <1>5, <2>1, <2>2 DEF OwnInv, OwnsOK, Owns, Stored
  <1>6. ASSUME NEW w \in Workers
        PROVE  OwnsOK(w)'
    <2>1. CASE \E v \in Workers : Begin(v) \/ Step(v)
      BY <1>3, <1>4, <2>1
    <2>2. CASE (\E s \in Servers : Goroutine(s)) \/ UNCHANGED vars
      <3>1. UNCHANGED <<pc, loc, kill>>
        BY <2>2 DEF Goroutine, Serve, ShutdownOnCancel, ownVars, vars
      <3> QED
        BY <1>5, <3>1
    <2> QED
      BY <2>1, <2>2 DEF Next
  <1> QED
    BY <1>2, <1>6, NothingCancelled DEF OwnInv, Owns, Stored

(* Initially nothing is started. *)
LEMMA OwnInit == Growing /\ Init => OwnInv
  <1>1. Idle.op = "none" /\ Idle.binds = {} /\ Idle.todo = {} /\ Idle.tries = 0
    BY DEF Idle
  <1> QED
    BY <1>1 DEF Init, OwnInv, OwnsOK

-----------------------------------------------------------------------------
\* Worker w will come to bind address ip for service i.
Willing(w, i, ip) ==
    \/ pc[w] \in {"detach", "shut", "reread"} /\ loc[w].op = "modify" /\ loc[w].id = i
    \/ pc[w] \in {"started", "interfaces"} /\ loc[w].id = i
    \/ pc[w] \in {"ifStarted", "ifList"} /\ loc[w].ip = ip
    \/ pc[w] = "list"
    \/ \E e \in loc[w].todo : e[1] = i
    \/ \E b \in loc[w].binds :
          /\ b.id = i /\ b.ip = ip
          /\ b = loc[w].cur => pc[w] = "wait" /\ loc[w].tries < maxBindRetries

\* It is about to, or has just done it.
Trying(w, i, ip)  == pc[w] = "bind" /\ loc[w].cur # None /\ loc[w].cur.id = i /\ loc[w].cur.ip = ip
Holding(w, i, ip) == hand[w] # None /\ at[hand[w]].id = i /\ hand[w][1] = ip

Needed(i, n) == Stored(i) /\ db[i].enabled /\ interfaces[n] # NoIp

Covers(i, ip) ==
    \/ <<i, ip>> \in Served
    \/ \E w \in Workers : Willing(w, i, ip) \/ Trying(w, i, ip) \/ Holding(w, i, ip)

\* A listener that is shut and still takes the address is waited for.
Released(i, ip) ==
    \A s \in Servers : st[s] = "shut" /\ Addr(s) = <<ip, db[i].port>> =>
        \E w \in Workers : Willing(w, i, ip)

CoverInv == started => \A i \in Ids, n \in Names :
    Needed(i, n) => Covers(i, interfaces[n]) /\ Released(i, interfaces[n])

WillingPlaces == {"detach", "shut", "reread", "started", "interfaces", "ifStarted", "ifList",
                  "list", "next", "bind", "record", "wait"}

(* A worker at rest has no operation. *)
LEMMA IdleOp == Idle.op = "none" /\ Idle.todo = {} /\ Idle.binds = {} /\ Idle.tries = 0
  BY DEF Idle

(* A worker that will still try is at one of these places. *)
LEMMA WillingAt ==
    ASSUME TypeInv, PathInv, NEW w \in Workers, NEW i, NEW ip, Willing(w, i, ip)
    PROVE  pc[w] \in WillingPlaces
  <1>1. OnPath(pc[w], loc[w]) /\ pc[w] \in Labels
    BY DEF PathInv, TypeInv, TypeOK
  <1>2. CASE \E e \in loc[w].todo : e[1] = i
    <2>1. loc[w].op = "start"
      BY <1>1, <1>2 DEF OnPath
    <2>2. pc[w] \in {"interfaces", "list", "next"} \cup AtBind
      BY <1>1, <1>2, <2>1, IdleOp DEF OnPath, AtBind, Starters, Labels
    <2> QED
      BY <2>2 DEF WillingPlaces, AtBind
  <1>3. CASE ~ \E e \in loc[w].todo : e[1] = i
    BY <1>1, <1>3 DEF Willing, OnPath, WillingPlaces, AtBind
  <1> QED
    BY <1>2, <1>3

(* The steps of a worker at these places. *)
LEMMA WillingSteps ==
    ASSUME Growing, TypeInv, PathInv, OwnInv, NEW w \in Workers, Begin(w) \/ Step(w),
           pc[w] \in WillingPlaces
    PROVE  \/ StopService(w) \/ ShutdownServer(w) \/ StopDone(w) \/ Reread(w) \/ CheckStarted(w)
           \/ CopyInterfaces(w) \/ CheckStartedOnInterface(w) \/ ListServicesOnInterface(w)
           \/ ListServices(w) \/ NextService(w)
           \/ Listen(w) \/ ListenFails(w) \/ RetryListen(w) \/ GiveUp(w) \/ Record(w) \/ StartDone(w)
  <1>1. ~ Begin(w)
    BY BeginTouchesNothing DEF WillingPlaces
  <1>2. ~ CheckExposed(w) /\ ~ AllocatePort(w) /\ ~ FetchRow(w) /\ ~ Write(w)
    BY DEF WillingPlaces, CheckExposed, AllocatePort, FetchRow, Write, InsertRow, WriteRow,
           EraseRow, Sync
  <1> QED
    BY <1>1, <1>2, Excluded DEF Step, Read, Bind, Unbind

(* A worker that will bind an address does: it listens, or tries again at *)
(* an address that nothing which is shut still takes.                     *)
LEMMA WillingOwn ==
    ASSUME Growing, TypeInv, PathInv, OwnInv, started, NEW w \in Workers, Begin(w) \/ Step(w),
           NEW i \in Ids, NEW n \in Names, Needed(i, n), NEW ip, ip = interfaces[n],
           Willing(w, i, ip)
    PROVE  \/ Willing(w, i, ip)'
           \/ Listen(w) /\ Holding(w, i, ip)' /\ AddrFree(ip, db[i].port)
           \/ /\ RetryListen(w) /\ Trying(w, i, ip)'
              /\ \A s \in Servers : st[s] = "shut" => Addr(s) # <<ip, db[i].port>>
  <1>t. /\ loc \in [Workers -> Locals] /\ pc \in [Workers -> Labels] /\ loc[w] \in Locals
        /\ db \in [Ids -> Row \cup {Unborn, Gone}] /\ hand \in [Workers -> Servers \cup {None}]
        /\ at \in [Servers -> Started \cup {None}]
    BY DEF TypeInv, TypeOK
  <1>p. OnPath(pc[w], loc[w]) /\ OwnsOK(w)
    BY DEF PathInv, OwnInv
  <1>1. CASE StopService(w) \/ ShutdownServer(w)
    <2>1. loc' = loc /\ pc[w] \in {"detach", "shut"} /\ pc'[w] = "shut"
      BY <1>1, <1>t DEF StopService, Detach, ShutdownServer, Goto
    <2>2. loc[w].id = i /\ loc[w].op = "modify"
      BY <1>p, <2>1 DEF OnPath, Willing, AtBind
    <2> QED
      BY <2>1, <2>2 DEF Willing
  <1>2. CASE StopDone(w)
    <2>1. loc[w].id = i /\ loc[w].op = "modify"
      BY <1>p, <1>2 DEF StopDone, OnPath, Willing, AtBind
    <2>2. loc' = loc /\ pc'[w] = "reread"
      BY <1>2, <1>t, <2>1 DEF StopDone, Goto
    <2> QED
      BY <2>1, <2>2 DEF Willing
  <1>3. CASE Reread(w)
    <2>1. loc[w].id = i
      BY <1>p, <1>3 DEF Reread, OnPath, Willing, AtBind
    <2>2. loc' = [loc EXCEPT ![w].row = db[i]] /\ pc'[w] = "started"
      BY <1>3, <1>t, <2>1 DEF Reread, Needed, Growing, Goto
    <2>3. loc'[w].id = i
      BY <1>t, <2>1, <2>2 DEF Locals
    <2> QED
      BY <2>2, <2>3 DEF Willing
  <1>4. CASE CheckStarted(w)
    <2>1. loc[w].id = i
      BY <1>p, <1>4 DEF CheckStarted, OnPath, Willing, AtBind, Starters
    <2>2. loc'[w].id = i /\ pc'[w] = "interfaces"
      BY <1>4, <1>t, <2>1 DEF CheckStarted, Goto, Locals
    <2> QED
      BY <2>2 DEF Willing
  <1>5. CASE CopyInterfaces(w)
    <2> DEFINE b == [id |-> i, row |-> loc[w].row, name |-> n, ip |-> ip]
    <2>0. CASE \E e \in loc[w].todo : e[1] = i
      <3>1. loc'[w].todo = loc[w].todo
        BY <1>5, <1>t DEF CopyInterfaces, Locals
      <3> QED
        BY <2>0, <3>1 DEF Willing
    <2>1. CASE ~ \E e \in loc[w].todo : e[1] = i
      <3>1. loc[w].id = i /\ loc[w].cur = None
        BY <1>p, <1>5, <2>1 DEF CopyInterfaces, OnPath, Willing, AtBind
      <3>2. loc'[w].binds = {[id |-> loc[w].id, row |-> loc[w].row, name |-> m, ip |-> interfaces[m]] :
                                m \in {m \in Names : interfaces[m] # NoIp}}
            /\ loc'[w].cur = None
        BY <1>5, <1>t, <3>1 DEF CopyInterfaces, Locals
      <3>3. b \in loc'[w].binds
        BY <3>1, <3>2 DEF Needed
      <3>4. b # None
        <4>1. TypeInv'
          BY TypeStep DEF Next
        <4>2. loc'[w].binds \subseteq Binding
          BY <4>1 DEF TypeInv, TypeOK, Locals
        <4> QED
          BY <3>3, <4>2, ProxyAssumption
      <3> QED
        BY <3>2, <3>3, <3>4 DEF Willing
    <2> QED
      BY <2>0, <2>1
  <1>6. CASE CheckStartedOnInterface(w)
    <2>1. loc[w].ip = ip
      BY <1>p, <1>6 DEF CheckStartedOnInterface, OnPath, Willing, AtBind
    <2>2. loc'[w].ip = ip /\ pc'[w] = "ifList"
      BY <1>6, <1>t, <2>1 DEF CheckStartedOnInterface, Goto, Locals
    <2> QED
      BY <2>2 DEF Willing
  <1>7. CASE ListServicesOnInterface(w)
    <2> DEFINE b == [id |-> i, row |-> db[i], name |-> loc[w].name, ip |-> ip]
    <2>1. loc[w].ip = ip /\ loc[w].cur = None
      BY <1>p, <1>7 DEF ListServicesOnInterface, OnPath, Willing, AtBind
    <2>2. loc'[w].binds = {[id |-> j, row |-> db[j], name |-> loc[w].name, ip |-> loc[w].ip] :
                              j \in {j \in Ids : Stored(j) /\ db[j].enabled}}
          /\ loc'[w].cur = None
      BY <1>7, <1>t, <2>1 DEF ListServicesOnInterface, Locals
    <2>3. b \in loc'[w].binds
      BY <2>1, <2>2 DEF Needed
    <2>4. b # None
      <3>1. TypeInv'
        BY TypeStep DEF Next
      <3>2. loc'[w].binds \subseteq Binding
        BY <3>1 DEF TypeInv, TypeOK, Locals
      <3> QED
        BY <2>3, <3>2, ProxyAssumption
    <2> QED
      BY <2>2, <2>3, <2>4 DEF Willing
  <1>8. CASE ListServices(w)
    <2>1. loc'[w].todo = {<<j, db[j]>> : j \in {j \in Ids : Stored(j) /\ db[j].enabled}}
      BY <1>8, <1>t DEF ListServices, Growing, Locals
    <2>2. <<i, db[i]>> \in loc'[w].todo /\ <<i, db[i]>>[1] = i
      BY <2>1 DEF Needed
    <2> QED
      BY <2>2 DEF Willing
  <1>9. CASE NextService(w)
    <2>1. PICK e \in loc[w].todo : e[1] = i
      BY <1>p, <1>9 DEF NextService, OnPath, Willing, AtBind
    <2>2. PICK f \in loc[w].todo :
             /\ loc' = [loc EXCEPT ![w].todo = @ \ {f}, ![w].id = f[1], ![w].row = f[2]]
             /\ Goto(w, "interfaces")
      BY <1>9, <2>1 DEF NextService
    <2>3. loc'[w].todo = loc[w].todo \ {f} /\ loc'[w].id = f[1] /\ pc'[w] = "interfaces"
      BY <1>t, <2>2 DEF Goto, Locals
    <2> QED
      BY <2>1, <2>3 DEF Willing
  <1>b. ASSUME Listen(w) \/ ListenFails(w) \/ RetryListen(w) \/ GiveUp(w) \/ Record(w)
        PROVE  \/ \E e \in loc[w].todo : e[1] = i
               \/ \E b \in loc[w].binds :
                     /\ b.id = i /\ b.ip = ip
                     /\ b = loc[w].cur => pc[w] = "wait" /\ loc[w].tries < maxBindRetries
    BY <1>b DEF Willing, Listen, ListenFails, RetryListen, GiveUp, Record
  <1>10. ASSUME NEW e \in loc[w].todo, e[1] = i,
                Listen(w) \/ ListenFails(w) \/ RetryListen(w) \/ GiveUp(w) \/ Record(w) \/ StartDone(w)
         PROVE  Willing(w, i, ip)'
    <2>1. loc'[w].todo = loc[w].todo
      <3>1. CASE Listen(w)
        BY <1>t, <3>1 DEF Listen, Locals
      <3>2. CASE ListenFails(w)
        BY <1>t, <3>2 DEF ListenFails, Locals
      <3>3. CASE GiveUp(w)
        BY <1>t, <3>3 DEF GiveUp, Locals
      <3>4. CASE RetryListen(w) \/ Record(w)
        BY <3>4 DEF RetryListen, Record
      <3>5. CASE StartDone(w)
        <4>1. loc[w].op = "start"
          BY <1>p, <1>10 DEF OnPath
        <4> QED
          BY <3>5, <4>1 DEF StartDone
      <3> QED
        BY <1>10, <3>1, <3>2, <3>3, <3>4, <3>5
    <2> QED
      BY <1>10, <2>1 DEF Willing
  <1>11. ASSUME NEW b \in loc[w].binds, b.id = i, b.ip = ip,
                b = loc[w].cur => pc[w] = "wait" /\ loc[w].tries < maxBindRetries
         PROVE  \/ Willing(w, i, ip)'
                \/ Listen(w) /\ Holding(w, i, ip)' /\ AddrFree(ip, db[i].port)
                \/ /\ RetryListen(w) /\ Trying(w, i, ip)'
                   /\ \A s \in Servers : st[s] = "shut" => Addr(s) # <<ip, db[i].port>>
                \/ ~ (Listen(w) \/ ListenFails(w) \/ RetryListen(w) \/ GiveUp(w) \/ Record(w) \/ StartDone(w))
    <2>t. b \in Binding /\ b # None /\ b.row.port = db[i].port
      BY <1>p, <1>t, <1>11, ProxyAssumption DEF Locals, OwnsOK, Owns
    <2>1. CASE Listen(w)
      <3>1. PICK r \in Servers, d \in Candidates(w) :
               Takes(w, r, d) /\ Addr(r) = <<d.ip, d.row.port>> /\ AddrFree(d.ip, d.row.port)
        BY <2>1, ListenTakesAddress
      <3>2. loc'[w].binds = loc[w].binds \ {d} /\ loc'[w].cur = None
            /\ hand'[w] = r /\ at'[r].id = d.id
        BY <1>t, <3>1 DEF Takes, Locals
      <3>3. CASE b = d
        <4>1. r # None /\ r[1] = ip
          BY <1>11, <3>1, <3>3, ProxyAssumption DEF Addr
        <4>2. Holding(w, i, ip)'
          BY <1>11, <3>2, <3>3, <4>1 DEF Holding
        <4> QED
          BY <1>11, <2>1, <2>t, <3>1, <3>3, <4>2
      <3>4. CASE b # d
        BY <1>11, <2>t, <3>2, <3>4 DEF Willing
      <3> QED
        BY <3>3, <3>4
    <2>2. CASE ListenFails(w)
      <3>1. PICK d \in Candidates(w) : loc' = [loc EXCEPT ![w].cur = d, ![w].tries = @ + 1]
        BY <2>2 DEF ListenFails
      <3>2. /\ loc'[w].binds = loc[w].binds /\ loc'[w].cur = d
            /\ loc'[w].tries = loc[w].tries + 1 /\ pc'[w] = "wait"
        BY <1>t, <2>2, <3>1 DEF ListenFails, Goto, Locals
      <3>3. CASE b = d
        <4>1. loc[w].cur = None
          BY <1>11, <2>2, <3>3 DEF ListenFails, Candidates
        <4>2. loc'[w].tries < maxBindRetries
          BY <1>p, <3>2, <4>1, ProxyAssumption DEF OwnsOK, Growing
        <4> QED
          BY <1>11, <3>2, <4>2 DEF Willing
      <3>4. CASE b # d
        BY <1>11, <3>2, <3>4 DEF Willing
      <3> QED
        BY <3>3, <3>4
    <2>3. CASE RetryListen(w)
      <3>1. loc' = loc /\ pc'[w] = "bind"
        BY <1>t, <2>3 DEF RetryListen, Goto
      <3>2. CASE b = loc[w].cur
        <4>1. Trying(w, i, ip)'
          BY <1>11, <2>t, <3>1, <3>2 DEF Trying
        <4> QED
          BY <1>11, <2>3, <2>t, <3>2, <4>1 DEF RetryListen
      <3>3. CASE b # loc[w].cur
        BY <1>11, <3>1, <3>3 DEF Willing
      <3> QED
        BY <3>2, <3>3
    <2>4. CASE GiveUp(w)
      <3>1. b # loc[w].cur
        BY <1>11, <2>4, <1>t DEF GiveUp, OwnInv, Locals
      <3>2. loc'[w].binds = loc[w].binds \ {loc[w].cur} /\ loc'[w].cur = None
        BY <1>t, <2>4 DEF GiveUp, Locals
      <3> QED
        BY <1>11, <2>t, <3>1, <3>2 DEF Willing
    <2>5. CASE Record(w)
      <3>1. loc' = loc /\ b # loc[w].cur
        BY <1>11, <2>5 DEF Record
      <3> QED
        BY <1>11, <3>1 DEF Willing
    <2>6. CASE StartDone(w)
      BY <2>6 DEF StartDone
    <2> QED
      BY <2>1, <2>2, <2>3, <2>4, <2>5, <2>6
  <1>12. CASE StartDone(w)
    <2>1. \E e \in loc[w].todo : e[1] = i
      BY <1>12 DEF StartDone, Willing
    <2> QED
      BY <1>12, <1>10, <2>1
  <1> QED
    BY <1>1, <1>2, <1>3, <1>4, <1>5, <1>6, <1>7, <1>8, <1>9, <1>10, <1>11, <1>12, <1>b,
       WillingSteps, WillingAt

\* What holds whatever the interfaces are.
Grounds == TypeInv /\ PathInv /\ ListenerInv /\ KnownInv /\ OwnInv

(* What is served, unfolded. *)
LEMMA ServedMeans ==
    ASSUME NEW i, NEW ip
    PROVE  <<i, ip>> \in Served <=> \E s \in Serving : at[s].id = i /\ s[1] = ip
  BY DEF Served

(* The same of the next state. *)
LEMMA ServedMeansNext ==
    ASSUME NEW i, NEW ip, NEW s \in servers', st'[s] \in {"spawned", "serving"},
           at'[s].id = i, s[1] = ip
    PROVE  (<<i, ip>> \in Served)'
  BY DEF Served, Serving

(* A server that is recorded serves. *)
LEMMA RecordServes ==
    ASSUME Grounds, NEW w \in Workers, Record(w)
    PROVE  /\ hand[w] \in Servers /\ hand[w] \in servers'
           /\ st'[hand[w]] = "spawned" /\ at'[hand[w]] = at[hand[w]]
  <1>1. hand[w] \in Servers /\ st[hand[w]] = "bound"
    BY ProxyAssumption DEF Grounds, Record, TypeInv, ListenerInv, HandsOK
  <1> QED
    BY <1>1 DEF Record

(* A service that is served on an address still is after a step, unless it *)
(* is being stopped.                                                       *)
LEMMA ServedStep ==
    ASSUME Growing, Grounds, [Next]_vars, NEW s \in Serving,
           \A w \in Workers : ~ (StopService(w) /\ loc[w].id = at[s].id)
    PROVE  \E r \in servers' : /\ st'[r] \in {"spawned", "serving"}
                               /\ at'[r].id = at[s].id /\ r[1] = s[1]
  <1>t. /\ st \in [Servers -> Statuses] /\ at \in [Servers -> Started \cup {None}]
        /\ kill \in [Workers -> SUBSET Servers] /\ servers \subseteq Servers
        /\ s \in servers /\ s \in Servers /\ st[s] \in {"spawned", "serving"}
    BY DEF Grounds, TypeInv, TypeOK, Serving
  <1>1. CASE UNCHANGED <<servers, st, at>>
    BY <1>1, <1>t
  <1>2. ASSUME NEW w \in Workers, Listen(w)
        PROVE  s \in servers' /\ st'[s] \in {"spawned", "serving"} /\ at'[s] = at[s]
    <2>1. PICK r \in Servers, b \in Candidates(w) : Takes(w, r, b)
      BY <1>2, ListenTakes DEF Grounds
    <2> QED
      BY <1>t, <1>2, <2>1 DEF Takes, Listen
  <1>3. ASSUME NEW w \in Workers, Record(w)
        PROVE  \E r \in servers' : /\ st'[r] \in {"spawned", "serving"}
                                   /\ at'[r].id = at[s].id /\ r[1] = s[1]
    <2>1. CASE Key(s) = Key(hand[w])
      <3>1. at[hand[w]].id = at[s].id /\ hand[w][1] = s[1]
        BY <2>1 DEF Key
      <3> QED
        BY <1>3, <3>1, RecordServes
    <2>2. CASE Key(s) # Key(hand[w])
      <3>1. s \in servers' /\ st'[s] \in {"spawned", "serving"} /\ at'[s] = at[s]
        BY <1>3, <1>t, <2>2 DEF Record
      <3> QED
        BY <3>1
    <2> QED
      BY <2>1, <2>2
  <1>4. ASSUME NEW w \in Workers, ShutdownServer(w)
        PROVE  s \in servers' /\ st'[s] \in {"spawned", "serving"} /\ at'[s] = at[s]
    <2>1. PICK r \in kill[w] :
             IF st[r] \in {"spawned", "shut"}
             THEN st' = [st EXCEPT ![r] = "shut"] /\ UNCHANGED at
             ELSE st' = [st EXCEPT ![r] = "unused"] /\ at' = [at EXCEPT ![r] = None]
      BY <1>4 DEF ShutdownServer
    <2>2. r # s /\ servers' = servers
      BY <1>4, <1>t DEF ShutdownServer, Grounds, ListenerInv, KillsOK
    <2> QED
      BY <1>t, <2>1, <2>2
  <1>5. ASSUME NEW w \in Workers, StopService(w)
        PROVE  s \in servers' /\ st'[s] \in {"spawned", "serving"} /\ at'[s] = at[s]
    BY <1>5, <1>t DEF StopService, Detach
  <1>6. ASSUME NEW r \in Servers, Goroutine(r)
        PROVE  s \in servers' /\ st'[s] \in {"spawned", "serving"} /\ at'[s] = at[s]
    BY <1>6, <1>t DEF Goroutine, Serve, ShutdownOnCancel, Grounds, OwnInv
  <1>7. ASSUME NEW w \in Workers
        PROVE  ~ StopServicesOnInterface(w)
    BY Excluded DEF Grounds
  <1> QED
    BY <1>1, <1>2, <1>3, <1>4, <1>5, <1>6, <1>7, ServersStay DEF Next, vars

(* Only a worker that shuts it down makes a server shut. *)
LEMMA ShutStep ==
    ASSUME Growing, Grounds, [Next]_vars, NEW s \in Servers, st'[s] = "shut"
    PROVE  st[s] = "shut" \/ \E w \in Workers : ShutdownServer(w) /\ s \in kill[w]
  <1>t. st \in [Servers -> Statuses] /\ kill \in [Workers -> SUBSET Servers]
    BY DEF Grounds, TypeInv, TypeOK
  <1>1. CASE UNCHANGED st
    BY <1>1
  <1>2. ASSUME NEW w \in Workers, Listen(w)
        PROVE  st[s] = "shut"
    <2>1. PICK r \in Servers, b \in Candidates(w) : Takes(w, r, b)
      BY <1>2, ListenTakes DEF Grounds
    <2> QED
      BY <1>t, <2>1 DEF Takes
  <1>3. ASSUME NEW w \in Workers, Record(w)
        PROVE  st[s] = "shut"
    BY <1>3, <1>t DEF Record
  <1>4. ASSUME NEW w \in Workers, ShutdownServer(w)
        PROVE  st[s] = "shut" \/ s \in kill[w]
    BY <1>4, <1>t DEF ShutdownServer
  <1>5. ASSUME NEW w \in Workers, StopService(w) \/ StopServicesOnInterface(w)
        PROVE  UNCHANGED st
    BY <1>5 DEF StopService, StopServicesOnInterface, Detach
  <1>6. ASSUME NEW r \in Servers, Goroutine(r)
        PROVE  st[s] = "shut"
    BY <1>6, <1>t DEF Goroutine, Serve, ShutdownOnCancel, Grounds, OwnInv
  <1> QED
    BY <1>1, <1>2, <1>3, <1>4, <1>5, <1>6, ServersStay DEF Next, vars

(* A server at the port of a service is that service's. *)
LEMMA OwnerOfAddress ==
    ASSUME Grounds, TunnelPortsDistinct, NEW s \in Servers, st[s] # "unused",
           NEW i \in Ids, Stored(i), s[2] = db[i].port
    PROVE  at[s].id = i
  <1>1. at[s].id \in Ids
    BY DEF Grounds, KnownInv, Started
  <1>2. Stored(at[s].id) /\ db[at[s].id].port = s[2]
    BY DEF Grounds, OwnInv, Owns
  <1> QED
    BY <1>1, <1>2 DEF TunnelPortsDistinct

(* An address that cannot be bound is taken by the service itself, which *)
(* has it, is about to have it, or has given it up to bind it again.     *)
LEMMA TakenAddress ==
    ASSUME Grounds, TunnelPortsDistinct, NEW v \in Workers, pc[v] = "bind",
           NEW i \in Ids, Stored(i), NEW ip, ~ AddrFree(ip, db[i].port), Released(i, ip)
    PROVE  \/ <<i, ip>> \in Served
           \/ \E u \in Workers : Willing(u, i, ip)
           \/ \E u \in Workers \ {v} : Holding(u, i, ip)
  <1>1. PICK s \in Servers : st[s] \in Open /\ Addr(s) = <<ip, db[i].port>>
    BY DEF AddrFree
  <1>2. at[s].id = i /\ s[1] = ip /\ s # None
    BY <1>1, OwnerOfAddress, ProxyAssumption DEF Addr, Open
  <1>3. CASE st[s] = "shut"
    BY <1>1, <1>3 DEF Released
  <1>4. CASE st[s] # "shut" /\ s \in servers
    <2>1. st[s] \in {"spawned", "serving"}
      BY <1>1, <1>4 DEF Grounds, ListenerInv, MapOK, Taken, Open
    <2> QED
      BY <1>2, <1>4, <2>1, ServedMeans DEF Serving
  <1>5. ASSUME NEW u \in Workers, s \in kill[u]
        PROVE  Willing(u, i, ip)
    <2>1. pc[u] = "shut"
      BY <1>5 DEF Grounds, ListenerInv, KillsOK
    <2> QED
      BY <1>2, <1>5, <2>1 DEF Grounds, OwnInv, OwnsOK, Willing
  <1>6. ASSUME NEW u \in Workers, hand[u] = s
        PROVE  u # v /\ Holding(u, i, ip)
    BY <1>2, <1>6 DEF Grounds, ListenerInv, HandsOK, Holding
  <1>7. st[s] # "shut" => s \in servers \/ \E u \in Workers : hand[u] = s \/ s \in kill[u]
    BY <1>1 DEF Grounds, ListenerInv, NoOrphanListener, Attended, Held, Open
  <1> QED
    BY <1>3, <1>4, <1>5, <1>6, <1>7

(* A worker that will still try goes on to; or it tries, or has tried, with *)
(* nothing closing in its way.                                              *)
LEMMA WillingNext ==
    ASSUME Growing, Grounds, started, [Next]_vars,
           NEW i \in Ids, NEW n \in Names, Needed(i, n), NEW ip, ip = interfaces[n],
           NEW v \in Workers, Willing(v, i, ip)
    PROVE  \/ Willing(v, i, ip)'
           \/ /\ Holding(v, i, ip)' \/ Trying(v, i, ip)'
              /\ \A s \in Servers : st[s] = "shut" => Addr(s) # <<ip, db[i].port>>
  <1>1. CASE pc'[v] = pc[v] /\ loc'[v] = loc[v]
    BY <1>1 DEF Willing
  <1>2. CASE Begin(v) \/ Step(v)
    BY <1>2, WillingOwn DEF Grounds, AddrFree, Open
  <1> QED
    BY <1>1, <1>2, OthersStay
       DEF Next, vars, Goroutine, Serve, ShutdownOnCancel, Grounds

(* A listener that closes stays waited for. *)
LEMMA ReleasedStep ==
    ASSUME Growing, Grounds, TunnelPortsDistinct, started, [Next]_vars,
           NEW i \in Ids, NEW n \in Names, Needed(i, n), NEW ip, ip = interfaces[n],
           db'[i].port = db[i].port, Released(i, ip)
    PROVE  Released(i, ip)'
  <1> SUFFICES ASSUME NEW s \in Servers, st'[s] = "shut", Addr(s) = <<ip, db[i].port>>
               PROVE  \E w \in Workers : Willing(w, i, ip)'
    BY DEF Released, Addr
  <1>1. CASE st[s] = "shut"
    BY <1>1, WillingNext DEF Released
  <1>2. ASSUME NEW w \in Workers, ShutdownServer(w), s \in kill[w]
        PROVE  Willing(w, i, ip)'
    <2>1. st[s] # "unused"
      BY <1>2 DEF Grounds, ListenerInv, KillsOK, Taken
    <2>2. at[s].id = i
      BY <2>1, OwnerOfAddress DEF Addr, Needed
    <2>3. loc[w].op = "modify" /\ loc[w].id = i
      BY <1>2, <2>2 DEF Grounds, OwnInv, OwnsOK
    <2> QED
      BY <1>2, <2>3 DEF ShutdownServer, Willing
  <1> QED
    BY <1>1, <1>2, ShutStep

(* A service that is served stays covered. *)
LEMMA ServedCovers ==
    ASSUME Growing, Grounds, [Next]_vars, NEW i, NEW ip, <<i, ip>> \in Served
    PROVE  Covers(i, ip)'
  <1>1. PICK s \in Serving : at[s].id = i /\ s[1] = ip
    BY ServedMeans
  <1>2. ASSUME NEW w \in Workers, StopService(w), loc[w].id = i
        PROVE  Willing(w, i, ip)'
    BY <1>2, Excluded DEF StopService, Detach, Goto, Willing, Grounds, TypeInv, TypeOK
  <1>3. CASE \A w \in Workers : ~ (StopService(w) /\ loc[w].id = at[s].id)
    <2>1. PICK r \in servers' : /\ st'[r] \in {"spawned", "serving"}
                                /\ at'[r].id = at[s].id /\ r[1] = s[1]
      BY <1>3, ServedStep
    <2>2. (<<i, ip>> \in Served)'
      BY <1>1, <2>1, ServedMeansNext
    <2> QED
      BY <2>2 DEF Covers
  <1> QED
    BY <1>1, <1>2, <1>3 DEF Covers

(* A service whose listener is at hand stays covered. *)
LEMMA HoldingCovers ==
    ASSUME Growing, Grounds, [Next]_vars, NEW i, NEW ip,
           NEW v \in Workers, Holding(v, i, ip)
    PROVE  Covers(i, ip)'
  <1>1. pc[v] = "record"
    BY DEF Holding, Grounds, ListenerInv, HandsOK
  <1>2. CASE hand'[v] = hand[v]
    <2>1. ~ Listen(v)
      BY <1>1 DEF Listen
    <2>2. at'[hand[v]] = at[hand[v]]
      BY <1>2, <2>1, HandStep DEF Grounds, Holding
    <2>3. Holding(v, i, ip)'
      BY <1>2, <2>2 DEF Holding
    <2> QED
      BY <2>3 DEF Covers
  <1>3. CASE Begin(v) \/ Step(v)
    <2>1. Record(v)
      BY <1>1, <1>3, WillingSteps
         DEF Grounds, WillingPlaces, StopService, ShutdownServer, StopDone, Reread, CheckStarted,
             CopyInterfaces, CheckStartedOnInterface, ListServicesOnInterface, ListServices,
             NextService, Listen, ListenFails, RetryListen, GiveUp, StartDone
    <2>2. (<<i, ip>> \in Served)'
      BY <2>1, RecordServes, ServedMeansNext DEF Holding
    <2> QED
      BY <2>2 DEF Covers
  <1> QED
    BY <1>2, <1>3, HandOthers DEF Next, vars, Goroutine, Serve, ShutdownOnCancel, ownVars, Grounds

(* A service that a worker will still try to serve stays covered. *)
LEMMA WillingCovers ==
    ASSUME Growing, Grounds, started, [Next]_vars,
           NEW i \in Ids, NEW n \in Names, Needed(i, n), NEW ip, ip = interfaces[n],
           NEW v \in Workers, Willing(v, i, ip)
    PROVE  Covers(i, ip)'
  BY WillingNext DEF Covers

(* A service that a worker tries to serve stays covered: if the address is *)
(* taken, it is by the service itself, or a retry is left.                 *)
LEMMA TryingCovers ==
    ASSUME Growing, Grounds, TunnelPortsDistinct, started, [Next]_vars,
           NEW i \in Ids, NEW n \in Names, Needed(i, n), NEW ip, ip = interfaces[n],
           Released(i, ip), NEW v \in Workers, Trying(v, i, ip)
    PROVE  Covers(i, ip)'
  <1>t. /\ loc \in [Workers -> Locals] /\ loc[v] \in Locals /\ pc \in [Workers -> Labels]
        /\ hand \in [Workers -> Servers \cup {None}] /\ at \in [Servers -> Started \cup {None}]
    BY DEF Grounds, TypeInv, TypeOK
  <1>b. Candidates(v) = {loc[v].cur} /\ loc[v].cur \in loc[v].binds
    BY DEF Candidates, Trying, Grounds, PathInv, OnPath
  <1>p. loc[v].cur.row.port = db[i].port
    BY <1>b DEF Trying, Grounds, OwnInv, OwnsOK, Owns
  <1>1. CASE pc'[v] = pc[v] /\ loc'[v] = loc[v]
    <2>1. Trying(v, i, ip)'
      BY <1>1 DEF Trying
    <2> QED
      BY <2>1 DEF Covers
  <1>2. CASE Listen(v)
    <2>1. PICK r \in Servers, d \in Candidates(v) :
             Takes(v, r, d) /\ Addr(r) = <<d.ip, d.row.port>>
      BY <1>2, ListenTakesAddress DEF Grounds
    <2>2. hand'[v] = r /\ at'[r].id = i /\ r[1] = ip /\ r # None
      BY <1>t, <1>b, <2>1, ProxyAssumption DEF Takes, Addr, Trying
    <2>3. Holding(v, i, ip)'
      BY <2>2 DEF Holding
    <2> QED
      BY <2>3 DEF Covers
  <1>3. CASE ListenFails(v)
    <2>1. /\ loc' = [loc EXCEPT ![v].cur = loc[v].cur, ![v].tries = @ + 1]
          /\ ~ AddrFree(ip, db[i].port)
      BY <1>b, <1>p, <1>3 DEF ListenFails, Growing, Trying
    <2>2. CASE \E u \in Workers : Willing(u, i, ip)
      BY <2>2, WillingCovers
    <2>3. CASE <<i, ip>> \in Served
      BY <2>3, ServedCovers
    <2>4. CASE \E u \in Workers : Holding(u, i, ip)
      BY <2>4, HoldingCovers
    <2> QED
      BY <2>1, <2>2, <2>3, <2>4, TakenAddress DEF Trying, Needed
  <1>4. CASE Begin(v) \/ Step(v)
    <2>1. Listen(v) \/ ListenFails(v)
      BY <1>4, WillingSteps
         DEF Trying, Grounds, WillingPlaces, StopService, ShutdownServer, StopDone, Reread,
             CheckStarted, CopyInterfaces, CheckStartedOnInterface, ListServicesOnInterface,
             ListServices, NextService, RetryListen, GiveUp, Record, StartDone
    <2> QED
      BY <1>2, <1>3, <2>1
  <1> QED
    BY <1>1, <1>4, OthersStay DEF Next, vars, Goroutine, Serve, ShutdownOnCancel, Grounds

(* Whoever makes a new listener necessary is going to see to it. *)
LEMMA NewlyNeeded ==
    ASSUME Growing, Grounds, [Next]_vars, started',
           NEW i \in Ids, NEW n \in Names, Needed(i, n)', NEW ip, ip = interfaces'[n]
    PROVE  \/ started /\ Needed(i, n) /\ ip = interfaces[n] /\ db'[i].port = db[i].port
           \/ \E w \in Workers : Willing(w, i, ip)'
  <1>t. /\ db \in [Ids -> Row \cup {Unborn, Gone}] /\ loc \in [Workers -> Locals]
        /\ pc \in [Workers -> Labels] /\ interfaces \in [Names -> Ips \cup {NoIp}]
    BY DEF Grounds, TypeInv, TypeOK
  <1>1. ASSUME NEW w \in Workers, InsertRow(w)
        PROVE  db'[i] = db[i] \/ Willing(w, i, ip)'
    <2>1. PICK j \in Ids : db' = [db EXCEPT ![j] = loc[w].row] /\ loc' = [loc EXCEPT ![w].id = j]
      BY <1>1 DEF InsertRow
    <2>2. loc'[w].id = j /\ pc'[w] = "started"
      BY <1>1, <1>t, <2>1 DEF InsertRow, Goto, Locals
    <2> QED
      BY <1>t, <2>1, <2>2 DEF Willing
  <1>2. ASSUME NEW w \in Workers, WriteRow(w)
        PROVE  db'[i] = db[i] \/ Willing(w, i, ip)'
    <2>1. loc[w].op = "modify"
      BY <1>2, Excluded DEF WriteRow, Grounds
    <2>2. CASE db' = db
      BY <2>2
    <2>3. CASE db' # db /\ loc[w].id # i
      BY <1>2, <1>t, <2>3 DEF WriteRow
    <2>4. CASE db' # db /\ loc[w].id = i
      <3>1. loc' = loc /\ pc'[w] = "detach"
        BY <1>2, <1>t, <2>1, <2>4 DEF WriteRow, Goto
      <3> QED
        BY <2>1, <2>4, <3>1 DEF Willing
    <2> QED
      BY <2>2, <2>3, <2>4
  <1>3. ASSUME NEW w \in Workers, AddInterface(w)
        PROVE  interfaces'[n] = interfaces[n] \/ Willing(w, i, ip)'
    <2>1. PICK m \in Names, a \in Ips :
             /\ interfaces' = [interfaces EXCEPT ![m] = a]
             /\ loc' = [loc EXCEPT ![w] = [Idle EXCEPT !.op = "addInterface", !.name = m, !.ip = a]]
             /\ Goto(w, "ifStarted")
      BY <1>3 DEF AddInterface
    <2>2. loc'[w].ip = a /\ pc'[w] = "ifStarted"
      BY <1>t, <2>1, IdleOK DEF Goto, LocalOK, Locals
    <2> QED
      BY <1>t, <2>1, <2>2 DEF Willing
  <1>4. ASSUME NEW w \in Workers, Start(w)
        PROVE  Willing(w, i, ip)'
    BY <1>4, <1>t DEF Start, Goto, Willing
  <1>5. ASSUME NEW w \in Workers, Begin(w) \/ Step(w), ~ AddInterface(w)
        PROVE  interfaces' = interfaces
    <2>1. CASE Begin(w)
      BY <1>5, <2>1, Excluded DEF Begin, Create, Expose, Modify, Start, Call, Grounds
    <2>2. CASE Read(w)
      BY <2>2 DEF Read, CheckExposed, AllocatePort, LoadExisting, ProbeRunning, LookUp, Reread,
                  FetchRow, CheckStarted, CopyInterfaces, CheckStartedOnInterface,
                  ListServicesOnInterface, ListServices, NextService
    <2>3. CASE Write(w) \/ Bind(w)
      BY <2>3 DEF Write, InsertRow, WriteRow, EraseRow, Sync, Bind, Listen, ListenFails,
                  RetryListen, GiveUp, Record, StartDone
    <2>4. CASE Unbind(w) \/ CancelContext(w) \/ StopReturns(w) \/ DbError(w)
      BY <2>4 DEF Unbind, StopService, StopServicesOnInterface, Detach, ShutdownServer, StopDone,
                  CancelContext, StopReturns, DbError
    <2> QED
      BY <1>5, <2>1, <2>2, <2>3, <2>4 DEF Step
  <1>6. ASSUME NEW w \in Workers, Begin(w) \/ Step(w), ~ Start(w)
        PROVE  started
    <2> USE DEF runVars
    <2>1. CASE Begin(w)
      BY <1>6, <2>1, Excluded DEF Begin, Create, Expose, Modify, AddInterface, Call, Grounds
    <2>2. CASE Read(w)
      BY <2>2 DEF Growing, Read, CheckExposed, AllocatePort, LoadExisting, ProbeRunning, LookUp,
                  Reread, FetchRow, CheckStarted, CopyInterfaces, CheckStartedOnInterface,
                  ListServicesOnInterface, ListServices, NextService
    <2>3. CASE Write(w) \/ Bind(w)
      BY <2>3 DEF Write, InsertRow, WriteRow, EraseRow, Sync, Bind, Listen, ListenFails,
                  RetryListen, GiveUp, Record, StartDone
    <2>4. CASE Unbind(w) \/ CancelContext(w) \/ StopReturns(w) \/ DbError(w)
      BY <2>4 DEF Unbind, StopService, StopServicesOnInterface, Detach, ShutdownServer, StopDone,
                  CancelContext, StopReturns, DbError
    <2> QED
      BY <1>6, <2>1, <2>2, <2>3, <2>4 DEF Step
  <1>7. ASSUME NEW w \in Workers, Begin(w) \/ Step(w), \A v \in Workers : ~ Willing(v, i, ip)'
        PROVE  started /\ db'[i] = db[i] /\ interfaces'[n] = interfaces[n]
    <2>1. db'[i] = db[i]
      BY <1>1, <1>2, <1>7, WritersOfRows, Excluded DEF Grounds
    <2> QED
      BY <1>3, <1>4, <1>5, <1>6, <1>7, <2>1
  <1>8. CASE UNCHANGED <<db, interfaces, started>>
    BY <1>8 DEF Needed, Stored
  <1> QED
    BY <1>7, <1>8 DEF Next, vars, Goroutine, Serve, ShutdownOnCancel, tableVars, runVars,
                      Needed, Stored

(* Every step keeps CoverInv. *)
LEMMA CoverStep ==
    ASSUME Growing, Grounds, TunnelPortsDistinct, CoverInv, [Next]_vars
    PROVE  CoverInv'
  <1> SUFFICES ASSUME started', NEW i \in Ids, NEW n \in Names, Needed(i, n)',
                      NEW ip, ip = interfaces'[n]
               PROVE  Covers(i, ip)' /\ Released(i, ip)'
    BY DEF CoverInv, Covers, Released, Willing, Trying, Holding, Served
  <1>1. CASE \E w \in Workers : Willing(w, i, ip)'
    BY <1>1 DEF Covers, Released
  <1>2. CASE started /\ Needed(i, n) /\ ip = interfaces[n] /\ db'[i].port = db[i].port
    <2>1. Covers(i, ip) /\ Released(i, ip)
      BY <1>2 DEF CoverInv, Covers, Released, Willing, Trying, Holding, Served
    <2>2. Released(i, ip)'
      BY <1>2, <2>1, ReleasedStep
    <2>3. Covers(i, ip)'
      BY <1>2, <2>1, ServedCovers, WillingCovers, TryingCovers, HoldingCovers DEF Covers
    <2> QED
      BY <2>2, <2>3
  <1> QED
    BY <1>1, <1>2, NewlyNeeded

(* Initially the provider is not started. *)
LEMMA CoverInit == Init => CoverInv
  BY DEF Init, CoverInv

(* No service misses an interface: however many creations, changes of the   *)
(* enabled flag, interfaces that come up and the start of the provider      *)
(* overlap, once they are done every enabled service listens on every       *)
(* interface, provided that two creations do not choose a port at once and  *)
(* that nothing refuses a call.  The retries are what makes it true: an     *)
(* address is taken only by the service that wants it, or for as long as    *)
(* its listener closes.                                                     *)
THEOREM NoServiceMissesAnInterface ==
    ASSUME Growing, InitPortsDistinct
    PROVE  Spec /\ []PortsApart => []NoMissedListener
  <1>1. Init => Grounds /\ PortInv /\ CoverInv
    BY TypeInit, PathInit, ListenerInit, OwnInit, PortInit, CoverInit
       DEF Grounds, KnownInv, Init
  <1>2. PortInv => TunnelPortsDistinct
    BY DEF PortInv
  <1>3. Grounds /\ PortInv /\ CoverInv /\ PortsApart /\ [Next]_vars
           => Grounds' /\ PortInv' /\ CoverInv'
    BY <1>2, TypeStep, PathStep, ListenerStep, KnownStep, OwnStep, PortStep, CoverStep DEF Grounds
  <1>4. Grounds /\ CoverInv => NoMissedListener
    <2> SUFFICES ASSUME Grounds, CoverInv, AllIdle, started, NEW i \in Ids, NEW n \in Names,
                        Needed(i, n)
                 PROVE  <<i, interfaces[n]>> \in Served
      BY DEF NoMissedListener, Quiet, Wanted, Needed
    <2>1. PICK ip : ip = interfaces[n]
      OBVIOUS
    <2>2. Covers(i, ip)
      BY <2>1 DEF CoverInv, Covers, Willing, Trying, Holding, Served
    <2>3. ASSUME NEW w \in Workers
          PROVE  ~ Willing(w, i, ip) /\ ~ Trying(w, i, ip) /\ ~ Holding(w, i, ip)
      BY WillingAt DEF AllIdle, WillingPlaces, Trying, Holding, Grounds, ListenerInv, HandsOK
    <2> QED
      BY <2>1, <2>2, <2>3 DEF Covers
  <1> QED
    BY <1>1, <1>3, <1>4, PTL DEF Spec
=============================================================================
