---------------------------- MODULE ProxyProofs ----------------------------
(***************************************************************************)
(* The type invariant of Proxy, and what the other proofs about it share:  *)
(* what a step of a worker leaves alone (frames), which operation a worker *)
(* can be in at each place (paths), and how a row travels in the local     *)
(* variables of an operation.                                              *)
(***************************************************************************)
EXTENDS Proxy, TLAPS

(***************************************************************************)
(* What a worker's local variables hold at each point of its operation.    *)
(* TypeOK is not inductive without it: a value that may be None is used    *)
(* only where the operation has set it.                                    *)
(***************************************************************************)
LocalOK(l, x) ==
    /\ x \in Locals
    /\ x.op \in {"create", "expose", "modify", "update"} => x.req \in Request
    /\ l \in {"exists", "alloc", "insert", "load", "probe", "write"}
          => x.op \in {"create", "expose", "modify", "update"}
    /\ l \in {"exists", "alloc"} => x.req.target \in Targets /\ x.req.route \in Routes
    /\ l \in {"insert", "started", "interfaces"} => x.row \in Row
    /\ l \in {"ifStarted", "ifList"} => x.ip \in Ips /\ x.op = "addInterface"
    /\ l \in {"bind", "record", "wait"} /\ x.op \in {"create", "expose", "update"}
          => x.row \in Row
    /\ l = "sync" => x.row \in Row \/ x.op = "delete"
    /\ l = "wait" => x.cur \in Binding
    /\ l # "wait" => x.tries < maxBindRetries
    /\ l = "erase" => x.op = "delete"

TypeInv == /\ TypeOK
           /\ \A w \in Workers : /\ LocalOK(pc[w], loc[w])
                                 /\ pc[w] = "record" => hand[w] \in Servers

(* The local state of a worker between two operations. *)
LEMMA IdleOK == LocalOK("idle", Idle)
  <1>1. (CHOOSE n \in Names : TRUE) \in Names
    BY ProxyAssumption
  <1>2. Idle \in Locals
    BY <1>1, ProxyAssumption DEF Idle, Locals, AllOps, Epochs
  <1> QED
    BY <1>2, ProxyAssumption DEF Idle, LocalOK

(* A request changes the fields of a row, never its shape. *)
LEMMA PatchType ==
    ASSUME NEW row \in Row, NEW req \in Request
    PROVE  Patch(row, req) \in Row
  BY DEF Patch, Row, Request

(* Initially every worker is idle and every server unused. *)
LEMMA TypeInit == Init => TypeInv
  <1> SUFFICES ASSUME Init PROVE TypeInv
    OBVIOUS
  <1> USE DEF Init
  <1>1. db \in [Ids -> Row \cup {Unborn, Gone}] /\ told \in [Ids -> Row \cup {Unborn, Gone}]
    BY ProxyAssumption
  <1>2. ctx \in Epochs /\ cancelled \subseteq Epochs
    BY ProxyAssumption DEF Epochs
  <1>8. started \in BOOLEAN
    OBVIOUS
  <1>3. interfaces \in [Names -> Ips \cup {NoIp}]
    OBVIOUS
  <1>4. /\ servers \subseteq Servers
        /\ st \in [Servers -> Statuses]
        /\ at \in [Servers -> Started \cup {None}]
    BY DEF Statuses
  <1>5. /\ pc \in [Workers -> Labels]
        /\ hand \in [Workers -> Servers \cup {None}]
        /\ kill \in [Workers -> SUBSET Servers]
    BY DEF Labels
  <1>6. loc \in [Workers -> Locals]
    BY IdleOK DEF LocalOK
  <1>7. \A w \in Workers : LocalOK(pc[w], loc[w]) /\ pc[w] # "record"
    BY IdleOK
  <1> QED
    BY <1>1, <1>2, <1>3, <1>4, <1>5, <1>6, <1>7, <1>8 DEF TypeOK, TypeInv

SharedOK ==
    /\ db \in [Ids -> Row \cup {Unborn, Gone}]
    /\ told \in [Ids -> Row \cup {Unborn, Gone}]
    /\ interfaces \in [Names -> Ips \cup {NoIp}]
    /\ started \in BOOLEAN /\ ctx \in Epochs /\ cancelled \subseteq Epochs
    /\ servers \subseteq Servers
    /\ st \in [Servers -> Statuses]
    /\ at \in [Servers -> Started \cup {None}]
    /\ hand \in [Workers -> Servers \cup {None}]
    /\ kill \in [Workers -> SUBSET Servers]

sharedVars == <<tableVars, interfaces, runVars, srvVars, ownVars>>

(* A step of worker w to label l and locals x keeps the other workers' locals; *)
(* what is left to prove of it is the type of the shared variables.           *)
LEMMA StepType ==
    ASSUME TypeInv, NEW w \in Workers, NEW l \in Labels, NEW x,
           LocalOK(l, x),
           pc' = [pc EXCEPT ![w] = l], loc' = [loc EXCEPT ![w] = x],
           SharedOK',
           \A v \in Workers \ {w} : hand'[v] = hand[v],
           l = "record" => hand'[w] \in Servers
    PROVE  TypeInv'
  <1>1. x \in Locals
    BY DEF LocalOK
  <1>2. pc' \in [Workers -> Labels] /\ loc' \in [Workers -> Locals]
    BY <1>1 DEF TypeInv, TypeOK
  <1>3. ASSUME NEW v \in Workers
        PROVE  LocalOK(pc'[v], loc'[v]) /\ (pc'[v] = "record" => hand'[v] \in Servers)
    <2>1. CASE v = w
      BY <2>1 DEF TypeInv, TypeOK
    <2>2. CASE v # w
      <3>1. pc'[v] = pc[v] /\ loc'[v] = loc[v] /\ hand'[v] = hand[v]
        BY <2>2 DEF TypeInv, TypeOK
      <3> QED
        BY <3>1 DEF TypeInv
    <2> QED
      BY <2>1, <2>2
  <1> QED
    BY <1>2, <1>3 DEF TypeInv, TypeOK, SharedOK

(* The same for a step that changes no shared variable. *)
LEMMA LocalStepType ==
    ASSUME TypeInv, NEW w \in Workers, NEW l \in Labels \ {"record"}, NEW x,
           LocalOK(l, x),
           pc' = [pc EXCEPT ![w] = l], loc' = [loc EXCEPT ![w] = x],
           UNCHANGED sharedVars
    PROVE  TypeInv'
  <1>1. SharedOK'
    BY DEF TypeInv, TypeOK, SharedOK, sharedVars, tableVars, runVars, srvVars, ownVars
  <1>2. hand' = hand
    BY DEF sharedVars, ownVars
  <1> QED
    BY <1>1, <1>2, StepType

(* What TypeInv says of one worker. *)
LEMMA WorkerOK ==
    ASSUME TypeInv, NEW w \in Workers
    PROVE  /\ pc[w] \in Labels /\ loc[w] \in Locals /\ LocalOK(pc[w], loc[w])
           /\ [loc EXCEPT ![w] = loc[w]] = loc
  BY DEF TypeInv, TypeOK

(* The actions that begin an operation. *)
LEMMA BeginType ==
    ASSUME TypeInv, NEW w \in Workers, Begin(w)
    PROVE  TypeInv'
  <1>i. LocalOK("idle", Idle) /\ Idle \in Locals
    BY IdleOK DEF LocalOK
  <1>1. CASE Create(w)
    <2>1. PICK t \in Targets, r \in Routes :
             Call(w, "create", "alloc",
               [Idle EXCEPT !.op = "create",
                            !.req = [target |-> t, route |-> r, enabled |-> TRUE, valid |-> TRUE]])
      BY <1>1 DEF Create
    <2> DEFINE x == [Idle EXCEPT !.op = "create",
                  !.req = [target |-> t, route |-> r, enabled |-> TRUE, valid |-> TRUE]]
    <2>2. x.req \in Request /\ x.req.target \in Targets /\ x.req.route \in Routes
      BY <1>i DEF Locals, Request
    <2>3. x \in Locals /\ x.op = "create"
      BY <1>i, <2>2 DEF Locals, AllOps
    <2>4. x.tries = Idle.tries
      BY <1>i DEF Locals
    <2>5. LocalOK("alloc", x)
      BY <1>i, <2>2, <2>3, <2>4 DEF LocalOK
    <2> QED
      BY <2>1, <2>5, LocalStepType DEF Call, Labels, sharedVars
  <1>2. CASE Expose(w)
    <2>1. PICK r \in Routes :
             Call(w, "expose", "exists",
               [Idle EXCEPT !.op = "expose",
                            !.req = [target |-> HATarget, route |-> r,
                                     enabled |-> TRUE, valid |-> TRUE]])
      BY <1>2 DEF Expose
    <2> DEFINE x == [Idle EXCEPT !.op = "expose",
                  !.req = [target |-> HATarget, route |-> r, enabled |-> TRUE, valid |-> TRUE]]
    <2>2. x.req \in Request /\ x.req.target \in Targets /\ x.req.route \in Routes
      BY <1>i, ProxyAssumption DEF Locals, Request
    <2>3. x \in Locals /\ x.op = "expose"
      BY <1>i, <2>2 DEF Locals, AllOps
    <2>4. x.tries = Idle.tries
      BY <1>i DEF Locals
    <2>5. LocalOK("exists", x)
      BY <1>i, <2>2, <2>3, <2>4 DEF LocalOK
    <2> QED
      BY <2>1, <2>5, LocalStepType DEF Call, Labels, sharedVars
  <1>3. CASE Modify(w)
    <2>1. PICK i \in Ids, b \in BOOLEAN :
             Call(w, "modify", "write",
                  [Idle EXCEPT !.op = "modify", !.id = i, !.req = SetEnabled(b)])
      BY <1>3 DEF Modify
    <2> DEFINE x == [Idle EXCEPT !.op = "modify", !.id = i, !.req = SetEnabled(b)]
    <2>2. SetEnabled(b) \in Request
      BY DEF SetEnabled, Request
    <2>3. LocalOK("write", x)
      BY <1>i, <2>2 DEF LocalOK, Locals, AllOps
    <2> QED
      BY <2>1, <2>3, LocalStepType DEF Call, Labels, sharedVars
  <1>4. CASE Update(w)
    <2>1. PICK i \in Ids, r \in Requests :
             Call(w, "update", "load", [Idle EXCEPT !.op = "update", !.id = i, !.req = r])
      BY <1>4 DEF Update
    <2> DEFINE x == [Idle EXCEPT !.op = "update", !.id = i, !.req = r]
    <2>2. r \in Request
      BY ProxyAssumption
    <2>3. x \in Locals /\ x.op = "update" /\ x.req = r /\ x.tries = Idle.tries
      BY <1>i, <2>2 DEF Locals, AllOps
    <2>4. LocalOK("load", x)
      BY <1>i, <2>2, <2>3 DEF LocalOK
    <2> QED
      BY <2>1, <2>4, LocalStepType DEF Call, Labels, sharedVars
  <1>5. CASE Delete(w)
    <2>1. PICK i \in Ids \ {EdgeID} :
             Call(w, "delete", "look", [Idle EXCEPT !.op = "delete", !.id = i])
      BY <1>5 DEF Delete
    <2> DEFINE x == [Idle EXCEPT !.op = "delete", !.id = i]
    <2>2. LocalOK("look", x)
      BY <1>i DEF LocalOK, Locals, AllOps
    <2> QED
      BY <2>1, <2>2, LocalStepType DEF Call, Labels, sharedVars
  <1>6. CASE AddInterface(w)
    <2>1. PICK n \in Names, ip \in Ips :
             /\ interfaces' = [interfaces EXCEPT ![n] = ip]
             /\ loc' = [loc EXCEPT ![w] = [Idle EXCEPT !.op = "addInterface", !.name = n, !.ip = ip]]
             /\ Goto(w, "ifStarted")
             /\ UNCHANGED <<tableVars, runVars, srvVars, ownVars>>
      BY <1>6 DEF AddInterface
    <2> DEFINE x == [Idle EXCEPT !.op = "addInterface", !.name = n, !.ip = ip]
    <2>2. LocalOK("ifStarted", x)
      BY <1>i DEF LocalOK, Locals, AllOps
    <2>3. SharedOK'
      BY <2>1 DEF TypeInv, TypeOK, SharedOK, tableVars, runVars, srvVars, ownVars
    <2> QED
      BY <2>1, <2>2, <2>3, StepType DEF Goto, Labels, ownVars
  <1>7. CASE RemoveInterface(w)
    <2>1. PICK n \in Names :
             /\ interfaces[n] # NoIp
             /\ interfaces' = [interfaces EXCEPT ![n] = NoIp]
             /\ loc' = [loc EXCEPT ![w] = [Idle EXCEPT !.op = "removeInterface", !.name = n,
                                                       !.ip = interfaces[n]]]
             /\ Goto(w, "ifDetach")
             /\ UNCHANGED <<tableVars, runVars, srvVars, ownVars>>
      BY <1>7 DEF RemoveInterface
    <2> DEFINE x == [Idle EXCEPT !.op = "removeInterface", !.name = n, !.ip = interfaces[n]]
    <2>2. LocalOK("ifDetach", x)
      <3>1. interfaces[n] \in Ips \cup {NoIp}
        BY DEF TypeInv, TypeOK
      <3>2. x \in Locals /\ x.op = "removeInterface" /\ x.tries = Idle.tries
        BY <1>i, <3>1 DEF Locals, AllOps
      <3> QED
        BY <1>i, <3>2 DEF LocalOK
    <2>3. SharedOK'
      BY <2>1 DEF TypeInv, TypeOK, SharedOK, tableVars, runVars, srvVars, ownVars
    <2> QED
      BY <2>1, <2>2, <2>3, StepType DEF Goto, Labels, ownVars
  <1>8. CASE SetInterfaceIPs(w)
    BY <1>8 DEF SetInterfaceIPs, TypeInv, TypeOK, tableVars, runVars, srvVars, ownVars
  <1>9. CASE Start(w)
    <2> DEFINE x == [Idle EXCEPT !.op = "start", !.ctx = ctx + 1]
    <2>1. ctx + 1 \in Epochs
      BY <1>9, ProxyAssumption DEF Start, TypeInv, TypeOK, Epochs
    <2>2. LocalOK("list", x)
      BY <1>i, <2>1 DEF LocalOK, Locals, AllOps
    <2>3. started' \in BOOLEAN
      BY <1>9 DEF Start
    <2>4. SharedOK'
      BY <1>9, <2>1, <2>3 DEF Start, TypeInv, TypeOK, SharedOK, tableVars, srvVars, ownVars
    <2> QED
      BY <1>9, <2>2, <2>4, StepType DEF Start, Goto, Labels, ownVars
  <1>10. CASE Stop(w)
    <2> DEFINE x == [Idle EXCEPT !.op = "stop"]
    <2>2. LocalOK("cancel", x)
      BY <1>i DEF LocalOK, Locals, AllOps
    <2>3. started' \in BOOLEAN
      BY <1>10 DEF Stop
    <2>4. SharedOK'
      BY <1>10, <2>3 DEF Stop, TypeInv, TypeOK, SharedOK, tableVars, srvVars, ownVars
    <2> QED
      BY <1>10, <2>2, <2>4, StepType DEF Stop, Goto, Labels, ownVars
  <1> QED
    BY <1>1, <1>2, <1>3, <1>4, <1>5, <1>6, <1>7, <1>8, <1>9, <1>10 DEF Begin

(* A worker returns from its operation. *)
LEMMA ReturnType ==
    ASSUME TypeInv, NEW w \in Workers, Return(w), SharedOK', hand' = hand
    PROVE  TypeInv'
  BY IdleOK, StepType DEF Return, Labels

(* A worker moves on without changing anything else. *)
LEMMA GotoType ==
    ASSUME TypeInv, NEW w \in Workers, NEW l \in Labels \ {"record"},
           LocalOK(l, loc[w]), Goto(w, l), loc' = loc, SharedOK', hand' = hand
    PROVE  TypeInv'
  <1>1. loc' = [loc EXCEPT ![w] = loc[w]]
    BY WorkerOK
  <1> QED
    BY <1>1, StepType DEF Goto

(* Shared variables that do not change keep their types. *)
LEMMA SharedUnchanged ==
    ASSUME TypeInv, UNCHANGED sharedVars
    PROVE  SharedOK' /\ hand' = hand
  BY DEF TypeInv, TypeOK, SharedOK, sharedVars, tableVars, runVars, srvVars, ownVars

(* The actions that read the database or the provider's state. *)
LEMMA ReadType ==
    ASSUME TypeInv, NEW w \in Workers, Read(w)
    PROVE  TypeInv'
  <1>w. pc[w] \in Labels /\ loc[w] \in Locals /\ LocalOK(pc[w], loc[w])
    BY WorkerOK
  <1>d. db \in [Ids -> Row \cup {Unborn, Gone}] /\ interfaces \in [Names -> Ips \cup {NoIp}]
    BY DEF TypeInv, TypeOK
  <1>1. CASE CheckExposed(w)
    <2>0. pc[w] = "exists" /\ SharedOK' /\ hand' = hand
      BY <1>1, SharedUnchanged DEF CheckExposed, sharedVars
    <2>1. CASE Return(w)
      BY <2>0, <2>1, ReturnType
    <2>2. CASE Goto(w, "alloc") /\ loc' = loc
      <3>1. LocalOK("alloc", loc[w])
        BY <1>w, <2>0 DEF LocalOK
      <3> QED
        BY <2>0, <2>2, <3>1, GotoType DEF Labels
    <2> QED
      BY <1>1, <2>1, <2>2 DEF CheckExposed
  <1>2. CASE AllocatePort(w)
    <2>0. pc[w] = "alloc" /\ SharedOK' /\ hand' = hand
      BY <1>2, SharedUnchanged DEF AllocatePort, sharedVars
    <2>1. CASE Return(w)
      BY <2>0, <2>1, ReturnType
    <2>2. CASE ~ Return(w)
      <3>1. PICK p \in Ports :
               /\ loc' = [loc EXCEPT ![w].row =
                             [port |-> p, target |-> loc[w].req.target,
                              route |-> loc[w].req.route, enabled |-> TRUE]]
               /\ Goto(w, "insert")
        BY <1>2, <2>2 DEF AllocatePort
      <3> DEFINE x == [loc[w] EXCEPT !.row = [port |-> p, target |-> loc[w].req.target,
                              route |-> loc[w].req.route, enabled |-> TRUE]]
      <3>2. LocalOK("insert", x)
        BY <1>w, <2>0 DEF LocalOK, Locals, Request, Row
      <3> QED
        BY <2>0, <3>1, <3>2, StepType DEF Goto, Labels
    <2> QED
      BY <2>1, <2>2
  <1>3. CASE LoadExisting(w)
    <2>0. pc[w] = "load" /\ SharedOK' /\ hand' = hand
      BY <1>3, SharedUnchanged DEF LoadExisting, sharedVars
    <2>1. CASE Return(w)
      BY <2>0, <2>1, ReturnType
    <2>2. CASE ~ Return(w)
      <3> DEFINE b == \/ loc[w].req.target # Keep /\ loc[w].req.target # db[loc[w].id].target
                      \/ loc[w].req.enabled # Keep /\ loc[w].req.enabled # db[loc[w].id].enabled
      <3> DEFINE x == [loc[w] EXCEPT !.restart = b]
      <3>1. loc' = [loc EXCEPT ![w] = x] /\ Goto(w, "probe")
        BY <1>3, <2>2 DEF LoadExisting
      <3>2. b \in BOOLEAN
        OBVIOUS
      <3> HIDE DEF b
      <3>3. x \in Locals
        BY <1>w, <3>2 DEF Locals
      <3>4. LocalOK("probe", x)
        BY <1>w, <2>0, <3>3 DEF LocalOK, Locals
      <3> QED
        BY <2>0, <3>1, <3>4, StepType DEF Goto, Labels
    <2> QED
      BY <2>1, <2>2
  <1>4. CASE ProbeRunning(w)
    <2>0. pc[w] = "probe" /\ SharedOK' /\ hand' = hand /\ loc' = loc
      BY <1>4, SharedUnchanged DEF ProbeRunning, sharedVars
    <2>1. LocalOK("detach", loc[w]) /\ LocalOK("write", loc[w])
      BY <1>w, <2>0 DEF LocalOK
    <2>2. Goto(w, "detach") \/ Goto(w, "write")
      BY <1>4 DEF ProbeRunning
    <2> QED
      BY <2>0, <2>1, <2>2, GotoType DEF Labels
  <1>5. CASE LookUp(w)
    <2>0. pc[w] = "look" /\ SharedOK' /\ hand' = hand
      BY <1>5, SharedUnchanged DEF LookUp, sharedVars
    <2>1. LocalOK("detach", loc[w])
      BY <1>w, <2>0 DEF LocalOK
    <2> QED
      BY <1>5, <2>0, <2>1, ReturnType, GotoType DEF LookUp, Labels
  <1>6. CASE Reread(w)
    <2>0. pc[w] = "reread" /\ SharedOK' /\ hand' = hand
      BY <1>6, SharedUnchanged DEF Reread, sharedVars
    <2>1. CASE Goto(w, "fetch") /\ loc' = loc
      <3>1. LocalOK("fetch", loc[w])
        BY <1>w, <2>0 DEF LocalOK
      <3> QED
        BY <2>0, <2>1, <3>1, GotoType DEF Labels
    <2>2. CASE ~ (Goto(w, "fetch") /\ loc' = loc)
      <3> DEFINE x == [loc[w] EXCEPT !.row = db[loc[w].id]]
      <3>1. /\ db[loc[w].id] \in Row
            /\ loc' = [loc EXCEPT ![w] = x]
            /\ Goto(w, "started") \/ Goto(w, "fetch")
        BY <1>6, <2>2 DEF Reread, Stored
      <3>2. x \in Locals
        BY <1>w, <3>1 DEF Locals
      <3>3. LocalOK("started", x) /\ LocalOK("fetch", x)
        BY <1>w, <2>0, <3>1, <3>2 DEF LocalOK, Locals
      <3> QED
        BY <2>0, <3>1, <3>3, StepType DEF Goto, Labels
    <2> QED
      BY <2>1, <2>2
  <1>7. CASE FetchRow(w)
    <2>0. pc[w] = "fetch" /\ SharedOK' /\ hand' = hand
      BY <1>7, SharedUnchanged DEF FetchRow, sharedVars
    <2>1. CASE Return(w)
      BY <2>0, <2>1, ReturnType
    <2>2. CASE ~ Return(w)
      <3> DEFINE x == [loc[w] EXCEPT !.row = db[loc[w].id]]
      <3>1. /\ db[loc[w].id] \in Row
            /\ loc' = [loc EXCEPT ![w] = x]
            /\ Goto(w, "started") \/ Goto(w, "sync")
        BY <1>7, <2>2 DEF FetchRow, Stored
      <3>2. x \in Locals
        BY <1>w, <3>1 DEF Locals
      <3>3. LocalOK("started", x) /\ LocalOK("sync", x)
        BY <1>w, <2>0, <3>1, <3>2 DEF LocalOK, Locals
      <3> QED
        BY <2>0, <3>1, <3>3, StepType DEF Goto, Labels
    <2> QED
      BY <2>1, <2>2
  <1>8. CASE CheckStarted(w)
    <2>0. pc[w] = "started" /\ SharedOK' /\ hand' = hand
      BY <1>8, SharedUnchanged DEF CheckStarted, sharedVars
    <2>1. CASE started
      <3> DEFINE x == [loc[w] EXCEPT !.ctx = ctx]
      <3>1. loc' = [loc EXCEPT ![w] = x] /\ Goto(w, "interfaces")
        BY <1>8, <2>1 DEF CheckStarted
      <3>2. x \in Locals
        BY <1>w DEF Locals, TypeInv, TypeOK
      <3>3. LocalOK("interfaces", x)
        BY <1>w, <2>0, <3>2 DEF LocalOK, Locals
      <3> QED
        BY <2>0, <3>1, <3>3, StepType DEF Goto, Labels
    <2>2. CASE ~ started
      <3>1. LocalOK("fetch", loc[w]) /\ LocalOK("sync", loc[w])
        BY <1>w, <2>0 DEF LocalOK
      <3>2. (Goto(w, "fetch") \/ Goto(w, "sync")) /\ loc' = loc
        BY <1>8, <2>2 DEF CheckStarted
      <3> QED
        BY <2>0, <3>1, <3>2, GotoType DEF Labels
    <2> QED
      BY <2>1, <2>2
  <1>9. CASE CopyInterfaces(w)
    <2>0. pc[w] = "interfaces" /\ SharedOK' /\ hand' = hand
      BY <1>9, SharedUnchanged DEF CopyInterfaces, sharedVars
    <2> DEFINE bs == {[id |-> loc[w].id, row |-> loc[w].row, name |-> n, ip |-> interfaces[n]] :
                         n \in {m \in Names : interfaces[m] # NoIp}}
    <2> DEFINE x == [loc[w] EXCEPT !.binds = bs]
    <2>1. bs \subseteq Binding
      BY <1>w, <1>d, <2>0 DEF LocalOK, Locals, Binding
    <2>2. loc' = [loc EXCEPT ![w] = x] /\ Goto(w, "bind")
      BY <1>9 DEF CopyInterfaces
    <2> HIDE DEF bs
    <2>3. x \in Locals
      BY <1>w, <2>1 DEF Locals
    <2>4. LocalOK("bind", x)
      BY <1>w, <2>0, <2>3 DEF LocalOK, Locals
    <2> QED
      BY <2>0, <2>2, <2>4, StepType DEF Goto, Labels
  <1>10. CASE CheckStartedOnInterface(w)
    <2>0. pc[w] = "ifStarted" /\ SharedOK' /\ hand' = hand
      BY <1>10, SharedUnchanged DEF CheckStartedOnInterface, sharedVars
    <2>1. CASE started
      <3> DEFINE x == [loc[w] EXCEPT !.ctx = ctx]
      <3>1. loc' = [loc EXCEPT ![w] = x] /\ Goto(w, "ifList")
        BY <1>10, <2>1 DEF CheckStartedOnInterface
      <3>2. x \in Locals
        BY <1>w DEF Locals, TypeInv, TypeOK
      <3>3. LocalOK("ifList", x)
        BY <1>w, <2>0, <3>2 DEF LocalOK, Locals
      <3> QED
        BY <2>0, <3>1, <3>3, StepType DEF Goto, Labels
    <2>2. CASE ~ started
      BY <1>10, <2>0, <2>2, ReturnType DEF CheckStartedOnInterface
    <2> QED
      BY <2>1, <2>2
  <1>11. CASE ListServicesOnInterface(w)
    <2>0. pc[w] = "ifList" /\ SharedOK' /\ hand' = hand
      BY <1>11, SharedUnchanged DEF ListServicesOnInterface, sharedVars
    <2> DEFINE bs == {[id |-> i, row |-> db[i], name |-> loc[w].name, ip |-> loc[w].ip] :
                         i \in {j \in Ids : Stored(j) /\ db[j].enabled}}
    <2> DEFINE x == [loc[w] EXCEPT !.binds = bs]
    <2>1. bs \subseteq Binding
      BY <1>w, <1>d, <2>0 DEF LocalOK, Locals, Binding, Stored
    <2>2. loc' = [loc EXCEPT ![w] = x] /\ Goto(w, "bind")
      BY <1>11 DEF ListServicesOnInterface
    <2> HIDE DEF bs
    <2>3. x \in Locals
      BY <1>w, <2>1 DEF Locals
    <2>4. x.op \notin {"create", "expose", "update"} => LocalOK("bind", x)
      BY <1>w, <2>0, <2>3 DEF LocalOK, Locals
    <2>5. loc[w].op = "addInterface"
      BY <1>w, <2>0 DEF LocalOK
    <2>6. x.op = "addInterface"
      BY <1>w, <2>5 DEF Locals
    <2> QED
      BY <2>0, <2>2, <2>4, <2>6, StepType DEF Goto, Labels
  <1>12. CASE ListServices(w)
    <2>0. pc[w] = "list" /\ hand' = hand
      BY <1>12 DEF ListServices, ownVars
    <2>1. CASE Return(w)
      <3>1. cancelled' \subseteq Epochs /\ ctx' = ctx
        BY <1>12, <1>w DEF ListServices, Locals, TypeInv, TypeOK, runVars
      <3>2. started' \in BOOLEAN
        BY <1>12 DEF ListServices, TypeInv, TypeOK, runVars
      <3>3. SharedOK'
        BY <1>12, <3>1, <3>2
           DEF ListServices, TypeInv, TypeOK, SharedOK, tableVars, srvVars, ownVars
      <3> QED
        BY <2>0, <2>1, <3>3, ReturnType
    <2>2. CASE ~ Return(w)
      <3> DEFINE es == {<<i, db[i]>> : i \in {j \in Ids : Stored(j) /\ db[j].enabled}}
      <3> DEFINE x == [loc[w] EXCEPT !.todo = es]
      <3>1. loc' = [loc EXCEPT ![w] = x] /\ Goto(w, "next") /\ UNCHANGED sharedVars
        BY <1>12, <2>2 DEF ListServices, sharedVars
      <3>2. es \in SUBSET (Ids \X Row)
        BY <1>d DEF Stored
      <3> HIDE DEF es
      <3>3. x \in Locals
        BY <1>w, <3>2 DEF Locals
      <3>4. LocalOK("next", x)
        BY <1>w, <2>0, <3>3 DEF LocalOK, Locals
      <3> QED
        BY <3>1, <3>4, LocalStepType DEF Goto, Labels
    <2> QED
      BY <2>1, <2>2
  <1>13. CASE NextService(w)
    <2>0. pc[w] = "next" /\ SharedOK' /\ hand' = hand
      BY <1>13, SharedUnchanged DEF NextService, sharedVars
    <2>1. CASE Return(w)
      BY <2>0, <2>1, ReturnType
    <2>2. CASE ~ Return(w)
      <3>1. PICK e \in loc[w].todo :
               /\ loc' = [loc EXCEPT ![w].todo = @ \ {e}, ![w].id = e[1], ![w].row = e[2]]
               /\ Goto(w, "interfaces")
        BY <1>13, <2>2 DEF NextService
      <3>2. e[1] \in Ids /\ e[2] \in Row
        BY <1>w DEF Locals
      <3> DEFINE x == [loc[w] EXCEPT !.todo = @ \ {e}, !.id = e[1], !.row = e[2]]
      <3>3. x \in Locals
        BY <1>w, <3>2 DEF Locals
      <3>4. LocalOK("interfaces", x)
        BY <1>w, <2>0, <3>2, <3>3 DEF LocalOK, Locals
      <3>5. loc' = [loc EXCEPT ![w] = x]
        BY <3>1, <1>w
      <3> QED
        BY <2>0, <3>1, <3>4, <3>5, StepType DEF Goto, Labels
    <2> QED
      BY <2>1, <2>2
  <1> QED
    BY <1>1, <1>2, <1>3, <1>4, <1>5, <1>6, <1>7, <1>8, <1>9, <1>10, <1>11, <1>12, <1>13
       DEF Read

(* The actions that write the table or the cloud's view of it. *)
LEMMA WriteType ==
    ASSUME TypeInv, NEW w \in Workers, Write(w)
    PROVE  TypeInv'
  <1>w. pc[w] \in Labels /\ loc[w] \in Locals /\ LocalOK(pc[w], loc[w])
    BY WorkerOK
  <1>d. /\ db \in [Ids -> Row \cup {Unborn, Gone}]
        /\ told \in [Ids -> Row \cup {Unborn, Gone}]
        /\ loc[w].id \in Ids
    BY <1>w DEF TypeInv, TypeOK, Locals
  <1>1. CASE InsertRow(w)
    <2>0. pc[w] = "insert" /\ loc[w].row \in Row
      BY <1>1, <1>w DEF InsertRow, LocalOK
    <2>1. PICK i \in Ids : /\ db' = [db EXCEPT ![i] = loc[w].row]
                           /\ loc' = [loc EXCEPT ![w].id = i]
      BY <1>1 DEF InsertRow
    <2> DEFINE x == [loc[w] EXCEPT !.id = i]
    <2>2. x \in Locals
      BY <1>w DEF Locals
    <2>3. LocalOK("started", x)
      BY <1>w, <2>0, <2>2 DEF LocalOK, Locals
    <2>4. SharedOK' /\ hand' = hand
      BY <1>1, <1>d, <2>0, <2>1
         DEF InsertRow, TypeInv, TypeOK, SharedOK, runVars, srvVars, ownVars
    <2> QED
      BY <1>1, <2>1, <2>3, <2>4, StepType DEF InsertRow, Goto, Labels
  <1>2. CASE WriteRow(w)
    <2>0. pc[w] = "write" /\ loc[w].req \in Request
      BY <1>2, <1>w DEF WriteRow, LocalOK
    <2>1. db' \in [Ids -> Row \cup {Unborn, Gone}]
      <3>1. CASE db' = db
        BY <1>d, <3>1
      <3>2. CASE db' # db
        <4>1. db' = [db EXCEPT ![loc[w].id] =
                        IF Stored(loc[w].id) THEN Patch(db[loc[w].id], loc[w].req) ELSE db[loc[w].id]]
          BY <1>2, <3>2 DEF WriteRow
        <4>2. Stored(loc[w].id) => Patch(db[loc[w].id], loc[w].req) \in Row
          BY <2>0, PatchType DEF Stored
        <4> QED
          BY <1>d, <4>1, <4>2
      <3> QED
        BY <3>1, <3>2
    <2>2. SharedOK' /\ hand' = hand
      BY <1>2, <2>1 DEF WriteRow, TypeInv, TypeOK, SharedOK, runVars, srvVars, ownVars
    <2>3. LocalOK("detach", loc[w]) /\ LocalOK("fetch", loc[w])
      BY <1>w, <2>0 DEF LocalOK
    <2>4. Return(w) \/ ((Goto(w, "detach") \/ Goto(w, "fetch")) /\ loc' = loc)
      BY <1>2 DEF WriteRow
    <2> QED
      BY <2>2, <2>3, <2>4, ReturnType, GotoType DEF Labels
  <1>3. CASE EraseRow(w)
    <2>0. pc[w] = "erase" /\ loc[w].op = "delete"
      BY <1>3, <1>w DEF EraseRow, LocalOK
    <2>1. SharedOK' /\ hand' = hand /\ loc' = loc
      BY <1>3, <1>d DEF EraseRow, TypeInv, TypeOK, SharedOK, runVars, srvVars, ownVars
    <2>2. LocalOK("sync", loc[w])
      BY <1>w, <2>0 DEF LocalOK
    <2> QED
      BY <1>3, <2>1, <2>2, GotoType DEF EraseRow, Labels
  <1>4. CASE Sync(w)
    <2>0. pc[w] = "sync" /\ (loc[w].row \in Row \/ loc[w].op = "delete")
      BY <1>4, <1>w DEF Sync, LocalOK
    <2>1. told' \in [Ids -> Row \cup {Unborn, Gone}]
      BY <1>4, <1>d, <2>0 DEF Sync
    <2>2. SharedOK' /\ hand' = hand
      BY <1>4, <2>1 DEF Sync, TypeInv, TypeOK, SharedOK, runVars, srvVars, ownVars
    <2> QED
      BY <1>4, <2>2, ReturnType DEF Sync
  <1> QED
    BY <1>1, <1>2, <1>3, <1>4 DEF Write

(* The actions that bind the listeners of a service. *)
LEMMA BindType ==
    ASSUME TypeInv, NEW w \in Workers, Bind(w)
    PROVE  TypeInv'
  <1>w. pc[w] \in Labels /\ loc[w] \in Locals /\ LocalOK(pc[w], loc[w])
    BY WorkerOK
  <1>c. loc[w].tries \in Nat /\ maxBindRetries \in Nat \ {0}
    BY <1>w, ProxyAssumption DEF Locals
  <1>z. 0 \in 0..maxBindRetries /\ 0 < maxBindRetries
    BY <1>c
  <1>l. loc[w].binds \in SUBSET Binding
    BY <1>w DEF Locals
  <1>b. Candidates(w) \subseteq Binding
    BY <1>w, ProxyAssumption DEF Candidates, Locals
  <1>1. CASE Listen(w)
    <2>0. pc[w] = "bind"
      BY <1>1 DEF Listen
    <2>1. PICK b \in Candidates(w), k \in Slots :
             LET s == <<b.ip, b.row.port, k>> IN
             /\ st' = [st EXCEPT ![s] = "bound"]
             /\ at' = [at EXCEPT ![s] = [id |-> b.id, row |-> b.row, ctx |-> loc[w].ctx]]
             /\ hand' = [hand EXCEPT ![w] = s]
             /\ loc' = [loc EXCEPT ![w].binds = @ \ {b}, ![w].cur = None, ![w].tries = 0]
      BY <1>1 DEF Listen
    <2> DEFINE s == <<b.ip, b.row.port, k>>
    <2> DEFINE x == [loc[w] EXCEPT !.binds = @ \ {b}, !.cur = None, !.tries = 0]
    <2>2. b \in Binding /\ s \in Servers
      BY <1>b DEF Binding, Row, Servers
    <2>3. [id |-> b.id, row |-> b.row, ctx |-> loc[w].ctx] \in Started
      BY <1>w, <2>2 DEF Binding, Started, Locals
    <2>4. x \in Locals
      <3>1. loc[w].binds \ {b} \in SUBSET Binding
        BY <1>l
      <3> QED
        BY <1>w, <1>z, <3>1 DEF Locals
    <2>5. LocalOK("record", x)
      BY <1>w, <1>z, <2>0, <2>4 DEF LocalOK, Locals
    <2>6. loc' = [loc EXCEPT ![w] = x]
      BY <2>1, <1>w
    <2>7. SharedOK'
      BY <1>1, <2>1, <2>2, <2>3
         DEF Listen, TypeInv, TypeOK, SharedOK, Statuses, tableVars, runVars
    <2>8. hand'[w] \in Servers /\ \A v \in Workers \ {w} : hand'[v] = hand[v]
      BY <2>1, <2>2 DEF TypeInv, TypeOK
    <2> QED
      BY <1>1, <2>5, <2>6, <2>7, <2>8, StepType DEF Listen, Goto, Labels
  <1>2. CASE ListenFails(w)
    <2>0. pc[w] = "bind" /\ SharedOK' /\ hand' = hand
      BY <1>2, SharedUnchanged DEF ListenFails, sharedVars
    <2>1. PICK b \in Candidates(w) : loc' = [loc EXCEPT ![w].cur = b, ![w].tries = @ + 1]
      BY <1>2 DEF ListenFails
    <2> DEFINE x == [loc[w] EXCEPT !.cur = b, !.tries = @ + 1]
    <2>2. b \in Binding
      BY <1>b
    <2>3. loc[w].tries + 1 \in 0..maxBindRetries
      BY <1>w, <1>c, <2>0 DEF LocalOK
    <2>4. x \in Locals
      BY <1>w, <2>2, <2>3 DEF Locals
    <2>5. LocalOK("wait", x)
      BY <1>w, <2>0, <2>2, <2>4 DEF LocalOK, Locals
    <2>6. loc' = [loc EXCEPT ![w] = x]
      BY <2>1, <1>w
    <2> QED
      BY <1>2, <2>0, <2>5, <2>6, StepType DEF ListenFails, Goto, Labels
  <1>3. CASE RetryListen(w)
    <2>0. /\ pc[w] = "wait" /\ loc[w].tries < maxBindRetries
          /\ SharedOK' /\ hand' = hand /\ loc' = loc
      BY <1>3, SharedUnchanged DEF RetryListen, sharedVars
    <2>1. LocalOK("bind", loc[w])
      BY <1>w, <2>0 DEF LocalOK
    <2> QED
      BY <1>3, <2>0, <2>1, GotoType DEF RetryListen, Labels
  <1>4. CASE GiveUp(w)
    <2>0. pc[w] = "wait" /\ SharedOK' /\ hand' = hand
      BY <1>4, SharedUnchanged DEF GiveUp, sharedVars
    <2> DEFINE x == [loc[w] EXCEPT !.binds = @ \ {loc[w].cur}, !.cur = None,
                                   !.tries = 0, !.failed = TRUE]
    <2>1. x \in Locals
      <3>1. loc[w].binds \ {loc[w].cur} \in SUBSET Binding
        BY <1>l
      <3> QED
        BY <1>w, <1>z, <3>1 DEF Locals
    <2>2. LocalOK("bind", x)
      BY <1>w, <1>z, <2>0, <2>1 DEF LocalOK, Locals
    <2>3. loc' = [loc EXCEPT ![w] = x]
      BY <1>4, <1>w DEF GiveUp
    <2> QED
      BY <1>4, <2>0, <2>2, <2>3, StepType DEF GiveUp, Goto, Labels
  <1>5. CASE Record(w)
    <2>0. pc[w] = "record" /\ hand[w] \in Servers /\ loc' = loc
      BY <1>5 DEF Record, TypeInv
    <2>1. servers' \subseteq Servers
      BY <1>5, <2>0 DEF Record, TypeInv, TypeOK
    <2>2. st' \in [Servers -> Statuses] /\ at' \in [Servers -> Started \cup {None}]
      BY <1>5 DEF Record, TypeInv, TypeOK, Statuses
    <2>3. /\ hand' \in [Workers -> Servers \cup {None}]
          /\ \A v \in Workers \ {w} : hand'[v] = hand[v]
      BY <1>5 DEF Record, TypeInv, TypeOK
    <2>4. SharedOK'
      BY <1>5, <2>1, <2>2, <2>3 DEF Record, TypeInv, TypeOK, SharedOK, tableVars, runVars
    <2>5. LocalOK("bind", loc[w])
      BY <1>w, <2>0 DEF LocalOK
    <2>6. loc' = [loc EXCEPT ![w] = loc[w]]
      BY <2>0, WorkerOK
    <2> QED
      BY <1>5, <2>3, <2>4, <2>5, <2>6, StepType DEF Record, Goto, Labels
  <1>6. CASE StartDone(w)
    <2>0. pc[w] = "bind" /\ SharedOK' /\ hand' = hand
      BY <1>6, SharedUnchanged DEF StartDone, sharedVars
    <2>1. CASE Return(w)
      BY <2>0, <2>1, ReturnType
    <2>2. CASE ~ Return(w)
      <3>1. /\ \/ Goto(w, "sync") /\ loc[w].op \in {"create", "expose", "update"}
               \/ Goto(w, "fetch") \/ Goto(w, "next")
            /\ loc' = loc
        BY <1>6, <2>2 DEF StartDone
      <3>2. /\ LocalOK("fetch", loc[w]) /\ LocalOK("next", loc[w])
            /\ loc[w].op \in {"create", "expose", "update"} => LocalOK("sync", loc[w])
        BY <1>w, <2>0 DEF LocalOK
      <3> QED
        BY <2>0, <3>1, <3>2, GotoType DEF Labels
    <2> QED
      BY <2>1, <2>2
  <1> QED
    BY <1>1, <1>2, <1>3, <1>4, <1>5, <1>6 DEF Bind

(* The actions that take listeners out of the map and shut them down. *)
LEMMA UnbindType ==
    ASSUME TypeInv, NEW w \in Workers, Unbind(w)
    PROVE  TypeInv'
  <1>w. pc[w] \in Labels /\ loc[w] \in Locals /\ LocalOK(pc[w], loc[w])
    BY WorkerOK
  <1>1. ASSUME NEW doomed \in SUBSET servers, Detach(w, doomed),
               pc[w] \in {"detach", "ifDetach"}
        PROVE  TypeInv'
    <2>1. SharedOK' /\ hand' = hand /\ loc' = loc
      BY <1>1 DEF Detach, TypeInv, TypeOK, SharedOK, tableVars, runVars
    <2>2. LocalOK("shut", loc[w])
      BY <1>w, <1>1 DEF LocalOK
    <2> QED
      BY <1>1, <2>1, <2>2, GotoType DEF Detach, Labels
  <1>2. CASE StopService(w)
    BY <1>1, <1>2 DEF StopService
  <1>3. CASE StopServicesOnInterface(w)
    BY <1>1, <1>3 DEF StopServicesOnInterface
  <1>4. CASE ShutdownServer(w)
    <2>0. UNCHANGED <<tableVars, interfaces, runVars, servers, hand, pc, loc>>
      BY <1>4 DEF ShutdownServer
    <2>1. PICK s \in kill[w] :
             /\ kill' = [kill EXCEPT ![w] = @ \ {s}]
             /\ IF st[s] \in {"spawned", "shut"}
                THEN st' = [st EXCEPT ![s] = "shut"] /\ UNCHANGED at
                ELSE /\ st' = [st EXCEPT ![s] = "unused"]
                     /\ at' = [at EXCEPT ![s] = None]
      BY <1>4 DEF ShutdownServer
    <2>2. st' \in [Servers -> Statuses] /\ at' \in [Servers -> Started \cup {None}]
      BY <2>1 DEF TypeInv, TypeOK, Statuses
    <2>3. kill' \in [Workers -> SUBSET Servers]
      BY <2>1 DEF TypeInv, TypeOK
    <2> QED
      BY <2>0, <2>2, <2>3 DEF TypeInv, TypeOK, tableVars, runVars
  <1>5. CASE StopDone(w)
    <2>0. pc[w] = "shut" /\ SharedOK' /\ hand' = hand
      BY <1>5, SharedUnchanged DEF StopDone, sharedVars
    <2>1. CASE Return(w)
      BY <2>0, <2>1, ReturnType
    <2>2. CASE ~ Return(w)
      <3>1. /\ \/ loc[w].op = "modify" /\ Goto(w, "reread")
               \/ loc[w].op = "update" /\ Goto(w, "write")
               \/ loc[w].op = "delete" /\ Goto(w, "erase")
            /\ loc' = loc
        BY <1>5, <2>2 DEF StopDone
      <3>2. /\ loc[w].op = "modify" => LocalOK("reread", loc[w])
            /\ loc[w].op = "update" => LocalOK("write", loc[w])
            /\ loc[w].op = "delete" => LocalOK("erase", loc[w])
        BY <1>w, <2>0 DEF LocalOK
      <3> QED
        BY <2>0, <3>1, <3>2, GotoType DEF Labels
    <2> QED
      BY <2>1, <2>2
  <1> QED
    BY <1>2, <1>3, <1>4, <1>5 DEF Unbind

(* The goroutines of a server change its status and, at the end, forget it. *)
LEMMA GoroutineType ==
    ASSUME TypeInv, NEW s \in Servers, Goroutine(s)
    PROVE  TypeInv'
  <1>1. UNCHANGED <<tableVars, interfaces, runVars, servers, ownVars, pc, loc>>
    BY DEF Goroutine, Serve, ShutdownOnCancel
  <1>2. st' \in [Servers -> Statuses]
    BY DEF Goroutine, Serve, ShutdownOnCancel, TypeInv, TypeOK, Statuses
  <1>3. at' \in [Servers -> Started \cup {None}]
    BY DEF Goroutine, Serve, ShutdownOnCancel, TypeInv, TypeOK
  <1> QED
    BY <1>1, <1>2, <1>3 DEF TypeInv, TypeOK, tableVars, runVars, ownVars

(* Every step of the provider keeps the type invariant. *)
LEMMA TypeStep == TypeInv /\ [Next]_vars => TypeInv'
  <1> SUFFICES ASSUME TypeInv, [Next]_vars PROVE TypeInv'
    OBVIOUS
  <1>1. ASSUME NEW w \in Workers, Step(w) PROVE TypeInv'
    <2>1. CASE CancelContext(w)
      <3>1. pc[w] = "cancel" /\ hand' = hand /\ loc' = loc
        BY <2>1 DEF CancelContext, ownVars
      <3>2. SharedOK'
        BY <2>1 DEF CancelContext, TypeInv, TypeOK, SharedOK, tableVars, srvVars, ownVars
      <3>3. LocalOK("drain", loc[w])
        BY <3>1, WorkerOK DEF LocalOK
      <3> QED
        BY <2>1, <3>1, <3>2, <3>3, GotoType DEF CancelContext, Labels
    <2>2. CASE StopReturns(w)
      BY <2>2, SharedUnchanged, ReturnType DEF StopReturns, sharedVars
    <2>3. CASE DbError(w)
      BY <2>3, SharedUnchanged, ReturnType DEF DbError, sharedVars
    <2> QED
      BY <1>1, <2>1, <2>2, <2>3, ReadType, WriteType, BindType, UnbindType DEF Step
  <1>2. CASE UNCHANGED vars
    BY <1>2 DEF vars, TypeInv, TypeOK
  <1> QED
    BY <1>1, <1>2, BeginType, GoroutineType DEF Next

(***************************************************************************)
(* Every variable keeps its type, whatever operations overlap: no          *)
(* operation of the provider uses a row, a request or a listener that it   *)
(* has not obtained, and none binds an address more than maxBindRetries    *)
(* times (startReverseProxyService).                                       *)
(***************************************************************************)
THEOREM TypeCorrect == Spec => []TypeOK
  <1>1. TypeInv => TypeOK
    BY DEF TypeInv
  <1> QED
    BY <1>1, TypeInit, TypeStep, PTL DEF Spec

-----------------------------------------------------------------------------
(***************************************************************************)
(* Frames: what a step of a worker leaves alone, used by the proofs of the *)
(* other properties.                                                       *)
(***************************************************************************)

(* A step of a worker leaves the places and locals of the others alone. *)
LEMMA OthersStay ==
    ASSUME TypeInv, NEW w \in Workers, Begin(w) \/ Step(w), NEW v \in Workers \ {w}
    PROVE  pc'[v] = pc[v] /\ loc'[v] = loc[v]
  <1> USE DEF TypeInv, TypeOK, Goto, Return
  <1>1. CASE Begin(w)
    BY <1>1 DEF Begin, Create, Expose, Modify, Update, Delete, AddInterface, RemoveInterface,
                SetInterfaceIPs, Start, Stop, Call
  <1>2. CASE Read(w)
    <2>1. CASE CheckExposed(w) \/ AllocatePort(w) \/ LoadExisting(w) \/ ProbeRunning(w)
      BY <2>1 DEF CheckExposed, AllocatePort, LoadExisting, ProbeRunning
    <2>2. CASE LookUp(w) \/ Reread(w) \/ FetchRow(w) \/ CheckStarted(w) \/ CopyInterfaces(w)
      BY <2>2 DEF LookUp, Reread, FetchRow, CheckStarted, CopyInterfaces
    <2>3. CASE \/ CheckStartedOnInterface(w) \/ ListServicesOnInterface(w)
               \/ ListServices(w) \/ NextService(w)
      BY <2>3 DEF CheckStartedOnInterface, ListServicesOnInterface, ListServices, NextService
    <2> QED
      BY <1>2, <2>1, <2>2, <2>3 DEF Read
  <1>3. CASE Write(w)
    BY <1>3 DEF Write, InsertRow, WriteRow, EraseRow, Sync
  <1>4. CASE Bind(w)
    BY <1>4 DEF Bind, Listen, ListenFails, RetryListen, GiveUp, Record, StartDone
  <1>5. CASE Unbind(w)
    BY <1>5 DEF Unbind, StopService, StopServicesOnInterface, Detach, ShutdownServer, StopDone
  <1>6. CASE CancelContext(w) \/ StopReturns(w) \/ DbError(w)
    BY <1>6 DEF CancelContext, StopReturns, DbError
  <1> QED
    BY <1>1, <1>2, <1>3, <1>4, <1>5, <1>6 DEF Step

(* Only three actions write a row. *)
LEMMA WritersOfRows ==
    ASSUME NEW w \in Workers, Begin(w) \/ Step(w),
           ~ InsertRow(w), ~ WriteRow(w), ~ EraseRow(w)
    PROVE  db' = db
  <1> USE DEF tableVars
  <1>1. CASE Begin(w)
    BY <1>1 DEF Begin, Create, Expose, Modify, Update, Delete, AddInterface, RemoveInterface,
                SetInterfaceIPs, Start, Stop, Call
  <1>2. CASE Read(w)
    BY <1>2 DEF Read, CheckExposed, AllocatePort, LoadExisting, ProbeRunning, LookUp, Reread,
                FetchRow, CheckStarted, CopyInterfaces, CheckStartedOnInterface,
                ListServicesOnInterface, ListServices, NextService
  <1>3. CASE Write(w)
    BY <1>3 DEF Write, Sync
  <1>4. CASE Bind(w) \/ Unbind(w)
    BY <1>4 DEF Bind, Listen, ListenFails, RetryListen, GiveUp, Record, StartDone, Unbind,
                StopService, StopServicesOnInterface, Detach, ShutdownServer, StopDone
  <1>5. CASE CancelContext(w) \/ StopReturns(w) \/ DbError(w)
    BY <1>5 DEF CancelContext, StopReturns, DbError
  <1> QED
    BY <1>1, <1>2, <1>3, <1>4, <1>5 DEF Step

(* Only syncServiceOperation tells the cloud. *)
LEMMA TellerOfRows ==
    ASSUME NEW w \in Workers, Begin(w) \/ Step(w), ~ Sync(w)
    PROVE  told' = told
  <1> USE DEF tableVars
  <1>1. CASE Begin(w)
    BY <1>1 DEF Begin, Create, Expose, Modify, Update, Delete, AddInterface, RemoveInterface,
                SetInterfaceIPs, Start, Stop, Call
  <1>2. CASE Read(w)
    BY <1>2 DEF Read, CheckExposed, AllocatePort, LoadExisting, ProbeRunning, LookUp, Reread,
                FetchRow, CheckStarted, CopyInterfaces, CheckStartedOnInterface,
                ListServicesOnInterface, ListServices, NextService
  <1>3. CASE Write(w)
    BY <1>3 DEF Write, InsertRow, WriteRow, EraseRow
  <1>4. CASE Bind(w) \/ Unbind(w)
    BY <1>4 DEF Bind, Listen, ListenFails, RetryListen, GiveUp, Record, StartDone, Unbind,
                StopService, StopServicesOnInterface, Detach, ShutdownServer, StopDone
  <1>5. CASE CancelContext(w) \/ StopReturns(w) \/ DbError(w)
    BY <1>5 DEF CancelContext, StopReturns, DbError
  <1> QED
    BY <1>1, <1>2, <1>3, <1>4, <1>5 DEF Step

(* A step of a worker other than these leaves the servers as they are. *)
LEMMA ServersStay ==
    ASSUME NEW w \in Workers, Begin(w) \/ Step(w),
           ~ Listen(w), ~ Record(w), ~ StopService(w), ~ StopServicesOnInterface(w),
           ~ ShutdownServer(w)
    PROVE  UNCHANGED <<servers, st, at, hand, kill>>
  <1> USE DEF srvVars, ownVars
  <1>1. CASE Begin(w)
    BY <1>1 DEF Begin, Create, Expose, Modify, Update, Delete, AddInterface, RemoveInterface,
                SetInterfaceIPs, Start, Stop, Call
  <1>2. CASE Read(w)
    BY <1>2 DEF Read, CheckExposed, AllocatePort, LoadExisting, ProbeRunning, LookUp, Reread,
                FetchRow, CheckStarted, CopyInterfaces, CheckStartedOnInterface,
                ListServicesOnInterface, ListServices, NextService
  <1>3. CASE Write(w) \/ CancelContext(w) \/ StopReturns(w) \/ DbError(w)
    BY <1>3 DEF Write, InsertRow, WriteRow, EraseRow, Sync, CancelContext, StopReturns, DbError
  <1>4. CASE Bind(w) \/ Unbind(w)
    BY <1>4 DEF Bind, ListenFails, RetryListen, GiveUp, StartDone, Unbind, StopDone
  <1> QED
    BY <1>1, <1>2, <1>3, <1>4 DEF Step

(* An operation begins on an idle worker and touches no row and no server. *)
LEMMA BeginTouchesNothing ==
    ASSUME NEW w \in Workers, Begin(w)
    PROVE  pc[w] = "idle" /\ UNCHANGED <<db, servers, at>>
  BY DEF Begin, Create, Expose, Modify, Update, Delete, AddInterface, RemoveInterface,
         SetInterfaceIPs, Start, Stop, Call, tableVars, srvVars

(* The other steps are those of a worker that is not idle. *)
LEMMA StepsAreBusy ==
    ASSUME NEW w \in Workers, Step(w)
    PROVE  pc[w] # "idle"
  <1>1. CASE Read(w)
    BY <1>1 DEF Read, CheckExposed, AllocatePort, LoadExisting, ProbeRunning, LookUp, Reread,
                FetchRow, CheckStarted, CopyInterfaces, CheckStartedOnInterface,
                ListServicesOnInterface, ListServices, NextService
  <1>2. CASE Write(w) \/ Bind(w) \/ Unbind(w)
    BY <1>2 DEF Write, InsertRow, WriteRow, EraseRow, Sync, Bind, Listen, ListenFails, RetryListen,
                GiveUp, Record, StartDone, Unbind, StopService, StopServicesOnInterface,
                ShutdownServer, StopDone
  <1>3. CASE CancelContext(w) \/ StopReturns(w) \/ DbError(w)
    BY <1>3 DEF CancelContext, StopReturns, DbError
  <1> QED
    BY <1>1, <1>2, <1>3 DEF Step

(* Only AllocatePort moves a worker to the insertion of its row. *)
LEMMA ComesToInsert ==
    ASSUME TypeInv, NEW w \in Workers, Begin(w) \/ Step(w), ~ AllocatePort(w)
    PROVE  pc'[w] # "insert" \/ (pc' = pc /\ loc' = loc)
  <1> USE DEF TypeInv, TypeOK, Goto, Return
  <1>1. CASE Begin(w)
    BY <1>1 DEF Begin, Create, Expose, Modify, Update, Delete, AddInterface, RemoveInterface,
                SetInterfaceIPs, Start, Stop, Call
  <1>2. CASE Read(w)
    <2>1. CASE CheckExposed(w) \/ LoadExisting(w) \/ ProbeRunning(w)
      BY <2>1 DEF CheckExposed, LoadExisting, ProbeRunning
    <2>2. CASE LookUp(w) \/ Reread(w) \/ FetchRow(w) \/ CheckStarted(w) \/ CopyInterfaces(w)
      BY <2>2 DEF LookUp, Reread, FetchRow, CheckStarted, CopyInterfaces
    <2>3. CASE \/ CheckStartedOnInterface(w) \/ ListServicesOnInterface(w)
               \/ ListServices(w) \/ NextService(w)
      BY <2>3 DEF CheckStartedOnInterface, ListServicesOnInterface, ListServices, NextService
    <2> QED
      BY <1>2, <2>1, <2>2, <2>3 DEF Read
  <1>3. CASE Write(w)
    BY <1>3 DEF Write, InsertRow, WriteRow, EraseRow, Sync
  <1>4. CASE Bind(w)
    BY <1>4 DEF Bind, Listen, ListenFails, RetryListen, GiveUp, Record, StartDone
  <1>5. CASE Unbind(w)
    BY <1>5 DEF Unbind, StopService, StopServicesOnInterface, Detach, ShutdownServer, StopDone
  <1>6. CASE CancelContext(w) \/ StopReturns(w) \/ DbError(w)
    BY <1>6 DEF CancelContext, StopReturns, DbError
  <1> QED
    BY <1>1, <1>2, <1>3, <1>4, <1>5, <1>6 DEF Step

(* An operation begins with nothing to start. *)
LEMMA BeginsEmpty ==
    ASSUME TypeInv, NEW w \in Workers, Begin(w)
    PROVE  \/ loc'[w] = loc[w]
           \/ /\ loc'[w].binds = {} /\ loc'[w].todo = {}
              /\ loc'[w].cur = None /\ loc'[w].tries = 0
  <1>t. /\ loc \in [Workers -> Locals] /\ Idle.binds = {} /\ Idle.todo = {}
        /\ Idle.cur = None /\ Idle.tries = 0 /\ Idle \in Locals
    BY IdleOK DEF TypeInv, TypeOK, Idle, LocalOK
  <1>1. CASE SetInterfaceIPs(w)
    BY <1>1 DEF SetInterfaceIPs
  <1> USE <1>t DEF Locals
  <1>3. CASE Create(w)
    <2>1. PICK q : loc' = [loc EXCEPT ![w] = [Idle EXCEPT !.op = "create", !.req = q]]
      BY <1>3 DEF Create, Call
    <2> QED
      BY <2>1
  <1>4. CASE Expose(w)
    <2>1. PICK q : loc' = [loc EXCEPT ![w] = [Idle EXCEPT !.op = "expose", !.req = q]]
      BY <1>4 DEF Expose, Call
    <2> QED
      BY <2>1
  <1>5. CASE Modify(w)
    <2>1. PICK i \in Ids, b \in BOOLEAN :
             loc' = [loc EXCEPT ![w] = [Idle EXCEPT !.op = "modify", !.id = i, !.req = SetEnabled(b)]]
      BY <1>5 DEF Modify, Call
    <2> QED
      BY <2>1
  <1>6. CASE Update(w)
    <2>1. PICK i \in Ids, r \in Requests :
             loc' = [loc EXCEPT ![w] = [Idle EXCEPT !.op = "update", !.id = i, !.req = r]]
      BY <1>6 DEF Update, Call
    <2> QED
      BY <2>1
  <1>7. CASE Delete(w)
    <2>1. PICK i : loc' = [loc EXCEPT ![w] = [Idle EXCEPT !.op = "delete", !.id = i]]
      BY <1>7 DEF Delete, Call
    <2> QED
      BY <2>1
  <1>8. CASE AddInterface(w)
    <2>1. PICK n \in Names, ip \in Ips :
             loc' = [loc EXCEPT ![w] = [Idle EXCEPT !.op = "addInterface", !.name = n, !.ip = ip]]
      BY <1>8 DEF AddInterface
    <2> QED
      BY <2>1
  <1>9. CASE RemoveInterface(w)
    <2>1. PICK n \in Names :
             loc' = [loc EXCEPT ![w] = [Idle EXCEPT !.op = "removeInterface", !.name = n,
                                                    !.ip = interfaces[n]]]
      BY <1>9 DEF RemoveInterface
    <2> QED
      BY <2>1
  <1>10. CASE Start(w)
    BY <1>10 DEF Start
  <1>11. CASE Stop(w)
    BY <1>11 DEF Stop
  <1> QED
    BY <1>1, <1>3, <1>4, <1>5, <1>6, <1>7, <1>8, <1>9, <1>10, <1>11 DEF Begin

-----------------------------------------------------------------------------
(* The path of an operation.                                                 *)

AtBind == {"bind", "record", "wait"}
Starters == {"create", "expose", "modify", "update"}

\* Which operations take a step, and which locals they have used by then.
OnPath(l, x) ==
    /\ l = "idle" => x = Idle
    /\ l \in {"exists", "alloc", "insert"} => x.op \in {"create", "expose"}
    /\ l \in {"load", "probe"} => x.op = "update"
    /\ l \in {"look", "erase"} => x.op = "delete"
    /\ l = "write" => x.op \in {"modify", "update"}
    /\ l = "detach" => x.op \in {"modify", "update", "delete"}
    /\ l = "shut" => x.op \in {"modify", "update", "delete", "removeInterface"}
    /\ l = "reread" => x.op = "modify"
    /\ l = "fetch" => x.op \in {"modify", "update"}
    /\ l = "started" => x.op \in Starters
    /\ l = "interfaces" => x.op \in Starters \cup {"start"}
    /\ l \in AtBind => x.op \in Starters \cup {"start", "addInterface"}
    /\ l = "sync" => x.op \in Starters \cup {"delete"}
    /\ l \in {"ifStarted", "ifList"} => x.op = "addInterface"
    /\ l = "ifDetach" => x.op = "removeInterface"
    /\ l \in {"list", "next"} => x.op = "start"
    /\ l \in {"cancel", "drain"} => x.op = "stop"
    /\ x.todo # {} => x.op = "start"
    /\ l \notin AtBind => x.binds = {} /\ x.cur = None
    /\ x.cur # None => x.cur \in x.binds
    /\ x.op = "modify" => x.req \in {SetEnabled(b) : b \in BOOLEAN}

PathInv == \A w \in Workers : OnPath(pc[w], loc[w])

(* A step that takes one worker along its path. *)
LEMMA PathKept ==
    ASSUME TypeInv, PathInv, NEW w \in Workers, Begin(w) \/ Step(w),
           NEW l, NEW x, OnPath(l, x),
           pc' = [pc EXCEPT ![w] = l], loc' = [loc EXCEPT ![w] = x]
    PROVE  PathInv'
  <1>1. OnPath(pc'[w], loc'[w])
    BY DEF TypeInv, TypeOK
  <1>2. \A v \in Workers \ {w} : OnPath(pc'[v], loc'[v])
    BY OthersStay DEF PathInv
  <1> QED
    BY <1>1, <1>2 DEF PathInv

LEMMA IdleOnPath == OnPath("idle", Idle)
  BY DEF OnPath, Idle, AtBind

LEMMA PathReturn ==
    ASSUME TypeInv, PathInv, NEW w \in Workers, Begin(w) \/ Step(w), Return(w)
    PROVE  PathInv'
  BY IdleOnPath, PathKept DEF Return

LEMMA PathGoto ==
    ASSUME TypeInv, PathInv, NEW w \in Workers, Begin(w) \/ Step(w),
           NEW l, OnPath(l, loc[w]), Goto(w, l), loc' = loc
    PROVE  PathInv'
  BY PathKept, WorkerOK DEF Goto

LEMMA PathBegin ==
    ASSUME TypeInv, PathInv, NEW w \in Workers, Begin(w)
    PROVE  PathInv'
  <1> USE DEF Call, Goto, OnPath, Idle, AtBind
  <1>1. CASE Create(w)
    <2>1. PICK t \in Targets, r \in Routes :
             Call(w, "create", "alloc",
               [Idle EXCEPT !.op = "create",
                            !.req = [target |-> t, route |-> r, enabled |-> TRUE, valid |-> TRUE]])
      BY <1>1 DEF Create
    <2> DEFINE x == [Idle EXCEPT !.op = "create",
                  !.req = [target |-> t, route |-> r, enabled |-> TRUE, valid |-> TRUE]]
    <2>2. OnPath("alloc", x)
      OBVIOUS
    <2> QED
      BY <2>1, <2>2, PathKept
  <1>2. CASE Expose(w)
    <2>1. PICK r \in Routes :
             Call(w, "expose", "exists",
               [Idle EXCEPT !.op = "expose",
                            !.req = [target |-> HATarget, route |-> r,
                                     enabled |-> TRUE, valid |-> TRUE]])
      BY <1>2 DEF Expose
    <2> DEFINE x == [Idle EXCEPT !.op = "expose",
                  !.req = [target |-> HATarget, route |-> r, enabled |-> TRUE, valid |-> TRUE]]
    <2>2. OnPath("exists", x)
      OBVIOUS
    <2> QED
      BY <2>1, <2>2, PathKept
  <1>3. CASE Modify(w)
    <2>1. PICK i \in Ids, b \in BOOLEAN :
             Call(w, "modify", "write",
                  [Idle EXCEPT !.op = "modify", !.id = i, !.req = SetEnabled(b)])
      BY <1>3 DEF Modify
    <2> DEFINE x == [Idle EXCEPT !.op = "modify", !.id = i, !.req = SetEnabled(b)]
    <2>2. OnPath("write", x)
      OBVIOUS
    <2> QED
      BY <2>1, <2>2, PathKept
  <1>4. CASE Update(w)
    <2>1. PICK i \in Ids, r \in Requests :
             Call(w, "update", "load", [Idle EXCEPT !.op = "update", !.id = i, !.req = r])
      BY <1>4 DEF Update
    <2> DEFINE x == [Idle EXCEPT !.op = "update", !.id = i, !.req = r]
    <2>2. OnPath("load", x)
      OBVIOUS
    <2> QED
      BY <2>1, <2>2, PathKept
  <1>5. CASE Delete(w)
    <2>1. PICK i \in Ids \ {EdgeID} :
             Call(w, "delete", "look", [Idle EXCEPT !.op = "delete", !.id = i])
      BY <1>5 DEF Delete
    <2> DEFINE x == [Idle EXCEPT !.op = "delete", !.id = i]
    <2>2. OnPath("look", x)
      OBVIOUS
    <2> QED
      BY <2>1, <2>2, PathKept
  <1>6. CASE AddInterface(w)
    <2>1. PICK n \in Names, ip \in Ips :
             /\ loc' = [loc EXCEPT ![w] = [Idle EXCEPT !.op = "addInterface", !.name = n, !.ip = ip]]
             /\ Goto(w, "ifStarted")
      BY <1>6 DEF AddInterface
    <2>2. OnPath("ifStarted", [Idle EXCEPT !.op = "addInterface", !.name = n, !.ip = ip])
      OBVIOUS
    <2> QED
      BY <2>1, <2>2, PathKept
  <1>7. CASE RemoveInterface(w)
    <2>1. PICK n \in Names :
             /\ loc' = [loc EXCEPT ![w] = [Idle EXCEPT !.op = "removeInterface", !.name = n,
                                                       !.ip = interfaces[n]]]
             /\ Goto(w, "ifDetach")
      BY <1>7 DEF RemoveInterface
    <2>2. OnPath("ifDetach", [Idle EXCEPT !.op = "removeInterface", !.name = n,
                                          !.ip = interfaces[n]])
      OBVIOUS
    <2> QED
      BY <2>1, <2>2, PathKept
  <1>8. CASE SetInterfaceIPs(w)
    BY <1>8 DEF SetInterfaceIPs, PathInv
  <1>9. CASE Start(w) \/ Stop(w)
    BY <1>9, PathKept DEF Start, Stop
  <1> QED
    BY <1>1, <1>2, <1>3, <1>4, <1>5, <1>6, <1>7, <1>8, <1>9 DEF Begin

LEMMA PathRead ==
    ASSUME TypeInv, PathInv, NEW w \in Workers, Read(w)
    PROVE  PathInv'
  <1>s. Step(w)
    BY DEF Step
  <1>w. OnPath(pc[w], loc[w]) /\ loc[w] \in Locals
    BY WorkerOK DEF PathInv
  <1>1. CASE Return(w)
    BY <1>1, <1>s, PathReturn
  <1>2. CASE loc' = loc /\ ~ Return(w)
    <2>1. PICK l : Goto(w, l) /\ OnPath(l, loc[w])
      <3> USE DEF OnPath, AtBind, Starters
      <3>1. CASE CheckExposed(w) \/ ProbeRunning(w) \/ LookUp(w)
        BY <1>2, <1>w, <3>1 DEF CheckExposed, ProbeRunning, LookUp
      <3>2. CASE Reread(w) \/ CheckStarted(w) \/ NextService(w)
        BY <1>2, <1>w, <3>2 DEF Reread, CheckStarted, NextService
      <3>3. CASE ListServices(w) \/ ListServicesOnInterface(w) \/ CheckStartedOnInterface(w)
        BY <1>2, <1>w, <3>3 DEF ListServices, ListServicesOnInterface, CheckStartedOnInterface
      <3>4. CASE AllocatePort(w) \/ LoadExisting(w) \/ FetchRow(w) \/ CopyInterfaces(w)
        BY <1>2, <1>w, <3>4 DEF AllocatePort, LoadExisting, FetchRow, CopyInterfaces
      <3> QED
        BY <3>1, <3>2, <3>3, <3>4 DEF Read
    <2> QED
      BY <1>2, <1>s, <2>1, PathGoto
  <1>3. CASE loc' # loc /\ ~ Return(w)
    <2>1. PICK l, x : /\ OnPath(l, x) /\ Goto(w, l)
                      /\ loc' = [loc EXCEPT ![w] = x]
      <3> USE DEF OnPath, AtBind, Starters, Locals
      <3>1. CASE AllocatePort(w)
        BY <1>3, <1>w, <3>1 DEF AllocatePort
      <3>2. CASE LoadExisting(w)
        BY <1>3, <1>w, <3>2 DEF LoadExisting
      <3>3. CASE Reread(w)
        BY <1>3, <1>w, <3>3 DEF Reread
      <3>4. CASE FetchRow(w)
        BY <1>3, <1>w, <3>4 DEF FetchRow
      <3>5. CASE CheckStarted(w)
        BY <1>3, <1>w, <3>5 DEF CheckStarted
      <3>6. CASE CopyInterfaces(w)
        BY <1>3, <1>w, <3>6 DEF CopyInterfaces
      <3>7. CASE CheckStartedOnInterface(w)
        BY <1>3, <1>w, <3>7 DEF CheckStartedOnInterface
      <3>8. CASE ListServicesOnInterface(w)
        BY <1>3, <1>w, <3>8 DEF ListServicesOnInterface
      <3>9. CASE ListServices(w)
        BY <1>3, <1>w, <3>9 DEF ListServices
      <3>10. CASE NextService(w)
        <4>1. PICK e \in loc[w].todo :
                 /\ loc' = [loc EXCEPT ![w].todo = @ \ {e}, ![w].id = e[1], ![w].row = e[2]]
                 /\ Goto(w, "interfaces")
          BY <1>3, <3>10 DEF NextService
        <4> DEFINE x == [loc[w] EXCEPT !.todo = @ \ {e}, !.id = e[1], !.row = e[2]]
        <4>2. OnPath("interfaces", x)
          BY <1>w, <3>10 DEF NextService
        <4>3. loc' = [loc EXCEPT ![w] = x]
          BY <4>1
        <4> QED
          BY <4>1, <4>2, <4>3
      <3> QED
        BY <1>3, <3>1, <3>2, <3>3, <3>4, <3>5, <3>6, <3>7, <3>8, <3>9, <3>10
           DEF Read, CheckExposed, ProbeRunning, LookUp
    <2> QED
      BY <1>s, <2>1, PathKept DEF Goto
  <1> QED
    BY <1>1, <1>2, <1>3

LEMMA PathWrite ==
    ASSUME TypeInv, PathInv, NEW w \in Workers, Write(w)
    PROVE  PathInv'
  <1>s. Step(w)
    BY DEF Step
  <1>w. OnPath(pc[w], loc[w]) /\ loc[w] \in Locals
    BY WorkerOK DEF PathInv
  <1>1. CASE Return(w)
    BY <1>1, <1>s, PathReturn
  <1>2. CASE InsertRow(w)
    <2>1. PICK i \in Ids : loc' = [loc EXCEPT ![w] = [loc[w] EXCEPT !.id = i]]
      BY <1>2 DEF InsertRow
    <2>2. OnPath("started", [loc[w] EXCEPT !.id = i])
      BY <1>2, <1>w DEF InsertRow, OnPath, AtBind, Starters, Locals
    <2> QED
      BY <1>2, <1>s, <2>1, <2>2, PathKept DEF InsertRow, Goto
  <1>3. CASE loc' = loc /\ ~ Return(w)
    <2>1. PICK l : Goto(w, l) /\ OnPath(l, loc[w])
      BY <1>3, <1>w DEF Write, InsertRow, WriteRow, EraseRow, Sync, OnPath, AtBind, Starters
    <2> QED
      BY <1>3, <1>s, <2>1, PathGoto
  <1> QED
    BY <1>1, <1>2, <1>3 DEF Write, WriteRow, EraseRow, Sync

LEMMA PathBind ==
    ASSUME TypeInv, PathInv, NEW w \in Workers, Bind(w)
    PROVE  PathInv'
  <1>s. Step(w)
    BY DEF Step
  <1>w. OnPath(pc[w], loc[w]) /\ loc[w] \in Locals
    BY WorkerOK DEF PathInv
  <1> USE DEF OnPath, AtBind, Starters, Locals
  <1>1. CASE Listen(w)
    <2>1. PICK b \in Candidates(w) :
             loc' = [loc EXCEPT ![w].binds = @ \ {b}, ![w].cur = None, ![w].tries = 0]
      BY <1>1 DEF Listen
    <2> DEFINE x == [loc[w] EXCEPT !.binds = @ \ {b}, !.cur = None, !.tries = 0]
    <2>2. OnPath("record", x)
      BY <1>1, <1>w DEF Listen
    <2>3. loc' = [loc EXCEPT ![w] = x]
      BY <2>1
    <2> QED
      BY <1>1, <1>s, <2>2, <2>3, PathKept DEF Listen, Goto
  <1>2. CASE ListenFails(w)
    <2>1. PICK b \in Candidates(w) : loc' = [loc EXCEPT ![w].cur = b, ![w].tries = @ + 1]
      BY <1>2 DEF ListenFails
    <2> DEFINE x == [loc[w] EXCEPT !.cur = b, !.tries = @ + 1]
    <2>4. b \in loc[w].binds
      BY <1>w DEF Candidates
    <2>2. OnPath("wait", x)
      BY <1>2, <1>w, <2>4 DEF ListenFails
    <2>3. loc' = [loc EXCEPT ![w] = x]
      BY <2>1
    <2> QED
      BY <1>2, <1>s, <2>2, <2>3, PathKept DEF ListenFails, Goto
  <1>3. CASE GiveUp(w)
    <2> DEFINE x == [loc[w] EXCEPT !.binds = @ \ {loc[w].cur}, !.cur = None,
                                   !.tries = 0, !.failed = TRUE]
    <2>2. OnPath("bind", x)
      BY <1>3, <1>w DEF GiveUp
    <2>3. loc' = [loc EXCEPT ![w] = x]
      BY <1>3 DEF GiveUp
    <2> QED
      BY <1>3, <1>s, <2>2, <2>3, PathKept DEF GiveUp, Goto
  <1>4. CASE RetryListen(w) \/ Record(w)
    BY <1>4, <1>s, <1>w, PathGoto DEF RetryListen, Record
  <1>5. CASE StartDone(w) /\ Return(w)
    BY <1>5, <1>s, PathReturn
  <1>6. CASE StartDone(w) /\ ~ Return(w)
    <2>1. loc' = loc /\ \E l \in {"sync", "fetch", "next"} : Goto(w, l) /\ OnPath(l, loc[w])
      BY <1>6, <1>w DEF StartDone
    <2> QED
      BY <1>s, <2>1, PathGoto
  <1> QED
    BY <1>1, <1>2, <1>3, <1>4, <1>5, <1>6 DEF Bind

LEMMA PathUnbind ==
    ASSUME TypeInv, PathInv, NEW w \in Workers,
           Unbind(w) \/ CancelContext(w) \/ StopReturns(w) \/ DbError(w)
    PROVE  PathInv'
  <1>s. Step(w)
    BY DEF Step
  <1>w. OnPath(pc[w], loc[w]) /\ loc[w] \in Locals
    BY WorkerOK DEF PathInv
  <1>1. CASE Return(w)
    BY <1>1, <1>s, PathReturn
  <1>2. CASE ShutdownServer(w)
    BY <1>2 DEF ShutdownServer, PathInv
  <1>3. CASE ~ Return(w) /\ ~ ShutdownServer(w)
    <2>1. PICK l : Goto(w, l) /\ loc' = loc /\ OnPath(l, loc[w])
      BY <1>3, <1>w DEF Unbind, StopService, StopServicesOnInterface, Detach, StopDone,
                        CancelContext, StopReturns, DbError, OnPath, AtBind, Starters
    <2> QED
      BY <1>s, <2>1, PathGoto
  <1> QED
    BY <1>1, <1>2, <1>3

LEMMA PathInit == Init => PathInv
  BY IdleOnPath DEF Init, PathInv

LEMMA PathStep == TypeInv /\ PathInv /\ [Next]_vars => PathInv'
  <1> SUFFICES ASSUME TypeInv, PathInv, [Next]_vars
               PROVE  PathInv'
    OBVIOUS
  <1>1. ASSUME NEW w \in Workers, Begin(w) \/ Step(w)
        PROVE  PathInv'
    BY <1>1, PathBegin, PathRead, PathWrite, PathBind, PathUnbind DEF Step
  <1>2. CASE UNCHANGED <<pc, loc>>
    BY <1>2 DEF PathInv
  <1>3. ASSUME NEW s \in Servers, Goroutine(s)
        PROVE  UNCHANGED <<pc, loc>>
    BY <1>3 DEF Goroutine, Serve, ShutdownOnCancel
  <1> QED
    BY <1>1, <1>2, <1>3 DEF Next, vars

-----------------------------------------------------------------------------
(* What an operation carries along its path.                                 *)

(* An operation keeps its name, its service and the row it read, but for *)
(* the steps that read one.                                              *)
LEMMA KeepsOp ==
    ASSUME TypeInv, NEW w \in Workers, Step(w)
    PROVE  \/ pc'[w] = "idle" /\ loc'[w] = Idle
           \/ /\ loc'[w].op = loc[w].op
              /\ loc'[w].id = loc[w].id \/ InsertRow(w) \/ NextService(w)
              /\ \/ loc'[w].row = loc[w].row
                 \/ AllocatePort(w) \/ Reread(w) \/ FetchRow(w) \/ NextService(w)
  <1>t. /\ loc \in [Workers -> Locals] /\ pc \in [Workers -> Labels] /\ loc[w] \in Locals
    BY DEF TypeInv, TypeOK
  <1>1. CASE Return(w)
    BY <1>t, <1>1 DEF Return
  <1>2. CASE loc' = loc
    BY <1>2
  <1>3. CASE Read(w) /\ ~ Return(w) /\ loc' # loc
    <2> USE DEF Locals
    <2>1. CASE AllocatePort(w)
      BY <1>t, <1>3, <2>1 DEF AllocatePort
    <2>2. CASE LoadExisting(w)
      BY <1>t, <1>3, <2>2 DEF LoadExisting
    <2>3. CASE Reread(w)
      BY <1>t, <1>3, <2>3 DEF Reread
    <2>4. CASE FetchRow(w)
      BY <1>t, <1>3, <2>4 DEF FetchRow
    <2>5. CASE CheckStarted(w)
      BY <1>t, <1>3, <2>5 DEF CheckStarted
    <2>6. CASE CopyInterfaces(w)
      BY <1>t, <1>3, <2>6 DEF CopyInterfaces
    <2>7. CASE CheckStartedOnInterface(w)
      BY <1>t, <1>3, <2>7 DEF CheckStartedOnInterface
    <2>8. CASE ListServicesOnInterface(w)
      BY <1>t, <1>3, <2>8 DEF ListServicesOnInterface
    <2>9. CASE ListServices(w)
      BY <1>t, <1>3, <2>9 DEF ListServices
    <2>10. CASE NextService(w)
      <3>1. PICK e \in loc[w].todo :
               loc' = [loc EXCEPT ![w].todo = @ \ {e}, ![w].id = e[1], ![w].row = e[2]]
        BY <1>3, <2>10 DEF NextService
      <3> QED
        BY <1>t, <2>10, <3>1
    <2> QED
      BY <1>3, <2>1, <2>2, <2>3, <2>4, <2>5, <2>6, <2>7, <2>8, <2>9, <2>10
         DEF Read, CheckExposed, ProbeRunning, LookUp
  <1>4. CASE Write(w) /\ ~ Return(w) /\ loc' # loc
    BY <1>t, <1>4 DEF Write, InsertRow, WriteRow, EraseRow, Sync, Locals
  <1>5. CASE Bind(w) /\ ~ Return(w) /\ loc' # loc
    <2>1. CASE Listen(w)
      BY <1>t, <2>1 DEF Listen, Locals
    <2>2. CASE ListenFails(w)
      BY <1>t, <2>2 DEF ListenFails, Locals
    <2>3. CASE GiveUp(w)
      BY <1>t, <2>3 DEF GiveUp, Locals
    <2> QED
      BY <1>5, <2>1, <2>2, <2>3 DEF Bind, RetryListen, Record, StartDone
  <1>6. CASE Unbind(w) \/ CancelContext(w) \/ StopReturns(w) \/ DbError(w)
    BY <1>1, <1>2, <1>6 DEF Unbind, StopService, StopServicesOnInterface, Detach, ShutdownServer,
           StopDone, CancelContext, StopReturns, DbError
  <1> QED
    BY <1>1, <1>2, <1>3, <1>4, <1>5, <1>6 DEF Step

(* What a worker is about to start it had already been about to start, or *)
(* it has just read it from the table or written it there.                *)
LEMMA CarriedFrom ==
    ASSUME TypeInv, PathInv, NEW w \in Workers, Begin(w) \/ Step(w)
    PROVE  /\ pc'[w] \in {"started", "interfaces"} =>
                \/ /\ pc[w] \in {"started", "interfaces"}
                   /\ loc'[w].id = loc[w].id /\ loc'[w].row = loc[w].row
                \/ <<loc'[w].id, loc'[w].row>> \in loc[w].todo
                \/ InsertRow(w) /\ loc'[w].row = loc[w].row /\ db'[loc'[w].id] = loc[w].row
                \/ /\ Stored(loc[w].id) /\ db[loc[w].id].enabled
                   /\ loc'[w].id = loc[w].id /\ loc'[w].row = db[loc[w].id]
           /\ \A b \in loc'[w].binds :
                \/ b \in loc[w].binds
                \/ pc[w] = "interfaces" /\ b.id = loc[w].id /\ b.row = loc[w].row
                \/ Stored(b.id) /\ db[b.id].enabled /\ b.row = db[b.id]
           /\ \A e \in loc'[w].todo :
                e \in loc[w].todo \/ (Stored(e[1]) /\ db[e[1]].enabled /\ e[2] = db[e[1]])
  <1>t. /\ loc \in [Workers -> Locals] /\ pc \in [Workers -> Labels]
        /\ db \in [Ids -> Row \cup {Unborn, Gone}] /\ loc[w] \in Locals /\ loc[w].id \in Ids
        /\ loc[w].todo \in SUBSET (Ids \X Row)
    BY DEF TypeInv, TypeOK, Locals
  <1>p. OnPath(pc[w], loc[w])
    BY DEF PathInv
  <1>1. CASE Begin(w)
    <2>1. pc'[w] \notin {"started", "interfaces"}
      BY <1>1, <1>t, BeginTouchesNothing DEF Begin, Create, Expose, Modify, Update, Delete,
         AddInterface, RemoveInterface, SetInterfaceIPs, Start, Stop, Call, Goto
    <2> QED
      BY <1>1, <2>1, BeginsEmpty
  <1>2. CASE Return(w)
    <2>1. pc'[w] = "idle" /\ loc'[w].binds = {} /\ loc'[w].todo = {}
      BY <1>2, <1>t DEF Return, Idle
    <2> QED
      BY <2>1
  <1>3. CASE Read(w) /\ ~ Return(w)
    <2>1. CASE CheckExposed(w) \/ ProbeRunning(w) \/ LookUp(w)
      BY <1>3, <1>t, <2>1 DEF CheckExposed, ProbeRunning, LookUp, Goto
    <2>2. CASE AllocatePort(w)
      BY <1>3, <1>t, <2>2 DEF AllocatePort, Goto, Locals
    <2>3. CASE LoadExisting(w)
      BY <1>3, <1>t, <2>3 DEF LoadExisting, Goto, Locals
    <2>4. CASE Reread(w) \/ FetchRow(w)
      <3>1. CASE loc' = loc /\ pc'[w] = "fetch"
        BY <3>1
      <3>2. CASE loc' = [loc EXCEPT ![w].row = db[loc[w].id]]
        <4>1. /\ loc'[w].id = loc[w].id /\ loc'[w].row = db[loc[w].id]
              /\ loc'[w].binds = loc[w].binds /\ loc'[w].todo = loc[w].todo
          BY <1>t, <3>2 DEF Locals
        <4>2. pc'[w] \in {"started", "interfaces"} => Stored(loc[w].id) /\ db[loc[w].id].enabled
          BY <1>3, <1>t, <2>4 DEF Reread, FetchRow, Goto
        <4> QED
          BY <4>1, <4>2
      <3> QED
        BY <1>3, <1>t, <2>4, <3>1, <3>2 DEF Reread, FetchRow, Goto
    <2>5. CASE CheckStarted(w)
      BY <1>t, <2>5 DEF CheckStarted, Locals
    <2>6. CASE CopyInterfaces(w)
      <3>1. /\ pc[w] = "interfaces" /\ pc'[w] = "bind" /\ loc'[w].todo = loc[w].todo
            /\ \A b \in loc'[w].binds : b.id = loc[w].id /\ b.row = loc[w].row
        BY <1>t, <2>6 DEF CopyInterfaces, Goto, Locals
      <3> QED
        BY <3>1
    <2>7. CASE CheckStartedOnInterface(w)
      BY <1>3, <1>t, <2>7 DEF CheckStartedOnInterface, Goto, Locals
    <2>8. CASE ListServicesOnInterface(w)
      <3>1. /\ pc'[w] = "bind" /\ loc'[w].todo = loc[w].todo
            /\ \A b \in loc'[w].binds : Stored(b.id) /\ db[b.id].enabled /\ b.row = db[b.id]
        BY <1>t, <2>8 DEF ListServicesOnInterface, Goto, Locals
      <3> QED
        BY <3>1
    <2>9. CASE ListServices(w)
      <3>1. /\ pc'[w] = "next" /\ loc'[w].binds = loc[w].binds
            /\ \A e \in loc'[w].todo : Stored(e[1]) /\ db[e[1]].enabled /\ e[2] = db[e[1]]
        BY <1>3, <1>t, <2>9 DEF ListServices, Goto, Locals
      <3> QED
        BY <3>1
    <2>10. CASE NextService(w)
      <3>1. PICK e \in loc[w].todo :
               loc' = [loc EXCEPT ![w].todo = @ \ {e}, ![w].id = e[1], ![w].row = e[2]]
        BY <1>3, <2>10 DEF NextService
      <3>2. /\ loc'[w].id = e[1] /\ loc'[w].row = e[2]
            /\ loc'[w].binds = loc[w].binds /\ loc'[w].todo \subseteq loc[w].todo
        BY <1>t, <3>1 DEF Locals
      <3>3. <<e[1], e[2]>> = e
        BY <1>t
      <3> QED
        BY <3>2, <3>3
    <2> QED
      BY <1>3, <2>1, <2>2, <2>3, <2>4, <2>5, <2>6, <2>7, <2>8, <2>9, <2>10 DEF Read
  <1>4. CASE InsertRow(w)
    <2>1. PICK i \in Ids : db' = [db EXCEPT ![i] = loc[w].row] /\ loc' = [loc EXCEPT ![w].id = i]
      BY <1>4 DEF InsertRow
    <2>2. /\ loc'[w].id = i /\ loc'[w].row = loc[w].row /\ db'[i] = loc[w].row
          /\ loc'[w].binds = loc[w].binds /\ loc'[w].todo = loc[w].todo
      BY <1>t, <2>1 DEF Locals
    <2> QED
      BY <1>4, <2>2
  <1>5. CASE (WriteRow(w) \/ EraseRow(w) \/ Sync(w)) /\ ~ Return(w)
    <2>1. loc' = loc /\ pc'[w] \notin {"started", "interfaces"}
      BY <1>5, <1>t DEF WriteRow, EraseRow, Sync, Goto
    <2> QED
      BY <2>1
  <1>6. CASE Bind(w) /\ ~ Return(w)
    <2>1. pc'[w] \in {"bind", "record", "wait", "sync", "fetch", "next"}
      BY <1>6, <1>t DEF Bind, Listen, ListenFails, RetryListen, GiveUp, Record, StartDone, Goto
    <2>2. loc'[w].binds \subseteq loc[w].binds /\ loc'[w].todo = loc[w].todo
      <3>1. CASE Listen(w)
        BY <1>t, <3>1 DEF Listen, Locals
      <3>2. CASE ListenFails(w)
        BY <1>t, <3>2 DEF ListenFails, Locals
      <3>3. CASE GiveUp(w)
        BY <1>t, <3>3 DEF GiveUp, Locals
      <3> QED
        BY <1>6, <3>1, <3>2, <3>3 DEF Bind, RetryListen, Record, StartDone
    <2> QED
      BY <2>1, <2>2
  <1>7. CASE (Unbind(w) \/ CancelContext(w) \/ StopReturns(w) \/ DbError(w)) /\ ~ Return(w)
    <2>1. loc' = loc /\ pc'[w] \notin {"started", "interfaces"}
      BY <1>7, <1>t DEF Unbind, StopService, StopServicesOnInterface, Detach, ShutdownServer,
             StopDone, CancelContext, StopReturns, DbError, Goto
    <2> QED
      BY <2>1
  <1> QED
    BY <1>1, <1>2, <1>3, <1>4, <1>5, <1>6, <1>7 DEF Step, Write

LEMMA CarriedInsert ==
    ASSUME TypeInv, NEW w \in Workers, InsertRow(w)
    PROVE  loc'[w].row = loc[w].row /\ db'[loc'[w].id] = loc[w].row
  BY DEF InsertRow, TypeInv, TypeOK, Locals

LEMMA CarriedTypes ==
    ASSUME TypeInv, [Next]_vars, NEW w \in Workers
    PROVE  /\ loc'[w].id \in Ids
           /\ \A b \in loc'[w].binds : b.id \in Ids
           /\ \A e \in loc'[w].todo : e[1] \in Ids
  <1>1. TypeInv'
    BY TypeStep
  <1> QED
    BY <1>1 DEF TypeInv, TypeOK, Locals, Binding

(* The rows that a step of a worker leaves as they are. *)
LEMMA RowsStay ==
    ASSUME TypeInv, NEW w \in Workers, Begin(w) \/ Step(w), ~ WriteRow(w), ~ EraseRow(w)
    PROVE  \A i \in Ids : Stored(i) => db'[i] = db[i]
  <1>1. CASE InsertRow(w)
    BY <1>1, ProxyAssumption DEF InsertRow, TypeInv, TypeOK, Stored
  <1> QED
    BY <1>1, WritersOfRows
=============================================================================
