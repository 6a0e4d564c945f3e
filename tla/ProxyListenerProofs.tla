------------------------ MODULE ProxyListenerProofs ------------------------
(***************************************************************************)
(* No listener of the provider is ever out of reach of the operations that *)
(* stop it, and every key in p.servers stands for a listener that is bound *)
(* or whose context was cancelled.                                         *)
(*                                                                         *)
(* Neither fact is inductive: that a listener taken out of the map stays   *)
(* in the hands of one worker needs that workers never share a server, and *)
(* that an overwritten key loses no listener needs that an address is      *)
(* bound only once.                                                        *)
(***************************************************************************)
EXTENDS ProxyProofs

\* A worker holds a bound server only between Listen and Record, and no two
\* workers hold the same one.
HandsOK == \A w \in Workers : hand[w] # None =>
    /\ pc[w] = "record"
    /\ st[hand[w]] = "bound"
    /\ \A v \in Workers : hand[v] = hand[w] => v = w

Taken == {"spawned", "serving", "shut", "closed"}

\* The servers a worker is to shut down are its own and out of the map.
KillsOK == \A w \in Workers :
    /\ pc[w] # "shut" => kill[w] = {}
    /\ \A s \in kill[w] : /\ s \notin servers
                          /\ st[s] \in Taken
                          /\ \A v \in Workers : s \in kill[v] => v = w

\* A server in the map has been recorded and not been forgotten.
MapOK == \A s \in servers : st[s] \in Taken

\* An address is bound once.
OneListener == \A s, t \in Servers :
    st[s] \in Open /\ st[t] \in Open /\ Addr(s) = Addr(t) => s = t

ListenerInv == /\ HandsOK /\ KillsOK /\ MapOK /\ OneListener
               /\ NoOrphanListener /\ RecordedIsBound

(* Initially no server is used, held or recorded. *)
LEMMA ListenerInit == Init => ListenerInv
  BY DEF Init, ListenerInv, HandsOK, KillsOK, MapOK, OneListener, Open,
         NoOrphanListener, RecordedIsBound

(* A step of a worker that holds nothing and touches no server. *)
LEMMA BystanderStep ==
    ASSUME ListenerInv, NEW w \in Workers, hand[w] = None, kill[w] = {},
           \A v \in Workers \ {w} : pc'[v] = pc[v],
           UNCHANGED <<srvVars, ownVars>>, cancelled \subseteq cancelled'
    PROVE  ListenerInv'
  <1>u. UNCHANGED <<servers, st, at, hand, kill>>
    BY DEF srvVars, ownVars
  <1>1. HandsOK'
    BY <1>u DEF ListenerInv, HandsOK
  <1>2. KillsOK'
    BY <1>u DEF ListenerInv, KillsOK
  <1>3. MapOK' /\ OneListener'
    BY <1>u DEF ListenerInv, MapOK, OneListener, Addr
  <1>4. NoOrphanListener'
    BY <1>u DEF ListenerInv, NoOrphanListener, Attended, Held
  <1>5. RecordedIsBound'
    BY <1>u DEF ListenerInv, RecordedIsBound
  <1> QED
    BY <1>1, <1>2, <1>3, <1>4, <1>5 DEF ListenerInv

(* A worker outside of Record and of the shutting down holds nothing. *)
LEMMA EmptyHanded ==
    ASSUME ListenerInv, NEW w \in Workers, pc[w] # "record",
           pc[w] # "shut" \/ kill[w] = {}
    PROVE  hand[w] = None /\ kill[w] = {}
  BY DEF ListenerInv, HandsOK, KillsOK

(* A worker's moves change no other worker's place. *)
LEMMA OtherPlaces ==
    ASSUME TypeInv, NEW w \in Workers, NEW l,
           pc' = [pc EXCEPT ![w] = l]
    PROVE  \A v \in Workers \ {w} : pc'[v] = pc[v]
  BY DEF TypeInv, TypeOK

(* The actions that leave the servers alone: every one but those below. *)
LEMMA BeginBystander ==
    ASSUME TypeInv, ListenerInv, NEW w \in Workers, Begin(w)
    PROVE  ListenerInv'
  <1>1. pc[w] = "idle"
    BY DEF Begin, Create, Expose, Modify, Update, Delete, AddInterface, RemoveInterface,
           SetInterfaceIPs, Start, Stop, Call
  <1>2. UNCHANGED <<srvVars, ownVars>> /\ cancelled' = cancelled
    BY DEF Begin, Create, Expose, Modify, Update, Delete, AddInterface, RemoveInterface,
           SetInterfaceIPs, Start, Stop, Call, runVars
  <1>3. pc' = pc \/ \E l \in Labels : pc' = [pc EXCEPT ![w] = l]
    BY DEF Begin, Create, Expose, Modify, Update, Delete, AddInterface, RemoveInterface,
           SetInterfaceIPs, Start, Stop, Call, Goto, Labels
  <1>4. \A v \in Workers \ {w} : pc'[v] = pc[v]
    BY <1>3, OtherPlaces
  <1> QED
    BY <1>1, <1>2, <1>4, EmptyHanded, BystanderStep

LEMMA ReadBystander ==
    ASSUME TypeInv, ListenerInv, NEW w \in Workers, Read(w)
    PROVE  ListenerInv'
  <1>1. pc[w] \notin {"record", "shut"}
    BY DEF Read, CheckExposed, AllocatePort, LoadExisting, ProbeRunning, LookUp, Reread,
           FetchRow, CheckStarted, CopyInterfaces, CheckStartedOnInterface,
           ListServicesOnInterface, ListServices, NextService
  <1>2. UNCHANGED <<srvVars, ownVars>> /\ cancelled \subseteq cancelled'
    BY DEF Read, CheckExposed, AllocatePort, LoadExisting, ProbeRunning, LookUp, Reread,
           FetchRow, CheckStarted, CopyInterfaces, CheckStartedOnInterface,
           ListServicesOnInterface, ListServices, NextService, runVars
  <1>3. \E l : pc' = [pc EXCEPT ![w] = l]
    BY DEF Read, CheckExposed, AllocatePort, LoadExisting, ProbeRunning, LookUp, Reread,
           FetchRow, CheckStarted, CopyInterfaces, CheckStartedOnInterface,
           ListServicesOnInterface, ListServices, NextService, Goto, Return
  <1> QED
    BY <1>1, <1>2, <1>3, OtherPlaces, EmptyHanded, BystanderStep

LEMMA WriteBystander ==
    ASSUME TypeInv, ListenerInv, NEW w \in Workers, Write(w)
    PROVE  ListenerInv'
  <1>1. pc[w] \notin {"record", "shut"} /\ UNCHANGED <<srvVars, ownVars>>
    BY DEF Write, InsertRow, WriteRow, EraseRow, Sync
  <1>2. cancelled' = cancelled
    BY DEF Write, InsertRow, WriteRow, EraseRow, Sync, runVars
  <1>3. \E l : pc' = [pc EXCEPT ![w] = l]
    BY DEF Write, InsertRow, WriteRow, EraseRow, Sync, Goto, Return
  <1> QED
    BY <1>1, <1>2, <1>3, OtherPlaces, EmptyHanded, BystanderStep

LEMMA OtherBystander ==
    ASSUME TypeInv, ListenerInv, NEW w \in Workers,
           \/ ListenFails(w) \/ RetryListen(w) \/ GiveUp(w) \/ StartDone(w)
           \/ StopDone(w) \/ CancelContext(w) \/ StopReturns(w) \/ DbError(w)
    PROVE  ListenerInv'
  <1>1. pc[w] # "record" /\ (pc[w] # "shut" \/ kill[w] = {})
    BY DEF ListenFails, RetryListen, GiveUp, StartDone, StopDone, CancelContext,
           StopReturns, DbError
  <1>2. UNCHANGED <<srvVars, ownVars>> /\ cancelled \subseteq cancelled'
    BY DEF ListenFails, RetryListen, GiveUp, StartDone, StopDone, CancelContext,
           StopReturns, DbError, runVars
  <1>3. \E l : pc' = [pc EXCEPT ![w] = l]
    BY DEF ListenFails, RetryListen, GiveUp, StartDone, StopDone, CancelContext,
           StopReturns, DbError, Goto, Return
  <1> QED
    BY <1>1, <1>2, <1>3, OtherPlaces, EmptyHanded, BystanderStep

(* net.Listen: the address was free, so the new listener is the only one     *)
(* there; the worker holds it.                                               *)
LEMMA ListenStep ==
    ASSUME TypeInv, ListenerInv, NEW w \in Workers, Listen(w)
    PROVE  ListenerInv'
  <1>t. TypeInv'
    BY BindType DEF Bind
  <1>w. hand[w] = None /\ kill[w] = {} /\ pc[w] = "bind"
    BY EmptyHanded DEF Listen
  <1>1. PICK b \in Candidates(w), k \in Slots :
           LET s == <<b.ip, b.row.port, k>> IN
           /\ AddrFree(b.ip, b.row.port)
           /\ Fresh(s)
           /\ st' = [st EXCEPT ![s] = "bound"]
           /\ at' = [at EXCEPT ![s] = [id |-> b.id, row |-> b.row, ctx |-> loc[w].ctx]]
           /\ hand' = [hand EXCEPT ![w] = s]
    BY DEF Listen
  <1> DEFINE n == <<b.ip, b.row.port, k>>
  <1>b. b \in Binding
    BY <1>1, WorkerOK, ProxyAssumption DEF Candidates, Locals
  <1>n. /\ n \in Servers /\ Addr(n) = <<b.ip, b.row.port>>
        /\ st[n] = "unused" /\ n # None
    BY <1>1, <1>b, ProxyAssumption DEF Binding, Row, Servers, Addr, Fresh
  <1>2. /\ st'[n] = "bound" /\ hand'[w] = n
        /\ \A s \in Servers \ {n} : st'[s] = st[s] /\ at'[s] = at[s]
        /\ \A v \in Workers \ {w} : hand'[v] = hand[v] /\ pc'[v] = pc[v]
        /\ pc'[w] = "record" /\ servers' = servers /\ kill' = kill /\ cancelled' = cancelled
    BY <1>1, <1>n DEF Listen, Goto, TypeInv, TypeOK, runVars
  <1>f. \A s \in Servers : st[s] \in Open => Addr(s) # Addr(n)
    BY <1>1, <1>n DEF AddrFree
  <1> HIDE DEF n
  <1>3. \A v \in Workers : hand[v] # n
    BY <1>n DEF ListenerInv, HandsOK
  <1>4. n \notin servers /\ \A v \in Workers : n \notin kill[v]
    BY <1>n DEF ListenerInv, MapOK, KillsOK, Taken
  <1>h. \A v \in Workers : hand[v] \in Servers \cup {None} /\ kill[v] \subseteq Servers
    BY DEF TypeInv, TypeOK
  <1>5. HandsOK'
    BY <1>2, <1>3, <1>h, <1>n DEF ListenerInv, HandsOK
  <1>6. KillsOK'
    <2> SUFFICES ASSUME NEW v \in Workers
                 PROVE  /\ pc'[v] # "shut" => kill'[v] = {}
                        /\ \A s \in kill'[v] : /\ s \notin servers'
                                               /\ st'[s] \in Taken
                                               /\ \A u \in Workers : s \in kill'[u] => u = v
      BY DEF KillsOK
    <2>1. pc'[v] # "shut" => kill'[v] = {}
      BY <1>2, <1>w DEF ListenerInv, KillsOK
    <2>2. ASSUME NEW s \in kill'[v] PROVE st'[s] \in Taken
      BY <2>2, <1>2, <1>4, <1>h DEF ListenerInv, KillsOK
    <2>3. ASSUME NEW s \in kill'[v]
          PROVE  s \notin servers' /\ \A u \in Workers : s \in kill'[u] => u = v
      BY <2>3, <1>2 DEF ListenerInv, KillsOK
    <2> QED
      BY <2>1, <2>2, <2>3
  <1>7. MapOK' /\ RecordedIsBound'
    BY <1>2, <1>4 DEF ListenerInv, MapOK, RecordedIsBound, TypeInv, TypeOK
  <1>8. OneListener'
    BY <1>2, <1>f DEF ListenerInv, OneListener, Addr
  <1>9. NoOrphanListener'
    <2> SUFFICES ASSUME NEW s \in Servers, st'[s] \in {"bound", "spawned", "serving"}
                 PROVE  Attended(s)'
      BY DEF NoOrphanListener
    <2>1. CASE s = n
      BY <2>1, <1>2 DEF Attended, Held
    <2>2. CASE s # n
      <3>1. s \in servers \/ \E v \in Workers : hand[v] = s \/ s \in kill[v]
        BY <2>2, <1>2 DEF ListenerInv, NoOrphanListener, Attended, Held
      <3>2. s # None
        BY ProxyAssumption
      <3> QED
        BY <3>1, <3>2, <1>2, <1>w DEF Attended, Held
    <2> QED
      BY <2>1, <2>2
  <1> QED
    BY <1>5, <1>6, <1>7, <1>8, <1>9 DEF ListenerInv

(* p.servers[key] = server: the entry it overwrites has the same address, so *)
(* its listener is closed already.                                           *)
LEMMA RecordStep ==
    ASSUME TypeInv, ListenerInv, NEW w \in Workers, Record(w)
    PROVE  ListenerInv'
  <1> DEFINE n == hand[w]
             old == {t \in servers : Key(t) = Key(n)}
             dead == {t \in old : st[t] = "closed"}
  <1>h. /\ n \in Servers /\ servers \subseteq Servers
        /\ \A v \in Workers : hand[v] \in Servers \cup {None} /\ kill[v] \subseteq Servers
    BY DEF Record, TypeInv, TypeOK
  <1>n. pc[w] = "record" /\ n # None /\ st[n] = "bound"
    BY <1>h, ProxyAssumption DEF ListenerInv, HandsOK, Record
  <1>1. /\ servers' = (servers \ old) \cup {n}
        /\ st' = [t \in Servers |-> IF t = n THEN "spawned"
                                    ELSE IF t \in dead THEN "unused" ELSE st[t]]
        /\ at' = [t \in Servers |-> IF t \in dead THEN None ELSE at[t]]
    BY DEF Record
  <1>2. /\ hand' = [hand EXCEPT ![w] = None] /\ kill' = kill /\ cancelled' = cancelled
        /\ pc' = [pc EXCEPT ![w] = "bind"]
    BY DEF Record, Goto, runVars
  <1>3. /\ hand'[w] = None /\ pc'[w] = "bind"
        /\ \A v \in Workers \ {w} : hand'[v] = hand[v] /\ pc'[v] = pc[v]
    BY <1>2 DEF TypeInv, TypeOK
  <1>4. \A t \in old : Addr(t) = Addr(n) /\ t \in Servers
    BY <1>h DEF Key, Addr
  <1>5. \A t \in old : st[t] \notin Open
    <2> SUFFICES ASSUME NEW t \in old, st[t] \in Open PROVE FALSE
      OBVIOUS
    <2>1. t = n
      BY <1>4, <1>h, <1>n DEF ListenerInv, OneListener, Open
    <2> QED
      BY <2>1, <1>n DEF ListenerInv, MapOK, Taken
  <1>6. \A t \in Servers : st'[t] = IF t = n THEN "spawned"
                                    ELSE IF t \in dead THEN "unused" ELSE st[t]
    BY <1>1
  <1>7. \A t \in dead : t \in servers /\ st[t] = "closed"
    OBVIOUS
  <1>8. n \notin servers /\ \A v \in Workers : n \notin kill[v]
    BY <1>n DEF ListenerInv, MapOK, KillsOK, Taken
  <1>e. old \subseteq servers
    OBVIOUS
  <1>a. \A t \in servers' : t # n => t \in servers /\ t \notin dead /\ t \notin old
    BY <1>1
  <1>c. \A t \in Servers : t \notin dead => at'[t] = at[t]
    BY <1>1
  <1> HIDE DEF n, old, dead
  <1>9. HandsOK'
    <2> SUFFICES ASSUME NEW v \in Workers, hand'[v] # None
                 PROVE  /\ pc'[v] = "record" /\ st'[hand'[v]] = "bound"
                        /\ \A u \in Workers : hand'[u] = hand'[v] => u = v
      BY DEF HandsOK
    <2>1. v # w /\ hand'[v] = hand[v] /\ hand[v] \in Servers /\ hand[v] # None
      BY <1>3, <1>h
    <2>2. hand[v] # n
      BY <2>1, <1>n DEF ListenerInv, HandsOK, n
    <2>3. st[hand[v]] = "bound" /\ pc[v] = "record"
      BY <2>1 DEF ListenerInv, HandsOK
    <2>4. hand[v] \notin dead
      BY <2>3, <1>7
    <2>5. \A u \in Workers : hand'[u] = hand'[v] => u = v
      BY <2>1, <1>3 DEF ListenerInv, HandsOK
    <2> QED
      BY <2>1, <2>2, <2>3, <2>4, <2>5, <1>3, <1>6
  <1>10. KillsOK'
    <2> SUFFICES ASSUME NEW v \in Workers
                 PROVE  /\ pc'[v] # "shut" => kill'[v] = {}
                        /\ \A s \in kill'[v] : /\ s \notin servers'
                                               /\ st'[s] \in Taken
                                               /\ \A u \in Workers : s \in kill'[u] => u = v
      BY DEF KillsOK
    <2>1. pc'[v] # "shut" => kill'[v] = {}
      <3>1. pc[v] # "shut" => kill[v] = {}
        BY DEF ListenerInv, KillsOK
      <3>2. v = w => pc[v] # "shut"
        BY <1>n
      <3> QED
        BY <3>1, <3>2, <1>2, <1>3
    <2>2. ASSUME NEW s \in kill'[v]
          PROVE  /\ s \notin servers' /\ st'[s] \in Taken
                 /\ \A u \in Workers : s \in kill'[u] => u = v
      <3>1. s \in kill[v] /\ s \in Servers /\ s # n
        BY <2>2, <1>2, <1>h, <1>8
      <3>2. s \notin servers /\ st[s] \in Taken /\ \A u \in Workers : s \in kill[u] => u = v
        BY <3>1 DEF ListenerInv, KillsOK
      <3>3. s \notin dead
        BY <3>2, <1>7
      <3> QED
        BY <3>1, <3>2, <3>3, <1>1, <1>2, <1>6
    <2> QED
      BY <2>1, <2>2
  <1>11. MapOK'
    BY <1>6, <1>a, <1>h DEF ListenerInv, MapOK, Taken
  <1>12. OneListener'
    <2>1. \A t \in Servers : st'[t] \in Open => st[t] \in Open
      BY <1>6, <1>n DEF Open
    <2> QED
      BY <2>1 DEF ListenerInv, OneListener, Addr
  <1>13. NoOrphanListener'
    <2> SUFFICES ASSUME NEW s \in Servers, st'[s] \in {"bound", "spawned", "serving"}
                 PROVE  Attended(s)'
      BY DEF NoOrphanListener
    <2>1. CASE s = n
      BY <2>1, <1>1 DEF Attended
    <2>2. CASE s # n
      <3>1. st[s] = st'[s]
        BY <2>2, <1>6
      <3>2. s \in servers \/ \E v \in Workers : hand[v] = s \/ s \in kill[v]
        BY <3>1 DEF ListenerInv, NoOrphanListener, Attended, Held
      <3>3. s \notin old
        BY <3>1, <1>5 DEF Open
      <3>4. \A v \in Workers : hand[v] = s => hand'[v] = s
        BY <1>3, <2>2 DEF n
      <3> QED
        BY <3>2, <3>3, <3>4, <1>1, <1>2 DEF Attended, Held
    <2> QED
      BY <2>1, <2>2
  <1>14. RecordedIsBound'
    <2> SUFFICES ASSUME NEW s \in servers'
                 PROVE  st'[s] \in {"spawned", "serving"} \/ at'[s].ctx \in cancelled'
      BY DEF RecordedIsBound
    <2>1. CASE s = n
      BY <2>1, <1>6, <1>h
    <2>2. CASE s # n
      <3>1. s \in servers /\ s \notin dead /\ s \in Servers
        BY <2>2, <1>a, <1>h
      <3> QED
        BY <3>1, <2>2, <1>2, <1>6, <1>c DEF ListenerInv, RecordedIsBound
    <2> QED
      BY <2>1, <2>2
  <1> QED
    BY <1>9, <1>10, <1>11, <1>12, <1>13, <1>14 DEF ListenerInv

(* The keys leave the map and become the worker's own to shut down.          *)
LEMMA DetachStep ==
    ASSUME TypeInv, ListenerInv, NEW w \in Workers, NEW doomed \in SUBSET servers,
           Detach(w, doomed), pc[w] \in {"detach", "ifDetach"}
    PROVE  ListenerInv'
  <1>w. hand[w] = None /\ kill[w] = {}
    BY EmptyHanded
  <1>1. /\ UNCHANGED <<st, at, hand>> /\ cancelled' = cancelled
        /\ servers' = servers \ doomed
    BY DEF Detach, runVars
  <1>2. /\ kill'[w] = doomed /\ pc'[w] = "shut"
        /\ \A v \in Workers \ {w} : kill'[v] = kill[v] /\ pc'[v] = pc[v]
    BY DEF Detach, Goto, TypeInv, TypeOK
  <1>3. HandsOK'
    BY <1>1, <1>2, <1>w DEF ListenerInv, HandsOK
  <1>4. KillsOK'
    <2> SUFFICES ASSUME NEW v \in Workers
                 PROVE  /\ pc'[v] # "shut" => kill'[v] = {}
                        /\ \A s \in kill'[v] : /\ s \notin servers'
                                               /\ st'[s] \in Taken
                                               /\ \A u \in Workers : s \in kill'[u] => u = v
      BY DEF KillsOK
    <2>1. CASE v = w
      <3>1. \A s \in doomed : st[s] \in Taken /\ \A u \in Workers : s \notin kill[u]
        BY DEF ListenerInv, MapOK, KillsOK
      <3> QED
        BY <2>1, <3>1, <1>1, <1>2
    <2>2. CASE v # w
      BY <2>2, <1>1, <1>2 DEF ListenerInv, KillsOK
    <2> QED
      BY <2>1, <2>2
  <1>5. MapOK' /\ OneListener' /\ RecordedIsBound'
    BY <1>1 DEF ListenerInv, MapOK, OneListener, RecordedIsBound, Addr
  <1>6. NoOrphanListener'
    <2> SUFFICES ASSUME NEW s \in Servers, st[s] \in {"bound", "spawned", "serving"}
                 PROVE  Attended(s)'
      BY <1>1 DEF NoOrphanListener
    <2>1. s \in servers \/ \E v \in Workers : hand[v] = s \/ s \in kill[v]
      BY DEF ListenerInv, NoOrphanListener, Attended, Held
    <2> QED
      BY <2>1, <1>1, <1>2, <1>w DEF Attended, Held
  <1> QED
    BY <1>3, <1>4, <1>5, <1>6 DEF ListenerInv

(* A server changes its status without leaving the state in which it may be  *)
(* in the map, or it is forgotten and neither in the map nor held.           *)
LEMMA StatusStep ==
    ASSUME TypeInv, ListenerInv, NEW s \in Servers,
           st[s] \in Taken, st'[s] \in Taken \cup {"unused"},
           st'[s] \in Open => st[s] \in Open,
           st'[s] \in {"bound", "spawned", "serving"} => st[s] \in {"bound", "spawned", "serving"},
           \A t \in Servers \ {s} : st'[t] = st[t] /\ at'[t] = at[t],
           UNCHANGED <<servers, hand, pc, cancelled>>,
           \A v \in Workers : kill'[v] = kill[v] \/ kill'[v] = kill[v] \ {s},
           st'[s] \in {"spawned", "serving"} => kill' = kill,
           s \in servers => /\ st'[s] \in Taken /\ at'[s] = at[s]
                            /\ st'[s] \in {"spawned", "serving"} \/ at[s].ctx \in cancelled,
           \A v \in Workers : s \in kill'[v] => st'[s] \in Taken
    PROVE  ListenerInv'
  <1>h. /\ servers \subseteq Servers
        /\ \A v \in Workers : hand[v] \in Servers \cup {None} /\ kill[v] \subseteq Servers
    BY DEF TypeInv, TypeOK
  <1>1. HandsOK'
    <2>1. \A v \in Workers : hand[v] # None => hand[v] # s
      BY DEF ListenerInv, HandsOK, Taken
    <2> QED
      BY <2>1, <1>h DEF ListenerInv, HandsOK
  <1>2. KillsOK'
    <2> SUFFICES ASSUME NEW v \in Workers
                 PROVE  /\ pc'[v] # "shut" => kill'[v] = {}
                        /\ \A t \in kill'[v] : /\ t \notin servers'
                                               /\ st'[t] \in Taken
                                               /\ \A u \in Workers : t \in kill'[u] => u = v
      BY DEF KillsOK
    <2>1. kill'[v] \subseteq kill[v]
      OBVIOUS
    <2>2. pc'[v] # "shut" => kill'[v] = {}
      BY <2>1 DEF ListenerInv, KillsOK
    <2>3. ASSUME NEW t \in kill'[v]
          PROVE  /\ t \notin servers' /\ st'[t] \in Taken
                 /\ \A u \in Workers : t \in kill'[u] => u = v
      BY <2>1, <2>3, <1>h DEF ListenerInv, KillsOK
    <2> QED
      BY <2>2, <2>3
  <1>3. MapOK'
    BY <1>h DEF ListenerInv, MapOK
  <1>4. OneListener'
    <2>1. \A t \in Servers : st'[t] \in Open => st[t] \in Open
      OBVIOUS
    <2> QED
      BY <2>1 DEF ListenerInv, OneListener, Addr
  <1>5. NoOrphanListener'
    <2> SUFFICES ASSUME NEW t \in Servers, st'[t] \in {"bound", "spawned", "serving"}
                 PROVE  Attended(t)'
      BY DEF NoOrphanListener
    <2>1. t \in servers \/ \E v \in Workers : hand[v] = t \/ t \in kill[v]
      BY DEF ListenerInv, NoOrphanListener, Attended, Held
    <2>2. CASE t = s
      BY <2>1, <2>2 DEF Attended, Held, Taken
    <2>3. CASE t # s
      BY <2>1, <2>3 DEF Attended, Held
    <2> QED
      BY <2>2, <2>3
  <1>6. RecordedIsBound'
    BY <1>h DEF ListenerInv, RecordedIsBound
  <1> QED
    BY <1>1, <1>2, <1>3, <1>4, <1>5, <1>6 DEF ListenerInv

LEMMA ShutdownStep ==
    ASSUME TypeInv, ListenerInv, NEW w \in Workers, ShutdownServer(w)
    PROVE  ListenerInv'
  <1>1. PICK s \in kill[w] :
           /\ kill' = [kill EXCEPT ![w] = @ \ {s}]
           /\ IF st[s] \in {"spawned", "shut"}
              THEN st' = [st EXCEPT ![s] = "shut"] /\ UNCHANGED at
              ELSE /\ st' = [st EXCEPT ![s] = "unused"]
                   /\ at' = [at EXCEPT ![s] = None]
    BY DEF ShutdownServer
  <1>2. UNCHANGED <<servers, hand, pc, cancelled>>
    BY DEF ShutdownServer, runVars
  <1>3. /\ s \in Servers /\ s \notin servers /\ st[s] \in Taken
        /\ \A v \in Workers \ {w} : s \notin kill[v]
    BY DEF ListenerInv, KillsOK, TypeInv, TypeOK
  <1>4. /\ \A t \in Servers \ {s} : st'[t] = st[t] /\ at'[t] = at[t]
        /\ st'[s] \in {"shut", "unused"}
        /\ st'[s] = "shut" => st[s] \in {"spawned", "shut"}
    BY <1>1, <1>3 DEF TypeInv, TypeOK
  <1>5. /\ kill'[w] = kill[w] \ {s}
        /\ \A v \in Workers \ {w} : kill'[v] = kill[v]
    BY <1>1 DEF TypeInv, TypeOK
  <1>6. \A v \in Workers : s \notin kill'[v]
    BY <1>3, <1>5
  <1> QED
    BY <1>2, <1>3, <1>4, <1>5, <1>6, StatusStep DEF Taken, Open

LEMMA GoroutineStep ==
    ASSUME TypeInv, ListenerInv, NEW s \in Servers, Goroutine(s)
    PROVE  ListenerInv'
  <1>1. UNCHANGED <<servers, hand, pc, kill, cancelled>>
    BY DEF Goroutine, Serve, ShutdownOnCancel, runVars, ownVars
  <1>2. /\ \A t \in Servers \ {s} : st'[t] = st[t] /\ at'[t] = at[t]
        /\ st[s] \in {"spawned", "serving", "shut"}
    BY DEF Goroutine, Serve, ShutdownOnCancel, TypeInv, TypeOK
  <1>3. /\ st'[s] \in {"serving", "closed", "unused", "shut"}
        /\ st'[s] = "serving" => st[s] = "spawned"
        /\ s \in servers \/ Held(s) => st'[s] # "unused" /\ at'[s] = at[s]
        /\ st[s] \in {"spawned", "serving"} =>
              st'[s] \in {"spawned", "serving"} \/ at[s].ctx \in cancelled
    BY DEF Goroutine, Serve, ShutdownOnCancel, TypeInv, TypeOK
  <1>4. s \in servers => st'[s] \in {"spawned", "serving"} \/ at[s].ctx \in cancelled
    BY <1>3 DEF ListenerInv, RecordedIsBound
  <1>5. \A v \in Workers : s \in kill'[v] => st'[s] \in Taken
    BY <1>1, <1>3 DEF Held, Taken
  <1> QED
    BY <1>1, <1>2, <1>3, <1>4, <1>5, StatusStep DEF Taken, Open

(* Every step of the provider keeps the listener invariant.                  *)
LEMMA ListenerStep == TypeInv /\ ListenerInv /\ [Next]_vars => ListenerInv'
  <1> SUFFICES ASSUME TypeInv, ListenerInv, [Next]_vars PROVE ListenerInv'
    OBVIOUS
  <1>1. ASSUME NEW w \in Workers, Step(w) PROVE ListenerInv'
    <2>1. CASE Bind(w)
      BY <2>1, ListenStep, RecordStep, OtherBystander DEF Bind
    <2>2. CASE Unbind(w)
      <3>1. CASE StopService(w)
        BY <3>1, DetachStep DEF StopService
      <3>2. CASE StopServicesOnInterface(w)
        BY <3>2, DetachStep DEF StopServicesOnInterface
      <3> QED
        BY <2>2, <3>1, <3>2, ShutdownStep, OtherBystander DEF Unbind
    <2> QED
      BY <1>1, <2>1, <2>2, ReadBystander, WriteBystander, OtherBystander DEF Step
  <1>2. CASE UNCHANGED vars
    BY <1>2 DEF vars, ListenerInv, HandsOK, KillsOK, MapOK, OneListener, NoOrphanListener,
                RecordedIsBound, Addr, Attended, Held
  <1> QED
    BY <1>1, <1>2, BeginBystander, GoroutineStep DEF Next

(***************************************************************************)
(* A listener never escapes (startReverseProxyService, stopService,        *)
(* stopServicesOnInterface): whatever operations overlap and fail, every   *)
(* listener that is open is in p.servers or in the hands of the worker     *)
(* that is about to record it or to shut it down.                          *)
(***************************************************************************)
THEOREM ListenersAttended == Spec => []NoOrphanListener
  <1>1. ListenerInv => NoOrphanListener
    BY DEF ListenerInv
  <1> QED
    BY <1>1, TypeInit, TypeStep, ListenerInit, ListenerStep, PTL DEF Spec

(***************************************************************************)
(* A key in p.servers stands for a bound listener, unless the context the  *)
(* listener was started with has been cancelled: what isServiceRunning     *)
(* reads is true of the sockets until Stop.                                *)
(***************************************************************************)
THEOREM KeysAreBound == Spec => []RecordedIsBound
  <1>1. ListenerInv => RecordedIsBound
    BY DEF ListenerInv
  <1> QED
    BY <1>1, TypeInit, TypeStep, ListenerInit, ListenerStep, PTL DEF Spec

-----------------------------------------------------------------------------
(* The binding of a server, from Listen to the map.                          *)

\* A server in use is known by the binding it was started with.
KnownInv == \A s \in Servers : st[s] # "unused" => at[s] \in Started

\* Worker w makes r, an unused server, the server of its binding b.
Takes(w, r, b) ==
    /\ st[r] = "unused" /\ st' = [st EXCEPT ![r] = "bound"]
    /\ b \in Binding
    /\ [id |-> b.id, row |-> b.row, ctx |-> loc[w].ctx] \in Started
    /\ at' = [at EXCEPT ![r] = [id |-> b.id, row |-> b.row, ctx |-> loc[w].ctx]]
    /\ hand' = [hand EXCEPT ![w] = r]
    /\ loc' = [loc EXCEPT ![w].binds = @ \ {b}, ![w].cur = None, ![w].tries = 0]

LEMMA ListenTakes ==
    ASSUME TypeInv, NEW w \in Workers, Listen(w)
    PROVE  \E r \in Servers, b \in Candidates(w) : Takes(w, r, b)
  <1>1. PICK b \in Candidates(w), k \in Slots : LET s == <<b.ip, b.row.port, k>> IN
          /\ Fresh(s)
          /\ st' = [st EXCEPT ![s] = "bound"]
          /\ at' = [at EXCEPT ![s] = [id |-> b.id, row |-> b.row, ctx |-> loc[w].ctx]]
          /\ hand' = [hand EXCEPT ![w] = s]
          /\ loc' = [loc EXCEPT ![w].binds = @ \ {b}, ![w].cur = None, ![w].tries = 0]
    BY DEF Listen
  <1>2. b \in Binding /\ loc[w].ctx \in Epochs
    BY WorkerOK, ProxyAssumption DEF Listen, Candidates, LocalOK, Locals
  <1>3. <<b.ip, b.row.port, k>> \in Servers
    BY <1>2 DEF Binding, Row, Servers
  <1>4. [id |-> b.id, row |-> b.row, ctx |-> loc[w].ctx] \in Started
    BY <1>2 DEF Binding, Started
  <1> QED
    BY <1>1, <1>2, <1>3, <1>4 DEF Fresh, Takes

(* Servers come into the map from a worker's hand, and keep their binding *)
(* as long as they are there.                                             *)
LEMMA MapStep ==
    ASSUME TypeInv, ListenerInv, [Next]_vars, NEW s \in servers'
    PROVE  /\ s \in Servers /\ at'[s] = at[s]
           /\ s \in servers \/ \E w \in Workers : Record(w) /\ s = hand[w]
  <1>t. servers \subseteq Servers /\ at \in [Servers -> Started \cup {None}]
        /\ st \in [Servers -> Statuses]
    BY DEF TypeInv, TypeOK
  <1>m. \A r \in servers : st[r] \in Taken
    BY DEF ListenerInv, MapOK
  <1>1. CASE UNCHANGED <<servers, at>>
    BY <1>1, <1>t
  <1>2. ASSUME NEW w \in Workers, Begin(w) \/ Read(w) \/ Write(w)
        PROVE  UNCHANGED <<servers, at>>
    <2> USE DEF srvVars
    <2>1. CASE Begin(w)
      BY <2>1 DEF Begin, Create, Expose, Modify, Update, Delete, AddInterface, RemoveInterface,
                  SetInterfaceIPs, Start, Stop, Call
    <2>2. CASE Read(w)
      BY <2>2 DEF Read, CheckExposed, AllocatePort, LoadExisting, ProbeRunning, LookUp, Reread,
                  FetchRow, CheckStarted, CopyInterfaces, CheckStartedOnInterface,
                  ListServicesOnInterface, ListServices, NextService
    <2>3. CASE Write(w)
      BY <2>3 DEF Write, InsertRow, WriteRow, EraseRow, Sync
    <2> QED
      BY <1>2, <2>1, <2>2, <2>3
  <1>3. ASSUME NEW w \in Workers, Record(w)
        PROVE  at'[s] = at[s] /\ (s \in servers \/ s = hand[w]) /\ s \in Servers
    <2>1. hand[w] \in Servers /\ st[hand[w]] = "bound"
      BY <1>3, ProxyAssumption DEF Record, TypeInv, ListenerInv, HandsOK
    <2> DEFINE old == {t \in servers : Key(t) = Key(hand[w])}
               dead == {t \in old : st[t] = "closed"}
    <2>2. servers' = (servers \ old) \cup {hand[w]}
          /\ at' = [t \in Servers |-> IF t \in dead THEN None ELSE at[t]]
      BY <1>3 DEF Record
    <2>3. s \notin dead
      BY <2>1, <2>2
    <2> QED
      BY <1>t, <2>1, <2>2, <2>3
  <1>4. ASSUME NEW w \in Workers, Bind(w), ~ Record(w)
        PROVE  at'[s] = at[s] /\ s \in servers
    <2>1. CASE Listen(w)
      <3>1. servers' = servers
        BY <2>1 DEF Listen
      <3> QED
        BY <1>t, <1>m, <2>1, <3>1, ListenTakes DEF Taken, Takes
    <2> QED
      BY <1>4, <2>1 DEF Bind, ListenFails, RetryListen, GiveUp, StartDone, srvVars
  <1>5. ASSUME NEW w \in Workers, Unbind(w)
        PROVE  at'[s] = at[s] /\ s \in servers
    <2>1. CASE ShutdownServer(w)
      <3>1. PICK r \in kill[w] : at' = at \/ at' = [at EXCEPT ![r] = None]
        BY <2>1 DEF ShutdownServer
      <3>2. servers' = servers /\ r \notin servers
        BY <2>1 DEF ShutdownServer, ListenerInv, KillsOK
      <3> QED
        BY <1>t, <3>1, <3>2
    <2> QED
      BY <1>5, <2>1 DEF Unbind, StopService, StopServicesOnInterface, Detach, StopDone, srvVars
  <1>6. ASSUME NEW w \in Workers, CancelContext(w) \/ StopReturns(w) \/ DbError(w)
        PROVE  UNCHANGED <<servers, at>>
    BY <1>6 DEF CancelContext, StopReturns, DbError, srvVars
  <1>7. ASSUME NEW r \in Servers, Goroutine(r)
        PROVE  at'[s] = at[s] /\ s \in servers
    BY <1>7, <1>t DEF Goroutine, Serve, ShutdownOnCancel
  <1> QED
    BY <1>1, <1>2, <1>3, <1>4, <1>5, <1>6, <1>7, <1>t DEF Next, Step, vars

(* A worker's hand is filled by Listen only, and what it holds keeps its *)
(* binding.                                                              *)
LEMMA HandStep ==
    ASSUME TypeInv, ListenerInv, [Next]_vars, NEW v \in Workers, hand'[v] # None
    PROVE  (hand'[v] = hand[v] /\ at'[hand[v]] = at[hand[v]]) \/ Listen(v)
  <1>t. /\ hand \in [Workers -> Servers \cup {None}] /\ at \in [Servers -> Started \cup {None}]
        /\ kill \in [Workers -> SUBSET Servers]
    BY DEF TypeInv, TypeOK
  <1>h. hand[v] # None => hand[v] \in Servers /\ st[hand[v]] = "bound"
    BY <1>t DEF ListenerInv, HandsOK
  <1>1. CASE UNCHANGED <<hand, at>>
    BY <1>1
  <1>2. ASSUME NEW w \in Workers, Listen(w), w # v
        PROVE  hand'[v] = hand[v] /\ at'[hand[v]] = at[hand[v]]
    BY <1>2, <1>t, <1>h, ListenTakes DEF Takes
  <1>3. ASSUME NEW w \in Workers, Record(w)
        PROVE  hand'[v] = hand[v] /\ at'[hand[v]] = at[hand[v]]
    BY <1>3, <1>t, <1>h DEF Record
  <1>4. ASSUME NEW w \in Workers, ShutdownServer(w)
        PROVE  hand'[v] = hand[v] /\ at'[hand[v]] = at[hand[v]]
    <2>1. PICK r \in kill[w] : (at' = at \/ at' = [at EXCEPT ![r] = None]) /\ hand' = hand
      BY <1>4 DEF ShutdownServer
    <2>2. r \in Servers /\ st[r] \in Taken
      BY <1>4, <1>t DEF ShutdownServer, ListenerInv, KillsOK
    <2> QED
      BY <2>1, <2>2, <1>t, <1>h DEF Taken
  <1>5. ASSUME NEW w \in Workers, StopService(w) \/ StopServicesOnInterface(w)
        PROVE  UNCHANGED <<hand, at>>
    BY <1>5 DEF StopService, StopServicesOnInterface, Detach
  <1>6. ASSUME NEW r \in Servers, Goroutine(r)
        PROVE  hand'[v] = hand[v] /\ at'[hand[v]] = at[hand[v]]
    BY <1>6, <1>t, <1>h DEF Goroutine, Serve, ShutdownOnCancel, ownVars
  <1> QED
    BY <1>1, <1>2, <1>3, <1>4, <1>5, <1>6, ServersStay DEF Next, vars

LEMMA KnownStep ==
    ASSUME TypeInv, ListenerInv, KnownInv, [Next]_vars
    PROVE  KnownInv'
  <1>t. /\ st \in [Servers -> Statuses] /\ at \in [Servers -> Started \cup {None}]
        /\ kill \in [Workers -> SUBSET Servers]
    BY DEF TypeInv, TypeOK
  <1> USE DEF KnownInv
  <1>1. CASE UNCHANGED <<st, at>>
    BY <1>1
  <1>2. ASSUME NEW w \in Workers, Listen(w)
        PROVE  KnownInv'
    BY <1>2, <1>t, ListenTakes DEF Takes
  <1>3. ASSUME NEW w \in Workers, Record(w)
        PROVE  KnownInv'
    <2>1. hand[w] \in Servers /\ st[hand[w]] = "bound"
      BY <1>3, ProxyAssumption DEF Record, TypeInv, ListenerInv, HandsOK
    <2> QED
      BY <1>3, <1>t, <2>1 DEF Record
  <1>4. ASSUME NEW w \in Workers, ShutdownServer(w)
        PROVE  KnownInv'
    <2>1. PICK r \in kill[w] :
             IF st[r] \in {"spawned", "shut"}
             THEN st' = [st EXCEPT ![r] = "shut"] /\ UNCHANGED at
             ELSE st' = [st EXCEPT ![r] = "unused"] /\ at' = [at EXCEPT ![r] = None]
      BY <1>4 DEF ShutdownServer
    <2>2. r \in Servers
      BY <1>t
    <2> QED
      BY <2>1, <2>2, <1>t
  <1>5. ASSUME NEW w \in Workers, StopService(w) \/ StopServicesOnInterface(w)
        PROVE  UNCHANGED <<st, at>>
    BY <1>5 DEF StopService, StopServicesOnInterface, Detach
  <1>6. ASSUME NEW r \in Servers, Goroutine(r)
        PROVE  KnownInv'
    BY <1>6, <1>t DEF Goroutine, Serve, ShutdownOnCancel
  <1> QED
    BY <1>1, <1>2, <1>3, <1>4, <1>5, <1>6, ServersStay DEF Next, vars

(* A step of a worker leaves the hands of the others alone. *)
LEMMA HandOthers ==
    ASSUME TypeInv, NEW w \in Workers, Begin(w) \/ Step(w), NEW v \in Workers \ {w}
    PROVE  hand'[v] = hand[v]
  <1>1. CASE Listen(w)
    <2>1. PICK r \in Servers, b \in Candidates(w) : Takes(w, r, b)
      BY <1>1, ListenTakes
    <2> QED
      BY <2>1 DEF Takes, TypeInv, TypeOK
  <1>2. CASE \/ Record(w) \/ StopService(w) \/ StopServicesOnInterface(w) \/ ShutdownServer(w)
    BY <1>2 DEF TypeInv, TypeOK, Record, StopService, StopServicesOnInterface, Detach, ShutdownServer
  <1> QED
    BY <1>1, <1>2, ServersStay

(* What the services a worker is to start are taken from. *)
LEMMA StartTypes ==
    ASSUME TypeInv, ListenerInv, KnownInv, NEW w \in Workers
    PROVE  /\ loc[w] \in Locals /\ loc[w].id \in Ids
           /\ \A b \in loc[w].binds : b.id \in Ids
           /\ \A e \in loc[w].todo : e[1] \in Ids
           /\ hand[w] # None => at[hand[w]].id \in Ids
  <1>1. loc[w] \in Locals
    BY WorkerOK
  <1>2. hand[w] # None => at[hand[w]] \in Started
    BY DEF ListenerInv, HandsOK, KnownInv, TypeInv, TypeOK
  <1> QED
    BY <1>1, <1>2 DEF Locals, Started, Binding
=============================================================================
