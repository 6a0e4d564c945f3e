----------------------------- MODULE Signaling -----------------------------
(***************************************************************************)
(* The signaling client (pkg/signaling/client.go): one WebSocket to the    *)
(* cloud, a loop that dials it again after a failure, one reader and one   *)
(* processor of the outbound channel for each connection that was made.    *)
(*                                                                         *)
(* Goroutine k in Conns is the reader that connectOnce spawned with the    *)
(* k-th connection and, once it has failed, the reconnect() it spawned in  *)
(* its turn; goroutine 0 is Connect and, when its attempt fails, the       *)
(* reconnect() it spawns.  The keepalive goroutines change no state.       *)
(***************************************************************************)
EXTENDS Naturals, Sequences, FiniteSets

CONSTANTS Messages,   \* what can be put on the outbound channel
          MaxConns,   \* bound: connections that are made
          Capacity,   \* of the outbound channel (100 in the code)
          Nothing     \* no message

ASSUME SignalingAssumption ==
    /\ MaxConns \in Nat \ {0}
    /\ Capacity \in Nat
    /\ Nothing \notin Messages

Conns == 1..MaxConns
Dialers == 0..MaxConns

VARIABLES
    conn,          \* c.conn: 0 is nil, k the k-th connection
    net,           \* what became of every connection
    made,          \* how many connections were made
    reconnecting,  \* c.reconnecting
    looping,       \* the goroutines past the check of reconnecting
    cancelled,     \* c.ctx is done
    dial,          \* where each dialer is
    reader,        \* where the reader of each connection is
    from,          \* the connection it reads
    proc,          \* where each processor of the outbound channel is
    held,          \* the message it has taken from the channel
    via,           \* the connection it is about to write to
    outbound       \* c.outboundChan

connVars == <<conn, net, made>>
flagVars == <<reconnecting, looping>>
readVars == <<reader, from>>
procVars == <<proc, held, via>>
clientVars == <<conn, net, made, reconnecting, looping, cancelled, dial,
                reader, from, proc, held, via, outbound>>

SetDial(g, l) == dial' = [dial EXCEPT ![g] = l]

-----------------------------------------------------------------------------
(* connectOnce *)

\* No connection: Connect spawns reconnect(), reconnect() waits.
DialFails(g) ==
    /\ dial[g] = "dial"
    /\ SetDial(g, IF g \in looping THEN "backoff" ELSE "enter")
    /\ UNCHANGED <<connVars, flagVars, cancelled, readVars, procVars, outbound>>

\* c.conn is overwritten.  Dial does not look at the context.
DialSucceeds(g) ==
    /\ dial[g] = "dial"
    /\ made < MaxConns
    /\ made' = made + 1
    /\ conn' = made'
    /\ net' = [net EXCEPT ![made'] = "up"]
    /\ SetDial(g, "handlers")
    /\ UNCHANGED <<flagVars, cancelled, readVars, procVars, outbound>>

\* The handlers of AddOnConnectHandler have run.
HandlersDone(g) ==
    /\ dial[g] = "handlers"
    /\ SetDial(g, "spawn")
    /\ UNCHANGED <<connVars, flagVars, cancelled, readVars, procVars>>

\* Mutant: the connection starts two processors.
SpawnTwo(g) ==
    /\ dial[g] = "spawn"
    /\ reader' = [reader EXCEPT ![made] = "loop"]
    /\ proc' = [k \in Conns |-> "select"]
    /\ SetDial(g, IF g \in looping THEN "release" ELSE "done")
    /\ UNCHANGED <<connVars, flagVars, cancelled, from, held, via, outbound>>

\* The goroutines of the connection start before reconnect() returns and
\* clears c.reconnecting.
Spawn(g) ==
    /\ dial[g] = "spawn"
    /\ reader' = [reader EXCEPT ![made] = "loop"]
    /\ proc' = [proc EXCEPT ![made] = "select"]
    /\ SetDial(g, IF g \in looping THEN "release" ELSE "done")
    /\ UNCHANGED <<connVars, flagVars, cancelled, from, held, via, outbound>>

-----------------------------------------------------------------------------
(* reconnect *)

\* Mutant: the flag is not looked at.
EnterAnyway(g) ==
    /\ dial[g] = "enter"
    /\ reconnecting' = TRUE
    /\ looping' = looping \cup {g}
    /\ SetDial(g, "close")
    /\ UNCHANGED <<connVars, cancelled, readVars, procVars, outbound>>

\* Only one reconnect() goes on.
Enter(g) ==
    /\ dial[g] = "enter"
    /\ IF reconnecting
       THEN SetDial(g, "done") /\ UNCHANGED flagVars
       ELSE /\ reconnecting' = TRUE
            /\ looping' = looping \cup {g}
            /\ SetDial(g, "close")
    /\ UNCHANGED <<connVars, cancelled, readVars, procVars, outbound>>

\* Mutant: the connection that failed is only forgotten.
ForgetConn(g) ==
    /\ dial[g] = "close"
    /\ conn' = 0
    /\ SetDial(g, "loop")
    /\ UNCHANGED <<net, made, flagVars, cancelled, readVars, procVars, outbound>>

CloseConn(g) ==
    /\ dial[g] = "close"
    /\ net' = IF conn = 0 THEN net ELSE [net EXCEPT ![conn] = "closed"]
    /\ conn' = 0
    /\ SetDial(g, "loop")
    /\ UNCHANGED <<made, flagVars, cancelled, readVars, procVars, outbound>>

LoopHead(g) ==
    /\ dial[g] = "loop"
    /\ SetDial(g, IF cancelled THEN "release" ELSE "dial")
    /\ UNCHANGED <<connVars, flagVars, cancelled, readVars, procVars, outbound>>

\* Mutant: the wait for the next attempt is given up for good.
BackoffGivesUp(g) ==
    /\ dial[g] = "backoff"
    /\ SetDial(g, "done")
    /\ UNCHANGED <<connVars, flagVars, cancelled, readVars, procVars, outbound>>

\* The delay before the next attempt, or the context is cancelled.
Backoff(g) ==
    /\ dial[g] = "backoff"
    /\ SetDial(g, IF cancelled THEN "release" ELSE "loop")
    /\ UNCHANGED <<connVars, flagVars, cancelled, readVars, procVars, outbound>>

\* The deferred function of reconnect().
Release(g) ==
    /\ dial[g] = "release"
    /\ reconnecting' = FALSE
    /\ looping' = looping \ {g}
    /\ SetDial(g, "done")
    /\ UNCHANGED <<connVars, cancelled, readVars, procVars, outbound>>

-----------------------------------------------------------------------------
(* readMessages *)

\* A reader reads whatever c.conn is now, not the connection it came with.
ReaderTop(k) ==
    /\ reader[k] = "loop"
    /\ IF cancelled \/ conn = 0
       THEN reader' = [reader EXCEPT ![k] = "done"] /\ UNCHANGED from
       ELSE /\ reader' = [reader EXCEPT ![k] = "read"]
            /\ from' = [from EXCEPT ![k] = conn]
    /\ UNCHANGED <<connVars, flagVars, cancelled, dial, procVars, outbound>>

\* Mutant: the reader goes on after it has asked for a new connection.
ReadErrorContinues(k) ==
    /\ reader[k] = "read"
    /\ net[from[k]] # "up"
    /\ reader' = [reader EXCEPT ![k] = "loop"]
    /\ SetDial(k, "enter")
    /\ UNCHANGED <<connVars, flagVars, cancelled, from, procVars, outbound>>

\* go c.reconnect(); return
ReadError(k) ==
    /\ reader[k] = "read"
    /\ net[from[k]] # "up"
    /\ reader' = [reader EXCEPT ![k] = "done"]
    /\ SetDial(k, "enter")
    /\ UNCHANGED <<connVars, flagVars, cancelled, from, procVars, outbound>>

\* A message comes in and its handler returns.
ReadMessage(k) ==
    /\ reader[k] = "read"
    /\ net[from[k]] = "up"
    /\ reader' = [reader EXCEPT ![k] = "loop"]
    /\ UNCHANGED <<connVars, flagVars, cancelled, dial, from, procVars, outbound>>

-----------------------------------------------------------------------------
(* The outbound channel and processOutboundMessages *)

\* Mutant: the channel has no limit.
OfferAnyway(m) == outbound' = Append(outbound, m)

\* select with a default: a message that finds the channel full is dropped.
Offer(m) == outbound' = IF Len(outbound) < Capacity THEN Append(outbound, m) ELSE outbound

Accepted == Len(outbound) < Capacity

Drop(k) == /\ proc' = [proc EXCEPT ![k] = "select"]
           /\ held' = [held EXCEPT ![k] = Nothing]
           /\ UNCHANGED via

\* Mutant: the message stays on the channel.
DequeuePeeks(k) ==
    /\ proc[k] = "select"
    /\ outbound # <<>>
    /\ held' = [held EXCEPT ![k] = Head(outbound)]
    /\ proc' = [proc EXCEPT ![k] = "check"]
    /\ UNCHANGED <<connVars, flagVars, cancelled, dial, readVars, via, outbound>>

Dequeue(k) ==
    /\ proc[k] = "select"
    /\ outbound # <<>>
    /\ held' = [held EXCEPT ![k] = Head(outbound)]
    /\ outbound' = Tail(outbound)
    /\ proc' = [proc EXCEPT ![k] = "check"]
    /\ UNCHANGED <<connVars, flagVars, cancelled, dial, readVars, via>>

\* Mutant: only a processor of a live connection looks at the context.
ProcessorEndsConnected(k) ==
    /\ proc[k] = "select"
    /\ cancelled /\ conn # 0
    /\ proc' = [proc EXCEPT ![k] = "done"]
    /\ UNCHANGED <<connVars, flagVars, cancelled, dial, readVars, held, via, outbound>>

ProcessorEnds(k) ==
    /\ proc[k] = "select"
    /\ cancelled
    /\ proc' = [proc EXCEPT ![k] = "done"]
    /\ UNCHANGED <<connVars, flagVars, cancelled, dial, readVars, held, via, outbound>>

\* Skipped, and lost, when there is no connection.
CheckConnected(k) ==
    /\ proc[k] = "check"
    /\ IF conn = 0 THEN Drop(k) ELSE proc' = [proc EXCEPT ![k] = "send"] /\ UNCHANGED <<held, via>>
    /\ UNCHANGED <<connVars, flagVars, cancelled, dial, readVars, outbound>>

\* SendMessage reads c.conn again and writes to it later.
TakeConn(k) ==
    /\ proc[k] = "send"
    /\ IF conn = 0
       THEN Drop(k)
       ELSE /\ proc' = [proc EXCEPT ![k] = "write"]
            /\ via' = [via EXCEPT ![k] = conn]
            /\ UNCHANGED held
    /\ UNCHANGED <<connVars, flagVars, cancelled, dial, readVars, outbound>>

\* The message held by processor k reaches the cloud; otherwise it is lost.
Arrives(k) == proc[k] = "write" /\ net[via[k]] = "up"

WriteMessage(k) ==
    /\ proc[k] = "write"
    /\ Drop(k)
    /\ UNCHANGED <<connVars, flagVars, cancelled, dial, readVars, outbound>>

-----------------------------------------------------------------------------
(* The network and the process *)

\* The cloud or the network closes a connection.  Bound: not the last one.
Cut(k) ==
    /\ net[k] = "up"
    /\ made < MaxConns
    /\ net' = [net EXCEPT ![k] = "cut"]
    /\ UNCHANGED <<conn, made, flagVars, cancelled, dial, readVars, procVars, outbound>>

Close ==
    /\ ~ cancelled
    /\ cancelled' = TRUE
    /\ net' = IF conn = 0 THEN net ELSE [net EXCEPT ![conn] = "closed"]
    /\ conn' = 0
    /\ UNCHANGED <<made, flagVars, dial, readVars, procVars, outbound>>

-----------------------------------------------------------------------------

\* Connect has set up the context and is in connectOnce.
ClientInit ==
    /\ conn = 0 /\ made = 0
    /\ net = [k \in Conns |-> "none"]
    /\ reconnecting = FALSE /\ looping = {}
    /\ cancelled = FALSE
    /\ dial = [g \in Dialers |-> IF g = 0 THEN "dial" ELSE "none"]
    /\ reader = [k \in Conns |-> "none"]
    /\ from = [k \in Conns |-> 0]
    /\ proc = [k \in Conns |-> "none"]
    /\ held = [k \in Conns |-> Nothing]
    /\ via = [k \in Conns |-> 0]
    /\ outbound = <<>>

\* What a dialer does besides running the handlers.
Dial(g) == \/ DialFails(g) \/ DialSucceeds(g) \/ Spawn(g)
           \/ Enter(g) \/ CloseConn(g) \/ LoopHead(g) \/ Backoff(g) \/ Release(g)

Reader(k) == ReaderTop(k) \/ ReadError(k)

\* What a processor does besides writing.
Processor(k) == Dequeue(k) \/ ProcessorEnds(k) \/ CheckConnected(k) \/ TakeConn(k)

\* Handlers that do not wait; one may put a message on the channel.
OnConnect(g) == HandlersDone(g) /\ (UNCHANGED outbound \/ \E m \in Messages : Offer(m))

ClientNext ==
    \/ \E g \in Dialers : Dial(g) \/ OnConnect(g)
    \/ \E k \in Conns : Reader(k) \/ ReadMessage(k) \/ Processor(k) \/ WriteMessage(k) \/ Cut(k)
    \/ Close
    \/ \E m \in Messages : Offer(m) /\ UNCHANGED <<connVars, flagVars, cancelled, dial, readVars, procVars>>

ClientSpec == ClientInit /\ [][ClientNext]_clientVars

\* The Go scheduler runs every goroutine, and the cloud can be reached again
\* and again.
ClientFairness ==
    /\ \A g \in Dialers : WF_clientVars(Dial(g) \/ OnConnect(g))
    /\ SF_clientVars(\E g \in Dialers : DialSucceeds(g))
    /\ \A k \in Conns : /\ WF_clientVars(Reader(k))
                        /\ WF_clientVars(Processor(k) \/ WriteMessage(k))
                        /\ SF_clientVars(ProcessorEnds(k))

ClientLiveSpec == ClientSpec /\ ClientFairness

-----------------------------------------------------------------------------
(* Properties *)

ClientTypeOK ==
    /\ conn \in 0..MaxConns /\ made \in 0..MaxConns
    /\ net \in [Conns -> {"none", "up", "cut", "closed"}]
    /\ reconnecting \in BOOLEAN /\ looping \subseteq Dialers /\ cancelled \in BOOLEAN
    /\ dial \in [Dialers -> {"none", "dial", "handlers", "spawn", "enter", "close",
                             "loop", "backoff", "release", "done"}]
    /\ reader \in [Conns -> {"none", "loop", "read", "done"}]
    /\ from \in [Conns -> 0..MaxConns]
    /\ proc \in [Conns -> {"none", "select", "check", "send", "write", "done"}]
    /\ held \in [Conns -> Messages \cup {Nothing}]
    /\ via \in [Conns -> 0..MaxConns]
    /\ outbound \in Seq(Messages) /\ Len(outbound) <= Capacity

\* c.reconnecting keeps reconnect() to one goroutine, and connectOnce, which
\* Connect calls outside of it, never overlaps with that one.
OneDialer ==
    Cardinality({g \in Dialers : dial[g] \in {"close", "loop", "dial", "backoff",
                                              "handlers", "spawn", "release"}}) <= 1

\* gorilla/websocket allows one reader per connection; a reader reads c.conn
\* anew for every message and there is one reader for every connection made.
OneReader ==
    \A j, k \in Conns : reader[j] = "read" /\ reader[k] = "read" /\ from[j] = from[k] => j = k

\* Until Close, no connection is left open when c.conn is overwritten.
NoLeakedConnection ==
    ~ cancelled => \A k \in Conns : net[k] \in {"up", "cut"} => k = conn

\* A reconnect() that has begun ends: it connects, or the client is closed.
LoopEnds == reconnecting ~> ~ reconnecting

\* After Close every goroutine of the client ends.
CloseEnds == cancelled ~> /\ \A k \in Conns : /\ reader[k] \in {"none", "done"}
                                              /\ proc[k] \in {"none", "done"}
                          /\ \A g \in Dialers : dial[g] \in {"none", "done"}

\* "Trigger reconnection and exit this goroutine" (client.go:175): a connection
\* that breaks is replaced.
Reconnects == \A k \in Conns : conn = k /\ net[k] = "cut" ~> conn # k
=============================================================================
