---------------------------- MODULE ServiceSync ----------------------------
(***************************************************************************)
(* How the cloud learns of the services: the proxy provider reports every  *)
(* change, and all services after a (re)connection, over the signaling     *)
(* client's channel, and waits for acknowledgements                        *)
(* (pkg/providers/proxy/proxy.go, syncAllServices to HandleServiceSyncAck; *)
(* composed with Signaling).                                               *)
(*                                                                         *)
(* A sender is a request handler that changes a service, or the dialer     *)
(* that runs OnReconnect.  The content of a service is a version number.   *)
(***************************************************************************)
EXTENDS Signaling

CONSTANTS Handlers,      \* goroutines of request handlers
          Ids,           \* service ids
          Gone,          \* the content of a deleted service
          Absent,        \* a message does not mention a service
          MaxVersion,    \* bound: versions of a service
          MaxMessages    \* bound: messages made

Versions == 1..MaxVersion
Senders == Handlers \cup Dialers

\* A service-sync message mentions one service, a service-sync-batch message
\* every stored one; no is the message_id.
SyncMessages == [no: 1..MaxMessages, rows: [Ids -> Versions \cup {Gone, Absent}]]

ASSUME SyncAssumption ==
    /\ Messages = SyncMessages
    /\ MaxVersion \in Nat \ {0} /\ MaxMessages \in Nat
    /\ Gone \notin Versions \cup {0} /\ Absent \notin Versions \cup {Gone}
    /\ Handlers \cap Dialers = {} /\ IsFiniteSet(Handlers)

VARIABLES db,         \* the table: the version of every service, Gone once it
                      \* is deleted and 0 before it is created
          snd,        \* where each sender is
          msg,        \* the message it is about to send
          count,      \* message ids made so far
          callbacks,  \* p.syncCallbacks: the ids waiting for an acknowledgement
          queued,     \* history: messages put on the channel
          arrived,    \* history: messages that reached the cloud
          acks,       \* acknowledgements under way, by connection
          alone,      \* history: every change of a row found nothing under way
          unreported  \* history: services whose last report failed before it was made

sendVars == <<snd, msg, count>>
cloudVars == <<arrived, acks>>
vars == <<clientVars, db, snd, msg, count, callbacks, queued, arrived, acks, alone, unreported>>

NoRows == [i \in Ids |-> Absent]

Places == {"idle", "fetch", "start", "register", "enqueue"}

\* Bound: a message is only begun when an id is left for it.
Begun == {x \in Senders : snd[x] \in {"fetch", "start", "register"}}
IdsLeft == count + Cardinality(Begun) < MaxMessages

InChannel == {outbound[j] : j \in DOMAIN outbound}
                \cup {held[k] : k \in {j \in Conns : held[j] # Nothing}}

\* No operation, no report of a reconnection and no message is under way.
Quiet == InChannel = {} /\ \A x \in Senders : snd[x] = "idle"

-----------------------------------------------------------------------------
(* Request handlers *)

\* The row is changed before it is reported.  A new service is started first,
\* one that was updated is read again.
ChangeRow(h) == \E i \in Ids :
    /\ snd[h] = "idle" /\ IdsLeft
    /\ \/ /\ db[i] = 0
          /\ db' = [db EXCEPT ![i] = 1]
          /\ snd' = [snd EXCEPT ![h] = "start"]
       \/ /\ db[i] \in Versions \ {MaxVersion}
          /\ db' = [db EXCEPT ![i] = @ + 1]
          /\ snd' = [snd EXCEPT ![h] = "fetch"]
       \/ /\ db[i] \in Versions
          /\ db' = [db EXCEPT ![i] = Gone]
          /\ snd' = [snd EXCEPT ![h] = "register"]
    /\ msg' = [msg EXCEPT ![h].rows = [NoRows EXCEPT ![i] = db'[i]]]
    /\ alone' = (alone /\ Quiet)
    /\ UNCHANGED <<clientVars, count, callbacks, queued, cloudVars, unreported>>

\* The handler returns before it reports what it has written.
GiveUp(h) ==
    /\ snd' = [snd EXCEPT ![h] = "idle"]
    /\ msg' = [msg EXCEPT ![h].rows = NoRows]
    /\ unreported' = unreported \cup {i \in Ids : msg[h].rows[i] # Absent}

\* The row is read again to be reported; a PUT may have to start the service
\* before.
ReadRow(h) == \E i \in Ids, next \in {"register", "start"} :
    /\ msg[h].rows[i] # Absent /\ db[i] # Gone
    /\ snd' = [snd EXCEPT ![h] = next]
    /\ msg' = [msg EXCEPT ![h].rows[i] = db[i]]
    /\ UNCHANGED unreported

\* Or the row is gone, or the query fails.
FetchRow(h) ==
    /\ snd[h] = "fetch"
    /\ ReadRow(h) \/ GiveUp(h)
    /\ UNCHANGED <<clientVars, db, count, callbacks, queued, cloudVars, alone>>

\* startService fails, or there is nothing left to do but to report.
StartService(h) ==
    /\ snd[h] = "start"
    /\ \/ snd' = [snd EXCEPT ![h] = "register"] /\ UNCHANGED <<msg, unreported>>
       \/ GiveUp(h)
    /\ UNCHANGED <<clientVars, db, count, callbacks, queued, cloudVars, alone>>

\* Mutant: a reconnection is not reported.
SnapshotNothing(g) ==
    /\ dial[g] = "handlers" /\ snd[g] = "idle"
    /\ HandlersDone(g)
    /\ UNCHANGED <<outbound, db, sendVars, callbacks, queued, cloudVars, alone, unreported>>

\* OnReconnect: nothing is sent when there are no services, or when the query
\* fails.  Bound: nor when no id is left.
Snapshot(g) ==
    /\ dial[g] = "handlers" /\ snd[g] = "idle"
    /\ LET stored == {i \in Ids : db[i] \in Versions} IN
       \/ /\ HandlersDone(g)
          /\ unreported' = unreported \cup stored
          /\ UNCHANGED <<outbound, snd, msg>>
       \/ /\ stored # {} /\ IdsLeft
          /\ snd' = [snd EXCEPT ![g] = "register"]
          /\ msg' = [msg EXCEPT ![g].rows = [i \in Ids |-> IF i \in stored THEN db[i] ELSE Absent]]
          /\ UNCHANGED <<clientVars, unreported>>
    /\ UNCHANGED <<db, count, callbacks, queued, cloudVars, alone>>

\* The callback is registered before the message is sent.
Register(x) ==
    /\ snd[x] = "register"
    /\ count' = count + 1
    /\ msg' = [msg EXCEPT ![x].no = count']
    /\ callbacks' = callbacks \cup {count'}
    /\ snd' = [snd EXCEPT ![x] = "enqueue"]
    /\ unreported' = {i \in unreported : msg[x].rows[i] = Absent}
    /\ UNCHANGED <<clientVars, db, queued, cloudVars, alone>>

\* Mutant: the callback is removed even when the channel takes the message.
EnqueueForgets(x) ==
    /\ snd[x] = "enqueue"
    /\ Offer(msg[x])
    /\ queued' = IF Accepted THEN Append(queued, msg[x]) ELSE queued
    /\ callbacks' = callbacks \ {msg[x].no}
    /\ snd' = [snd EXCEPT ![x] = "idle"]
    /\ msg' = [msg EXCEPT ![x] = [no |-> 0, rows |-> NoRows]]
    /\ IF x \in Dialers THEN HandlersDone(x)
       ELSE UNCHANGED <<connVars, flagVars, cancelled, dial, readVars, procVars>>
    /\ UNCHANGED <<db, count, cloudVars, alone, unreported>>

\* Or the channel is full, and the message and its callback are dropped.
Enqueue(x) ==
    /\ snd[x] = "enqueue"
    /\ Offer(msg[x])
    /\ IF Accepted
       THEN queued' = Append(queued, msg[x]) /\ UNCHANGED callbacks
       ELSE callbacks' = callbacks \ {msg[x].no} /\ UNCHANGED queued
    /\ snd' = [snd EXCEPT ![x] = "idle"]
    /\ msg' = [msg EXCEPT ![x] = [no |-> 0, rows |-> NoRows]]
    /\ IF x \in Dialers THEN HandlersDone(x)
       ELSE UNCHANGED <<connVars, flagVars, cancelled, dial, readVars, procVars>>
    /\ UNCHANGED <<db, count, cloudVars, alone, unreported>>

-----------------------------------------------------------------------------
(* The client and the cloud *)

\* An acknowledgement is lost with its connection.
Surviving(as) == {a \in as : net'[a.conn] = "up"}

\* The cloud takes every message that arrives and acknowledges it, or not.
Send(k) ==
    /\ WriteMessage(k)
    /\ IF Arrives(k)
       THEN /\ arrived' = Append(arrived, held[k])
            /\ acks' \in {acks, acks \cup {[conn |-> via[k], no |-> held[k].no]}}
       ELSE UNCHANGED cloudVars
    /\ UNCHANGED <<db, sendVars, callbacks, queued, alone, unreported>>

HandleServiceSyncAck(k) ==
    /\ ReadMessage(k)
    /\ \E a \in acks : /\ a.conn = from[k]
                       /\ acks' = acks \ {a}
                       /\ callbacks' = callbacks \ {a.no}
    /\ UNCHANGED <<db, sendVars, queued, arrived, alone, unreported>>

Client ==
    /\ \/ \E g \in Dialers : Dial(g)
       \/ \E k \in Conns : Reader(k) \/ Processor(k) \/ Cut(k)
       \/ Close
    /\ acks' = Surviving(acks)
    /\ UNCHANGED <<db, sendVars, callbacks, queued, arrived, alone, unreported>>

-----------------------------------------------------------------------------

Init ==
    /\ ClientInit
    /\ db \in [Ids -> {0, 1}]
    /\ snd = [x \in Senders |-> "idle"]
    /\ msg = [x \in Senders |-> [no |-> 0, rows |-> NoRows]]
    /\ count = 0
    /\ callbacks = {} /\ queued = <<>> /\ arrived = <<>> /\ acks = {}
    /\ alone = TRUE /\ unreported = {}

Report(x) == Register(x) \/ Enqueue(x)

Next == \/ \E h \in Handlers : ChangeRow(h) \/ FetchRow(h) \/ StartService(h)
        \/ \E g \in Dialers : Snapshot(g)
        \/ \E x \in Senders : Report(x)
        \/ \E k \in Conns : Send(k) \/ HandleServiceSyncAck(k)
        \/ Client

Spec == Init /\ [][Next]_vars

\* The client's fairness, and that the Go scheduler runs every sender.
LiveSpec ==
    /\ Spec /\ ClientFairness
    /\ \A h \in Handlers : WF_vars(FetchRow(h) \/ StartService(h))
    /\ \A x \in Senders : WF_vars(Report(x))
    /\ \A g \in Dialers : WF_vars(Snapshot(g))

-----------------------------------------------------------------------------
(* Properties *)

SyncTypeOK ==
    /\ ClientTypeOK
    /\ db \in [Ids -> Versions \cup {0, Gone}]
    /\ snd \in [Senders -> Places]
    /\ msg \in [Senders -> [no: 0..MaxMessages, rows: [Ids -> Versions \cup {Gone, Absent}]]]
    /\ count \in 0..MaxMessages
    /\ callbacks \subseteq 1..MaxMessages
    /\ queued \in Seq(SyncMessages) /\ arrived \in Seq(SyncMessages)
    /\ acks \subseteq [conn: Conns, no: 1..MaxMessages]
    /\ alone \in BOOLEAN /\ unreported \subseteq Ids

\* "Register callback before sending": a message that may still be
\* acknowledged has its callback, however fast the answer is.
PendingHasCallback ==
    /\ \A m \in InChannel : m.no \in callbacks
    /\ \A a \in acks : a.no \in callbacks

\* The client is a channel that delivers a message at most once.
Channel == INSTANCE LossyChannel WITH transit <- InChannel, delivered <- arrived
AtMostOnce == Channel!Spec

Position(m) == CHOOSE j \in DOMAIN queued : queued[j] = m

\* Over the first connection messages arrive in the order in which they were
\* put on the channel.
OrderedUntilReconnect ==
    made <= 1 => \A a, b \in DOMAIN arrived : a < b => Position(arrived[a]) < Position(arrived[b])

\* Nothing is under way, the client is connected, and no message found the
\* channel full.
Settled ==
    /\ Quiet
    /\ \A g \in Dialers : dial[g] \in {"none", "done"}
    /\ conn # 0 /\ net[conn] = "up"
    /\ \A a \in 1..count : \E j \in DOMAIN queued : queued[j].no = a

Told(i) == LET about == {j \in DOMAIN arrived : arrived[j].rows[i] # Absent}
           IN  IF about = {} THEN Absent
               ELSE arrived[CHOOSE j \in about : \A l \in about : l <= j].rows[i]

\* OnReconnect "triggers full service sync": when services change one at a
\* time, the cloud has what is stored whenever everything is settled, whatever
\* connections and messages were lost.  Only of a service whose last report was
\* not made, since a query or the start of the listener failed, it may know
\* less, until the next one.
ConvergesOneAtATime ==
    alone /\ Settled => \A i \in Ids \ unreported : db[i] \in Versions => Told(i) = db[i]
=============================================================================
