------------------------- MODULE ServiceSyncProofs -------------------------
(***************************************************************************)
(* Theorems about ServiceSync: that it runs the signaling client of        *)
(* Signaling, that a message that can be acknowledged has its callback,    *)
(* that it implements LossyChannel, that messages arrive in order over the *)
(* first connection, and that the cloud converges when services change one *)
(* at a time.                                                              *)
(***************************************************************************)
EXTENDS ServiceSync, SignalingProofs

-----------------------------------------------------------------------------
(***************************************************************************)
(* The inductive invariant.  Every message has its number from Register    *)
(* on, and is in one place: about to be sent, on the channel, held by a    *)
(* processor, or arrived.  The places are told apart by queued: a message  *)
(* that is about to be sent is not in it, those on the channel are its     *)
(* end, and the others are before them.                                    *)
(***************************************************************************)

\* An id is left for every message that is begun.
Counted == count + Cardinality(Begun) <= MaxMessages

Sending ==
    /\ \A x \in Senders : snd[x] = "enqueue" =>
          /\ msg[x].no \in 1..count /\ msg[x].no \in callbacks
          /\ \A j \in DOMAIN queued : queued[j].no # msg[x].no
    /\ \A x, y \in Senders :
          snd[x] = "enqueue" /\ snd[y] = "enqueue" /\ msg[x].no = msg[y].no => x = y
    /\ \A g \in Dialers : snd[g] \notin {"fetch", "start"} /\ (snd[g] # "idle" => dial[g] = "handlers")
    /\ \A x \in Senders, i \in Ids : msg[x].rows[i] # Absent => db[i] # 0

Numbered ==
    /\ \A j \in DOMAIN queued : queued[j].no \in 1..count
    /\ \A i, j \in DOMAIN queued : queued[i].no = queued[j].no => i = j

Taken == Len(queued) - Len(outbound)

Placed ==
    /\ Len(outbound) <= Len(queued)
    /\ \A j \in DOMAIN outbound : outbound[j] = queued[Taken + j]
    /\ \A k \in Conns : held[k] # Nothing => \E p \in 1..Taken : queued[p] = held[k]
    /\ \A a \in DOMAIN arrived : \E p \in 1..Taken : queued[p] = arrived[a]
    /\ \A j, k \in Conns : held[j] # Nothing /\ held[j] = held[k] => j = k
    /\ \A k \in Conns, a \in DOMAIN arrived : held[k] # arrived[a]

\* A message is acknowledged once, after it has arrived.
Acknowledged ==
    /\ \A b \in acks : \E a \in DOMAIN arrived : arrived[a].no = b.no
    /\ \A b, c \in acks : b.no = c.no => b = c

\* There is one processor over the first connection.
InOrder == made <= 1 =>
    \A a \in DOMAIN arrived, p \in DOMAIN queued : queued[p] = arrived[a] =>
       /\ \A b \in DOMAIN arrived, q \in DOMAIN queued : queued[q] = arrived[b] /\ a < b => p < q
       /\ \A k \in Conns, q \in DOMAIN queued : queued[q] = held[k] => p < q

MessageInv == Sending /\ Numbered /\ Placed /\ Acknowledged /\ PendingHasCallback /\ InOrder

SyncInv == SyncTypeOK /\ ClientInv /\ Counted /\ MessageInv

-----------------------------------------------------------------------------
(***************************************************************************)
(* What the cloud has been told, or will be.  When services change one at  *)
(* a time, every message under way says what is stored (Current); and the  *)
(* cloud has been told of every service whose last report was made, or is  *)
(* about to be: by a dialer that is about to report, or by a message that  *)
(* is not yet sent or that is sure to take the connection that works       *)
(* (Informed).                                                             *)
(***************************************************************************)
Current == alone => \A i \in Ids :
    /\ \A x \in Senders : msg[x].rows[i] \in {Absent, db[i]}
    /\ \A m \in InChannel : m.rows[i] \in {Absent, db[i]}

\* A sender that is idle has no message.
Mentions == \A x \in Senders : snd[x] = "idle" => msg[x].rows = NoRows

Unconnected == conn = 0 \/ net[conn] # "up"
WillReport == \E g \in Dialers : dial[g] = "handlers" /\ snd[g] = "idle"
BeingSent(i) == \E x \in Senders : snd[x] # "idle" /\ msg[x].rows[i] = db[i]

Safe(k) == proc[k] \in {"check", "send"} \/ (proc[k] = "write" /\ via[k] = conn)
OnItsWay(i) ==
    \/ \E j \in DOMAIN outbound : outbound[j].rows[i] = db[i]
    \/ \E k \in Conns : Safe(k) /\ held[k].rows[i] = db[i]

Dropped == \E n \in 1..count :
    /\ \A j \in DOMAIN queued : queued[j].no # n
    /\ \A x \in Senders : snd[x] = "enqueue" => msg[x].no # n

\* The last message that arrived and mentions the service says what is stored.
LastTold(i) == \E a \in DOMAIN arrived :
    /\ arrived[a].rows[i] = db[i]
    /\ \A b \in DOMAIN arrived : b > a => arrived[b].rows[i] = Absent

Informed(i) == \/ Unconnected \/ WillReport \/ BeingSent(i) \/ OnItsWay(i)
               \/ Dropped \/ LastTold(i)

Telling == alone => \A i \in Ids \ unreported : db[i] \in Versions => Informed(i)

TellInv == Current /\ Mentions /\ Telling

-----------------------------------------------------------------------------
(* A message that is about to be sent is one of the messages.                *)
LEMMA SentType ==
    ASSUME SyncTypeOK, Sending, NEW x \in Senders, snd[x] = "enqueue"
    PROVE  msg[x] \in SyncMessages
  BY DEF SyncTypeOK, Sending, SyncMessages

(* Every step of the provider and its client is a step of the client.        *)
LEMMA ClientSteps == SyncTypeOK /\ Sending /\ [Next]_vars => [ClientNext]_clientVars
  <1> SUFFICES ASSUME SyncTypeOK, Sending, [Next]_vars PROVE [ClientNext]_clientVars
    OBVIOUS
  <1>1. ASSUME NEW h \in Handlers, ChangeRow(h) \/ FetchRow(h) \/ StartService(h) PROVE UNCHANGED clientVars
    BY <1>1 DEF ChangeRow, FetchRow, StartService
  <1>2. ASSUME NEW g \in Dialers, Snapshot(g) PROVE UNCHANGED clientVars \/ OnConnect(g)
    BY <1>2 DEF Snapshot, OnConnect
  <1>3. ASSUME NEW x \in Senders, Register(x) PROVE UNCHANGED clientVars
    BY <1>3 DEF Register
  <1>4. ASSUME NEW x \in Senders, Enqueue(x) PROVE ClientNext
    <2>1. msg[x] \in Messages /\ Offer(msg[x])
      BY <1>4, SentType, SyncAssumption DEF Enqueue
    <2>2. CASE x \in Dialers
      BY <1>4, <2>1, <2>2 DEF Enqueue, OnConnect, ClientNext
    <2>3. CASE x \notin Dialers
      BY <1>4, <2>1, <2>3 DEF Enqueue, ClientNext
    <2> QED
      BY <2>2, <2>3
  <1>5. ASSUME NEW k \in Conns, Send(k) \/ HandleServiceSyncAck(k) PROVE ClientNext
    BY <1>5 DEF Send, HandleServiceSyncAck, ClientNext
  <1>6. CASE Client
    BY <1>6 DEF Client, ClientNext
  <1>7. CASE UNCHANGED vars
    BY <1>7 DEF vars
  <1> QED
    BY <1>1, <1>2, <1>3, <1>4, <1>5, <1>6, <1>7 DEF Next, Report, ClientNext

-----------------------------------------------------------------------------
(* The types of what the provider adds to the client.                        *)

LEMMA FinitelyMany == \A S \in SUBSET Senders : IsFiniteSet(S) /\ Cardinality(S) \in Nat
  <1>1. IsFiniteSet(Dialers)
    BY FS_Interval, SignalingAssumption DEF Dialers
  <1>2. IsFiniteSet(Senders)
    BY <1>1, FS_Union, SyncAssumption DEF Senders
  <1> QED
    BY <1>2, FS_Subset, FS_CardinalityType

LEMMA IdsLeftIs == IdsLeft <=> count + Cardinality(Begun) < MaxMessages
  BY DEF IdsLeft

(* A message is begun when an id is left for it, and takes it when it is     *)
(* registered.                                                               *)
LEMMA CountedStep ==
    ASSUME SyncTypeOK, Counted, NEW x \in Senders,
           NEW place \in Places, snd' = [snd EXCEPT ![x] = place],
           \/ /\ place \in {"fetch", "start", "register"} /\ count' = count
              /\ IdsLeft \/ snd[x] \in {"fetch", "start", "register"}
           \/ place \in {"idle", "enqueue"} /\ count' = count
           \/ place = "enqueue" /\ snd[x] = "register" /\ count' = count + 1
    PROVE  Counted' /\ count' \in 0..MaxMessages
           /\ snd' \in [Senders -> Places]
  <1> DEFINE busy == {"fetch", "start", "register"}
  <1>1. IsFiniteSet(Begun) /\ Cardinality(Begun) \in Nat /\ count \in Nat /\ MaxMessages \in Nat
    BY FinitelyMany, SyncAssumption DEF Begun, SyncTypeOK
  <1>2. \A y \in Senders : snd'[y] = IF y = x THEN place ELSE snd[y]
    BY DEF SyncTypeOK, Places
  <1>3. Begun' = IF place \in busy THEN Begun \cup {x} ELSE Begun \ {x}
    BY <1>2 DEF Begun
  <1>4. x \in Begun <=> snd[x] \in busy
    BY DEF Begun
  <1>5. /\ Cardinality(Begun \cup {x}) = IF x \in Begun THEN Cardinality(Begun) ELSE Cardinality(Begun) + 1
        /\ Cardinality(Begun \ {x}) = IF x \in Begun THEN Cardinality(Begun) - 1 ELSE Cardinality(Begun)
    BY <1>1, FS_AddElement, FS_RemoveElement
  <1>6. Cardinality(Begun') \in Nat
    BY <1>1, <1>3, <1>5, FinitelyMany DEF Begun
  <1>7. Counted'
    <2>1. CASE place \in busy
      BY <1>1, <1>3, <1>4, <1>5, <2>1, IdsLeftIs DEF Counted
    <2>2. CASE place \notin busy
      BY <1>1, <1>3, <1>4, <1>5, <2>2 DEF Counted
    <2> QED
      BY <2>1, <2>2
  <1>8. count' \in 0..MaxMessages
    BY <1>1, <1>6, <1>7 DEF Counted
  <1>9. snd' \in [Senders -> Places]
    BY DEF SyncTypeOK, Places
  <1> QED
    BY <1>7, <1>8, <1>9

LEMMA InitTypes == Init => SyncTypeOK /\ ClientInv /\ Counted
  <1> SUFFICES ASSUME Init PROVE SyncTypeOK /\ ClientInv /\ Counted
    OBVIOUS
  <1>1. ClientInv /\ ClientTypeOK
    BY ClientInitOK DEF Init, ClientInv
  <1>2. msg \in [Senders -> [no: 0..MaxMessages, rows: [Ids -> Versions \cup {Gone, Absent}]]]
    BY SyncAssumption DEF Init, NoRows
  <1>3. db \in [Ids -> Versions \cup {0, Gone}]
    BY SyncAssumption DEF Init, Versions
  <1>4. Begun = {} /\ Cardinality({}) = 0
    BY FS_EmptySet DEF Init, Begun
  <1> QED
    BY <1>1, <1>2, <1>3, <1>4, SyncAssumption DEF Init, SyncTypeOK, Counted, Places

(* The types of a change of the table and of a report of it.                 *)
LEMMA ChangeTypes ==
    ASSUME SyncTypeOK, ClientTypeOK', Counted, NEW h \in Handlers, ChangeRow(h)
    PROVE  SyncTypeOK' /\ Counted'
  <1> USE DEF SyncTypeOK, Senders
  <1>1. PICK i \in Ids : ChangeRow(h)!(i)
    BY DEF ChangeRow
  <1>2. db' \in [Ids -> Versions \cup {0, Gone}]
    <2>1. 1 \in Versions /\ (db[i] \in Versions \ {MaxVersion} => db[i] + 1 \in Versions)
      BY SyncAssumption DEF Versions
    <2>2. PICK v \in Versions \cup {Gone} : db' = [db EXCEPT ![i] = v]
      BY <1>1, <2>1
    <2> QED
      BY <2>2
  <1>3. PICK place \in {"fetch", "start", "register"} : snd' = [snd EXCEPT ![h] = place]
    BY <1>1
  <1>4. db'[i] \in Versions \cup {Gone}
    BY <1>1, SyncAssumption DEF Versions
  <1>5. msg' \in [Senders -> [no: 0..MaxMessages, rows: [Ids -> Versions \cup {Gone, Absent}]]]
    BY <1>1, <1>4 DEF NoRows
  <1>6. Counted' /\ snd' \in [Senders -> Places]
    BY <1>1, <1>3, CountedStep DEF Places
  <1>7. alone' \in BOOLEAN
    BY <1>1
  <1> QED
    BY <1>1, <1>2, <1>5, <1>6, <1>7 DEF cloudVars

\* What a handler leaves alone once it has written the row.
Written == UNCHANGED <<clientVars, db, count, callbacks, queued, cloudVars, alone>>

LEMMA GiveUpTypes ==
    ASSUME SyncTypeOK, ClientTypeOK', Counted, NEW h \in Handlers, GiveUp(h), Written
    PROVE  SyncTypeOK' /\ Counted'
  <1> USE DEF SyncTypeOK, Senders, GiveUp, Written
  <1>1. Counted' /\ snd' \in [Senders -> Places]
    BY CountedStep DEF Places
  <1>2. msg' \in [Senders -> [no: 0..MaxMessages, rows: [Ids -> Versions \cup {Gone, Absent}]]]
    BY DEF NoRows
  <1>3. unreported' \subseteq Ids
    OBVIOUS
  <1> QED
    BY <1>1, <1>2, <1>3 DEF cloudVars

LEMMA FetchTypes ==
    ASSUME SyncTypeOK, ClientTypeOK', Counted, Sending, NEW h \in Handlers,
           FetchRow(h) \/ StartService(h)
    PROVE  SyncTypeOK' /\ Counted'
  <1> USE DEF SyncTypeOK, Senders
  <1>1. CASE GiveUp(h)
    BY <1>1, GiveUpTypes DEF FetchRow, StartService, Written
  <1>2. CASE FetchRow(h) /\ ReadRow(h)
    <2>1. PICK i \in Ids, next \in {"register", "start"} : ReadRow(h)!(i, next)
      BY <1>2 DEF ReadRow
    <2>2. db[i] \in Versions \cup {Gone}
      BY <2>1 DEF Sending
    <2>3. msg' \in [Senders -> [no: 0..MaxMessages, rows: [Ids -> Versions \cup {Gone, Absent}]]]
      <3>1. [msg[h].rows EXCEPT ![i] = db[i]] \in [Ids -> Versions \cup {Gone, Absent}]
        BY <2>2
      <3>2. msg' = [msg EXCEPT ![h] = [@ EXCEPT !.rows = [msg[h].rows EXCEPT ![i] = db[i]]]]
        BY <2>1
      <3>3. [msg[h] EXCEPT !.rows = [msg[h].rows EXCEPT ![i] = db[i]]]
                \in [no: 0..MaxMessages, rows: [Ids -> Versions \cup {Gone, Absent}]]
        BY <3>1
      <3> QED
        BY <3>2, <3>3
    <2>4. Counted' /\ snd' \in [Senders -> Places]
      BY <1>2, <2>1, CountedStep DEF FetchRow, Places
    <2> QED
      BY <1>2, <2>1, <2>3, <2>4 DEF FetchRow, cloudVars
  <1>3. CASE StartService(h) /\ snd' = [snd EXCEPT ![h] = "register"] /\ UNCHANGED <<msg, unreported>>
    <2>1. Counted' /\ snd' \in [Senders -> Places]
      BY <1>3, CountedStep DEF StartService, Places
    <2> QED
      BY <1>3, <2>1 DEF StartService, cloudVars
  <1> QED
    BY <1>1, <1>2, <1>3 DEF FetchRow, StartService

LEMMA SnapshotTypes ==
    ASSUME SyncTypeOK, ClientTypeOK', Counted, NEW g \in Dialers, Snapshot(g)
    PROVE  SyncTypeOK' /\ Counted'
  <1> USE DEF SyncTypeOK, Senders
  <1> DEFINE stored == {i \in Ids : db[i] \in Versions}
  <1>1. CASE UNCHANGED <<snd, msg>> /\ unreported' = unreported \cup stored
    BY <1>1 DEF Snapshot, cloudVars, Counted, Begun
  <1>2. CASE /\ IdsLeft
             /\ snd' = [snd EXCEPT ![g] = "register"]
             /\ msg' = [msg EXCEPT ![g].rows = [i \in Ids |-> IF i \in stored THEN db[i] ELSE Absent]]
             /\ UNCHANGED unreported
    <2>1. msg' \in [Senders -> [no: 0..MaxMessages, rows: [Ids -> Versions \cup {Gone, Absent}]]]
      BY <1>2
    <2>2. Counted' /\ snd' \in [Senders -> Places]
      BY <1>2, CountedStep DEF Snapshot, Places
    <2> QED
      BY <1>2, <2>1, <2>2 DEF Snapshot, cloudVars
  <1> QED
    BY <1>1, <1>2 DEF Snapshot

LEMMA RegisterTypes ==
    ASSUME SyncTypeOK, ClientTypeOK', Counted, NEW x \in Senders, Register(x)
    PROVE  SyncTypeOK' /\ Counted'
  <1> USE DEF SyncTypeOK, Register
  <1>1. Counted' /\ snd' \in [Senders -> Places]
            /\ count' \in 0..MaxMessages
    BY CountedStep DEF Places
  <1>2. count' \in 1..MaxMessages
    BY <1>1
  <1>3. msg' \in [Senders -> [no: 0..MaxMessages, rows: [Ids -> Versions \cup {Gone, Absent}]]]
    <2>1. msg[x] \in [no: 0..MaxMessages, rows: [Ids -> Versions \cup {Gone, Absent}]]
      OBVIOUS
    <2>2. count' \in 0..MaxMessages
      BY <1>2
    <2>3. [msg[x] EXCEPT !.no = count']
              \in [no: 0..MaxMessages, rows: [Ids -> Versions \cup {Gone, Absent}]]
      BY <2>1, <2>2
    <2>4. msg' = [msg EXCEPT ![x] = [msg[x] EXCEPT !.no = count']]
      OBVIOUS
    <2> QED
      BY <2>3, <2>4
  <1> QED
    BY <1>1, <1>2, <1>3 DEF cloudVars

LEMMA EnqueueTypes ==
    ASSUME SyncTypeOK, ClientTypeOK', Counted, Sending, NEW x \in Senders, Enqueue(x)
    PROVE  SyncTypeOK' /\ Counted'
  <1> USE DEF SyncTypeOK, Enqueue
  <1>1. msg[x] \in SyncMessages
    BY SentType
  <1>2. queued' \in Seq(SyncMessages)
    <2>1. Append(queued, msg[x]) \in Seq(SyncMessages)
      BY <1>1, AppendProperties
    <2> QED
      BY <2>1
  <1>3. callbacks' \subseteq 1..MaxMessages
    OBVIOUS
  <1>4. msg' \in [Senders -> [no: 0..MaxMessages, rows: [Ids -> Versions \cup {Gone, Absent}]]]
    BY SyncAssumption DEF NoRows
  <1>5. Counted' /\ snd' \in [Senders -> Places]
    BY CountedStep DEF Places
  <1> QED
    BY <1>2, <1>3, <1>4, <1>5 DEF cloudVars

LEMMA ClientTypes ==
    ASSUME SyncTypeOK, ClientTypeOK', Counted, Client
    PROVE  SyncTypeOK' /\ Counted'
  BY DEF Client, Surviving, SyncTypeOK, Counted, Begun, sendVars

LEMMA SendTypes ==
    ASSUME SyncTypeOK, ClientTypeOK', Holding, Counted, NEW k \in Conns,
           Send(k) \/ HandleServiceSyncAck(k)
    PROVE  SyncTypeOK' /\ Counted'
  <1> USE DEF SyncTypeOK
  <1>1. CASE Send(k)
    <2>1. held[k] \in SyncMessages /\ via[k] \in Conns
      BY <1>1, SyncAssumption DEF Send, WriteMessage, Holding, ClientTypeOK
    <2>2. [conn |-> via[k], no |-> held[k].no] \in [conn: Conns, no: 1..MaxMessages]
      BY <2>1 DEF SyncMessages
    <2>3. Append(arrived, held[k]) \in Seq(SyncMessages)
      BY <2>1, AppendProperties
    <2>4. arrived' \in Seq(SyncMessages)
      BY <1>1, <2>3 DEF Send, cloudVars
    <2>5. acks' \subseteq [conn: Conns, no: 1..MaxMessages]
      BY <1>1, <2>2 DEF Send, cloudVars
    <2> QED
      BY <1>1, <2>4, <2>5 DEF Send, sendVars, Counted, Begun
  <1>2. CASE HandleServiceSyncAck(k)
    BY <1>2 DEF HandleServiceSyncAck, sendVars, Counted, Begun
  <1> QED
    BY <1>1, <1>2

LEMMA TypesStep ==
    ASSUME SyncTypeOK, ClientInv, Counted, Sending, [Next]_vars
    PROVE  SyncTypeOK' /\ ClientInv' /\ Counted'
  <1>1. ClientInv' /\ ClientTypeOK'
    BY ClientSteps, ClientStep DEF ClientInv
  <1>2. CASE UNCHANGED vars
    BY <1>1, <1>2 DEF vars, SyncTypeOK, Counted, Begun
  <1>3. Holding
    BY DEF ClientInv
  <1> QED
    BY <1>1, <1>2, <1>3, ChangeTypes, FetchTypes, SnapshotTypes, RegisterTypes, EnqueueTypes,
       SendTypes, ClientTypes DEF Next, Report

-----------------------------------------------------------------------------
(***************************************************************************)
(* The ways of a message: a step keeps all messages where they are but for *)
(* those it loses, puts one on the channel, takes one off it, or delivers  *)
(* one.                                                                    *)
(***************************************************************************)
Journey == Numbered /\ Placed /\ Acknowledged /\ PendingHasCallback /\ InOrder

LEMMA MessageTypes ==
    ASSUME SyncTypeOK
    PROVE  /\ outbound \in Seq(SyncMessages) /\ queued \in Seq(SyncMessages)
           /\ arrived \in Seq(SyncMessages) /\ Nothing \notin SyncMessages
           /\ Len(outbound) \in Nat /\ Len(queued) \in Nat /\ Len(arrived) \in Nat
           /\ DOMAIN outbound = 1..Len(outbound) /\ DOMAIN queued = 1..Len(queued)
           /\ DOMAIN arrived = 1..Len(arrived)
           /\ \A k \in Conns : held[k] \in SyncMessages \cup {Nothing}
           /\ \A j \in 1..Len(outbound) : outbound[j] \in SyncMessages
           /\ \A j \in 1..Len(queued) : queued[j] \in SyncMessages
           /\ \A j \in 1..Len(arrived) : arrived[j] \in SyncMessages
  BY SyncAssumption, SignalingAssumption, LenProperties, ElementOfSeq DEF SyncTypeOK, ClientTypeOK

LEMMA InChannelIs ==
    /\ \A m : m \in InChannel <=> \/ \E j \in DOMAIN outbound : m = outbound[j]
                                 \/ \E k \in Conns : held[k] # Nothing /\ m = held[k]
    /\ \A m : m \in InChannel' <=> \/ \E j \in DOMAIN outbound' : m = outbound'[j]
                                  \/ \E k \in Conns : held'[k] # Nothing /\ m = held'[k]
  BY DEF InChannel

LEMMA Loses ==
    ASSUME SyncTypeOK, Journey, UNCHANGED <<outbound, queued, arrived>>,
           \A k \in Conns : held'[k] \in {held[k], Nothing},
           acks' \subseteq acks, made <= made', made' \in Nat, count <= count', count' \in Nat,
           \A n \in callbacks \ callbacks' :
               (\A m \in InChannel : m.no # n) /\ (\A b \in acks' : b.no # n)
    PROVE  Journey'
  <1> USE DEF Journey
  <1>1. Numbered'
    BY MessageTypes DEF Numbered, SyncTypeOK
  <1>2. Taken' = Taken
    BY DEF Taken
  <1>3. \A k \in Conns : held'[k] # Nothing => held'[k] = held[k]
    OBVIOUS
  <1>4. Placed'
    <2>1. /\ Len(outbound') <= Len(queued')
          /\ \A j \in DOMAIN outbound' : outbound'[j] = queued'[Taken' + j]
      BY <1>2 DEF Placed
    <2>2. \A k \in Conns : held'[k] # Nothing => \E p \in 1..Taken' : queued'[p] = held'[k]
      BY <1>2, <1>3 DEF Placed
    <2>3. \A i, j \in Conns : held'[i] # Nothing /\ held'[i] = held'[j] => i = j
      BY <1>3 DEF Placed
    <2>4. \A a \in DOMAIN arrived' : \E p \in 1..Taken' : queued'[p] = arrived'[a]
      BY <1>2 DEF Placed
    <2>5. \A k \in Conns, a \in DOMAIN arrived' : held'[k] # arrived'[a]
      <3> SUFFICES ASSUME NEW k \in Conns, NEW a \in DOMAIN arrived, held'[k] = arrived[a]
                   PROVE  FALSE
        OBVIOUS
      <3>1. CASE held'[k] # Nothing
        BY <1>3, <3>1 DEF Placed
      <3>2. CASE held'[k] = Nothing
        BY <3>2, MessageTypes
      <3> QED
        BY <3>1, <3>2
    <2> QED
      BY <2>1, <2>2, <2>3, <2>4, <2>5 DEF Placed
  <1>5. Acknowledged'
    BY DEF Acknowledged
  <1>6. InChannel' \subseteq InChannel
    BY <1>3 DEF InChannel
  <1>7. PendingHasCallback'
    BY <1>6 DEF PendingHasCallback
  <1>8. InOrder'
    <2>1. made' <= 1 => made <= 1
      BY DEF SyncTypeOK, ClientTypeOK
    <2>2. \A k \in Conns, q \in DOMAIN queued : queued[q] = held'[k] => queued[q] = held[k]
      BY MessageTypes
    <2> QED
      BY <2>1, <2>2 DEF InOrder
  <1> QED
    BY <1>1, <1>4, <1>5, <1>7, <1>8

LEMMA Takes ==
    ASSUME SyncTypeOK, ClientInv, Journey, NEW k \in Conns, Dequeue(k),
           UNCHANGED <<queued, arrived, count, callbacks>>, acks' \subseteq acks
    PROVE  Journey'
  <1> USE DEF Journey
  <1> DEFINE n == Len(queued)  l == Len(outbound)
  <1>1. held[k] = Nothing /\ outbound # <<>> /\ outbound' = Tail(outbound) /\ made' = made
    BY DEF Dequeue, ClientInv, Holding, connVars
  <1>2. /\ l \in Nat \ {0} /\ Len(outbound') = l - 1 /\ DOMAIN outbound' = 1..(l - 1)
        /\ \A j \in 1..(l - 1) : outbound'[j] = outbound[j + 1]
        /\ Head(outbound) = outbound[1]
    BY <1>1, MessageTypes, HeadTailProperties, LenProperties
  <1>3. \A j \in Conns : held'[j] = IF j = k THEN outbound[1] ELSE held[j]
    BY <1>2 DEF Dequeue, SyncTypeOK, ClientTypeOK
  <1>4. Taken' = Taken + 1 /\ Taken \in Nat /\ outbound[1] = queued[Taken + 1]
            /\ Taken + 1 \in 1..n
    <2>1. Taken \in Nat /\ Taken + l = n
      BY <1>2, MessageTypes DEF Taken, Placed
    <2>2. outbound[1] = queued[Taken + 1]
      <3>1. 1 \in DOMAIN outbound
        BY <1>2, MessageTypes, LenProperties
      <3> QED
        BY <3>1 DEF Placed
    <2>3. Taken' = Taken + 1
      BY <1>2, MessageTypes DEF Taken
    <2> QED
      BY <1>2, <2>1, <2>2, <2>3, MessageTypes
  <1>5. Numbered'
    BY DEF Numbered
  <1>6. ASSUME NEW p \in 1..Taken PROVE queued[p] # outbound[1]
    <2> SUFFICES ASSUME queued[p] = queued[Taken + 1] PROVE FALSE
      BY <1>4
    <2>1. p \in DOMAIN queued /\ Taken + 1 \in DOMAIN queued /\ p # Taken + 1
      BY <1>4, MessageTypes
    <2>2. queued[p].no # queued[Taken + 1].no
      BY <2>1 DEF Numbered
    <2> QED
      BY <2>2
  <1>7. Placed'
    <2>1. Len(outbound') <= Len(queued') /\ \A j \in DOMAIN outbound' : outbound'[j] = queued'[Taken' + j]
      <3>1. ASSUME NEW j \in 1..(l - 1) PROVE outbound'[j] = queued'[Taken' + j]
        <4>1. outbound'[j] = outbound[j + 1] /\ j + 1 \in DOMAIN outbound
          BY <1>2, MessageTypes
        <4>2. outbound[j + 1] = queued[Taken + (j + 1)]
          BY <4>1 DEF Placed
        <4> QED
          BY <1>4, <4>1, <4>2
      <3>2. Len(outbound') <= Len(queued')
        BY <1>2, MessageTypes DEF Placed
      <3> QED
        BY <1>2, <3>1, <3>2
    <2>2. \A j \in Conns : held'[j] # Nothing => \E p \in 1..Taken' : queued'[p] = held'[j]
      BY <1>3, <1>4 DEF Placed
    <2>3. \A a \in DOMAIN arrived' : \E p \in 1..Taken' : queued'[p] = arrived'[a]
      BY <1>4 DEF Placed
    <2>4. \A j \in Conns \ {k} : held'[j] # outbound[1]
      BY <1>3, <1>4, <1>6, MessageTypes DEF Placed
    <2>5. \A i, j \in Conns : held'[i] # Nothing /\ held'[i] = held'[j] => i = j
      BY <1>3, <2>4 DEF Placed
    <2>6. \A j \in Conns, a \in DOMAIN arrived' : held'[j] # arrived'[a]
      BY <1>3, <1>6 DEF Placed
    <2> QED
      BY <2>1, <2>2, <2>3, <2>5, <2>6 DEF Placed
  <1>8. Acknowledged'
    BY DEF Acknowledged
  <1>9. InChannel' \subseteq InChannel
    <2> SUFFICES ASSUME NEW m \in InChannel' PROVE m \in InChannel
      OBVIOUS
    <2>1. CASE \E j \in 1..(l - 1) : m = outbound'[j]
      <3>1. PICK j \in 1..(l - 1) : m = outbound[j + 1]
        BY <1>2, <2>1
      <3>2. j + 1 \in DOMAIN outbound
        BY <1>2, MessageTypes
      <3> QED
        BY <3>1, <3>2, InChannelIs
    <2>2. CASE \E j \in Conns : held'[j] # Nothing /\ m = held'[j]
      <3>1. 1 \in DOMAIN outbound
        BY <1>2, MessageTypes
      <3> QED
        BY <1>3, <2>2, <3>1, InChannelIs
    <2> QED
      BY <1>2, <2>1, <2>2, InChannelIs
  <1>10. PendingHasCallback'
    BY <1>9 DEF PendingHasCallback
  <1>11. InOrder'
    <2> SUFFICES ASSUME made <= 1, NEW a \in DOMAIN arrived, NEW p \in DOMAIN queued, queued[p] = arrived[a],
                        NEW j \in Conns, NEW q \in DOMAIN queued, queued[q] = held'[j]
                 PROVE  p < q
      BY <1>1 DEF InOrder
    <2>1. CASE j # k
      BY <1>3, <2>1 DEF InOrder
    <2>2. CASE j = k
      <3>1. queued[q] = queued[Taken + 1]
        BY <1>3, <1>4, <2>2
      <3>2. q = Taken + 1
        BY <1>4, <3>1, MessageTypes DEF Numbered
      <3>3. PICK r \in 1..Taken : queued[r] = arrived[a]
        BY DEF Placed
      <3>4. r = p
        BY <1>4, <3>3, MessageTypes DEF Numbered
      <3> QED
        BY <1>4, <3>2, <3>3, <3>4
    <2> QED
      BY <2>1, <2>2
  <1> QED
    BY <1>5, <1>7, <1>8, <1>10, <1>11

LEMMA Puts ==
    ASSUME SyncTypeOK, Sending, Journey, NEW x \in Senders, Enqueue(x), Accepted,
           UNCHANGED <<held, made>>
    PROVE  Journey'
  <1> USE DEF Journey
  <1> DEFINE n == Len(queued)  l == Len(outbound)  m == msg[x]
  <1>1. m \in SyncMessages /\ snd[x] = "enqueue"
    BY SentType DEF Enqueue
  <1>2. /\ outbound' = Append(outbound, m) /\ queued' = Append(queued, m)
        /\ UNCHANGED <<callbacks, count, arrived, acks>>
    BY DEF Enqueue, Offer, Accepted, cloudVars
  <1>3. /\ n \in Nat /\ DOMAIN queued' = 1..(n + 1) /\ Len(queued') = n + 1
        /\ queued'[n + 1] = m /\ \A j \in 1..n : queued'[j] = queued[j]
    BY <1>1, <1>2, MessageTypes, AppendProperties, LenProperties
  <1>4. /\ l \in Nat /\ DOMAIN outbound' = 1..(l + 1) /\ Len(outbound') = l + 1
        /\ outbound'[l + 1] = m /\ \A j \in 1..l : outbound'[j] = outbound[j]
    BY <1>1, <1>2, MessageTypes, AppendProperties, LenProperties
  <1>5. Taken' = Taken /\ Taken \in 0..n /\ Taken + l = n
    BY <1>3, <1>4 DEF Taken, Placed
  <1>6. m.no \in 1..count /\ m.no \in callbacks /\ \A j \in 1..n : queued[j].no # m.no
    BY <1>1, MessageTypes DEF Sending
  <1>7. Numbered'
    BY <1>2, <1>3, <1>6, MessageTypes DEF Numbered
  <1>8. Placed'
    <2>1. ASSUME NEW j \in 1..(l + 1) PROVE outbound'[j] = queued'[Taken' + j]
      <3>1. CASE j = l + 1
        BY <1>3, <1>4, <1>5, <3>1
      <3>2. CASE j \in 1..l
        <4>1. outbound[j] = queued[Taken + j]
          BY <3>2, MessageTypes DEF Placed
        <4>2. Taken + j \in 1..n
          BY <1>3, <1>4, <1>5, <3>2
        <4> QED
          BY <1>3, <1>4, <1>5, <3>2, <4>1, <4>2
      <3> QED
        BY <1>4, <3>1, <3>2
    <2>2. \A k \in Conns : held[k] # Nothing => \E p \in 1..Taken : queued'[p] = held[k]
      BY <1>3, <1>5 DEF Placed
    <2>3. ASSUME NEW a \in DOMAIN arrived PROVE \E p \in 1..Taken : queued'[p] = arrived[a]
      <3>1. PICK p \in 1..Taken : queued[p] = arrived[a]
        BY DEF Placed
      <3> QED
        BY <1>3, <1>5, <3>1
    <2> QED
      BY <1>2, <1>3, <1>4, <1>5, <2>1, <2>2, <2>3 DEF Placed
  <1>9. Acknowledged'
    BY <1>2 DEF Acknowledged
  <1>10. \A i \in InChannel' : i \in InChannel \/ i = m
    BY <1>4, InChannelIs, MessageTypes
  <1>11. PendingHasCallback'
    BY <1>2, <1>6, <1>10 DEF PendingHasCallback
  <1>12. InOrder'
    <2>1. \A a \in DOMAIN arrived : arrived[a] # m
      BY <1>5, <1>6 DEF Placed
    <2>2. \A k \in Conns : held[k] # m
      <3> SUFFICES ASSUME NEW k \in Conns, held[k] = m PROVE FALSE
        OBVIOUS
      <3>1. m # Nothing
        BY <1>1, MessageTypes
      <3>2. PICK p \in 1..Taken : queued[p] = m
        BY <3>1 DEF Placed
      <3> QED
        BY <1>3, <1>5, <1>6, <3>2
    <2>3. \A q \in DOMAIN queued' : queued'[q] # m => q \in DOMAIN queued /\ queued'[q] = queued[q]
      BY <1>3, MessageTypes
    <2> QED
      BY <1>2, <2>1, <2>2, <2>3 DEF InOrder
  <1> QED
    BY <1>7, <1>8, <1>9, <1>11, <1>12

LEMMA Delivers ==
    ASSUME SyncTypeOK, ClientInv, Journey, NEW k \in Conns, Send(k), Arrives(k)
    PROVE  Journey'
  <1> USE DEF Journey
  <1> DEFINE n == Len(arrived)  m == held[k]
  <1>1. m \in SyncMessages
    BY MessageTypes DEF Arrives, ClientInv, Holding
  <1>2. /\ arrived' = Append(arrived, m)
        /\ acks' \subseteq acks \cup {[conn |-> via[k], no |-> m.no]}
        /\ UNCHANGED <<queued, outbound, count, callbacks, made>>
        /\ \A j \in Conns : held'[j] = IF j = k THEN Nothing ELSE held[j]
    BY DEF Send, WriteMessage, Drop, connVars, sendVars, SyncTypeOK, ClientTypeOK
  <1>3. /\ n \in Nat /\ DOMAIN arrived' = 1..(n + 1) /\ DOMAIN arrived = 1..n
        /\ arrived'[n + 1] = m /\ \A a \in 1..n : arrived'[a] = arrived[a]
    BY <1>1, <1>2, MessageTypes, AppendProperties, LenProperties
  <1>4. PICK r \in 1..Taken : queued[r] = m
    BY <1>1, MessageTypes DEF Placed
  <1>5. r \in DOMAIN queued
    BY <1>4, MessageTypes DEF Placed, Taken
  <1>6. Numbered'
    BY <1>2 DEF Numbered
  <1>7. Placed'
    <2>1. Taken' = Taken
      BY <1>2 DEF Taken
    <2>2. \A a \in DOMAIN arrived' : \E p \in 1..Taken : queued[p] = arrived'[a]
      BY <1>3, <1>4 DEF Placed
    <2>3. \A j \in Conns, a \in DOMAIN arrived' : held'[j] # arrived'[a]
      BY <1>1, <1>2, <1>3, MessageTypes DEF Placed
    <2>4. \A i, j \in Conns : held'[i] # Nothing /\ held'[i] = held'[j] => i = j
      BY <1>2 DEF Placed
    <2> QED
      BY <1>2, <2>1, <2>2, <2>3, <2>4 DEF Placed
  <1>8. \A b \in acks : b.no # m.no
    <2> SUFFICES ASSUME NEW b \in acks, b.no = m.no PROVE FALSE
      OBVIOUS
    <2>1. PICK a \in DOMAIN arrived : arrived[a].no = m.no
      BY DEF Acknowledged
    <2>2. PICK p \in 1..Taken : queued[p] = arrived[a]
      BY DEF Placed
    <2>3. p = r
      <3>1. p \in DOMAIN queued /\ r \in DOMAIN queued
        BY <1>4, <1>5, MessageTypes DEF Placed, Taken
      <3>2. queued[p].no = queued[r].no
        BY <1>4, <1>5, <2>1, <2>2
      <3> QED
        BY <3>1, <3>2 DEF Numbered
    <2> QED
      BY <1>1, <1>4, <2>2, <2>3 DEF Placed
  <1>9. Acknowledged'
    <2>1. \A b \in acks' : \E a \in DOMAIN arrived' : arrived'[a].no = b.no
      BY <1>2, <1>3 DEF Acknowledged
    <2>2. \A b, c \in acks' : b.no = c.no => b = c
      BY <1>2, <1>8 DEF Acknowledged
    <2> QED
      BY <2>1, <2>2 DEF Acknowledged
  <1>10. m \in InChannel /\ InChannel' \subseteq InChannel
    <2>1. m # Nothing
      BY <1>1, MessageTypes
    <2>2. m \in InChannel
      BY <2>1, InChannelIs
    <2>3. \A j \in Conns : held'[j] # Nothing => held[j] # Nothing /\ held'[j] = held[j]
      BY <1>2
    <2> QED
      BY <1>2, <2>2, <2>3, InChannelIs
  <1>11. PendingHasCallback'
    BY <1>2, <1>10 DEF PendingHasCallback
  <1>12. InOrder'
    <2> SUFFICES ASSUME made <= 1 PROVE InOrder'
      BY <1>2 DEF InOrder
    <2>1. \A j \in Conns : held[j] # Nothing => j = k
      <3>1. \A j \in Conns : held[j] # Nothing => j <= made
        BY DEF ClientInv, Holding, Spawned
      <3>2. k <= made
        BY DEF ClientInv, Spawned, Arrives
      <3> QED
        BY <3>1, <3>2 DEF Conns, SyncTypeOK, ClientTypeOK
    <2>2. \A j \in Conns : held'[j] = Nothing
      BY <1>2, <2>1
    <2>3. \A q \in DOMAIN queued : queued[q] # Nothing
      BY MessageTypes
    <2>4. \A q \in DOMAIN queued : queued[q] = m => q = r
      BY <1>4, <1>5 DEF Numbered
    <2>5. \A a \in 1..n, p \in DOMAIN queued : queued[p] = arrived[a] => p < r
      BY <1>3, <1>4, <1>5 DEF InOrder
    <2>6. \A a, b \in DOMAIN arrived', p, q \in DOMAIN queued :
             queued[p] = arrived'[a] /\ queued[q] = arrived'[b] /\ a < b => p < q
      BY <1>3, <2>4, <2>5 DEF InOrder
    <2> QED
      BY <1>2, <2>2, <2>3, <2>6 DEF InOrder
  <1> QED
    BY <1>6, <1>7, <1>9, <1>11, <1>12

-----------------------------------------------------------------------------
(* The steps of the provider.                                                *)

\* What a step that makes or changes a message leaves alone.
Elsewhere == UNCHANGED <<outbound, held, queued, arrived, acks, made>>

LEMMA ProviderElsewhere ==
    ASSUME NEW x \in Senders,
           \/ x \in Handlers /\ (ChangeRow(x) \/ FetchRow(x) \/ StartService(x))
           \/ x \in Dialers /\ Snapshot(x)
           \/ Register(x)
    PROVE  Elsewhere
  BY DEF ChangeRow, FetchRow, StartService, Snapshot, Register, HandlersDone, Elsewhere, clientVars, cloudVars,
         connVars, procVars

LEMMA ChangeSends ==
    ASSUME SyncTypeOK, Sending, NEW h \in Handlers, ChangeRow(h)
    PROVE  Sending'
  <1>1. PICK i \in Ids : ChangeRow(h)!(i)
    BY DEF ChangeRow
  <1>2. PICK place \in {"fetch", "start", "register"} : snd' = [snd EXCEPT ![h] = place]
    BY <1>1
  <1>3. \A x \in Senders : /\ snd'[x] = IF x = h THEN place ELSE snd[x]
                           /\ msg'[x].no = msg[x].no
                           /\ msg'[x].rows = IF x = h THEN [NoRows EXCEPT ![i] = db'[i]] ELSE msg[x].rows
    BY <1>1, <1>2 DEF SyncTypeOK, Senders
  <1>4. h \notin Dialers
    BY SyncAssumption
  <1>5. \A j \in Ids : (db[j] # 0 => db'[j] # 0) /\ ([NoRows EXCEPT ![i] = db'[i]][j] # Absent => db'[j] # 0)
    BY <1>1, SyncAssumption DEF NoRows, SyncTypeOK, Versions
  <1> QED
    BY <1>1, <1>2, <1>3, <1>4, <1>5 DEF Sending, cloudVars, clientVars

LEMMA FetchSends ==
    ASSUME SyncTypeOK, Sending, NEW h \in Handlers, FetchRow(h) \/ StartService(h)
    PROVE  Sending'
  <1>1. Written /\ h \notin Dialers
    BY SyncAssumption DEF FetchRow, StartService, Written
  <1>2. PICK place \in {"idle", "start", "register"} : snd' = [snd EXCEPT ![h] = place]
    BY DEF FetchRow, StartService, ReadRow, GiveUp
  <1>3. \A x \in Senders : /\ snd'[x] = IF x = h THEN place ELSE snd[x]
                           /\ msg'[x].no = msg[x].no
                           /\ x # h => msg'[x].rows = msg[x].rows
    BY <1>2 DEF FetchRow, StartService, ReadRow, GiveUp, SyncTypeOK, Senders
  <1>4. \A j \in Ids : msg'[h].rows[j] # Absent => db[j] # 0
    <2>1. CASE GiveUp(h)
      BY <2>1 DEF GiveUp, SyncTypeOK, Senders, NoRows
    <2>2. CASE UNCHANGED msg
      BY <2>2 DEF Sending, Senders
    <2>3. CASE ReadRow(h)
      BY <2>3 DEF ReadRow, SyncTypeOK, Sending, Senders
    <2> QED
      BY <2>1, <2>2, <2>3 DEF FetchRow, StartService
  <1> QED
    BY <1>1, <1>2, <1>3, <1>4 DEF Sending, Written, cloudVars, clientVars

LEMMA SnapshotSends ==
    ASSUME SyncTypeOK, Sending, NEW g \in Dialers, Snapshot(g)
    PROVE  Sending'
  <1> DEFINE stored == {i \in Ids : db[i] \in Versions}
  <1>1. CASE UNCHANGED <<snd, msg>> /\ HandlersDone(g)
    <2>1. \A h \in Dialers : h # g => dial'[h] = dial[h]
      BY <1>1 DEF HandlersDone, SetDial, SyncTypeOK, ClientTypeOK
    <2>2. snd[g] = "idle"
      BY DEF Snapshot
    <2> QED
      BY <1>1, <2>1, <2>2 DEF Snapshot, Sending, cloudVars
  <1>2. CASE /\ snd' = [snd EXCEPT ![g] = "register"]
             /\ msg' = [msg EXCEPT ![g].rows = [i \in Ids |-> IF i \in stored THEN db[i] ELSE Absent]]
             /\ UNCHANGED clientVars
    <2>1. \A x \in Senders : /\ snd'[x] = IF x = g THEN "register" ELSE snd[x]
                             /\ msg'[x].no = msg[x].no
                             /\ x # g => msg'[x].rows = msg[x].rows
      BY <1>2 DEF SyncTypeOK, Senders
    <2>2. \A j \in Ids : msg'[g].rows[j] # Absent => db[j] # 0
      BY <1>2, SyncAssumption DEF SyncTypeOK, Senders, Versions
    <2>3. dial[g] = "handlers"
      BY DEF Snapshot
    <2> QED
      BY <1>2, <2>1, <2>2, <2>3 DEF Snapshot, Sending, cloudVars, clientVars
  <1> QED
    BY <1>1, <1>2 DEF Snapshot

LEMMA RegisterSends ==
    ASSUME SyncTypeOK, Sending, Numbered, NEW x \in Senders, Register(x)
    PROVE  Sending'
  <1>1. \A y \in Senders : /\ snd'[y] = IF y = x THEN "enqueue" ELSE snd[y]
                           /\ msg'[y].no = IF y = x THEN count + 1 ELSE msg[y].no
                           /\ msg'[y].rows = msg[y].rows
    BY DEF Register, SyncTypeOK
  <1>2. count' = count + 1 /\ count \in Nat /\ callbacks' = callbacks \cup {count + 1}
    BY SyncAssumption DEF Register, SyncTypeOK
  <1>3. UNCHANGED <<db, dial, queued>> /\ snd[x] = "register"
    BY DEF Register, clientVars
  <1>4. \A y \in Senders : snd[y] = "enqueue" => msg[y].no \in 1..count
    BY DEF Sending
  <1>5. \A y \in Senders : snd'[y] = "enqueue" =>
          /\ msg'[y].no \in 1..count' /\ msg'[y].no \in callbacks'
          /\ \A j \in DOMAIN queued' : queued'[j].no # msg'[y].no
    <2>1. \A j \in DOMAIN queued : queued[j].no # count + 1
      BY <1>2 DEF Numbered
    <2> QED
      BY <1>1, <1>2, <1>3, <2>1 DEF Sending
  <1>6. \A y, z \in Senders :
          snd'[y] = "enqueue" /\ snd'[z] = "enqueue" /\ msg'[y].no = msg'[z].no => y = z
    <2>1. \A y \in Senders \ {x} : snd'[y] = "enqueue" => msg'[y].no # count + 1
      BY <1>1, <1>2, <1>4
    <2> QED
      BY <1>1, <2>1 DEF Sending
  <1>7. \A g \in Dialers : snd'[g] \notin {"fetch", "start"} /\ (snd'[g] # "idle" => dial'[g] = "handlers")
    BY <1>1, <1>3 DEF Sending, Senders
  <1>8. \A y \in Senders, i \in Ids : msg'[y].rows[i] # Absent => db'[i] # 0
    BY <1>1, <1>3 DEF Sending
  <1> QED
    BY <1>5, <1>6, <1>7, <1>8 DEF Sending

LEMMA EnqueueSends ==
    ASSUME SyncTypeOK, Sending, NEW x \in Senders, Enqueue(x)
    PROVE  Sending'
  <1>1. \A y \in Senders : /\ snd'[y] = IF y = x THEN "idle" ELSE snd[y]
                           /\ msg'[y] = IF y = x THEN [no |-> 0, rows |-> NoRows] ELSE msg[y]
    BY DEF Enqueue, SyncTypeOK
  <1>2. \A i \in Ids : NoRows[i] = Absent
    BY DEF NoRows
  <1>3. \A h \in Dialers : h # x => dial'[h] = dial[h]
    BY DEF Enqueue, HandlersDone, SetDial, SyncTypeOK, ClientTypeOK
  <1>4. UNCHANGED <<db, count>> /\ callbacks \subseteq callbacks' \cup {msg[x].no}
    BY DEF Enqueue
  <1>5. \A j \in DOMAIN queued' : (j \in DOMAIN queued /\ queued'[j] = queued[j]) \/ queued'[j] = msg[x]
    BY SentType, MessageTypes, AppendProperties, LenProperties DEF Enqueue
  <1> QED
    BY <1>1, <1>2, <1>3, <1>4, <1>5 DEF Sending, Enqueue

-----------------------------------------------------------------------------
(* The steps of the client and the cloud.                                    *)

(* No other goroutine moves a dialer that runs the handlers.                 *)
LEMMA HandlersStay ==
    ASSUME SyncTypeOK, ClientInv, Client, NEW g \in Dialers, dial[g] = "handlers"
    PROVE  dial'[g] = "handlers"
  <1> USE DEF SyncTypeOK, ClientTypeOK, SetDial
  <1>1. ASSUME NEW h \in Dialers, Dial(h) PROVE dial'[g] = "handlers"
    BY <1>1 DEF Dial, DialFails, DialSucceeds, Spawn, Enter, CloseConn, LoopHead, Backoff, Release
  <1>2. ASSUME NEW k \in Conns, Reader(k) PROVE dial'[g] = "handlers"
    BY <1>2 DEF Reader, ReaderTop, ReadError, ClientInv, Spawned
  <1>3. ASSUME NEW k \in Conns, Processor(k) \/ Cut(k) PROVE dial'[g] = "handlers"
    BY <1>3 DEF Processor, Dequeue, ProcessorEnds, CheckConnected, TakeConn, Cut
  <1>4. CASE Close
    BY <1>4 DEF Close
  <1> QED
    BY <1>1, <1>2, <1>3, <1>4 DEF Client

(* A processor keeps its message, drops it, or takes one off the channel.    *)
LEMMA ClientMoves ==
    ASSUME SyncTypeOK, ClientInv, Client
    PROVE  /\ made <= made'
           /\ \/ \E k \in Conns : Dequeue(k)
              \/ outbound' = outbound /\ (held' = held \/ \E k \in Conns : held' = [held EXCEPT ![k] = Nothing])
  <1> USE DEF SyncTypeOK, ClientTypeOK, SetDial, connVars, procVars
  <1>1. ASSUME NEW g \in Dialers, Dial(g) PROVE made <= made' /\ UNCHANGED <<outbound, held>>
    BY <1>1 DEF Dial, DialFails, DialSucceeds, Spawn, Enter, CloseConn, LoopHead, Backoff, Release
  <1>2. ASSUME NEW k \in Conns, Reader(k) \/ Cut(k) PROVE UNCHANGED <<made, outbound, held>>
    BY <1>2 DEF Reader, ReaderTop, ReadError, Cut
  <1>3. ASSUME NEW k \in Conns, Processor(k)
        PROVE  /\ made' = made
               /\ \/ Dequeue(k)
                  \/ outbound' = outbound /\ held' \in {held, [held EXCEPT ![k] = Nothing]}
    BY <1>3 DEF Processor, Dequeue, ProcessorEnds, CheckConnected, TakeConn, Drop
  <1>4. CASE Close
    BY <1>4 DEF Close
  <1> QED
    BY <1>1, <1>2, <1>3, <1>4 DEF Client

LEMMA ClientJourney ==
    ASSUME SyncTypeOK, ClientTypeOK', ClientInv, MessageInv, Client
    PROVE  MessageInv'
  <1> USE DEF MessageInv
  <1>1. UNCHANGED <<db, snd, msg, count, callbacks, queued, arrived>> /\ acks' \subseteq acks
    BY DEF Client, Surviving, sendVars
  <1>2. Sending'
    BY <1>1, HandlersStay DEF Sending
  <1>3. CASE \E k \in Conns : Dequeue(k)
    BY <1>1, <1>2, <1>3, Takes DEF Journey
  <1>4. CASE outbound' = outbound /\ (held' = held \/ \E k \in Conns : held' = [held EXCEPT ![k] = Nothing])
    <2>1. \A k \in Conns : held'[k] \in {held[k], Nothing}
      BY <1>4 DEF SyncTypeOK, ClientTypeOK
    <2>2. Journey /\ made' \in Nat /\ count \in Nat
      BY DEF Journey, SyncTypeOK, ClientTypeOK
    <2>3. Journey'
      BY <1>1, <1>4, <2>1, <2>2, ClientMoves, Loses
    <2> QED
      BY <1>2, <2>3 DEF Journey
  <1> QED
    BY <1>3, <1>4, ClientMoves

LEMMA SendJourney ==
    ASSUME SyncTypeOK, ClientTypeOK', ClientInv, MessageInv, NEW k \in Conns, Send(k)
    PROVE  MessageInv'
  <1> USE DEF MessageInv
  <1>1. UNCHANGED <<db, snd, msg, count, callbacks, queued, outbound, dial, made>>
            /\ \A j \in Conns : held'[j] \in {held[j], Nothing}
    BY DEF Send, WriteMessage, Drop, sendVars, connVars, SyncTypeOK, ClientTypeOK
  <1>2. Sending'
    BY <1>1 DEF Sending
  <1>3. CASE Arrives(k)
    BY <1>2, <1>3, Delivers DEF Journey
  <1>4. CASE ~ Arrives(k)
    <2>1. UNCHANGED <<arrived, acks>>
      BY <1>4 DEF Send, cloudVars
    <2>2. Journey /\ made' \in Nat /\ made \in Nat /\ count \in Nat
      BY DEF Journey, SyncTypeOK, ClientTypeOK
    <2>3. Journey'
      BY <1>1, <2>1, <2>2, Loses
    <2> QED
      BY <1>2, <2>3 DEF Journey
  <1> QED
    BY <1>3, <1>4

LEMMA AckJourney ==
    ASSUME SyncTypeOK, ClientTypeOK', ClientInv, MessageInv, NEW k \in Conns, HandleServiceSyncAck(k)
    PROVE  MessageInv'
  <1> USE DEF MessageInv
  <1>1. UNCHANGED <<db, snd, msg, count, queued, outbound, held, arrived, dial, made>>
    BY DEF HandleServiceSyncAck, ReadMessage, sendVars, connVars, procVars
  <1>2. PICK b \in acks : acks' = acks \ {b} /\ callbacks' = callbacks \ {b.no}
    BY DEF HandleServiceSyncAck
  <1>3. PICK a \in DOMAIN arrived : arrived[a].no = b.no
    BY DEF Acknowledged
  <1>4. PICK p \in 1..Taken : queued[p] = arrived[a]
    BY DEF Placed
  <1>5. Taken \in 0..Len(queued) /\ p \in DOMAIN queued /\ Taken + Len(outbound) = Len(queued)
    BY <1>4, MessageTypes DEF Placed, Taken
  <1>6. \A m \in InChannel : m.no # b.no
    <2>1. ASSUME NEW j \in DOMAIN outbound, outbound[j].no = b.no PROVE FALSE
      <3>1. queued[Taken + j].no = b.no /\ Taken + j \in DOMAIN queued /\ Taken + j # p
        BY <1>5, <2>1, MessageTypes DEF Placed
      <3> QED
        BY <1>3, <1>4, <1>5, <3>1 DEF Numbered
    <2>2. ASSUME NEW j \in Conns, held[j] # Nothing, held[j].no = b.no PROVE FALSE
      <3>1. PICK q \in 1..Taken : queued[q] = held[j]
        BY <2>2 DEF Placed
      <3>2. q = p
        <4>1. q \in DOMAIN queued
          BY <1>5, MessageTypes
        <4>2. queued[q].no = queued[p].no
          BY <1>3, <1>4, <2>2, <3>1
        <4> QED
          BY <1>5, <4>1, <4>2 DEF Numbered
      <3> QED
        BY <1>4, <3>1, <3>2 DEF Placed
    <2> QED
      BY <2>1, <2>2, InChannelIs
  <1>7. \A c \in acks' : c.no # b.no
    BY <1>2 DEF Acknowledged
  <1>8. Sending'
    <2>1. \A x \in Senders : snd[x] = "enqueue" => msg[x].no # b.no
      BY <1>3, <1>4, <1>5 DEF Sending
    <2> QED
      BY <1>1, <1>2, <2>1 DEF Sending
  <1>9. Journey /\ made' \in Nat /\ made \in Nat /\ count \in Nat
    BY DEF Journey, SyncTypeOK, ClientTypeOK
  <1>10. Journey'
    BY <1>1, <1>2, <1>6, <1>7, <1>9, Loses
  <1> QED
    BY <1>8, <1>10 DEF Journey

LEMMA ProviderJourney ==
    ASSUME SyncTypeOK, SyncTypeOK', MessageInv, NEW x \in Senders,
           \/ x \in Handlers /\ (ChangeRow(x) \/ FetchRow(x) \/ StartService(x))
           \/ x \in Dialers /\ Snapshot(x)
           \/ Register(x)
    PROVE  MessageInv'
  <1> USE DEF MessageInv
  <1>1. Sending'
    BY ChangeSends, FetchSends, SnapshotSends, RegisterSends
  <1>2. count <= count' /\ callbacks \subseteq callbacks'
    BY DEF ChangeRow, FetchRow, StartService, Snapshot, Register, SyncTypeOK
  <1>3. Journey /\ made' \in Nat /\ made \in Nat /\ count' \in Nat
    BY DEF Journey, SyncTypeOK, ClientTypeOK
  <1>4. UNCHANGED <<outbound, held, queued, arrived, acks, made>>
    BY ProviderElsewhere DEF Elsewhere
  <1>5. Journey'
    BY <1>2, <1>3, <1>4, Loses
  <1> QED
    BY <1>1, <1>5 DEF Journey

LEMMA EnqueueJourney ==
    ASSUME SyncTypeOK, SyncTypeOK', MessageInv, NEW x \in Senders, Enqueue(x)
    PROVE  MessageInv'
  <1> USE DEF MessageInv
  <1>1. Sending'
    BY EnqueueSends
  <1>2. UNCHANGED <<held, made, arrived, acks, count>>
    BY DEF Enqueue, HandlersDone, connVars, procVars, cloudVars
  <1>3. CASE Accepted
    BY <1>1, <1>2, <1>3, Puts DEF Journey
  <1>4. CASE ~ Accepted
    <2>1. UNCHANGED <<outbound, queued>> /\ callbacks' = callbacks \ {msg[x].no}
      BY <1>4 DEF Enqueue, Offer, Accepted
    <2>2. \A j \in DOMAIN queued : queued[j].no # msg[x].no
      BY DEF Sending, Enqueue
    <2>3. 1..Taken \subseteq DOMAIN queued
      BY MessageTypes DEF Placed, Taken
    <2>4. \A m \in InChannel : \E j \in DOMAIN queued : queued[j] = m
      <3>1. \A j \in DOMAIN outbound : outbound[j] = queued[Taken + j] /\ Taken + j \in DOMAIN queued
        BY MessageTypes DEF Placed, Taken
      <3>2. \A k \in Conns : held[k] # Nothing => \E j \in DOMAIN queued : queued[j] = held[k]
        BY <2>3 DEF Placed
      <3> QED
        BY <3>1, <3>2, InChannelIs
    <2>5. \A b \in acks : \E j \in DOMAIN queued : queued[j].no = b.no
      <3>1. \A a \in DOMAIN arrived : \E j \in DOMAIN queued : queued[j] = arrived[a]
        BY <2>3 DEF Placed
      <3> QED
        BY <3>1 DEF Acknowledged
    <2>6. Journey /\ made' \in Nat /\ made \in Nat /\ count \in Nat
      BY DEF Journey, SyncTypeOK, ClientTypeOK
    <2>7. Journey'
      BY <1>2, <2>1, <2>2, <2>4, <2>5, <2>6, Loses
    <2> QED
      BY <1>1, <2>7 DEF Journey
  <1> QED
    BY <1>3, <1>4

LEMMA SyncInitOK == Init => SyncInv
  <1> SUFFICES ASSUME Init PROVE SyncInv
    OBVIOUS
  <1>1. SyncTypeOK /\ ClientInv /\ Counted
    BY InitTypes
  <1>2. outbound = <<>> /\ queued = <<>> /\ arrived = <<>> /\ acks = {} /\ held = [k \in Conns |-> Nothing]
    BY DEF Init, ClientInit
  <1>3. Sending
    BY DEF Init, Sending, Senders, NoRows
  <1>4. Numbered /\ Acknowledged /\ InOrder
    BY <1>2 DEF Numbered, Acknowledged, InOrder
  <1>5. Placed
    BY <1>2 DEF Placed, Taken
  <1>6. PendingHasCallback
    BY <1>2, InChannelIs DEF PendingHasCallback
  <1> QED
    BY <1>1, <1>3, <1>4, <1>5, <1>6 DEF SyncInv, MessageInv

LEMMA SyncStep == SyncInv /\ [Next]_vars => SyncInv'
  <1> SUFFICES ASSUME SyncInv, [Next]_vars PROVE SyncInv'
    OBVIOUS
  <1> USE DEF SyncInv
  <1>1. SyncTypeOK' /\ ClientInv' /\ Counted' /\ ClientTypeOK'
    BY TypesStep DEF MessageInv, ClientInv
  <1>2. CASE UNCHANGED vars
    <2>1. Sending' /\ Numbered' /\ Acknowledged'
      BY <1>2 DEF MessageInv, vars, clientVars, Sending, Numbered, Acknowledged
    <2>2. Placed' /\ PendingHasCallback' /\ InOrder'
      BY <1>2 DEF MessageInv, vars, clientVars, Placed, Taken, PendingHasCallback, InChannel, InOrder
    <2> QED
      BY <1>1, <2>1, <2>2 DEF MessageInv
  <1>3. ASSUME NEW h \in Handlers, ChangeRow(h) \/ FetchRow(h) \/ StartService(h) PROVE MessageInv'
    BY <1>1, <1>3, ProviderJourney DEF Senders
  <1>4. ASSUME NEW g \in Dialers, Snapshot(g) PROVE MessageInv'
    BY <1>1, <1>4, ProviderJourney DEF Senders
  <1>5. ASSUME NEW x \in Senders, Report(x) PROVE MessageInv'
    BY <1>1, <1>5, ProviderJourney, EnqueueJourney DEF Report
  <1>6. ASSUME NEW k \in Conns, Send(k) \/ HandleServiceSyncAck(k) PROVE MessageInv'
    BY <1>1, <1>6, SendJourney, AckJourney
  <1>7. CASE Client
    BY <1>1, <1>7, ClientJourney
  <1> QED
    BY <1>1, <1>2, <1>3, <1>4, <1>5, <1>6, <1>7 DEF Next

LEMMA SyncCorrect == Spec => []SyncInv
  BY SyncInitOK, SyncStep, PTL DEF Spec

-----------------------------------------------------------------------------
(***************************************************************************)
(* Whatever handlers, reconnections, acknowledgements and failures         *)
(* overlap, the variables keep their types; no more ids are used than are  *)
(* left.                                                                   *)
(***************************************************************************)
THEOREM SyncTypeCorrect == Spec => []SyncTypeOK
  BY SyncCorrect, PTL DEF SyncInv

(***************************************************************************)
(* The provider uses the signaling client as Signaling describes it, so    *)
(* that what is proved of the client holds of it in this composition.      *)
(***************************************************************************)
THEOREM RunsTheClient == Spec => ClientSpec
  <1>1. Init => ClientInit
    BY DEF Init
  <1>2. SyncInv /\ [Next]_vars => [ClientNext]_clientVars
    BY ClientSteps DEF SyncInv, MessageInv
  <1> QED
    BY <1>1, <1>2, SyncCorrect, PTL DEF Spec, ClientSpec

(***************************************************************************)
(* The callback of a message is registered early enough and removed late   *)
(* enough: one that is on the channel, in the hands of a processor, or of  *)
(* which an acknowledgement is under way, has its callback.                *)
(***************************************************************************)
THEOREM CallbacksAreThere == Spec => []PendingHasCallback
  BY SyncCorrect, PTL DEF SyncInv, MessageInv

LEMMA PositionIs ==
    ASSUME Numbered, NEW p \in DOMAIN queued
    PROVE  Position(queued[p]) = p
  BY DEF Numbered, Position

LEMMA InOrderIs == SyncInv => OrderedUntilReconnect
  <1> SUFFICES ASSUME SyncInv, made <= 1, NEW a \in DOMAIN arrived, NEW b \in DOMAIN arrived, a < b
               PROVE  Position(arrived[a]) < Position(arrived[b])
    BY DEF OrderedUntilReconnect
  <1> USE DEF SyncInv, MessageInv
  <1>1. 1..Taken \subseteq DOMAIN queued
    BY MessageTypes DEF Placed, Taken
  <1>2. PICK p \in DOMAIN queued : queued[p] = arrived[a]
    BY <1>1 DEF Placed
  <1>3. PICK q \in DOMAIN queued : queued[q] = arrived[b]
    BY <1>1 DEF Placed
  <1>4. p < q
    BY <1>2, <1>3 DEF InOrder
  <1>5. Position(arrived[a]) = p /\ Position(arrived[b]) = q
    BY <1>2, <1>3, PositionIs
  <1> QED
    BY <1>4, <1>5

(***************************************************************************)
(* Over the first connection the cloud sees the messages in the order in   *)
(* which they were put on the channel.                                     *)
(***************************************************************************)
THEOREM FirstConnectionInOrder == Spec => []OrderedUntilReconnect
  BY SyncCorrect, InOrderIs, PTL

-----------------------------------------------------------------------------
(***************************************************************************)
(* ServiceSync implements LossyChannel.                                    *)
(***************************************************************************)

\* A processor gives up its message: nothing else under way is that message.
LEMMA HeldOnce ==
    ASSUME SyncInv, NEW k \in Conns, held' = [held EXCEPT ![k] = Nothing], UNCHANGED outbound
    PROVE  IF held[k] = Nothing THEN InChannel' = InChannel
           ELSE held[k] \in InChannel /\ InChannel' = InChannel \ {held[k]}
  <1> USE DEF SyncInv, MessageInv
  <1>1. \A j \in Conns : held'[j] = IF j = k THEN Nothing ELSE held[j]
    BY DEF SyncTypeOK, ClientTypeOK
  <1>2. CASE held[k] = Nothing
    BY <1>1, <1>2, InChannelIs
  <1>3. CASE held[k] # Nothing
    <2>1. PICK p \in 1..Taken : queued[p] = held[k]
      BY <1>3 DEF Placed
    <2>2. \A j \in DOMAIN outbound : outbound[j] # held[k]
      <3> SUFFICES ASSUME NEW j \in DOMAIN outbound, outbound[j] = held[k] PROVE FALSE
        OBVIOUS
      <3>1. outbound[j] = queued[Taken + j]
        BY DEF Placed
      <3>2a. Taken \in Nat /\ j \in Nat \ {0} /\ p \in Nat
        BY <2>1, MessageTypes DEF Placed, Taken
      <3>2b. Taken + j # p
        BY <2>1, <3>2a
      <3>2. Taken + j \in DOMAIN queued /\ p \in DOMAIN queued
        BY <2>1, MessageTypes DEF Placed, Taken
      <3> QED
        BY <2>1, <3>1, <3>2, <3>2b DEF Numbered
    <2>3. \A j \in Conns \ {k} : held[j] # held[k]
      BY <1>3 DEF Placed
    <2> QED
      BY <1>1, <1>3, <2>2, <2>3, InChannelIs
  <1> QED
    BY <1>2, <1>3

(* Taking a message off the channel leaves it under way.                     *)
LEMMA TakenIsUnderWay ==
    ASSUME SyncInv, NEW k \in Conns, Dequeue(k)
    PROVE  InChannel' = InChannel
  <1> USE DEF SyncInv
  <1> DEFINE l == Len(outbound)
  <1>1. held[k] = Nothing /\ outbound # <<>> /\ outbound' = Tail(outbound)
    BY DEF Dequeue, ClientInv, Holding
  <1>2. /\ l \in Nat \ {0} /\ DOMAIN outbound' = 1..(l - 1) /\ DOMAIN outbound = 1..l
        /\ \A j \in 1..(l - 1) : outbound'[j] = outbound[j + 1]
        /\ Head(outbound) = outbound[1]
    BY <1>1, MessageTypes, HeadTailProperties, LenProperties
  <1>3. \A j \in Conns : held'[j] = IF j = k THEN outbound[1] ELSE held[j]
    BY <1>2 DEF Dequeue, SyncTypeOK, ClientTypeOK
  <1>4. outbound[1] # Nothing
    BY <1>2, MessageTypes
  <1>5. ASSUME NEW m \in InChannel PROVE m \in InChannel'
    <2>1. CASE \E j \in Conns : held[j] # Nothing /\ m = held[j]
      BY <1>1, <1>3, <2>1, InChannelIs
    <2>2. CASE m = outbound[1]
      BY <1>3, <1>4, <2>2, InChannelIs
    <2>3. ASSUME NEW j \in 2..l, m = outbound[j] PROVE m \in InChannel'
      <3>1. j - 1 \in 1..(l - 1) /\ outbound'[j - 1] = m
        BY <1>2, <2>3
      <3> QED
        BY <1>2, <3>1, InChannelIs
    <2> QED
      BY <1>2, <2>1, <2>2, <2>3, InChannelIs
  <1>6. ASSUME NEW m \in InChannel' PROVE m \in InChannel
    <2>1. CASE \E j \in Conns : held'[j] # Nothing /\ m = held'[j]
      BY <1>2, <1>3, <2>1, InChannelIs
    <2>2. ASSUME NEW j \in 1..(l - 1), m = outbound'[j] PROVE m \in InChannel
      <3>1. j + 1 \in DOMAIN outbound /\ outbound[j + 1] = m
        BY <1>2, <2>2
      <3> QED
        BY <3>1, InChannelIs
    <2> QED
      BY <1>2, <2>1, <2>2, InChannelIs
  <1> QED
    BY <1>5, <1>6

ChannelNext == Channel!Put \/ Channel!Lose \/ Channel!Deliver

LEMMA PutsNew ==
    ASSUME SyncInv, NEW x \in Senders, Enqueue(x)
    PROVE  [ChannelNext]_<<InChannel, arrived>>
  <1> USE DEF SyncInv, MessageInv
  <1>1. arrived' = arrived /\ held' = held
    BY DEF Enqueue, HandlersDone, procVars, cloudVars
  <1>2. CASE ~ Accepted
    <2>1. outbound' = outbound
      BY <1>2 DEF Enqueue, Offer, Accepted
    <2> QED
      BY <1>1, <2>1 DEF InChannel
  <1>3. CASE Accepted
    <2> DEFINE m == msg[x]  l == Len(outbound)
    <2>1. m \in SyncMessages /\ m \in Messages
      BY SentType, SyncAssumption DEF Enqueue
    <2>2. outbound' = Append(outbound, m)
      BY <1>3 DEF Enqueue, Offer, Accepted
    <2>3. /\ DOMAIN outbound' = 1..(l + 1) /\ l \in Nat /\ DOMAIN outbound = 1..l
          /\ outbound'[l + 1] = m /\ \A j \in 1..l : outbound'[j] = outbound[j]
      BY <2>1, <2>2, MessageTypes, AppendProperties, LenProperties
    <2>4. InChannel' = InChannel \cup {m}
      <3>1. \A i : i \in InChannel' => i \in InChannel \/ i = m
        BY <1>1, <2>3, InChannelIs
      <3>2. m \in InChannel' /\ InChannel \subseteq InChannel'
        BY <1>1, <2>3, InChannelIs
      <3> QED
        BY <3>1, <3>2
    <2>5. \A j \in DOMAIN queued : queued[j] # m
      BY DEF Sending, Enqueue
    <2>6. 1..Taken \subseteq DOMAIN queued /\ \A j \in DOMAIN outbound : Taken + j \in DOMAIN queued
      BY MessageTypes DEF Placed, Taken
    <2>7. m \notin InChannel
      <3>1. m # Nothing
        BY <2>1, MessageTypes
      <3>2. \A j \in DOMAIN outbound : outbound[j] # m
        BY <2>5, <2>6 DEF Placed
      <3>3. \A k \in Conns : held[k] # m
        BY <2>5, <2>6, <3>1 DEF Placed
      <3> QED
        BY <3>2, <3>3, InChannelIs
    <2>8. m \notin Channel!Delivered
      BY <2>5, <2>6 DEF Placed, Channel!Delivered
    <2> QED
      BY <1>1, <2>1, <2>4, <2>7, <2>8 DEF ChannelNext, Channel!Put
  <1> QED
    BY <1>2, <1>3

LEMMA DeliversOrLoses ==
    ASSUME SyncInv, NEW k \in Conns, Send(k)
    PROVE  [ChannelNext]_<<InChannel, arrived>>
  <1>1. held' = [held EXCEPT ![k] = Nothing] /\ outbound' = outbound /\ held[k] # Nothing
    BY DEF SyncInv, ClientInv, Holding, Send, WriteMessage, Drop
  <1>2. held[k] \in InChannel /\ InChannel' = InChannel \ {held[k]}
    BY <1>1, HeldOnce
  <1>3. arrived' = arrived \/ arrived' = Append(arrived, held[k])
    BY DEF Send, cloudVars
  <1> QED
    BY <1>2, <1>3 DEF ChannelNext, Channel!Lose, Channel!Deliver

LEMMA ClientOnlyLoses ==
    ASSUME SyncInv, Client
    PROVE  [ChannelNext]_<<InChannel, arrived>>
  <1>1. arrived' = arrived /\ SyncTypeOK /\ ClientInv
    BY DEF Client, SyncInv
  <1>2. CASE \E k \in Conns : Dequeue(k)
    BY <1>1, <1>2, TakenIsUnderWay
  <1>3. CASE outbound' = outbound /\ held' = held
    BY <1>1, <1>3 DEF InChannel
  <1>4. ASSUME NEW k \in Conns, outbound' = outbound, held' = [held EXCEPT ![k] = Nothing]
        PROVE  [ChannelNext]_<<InChannel, arrived>>
    BY <1>1, <1>4, HeldOnce DEF ChannelNext, Channel!Lose
  <1> QED
    BY <1>1, <1>2, <1>3, <1>4, ClientMoves

LEMMA ChannelStep == SyncInv /\ [Next]_vars => [ChannelNext]_<<InChannel, arrived>>
  <1> SUFFICES ASSUME SyncInv, [Next]_vars PROVE [ChannelNext]_<<InChannel, arrived>>
    OBVIOUS
  <1>1. ASSUME Elsewhere PROVE UNCHANGED <<InChannel, arrived>>
    BY <1>1 DEF Elsewhere, InChannel
  <1>2. CASE UNCHANGED vars
    BY <1>2 DEF vars, clientVars, InChannel
  <1>3. ASSUME NEW x \in Senders,
               \/ x \in Handlers /\ (ChangeRow(x) \/ FetchRow(x) \/ StartService(x))
               \/ x \in Dialers /\ Snapshot(x)
               \/ Register(x)
        PROVE  UNCHANGED <<InChannel, arrived>>
    BY <1>1, <1>3, ProviderElsewhere
  <1>4. ASSUME NEW k \in Conns, HandleServiceSyncAck(k) PROVE UNCHANGED <<InChannel, arrived>>
    BY <1>4 DEF HandleServiceSyncAck, ReadMessage, procVars, InChannel
  <1> QED
    BY <1>2, <1>3, <1>4, PutsNew, DeliversOrLoses, ClientOnlyLoses DEF Next, Report, Senders

(***************************************************************************)
(* From the provider's call to the cloud a message is delivered at most    *)
(* once: the detailed system, with its channel, processors and connections *)
(* that come and go, implements a channel that may lose and reorder.       *)
(***************************************************************************)
THEOREM DeliversAtMostOnce == Spec => AtMostOnce
  <1>1. Init => Channel!Init
    BY DEF Init, ClientInit, InChannel, Channel!Init
  <1> QED
    BY <1>1, ChannelStep, SyncCorrect, PTL DEF Spec, AtMostOnce, Channel!Spec, ChannelNext
-----------------------------------------------------------------------------
(***************************************************************************)
(* The cloud converges: each step keeps TellInv.                           *)
(***************************************************************************)

\* A message that is sure to arrive, or to be lost with its connection, is
\* under way.
LEMMA OnItsWayIs ==
    ASSUME SyncInv, NEW i \in Ids, OnItsWay(i)
    PROVE  \E m \in InChannel : m.rows[i] = db[i]
  <1>1. \A k \in Conns : Safe(k) => held[k] # Nothing
    BY DEF SyncInv, ClientInv, Holding, Safe
  <1> QED
    BY <1>1, InChannelIs DEF OnItsWay

LEMMA RowTypes ==
    ASSUME SyncTypeOK
    PROVE  /\ \A x \in Senders : msg[x].rows \in [Ids -> Versions \cup {Gone, Absent}]
           /\ Absent # Gone /\ Absent \notin Versions /\ Gone \notin Versions
           /\ \A i \in Ids : NoRows[i] = Absent
  BY SyncAssumption DEF SyncTypeOK, NoRows

LEMMA ChangeTells ==
    ASSUME SyncInv, TellInv, NEW h \in Handlers, ChangeRow(h)
    PROVE  TellInv'
  <1> USE DEF TellInv
  <1>1. PICK i \in Ids : ChangeRow(h)!(i)
    BY DEF ChangeRow
  <1>2. SyncTypeOK /\ Elsewhere /\ UNCHANGED <<clientVars, count>>
    BY <1>1, ProviderElsewhere DEF SyncInv, Senders
  <1>3. PICK place \in {"fetch", "start", "register"} : snd' = [snd EXCEPT ![h] = place]
    BY <1>1
  <1>4. \A x \in Senders : /\ snd'[x] = IF x = h THEN place ELSE snd[x]
                           /\ msg'[x].no = msg[x].no
                           /\ msg'[x].rows = IF x = h THEN [NoRows EXCEPT ![i] = db'[i]] ELSE msg[x].rows
    BY <1>1, <1>2, <1>3 DEF SyncTypeOK, Senders
  <1>5. \A j \in Ids : [NoRows EXCEPT ![i] = db'[i]][j] = IF j = i THEN db'[i] ELSE Absent
    BY DEF NoRows
  <1>6. \A j \in Ids : j # i => db'[j] = db[j]
    BY <1>1, <1>2 DEF SyncTypeOK
  <1>7. InChannel' = InChannel
    BY <1>2 DEF Elsewhere, InChannel
  <1>8. Mentions'
    BY <1>3, <1>4 DEF Mentions, NoRows
  <1>9. alone' => alone /\ Quiet
    BY <1>1
  <1>10. Current'
    <2> SUFFICES ASSUME alone', NEW j \in Ids
                 PROVE  /\ \A x \in Senders : msg'[x].rows[j] \in {Absent, db'[j]}
                        /\ \A m \in InChannel' : m.rows[j] \in {Absent, db'[j]}
      BY DEF Current
    <2>1. \A x \in Senders : x # h => msg'[x].rows[j] = Absent
      BY <1>2, <1>4, <1>9, RowTypes DEF Quiet, Mentions
    <2>2. msg'[h].rows[j] \in {Absent, db'[j]} /\ InChannel' = {}
      BY <1>4, <1>5, <1>7, <1>9 DEF Quiet, Senders
    <2> QED
      BY <2>1, <2>2
  <1>11. Telling'
    <2> SUFFICES ASSUME alone', NEW j \in Ids \ unreported, db'[j] \in Versions
                 PROVE  Informed(j)'
      BY <1>1 DEF Telling
    <2>1. CASE j = i
      <3>1. snd'[h] # "idle" /\ msg'[h].rows[j] = db'[j]
        BY <1>4, <1>5, <2>1 DEF Senders
      <3> QED
        BY <3>1 DEF Informed, BeingSent, Senders
    <2>2. CASE j # i
      <3>1. db'[j] = db[j] /\ Informed(j)
        BY <1>6, <1>9, <2>2 DEF Telling
      <3>2. ~ BeingSent(j) /\ ~ OnItsWay(j)
        BY <1>9, OnItsWayIs DEF Quiet, BeingSent
      <3>3. CASE Unconnected
        BY <1>2, <3>3 DEF Unconnected, Informed, clientVars
      <3>4. CASE WillReport
        <4>1. h \notin Dialers
          BY SyncAssumption
        <4> QED
          BY <1>2, <1>4, <3>4, <4>1 DEF WillReport, Informed, clientVars, Senders
      <3>5. CASE Dropped
        BY <1>2, <1>4, <3>5 DEF Dropped, Informed, Elsewhere
      <3>6. CASE LastTold(j)
        BY <1>2, <3>1, <3>6 DEF LastTold, Informed, Elsewhere
      <3> QED
        BY <3>1, <3>2, <3>3, <3>4, <3>5, <3>6 DEF Informed
    <2> QED
      BY <2>1, <2>2
  <1> QED
    BY <1>8, <1>10, <1>11

(* A handler goes on to report its row as it is stored, or gives up.         *)
LEMMA FetchTells ==
    ASSUME SyncInv, TellInv, NEW h \in Handlers, FetchRow(h) \/ StartService(h)
    PROVE  TellInv'
  <1> USE DEF TellInv
  <1>1. SyncTypeOK /\ Elsewhere /\ UNCHANGED <<clientVars, count, db, alone>> /\ h \notin Dialers
            /\ snd[h] \in {"fetch", "start"}
    BY ProviderElsewhere, SyncAssumption DEF SyncInv, Senders, FetchRow, StartService
  <1>2. PICK place \in {"idle", "start", "register"} :
            /\ snd' = [snd EXCEPT ![h] = place]
            /\ place = "idle" <=> GiveUp(h)
    <2>1. ASSUME GiveUp(h), ReadRow(h) \/ snd' = [snd EXCEPT ![h] = "register"] PROVE FALSE
      <3>1. snd'[h] = "idle" /\ snd'[h] \in {"start", "register"}
        BY <1>1, <2>1 DEF GiveUp, ReadRow, SyncTypeOK, Senders
      <3> QED
        BY <3>1
    <2> QED
      BY <2>1 DEF FetchRow, StartService, ReadRow, GiveUp
  <1>3. \A x \in Senders : /\ snd'[x] = IF x = h THEN place ELSE snd[x]
                           /\ msg'[x].no = msg[x].no
                           /\ x # h => msg'[x].rows = msg[x].rows
    BY <1>1, <1>2 DEF FetchRow, StartService, ReadRow, GiveUp, SyncTypeOK, Senders
  <1>4. GiveUp(h) => msg'[h].rows = NoRows
    BY <1>1 DEF GiveUp, SyncTypeOK, Senders
  <1>5. ~ GiveUp(h) => unreported' = unreported /\ \A j \in Ids : msg'[h].rows[j] \in {msg[h].rows[j], db[j]}
    <2>1. CASE ReadRow(h)
      <3>1. PICK i \in Ids : /\ UNCHANGED unreported
                            /\ msg' = [msg EXCEPT ![h] = [@ EXCEPT !.rows = [msg[h].rows EXCEPT ![i] = db[i]]]]
        BY <2>1 DEF ReadRow
      <3>2. msg'[h].rows = [msg[h].rows EXCEPT ![i] = db[i]]
        BY <1>1, <3>1 DEF SyncTypeOK, Senders
      <3> QED
        BY <1>1, <3>1, <3>2, RowTypes DEF Senders
    <2>2. CASE UNCHANGED <<msg, unreported>>
      BY <2>2
    <2> QED
      BY <2>1, <2>2 DEF FetchRow, StartService
  <1>6. Mentions'
    BY <1>2, <1>3, <1>4 DEF Mentions, NoRows
  <1>7. InChannel' = InChannel
    BY <1>1 DEF Elsewhere, InChannel
  <1>8. Current'
    <2>1. \A j \in Ids : msg'[h].rows[j] \in {Absent, msg[h].rows[j], db[j]}
      BY <1>1, <1>4, <1>5, RowTypes
    <2> QED
      BY <1>1, <1>3, <1>7, <2>1 DEF Current, Senders
  <1>9. unreported \subseteq unreported'
    BY <1>5 DEF GiveUp
  <1>10. Telling'
    <2> SUFFICES ASSUME alone', NEW j \in Ids \ unreported', db'[j] \in Versions
                 PROVE  Informed(j)'
      BY DEF Telling
    <2>1. db[j] \in Versions /\ Informed(j) /\ alone
      BY <1>1, <1>9 DEF Telling
    <2>2. CASE Unconnected
      BY <1>1, <2>2 DEF Unconnected, Informed, clientVars
    <2>3. CASE WillReport
      BY <1>1, <1>3, <2>3 DEF WillReport, Informed, clientVars, Senders
    <2>4. CASE Dropped
      BY <1>1, <1>2, <1>3, <2>4 DEF Dropped, Informed, Elsewhere
    <2>5. CASE LastTold(j)
      BY <1>1, <2>5 DEF LastTold, Informed, Elsewhere
    <2>6. CASE OnItsWay(j)
      BY <1>1, <2>6 DEF OnItsWay, Safe, Informed, clientVars
    <2>7. CASE BeingSent(j)
      <3>1. PICK x \in Senders : snd[x] # "idle" /\ msg[x].rows[j] = db[j]
        BY <2>7 DEF BeingSent
      <3>2. CASE x # h
        BY <1>1, <1>3, <3>1, <3>2 DEF BeingSent, Informed
      <3>3. CASE x = h
        <4>1. msg[h].rows[j] # Absent
          BY <1>1, <2>1, <3>1, <3>3, RowTypes
        <4>2. ~ GiveUp(h)
          BY <4>1 DEF GiveUp
        <4>3. snd'[h] # "idle" /\ msg'[h].rows[j] = db'[j]
          BY <1>1, <1>2, <1>3, <1>5, <3>1, <3>3, <4>2 DEF Senders
        <4> QED
          BY <3>3, <4>3 DEF BeingSent, Informed
      <3> QED
        BY <3>2, <3>3
    <2> QED
      BY <2>1, <2>2, <2>3, <2>4, <2>5, <2>6, <2>7 DEF Informed
  <1> QED
    BY <1>6, <1>8, <1>10

LEMMA SnapshotTells ==
    ASSUME SyncInv, TellInv, NEW g \in Dialers, Snapshot(g)
    PROVE  TellInv'
  <1> USE DEF TellInv
  <1> DEFINE stored == {i \in Ids : db[i] \in Versions}
  <1>1. SyncTypeOK /\ Elsewhere /\ UNCHANGED <<db, count, alone>>
    BY ProviderElsewhere DEF SyncInv, Senders, Snapshot
  <1>2. InChannel' = InChannel
    BY <1>1 DEF Elsewhere, InChannel
  <1>3. CASE unreported' = unreported \cup stored /\ UNCHANGED <<snd, msg>>
    BY <1>1, <1>2, <1>3 DEF Current, Mentions, Telling, NoRows
  <1>4. CASE /\ stored # {}
             /\ snd' = [snd EXCEPT ![g] = "register"]
             /\ msg' = [msg EXCEPT ![g].rows = [i \in Ids |-> IF i \in stored THEN db[i] ELSE Absent]]
             /\ UNCHANGED clientVars
    <2>1. \A x \in Senders :
             /\ snd'[x] = IF x = g THEN "register" ELSE snd[x]
             /\ \A i \in Ids : msg'[x].rows[i] = IF x = g THEN IF i \in stored THEN db[i] ELSE Absent
                                                 ELSE msg[x].rows[i]
             /\ x # g => msg'[x].rows = msg[x].rows
      BY <1>1, <1>4 DEF SyncTypeOK, Senders
    <2>2. Mentions'
      BY <2>1 DEF Mentions, NoRows
    <2>3. Current'
      BY <1>1, <1>2, <1>4, <2>1 DEF Current
    <2>4. Telling'
      <3>1. \A i \in Ids : db'[i] \in Versions => BeingSent(i)'
        BY <1>1, <2>1 DEF BeingSent, Senders
      <3> QED
        BY <3>1 DEF Telling, Informed
    <2> QED
      BY <2>2, <2>3, <2>4
  <1> QED
    BY <1>3, <1>4 DEF Snapshot

LEMMA RegisterTells ==
    ASSUME SyncInv, TellInv, NEW x \in Senders, Register(x)
    PROVE  TellInv'
  <1> USE DEF TellInv
  <1>1. SyncTypeOK /\ Elsewhere /\ UNCHANGED <<clientVars, db, alone>>
    BY ProviderElsewhere DEF SyncInv, Register
  <1>2. InChannel' = InChannel
    BY <1>1 DEF Elsewhere, InChannel
  <1>3. snd[x] = "register" /\ count' = count + 1 /\ count \in Nat
    BY <1>1 DEF Register, SyncTypeOK
  <1>4. \A y \in Senders : /\ snd'[y] = IF y = x THEN "enqueue" ELSE snd[y]
                           /\ msg'[y].rows = msg[y].rows
                           /\ msg'[y].no = IF y = x THEN count' ELSE msg[y].no
    BY <1>1 DEF Register, SyncTypeOK
  <1>5. Mentions' /\ Current'
    BY <1>1, <1>2, <1>3, <1>4 DEF Mentions, Current, Senders
  <1>6. Telling'
    <2> SUFFICES ASSUME alone', NEW j \in Ids \ unreported', db'[j] \in Versions
                 PROVE  Informed(j)'
      BY DEF Telling
    <2>1. Informed(j) \/ BeingSent(j)'
      <3>1. CASE j \notin unreported
        BY <1>1, <3>1 DEF Telling
      <3>2. CASE msg[x].rows[j] # Absent
        <4>1. msg[x].rows[j] = db[j]
          BY <1>1, <3>2 DEF Current
        <4> QED
          BY <1>1, <1>4, <4>1 DEF BeingSent
      <3> QED
        BY <3>1, <3>2 DEF Register
    <2>2. Unconnected => Unconnected'
      BY <1>1 DEF Unconnected, clientVars
    <2>3. WillReport => WillReport'
      BY <1>1, <1>3, <1>4 DEF WillReport, clientVars, Senders
    <2>4. BeingSent(j) => BeingSent(j)'
      BY <1>1, <1>4 DEF BeingSent
    <2>5. OnItsWay(j) => OnItsWay(j)'
      BY <1>1 DEF OnItsWay, Safe, clientVars
    <2>6. ASSUME Dropped PROVE Dropped'
      <3>1. PICK n \in 1..count : /\ \A l \in DOMAIN queued : queued[l].no # n
                                  /\ \A y \in Senders : snd[y] = "enqueue" => msg[y].no # n
        BY <2>6 DEF Dropped
      <3>2. n \in 1..count' /\ n # count'
        BY <1>3, <3>1
      <3> QED
        BY <1>1, <1>4, <3>1, <3>2 DEF Dropped, Elsewhere
    <2>7. LastTold(j) => LastTold(j)'
      BY <1>1 DEF LastTold, Elsewhere
    <2> QED
      BY <2>1, <2>2, <2>3, <2>4, <2>5, <2>6, <2>7 DEF Informed
  <1> QED
    BY <1>5, <1>6

LEMMA EnqueueTells ==
    ASSUME SyncInv, TellInv, NEW x \in Senders, Enqueue(x)
    PROVE  TellInv'
  <1> USE DEF TellInv
  <1> DEFINE m == msg[x]  l == Len(outbound)
  <1>1. /\ SyncTypeOK /\ ClientInv /\ Sending
        /\ snd[x] = "enqueue" /\ UNCHANGED <<db, count, alone, unreported, arrived, conn, net, proc, held, via>>
    BY DEF SyncInv, MessageInv, Enqueue, HandlersDone, connVars, procVars, cloudVars
  <1>2. \A y \in Senders : /\ snd'[y] = IF y = x THEN "idle" ELSE snd[y]
                           /\ y # x => msg'[y] = msg[y]
                           /\ msg'[x].rows = NoRows
    BY <1>1 DEF Enqueue, SyncTypeOK
  <1>3. CASE Accepted
    <2>1. m \in SyncMessages
      BY <1>1, SentType
    <2>2. outbound' = Append(outbound, m) /\ queued' = Append(queued, m)
      BY <1>3 DEF Enqueue, Offer, Accepted
    <2>3. /\ DOMAIN outbound' = 1..(l + 1) /\ l \in Nat /\ DOMAIN outbound = 1..l
          /\ outbound'[l + 1] = m /\ \A j \in 1..l : outbound'[j] = outbound[j]
      BY <1>1, <2>1, <2>2, MessageTypes, AppendProperties, LenProperties
    <2>4. /\ DOMAIN queued' = 1..(Len(queued) + 1) /\ DOMAIN queued = 1..Len(queued)
          /\ Len(queued) \in Nat /\ queued'[Len(queued) + 1] = m
          /\ \A j \in DOMAIN queued : queued'[j] = queued[j]
      BY <1>1, <2>1, <2>2, MessageTypes, AppendProperties, LenProperties
    <2>5. \A n \in InChannel' : n \in InChannel \/ n = m
      BY <1>1, <2>3, InChannelIs
    <2>6. Current'
      BY <1>1, <1>2, <2>5, RowTypes DEF Current
    <2>7. Telling'
      <3> SUFFICES ASSUME alone', NEW i \in Ids \ unreported, db'[i] \in Versions
                   PROVE  Informed(i)'
        BY <1>1 DEF Telling
      <3>1. Informed(i)
        BY <1>1 DEF Telling
      <3>2. Unconnected => Unconnected'
        BY <1>1 DEF Unconnected
      <3>3. ASSUME WillReport PROVE WillReport'
        <4>1. PICK g \in Dialers : dial[g] = "handlers" /\ snd[g] = "idle"
          BY <3>3 DEF WillReport
        <4>2. x \notin Dialers
          <5> SUFFICES ASSUME x \in Dialers PROVE FALSE
            OBVIOUS
          <5>1. dial[x] = "handlers"
            BY DEF Enqueue, HandlersDone
          <5> QED
            BY <1>1, <4>1, <5>1 DEF ClientInv, OneTask, Dials
        <4> QED
          BY <1>2, <4>1, <4>2 DEF WillReport, Enqueue, Senders
      <3>4. ASSUME m.rows[i] = db[i] PROVE OnItsWay(i)'
        BY <1>1, <2>3, <3>4 DEF OnItsWay
      <3>5. BeingSent(i) => BeingSent(i)' \/ m.rows[i] = db[i]
        BY <1>1, <1>2 DEF BeingSent
      <3>6. OnItsWay(i) => OnItsWay(i)'
        BY <1>1, <2>3 DEF OnItsWay, Safe
      <3>7. ASSUME Dropped PROVE Dropped'
        <4>1. PICK n \in 1..count : /\ \A j \in DOMAIN queued : queued[j].no # n
                                    /\ \A y \in Senders : snd[y] = "enqueue" => msg[y].no # n
          BY <3>7 DEF Dropped
        <4>2. m.no # n
          BY <1>1, <4>1
        <4>3. \A j \in DOMAIN queued' : queued'[j].no # n
          BY <2>4, <4>1, <4>2
        <4> QED
          BY <1>1, <1>2, <4>1, <4>3 DEF Dropped
      <3>8. LastTold(i) => LastTold(i)'
        BY <1>1 DEF LastTold
      <3> QED
        BY <3>1, <3>2, <3>3, <3>4, <3>5, <3>6, <3>7, <3>8 DEF Informed
    <2> QED
      BY <1>2, <2>6, <2>7, SyncAssumption DEF Mentions, NoRows, Senders
  <1>4. CASE ~ Accepted
    <2>1. UNCHANGED <<outbound, queued>>
      BY <1>4 DEF Enqueue, Offer, Accepted
    <2>2. InChannel' = InChannel
      BY <1>1, <2>1 DEF InChannel
    <2>3. Current'
      BY <1>1, <1>2, <2>2, RowTypes DEF Current
    <2>4. Dropped'
      <3>1. m.no \in 1..count /\ \A j \in DOMAIN queued : queued[j].no # m.no
        BY <1>1 DEF Sending
      <3>2. \A y \in Senders : snd'[y] = "enqueue" => msg'[y].no # m.no
        BY <1>1, <1>2 DEF Sending
      <3> QED
        BY <1>1, <2>1, <3>1, <3>2 DEF Dropped
    <2>5. Telling'
      BY <2>4 DEF Telling, Informed
    <2> QED
      BY <1>2, <2>3, <2>5, SyncAssumption DEF Mentions, NoRows, Senders
  <1> QED
    BY <1>3, <1>4

(* What a step of the client or the cloud leaves of what the senders do.     *)
LEMMA SendersStay ==
    ASSUME TellInv, UNCHANGED <<db, snd, msg, count, queued, alone, unreported>>, InChannel' \subseteq InChannel
    PROVE  /\ Current' /\ Mentions' /\ (Dropped => Dropped')
           /\ \A i \in Ids : BeingSent(i) => BeingSent(i)'
  BY DEF TellInv, Current, Mentions, Dropped, BeingSent, NoRows

LEMMA SendTells ==
    ASSUME SyncInv, TellInv, NEW k \in Conns, Send(k)
    PROVE  TellInv'
  <1>1. /\ SyncTypeOK /\ ClientInv /\ proc[k] = "write" /\ Telling /\ Current
        /\ UNCHANGED <<db, snd, msg, count, queued, alone, unreported, outbound, conn, net, dial, via>>
        /\ proc' = [proc EXCEPT ![k] = "select"] /\ held' = [held EXCEPT ![k] = Nothing]
    BY DEF SyncInv, TellInv, Send, WriteMessage, Drop, connVars, sendVars
  <1>2. held[k] \in InChannel /\ InChannel' = InChannel \ {held[k]}
    BY <1>1, HeldOnce DEF ClientInv, Holding
  <1>3. Current' /\ Mentions' /\ (Dropped => Dropped') /\ \A i \in Ids : BeingSent(i) => BeingSent(i)'
    BY <1>1, <1>2, SendersStay
  <1>4. \A j \in Conns : /\ proc'[j] = IF j = k THEN "select" ELSE proc[j]
                         /\ held'[j] = IF j = k THEN Nothing ELSE held[j]
    BY <1>1 DEF SyncTypeOK, ClientTypeOK
  <1>5. Telling'
    <2> SUFFICES ASSUME alone', NEW i \in Ids \ unreported, db'[i] \in Versions
                 PROVE  Informed(i)'
      BY <1>1 DEF Telling
    <2>1. Informed(i)
      BY <1>1 DEF Telling
    <2>2. Unconnected => Unconnected'
      BY <1>1 DEF Unconnected
    <2>3. WillReport => WillReport'
      BY <1>1 DEF WillReport
    <2>4. ASSUME arrived' = arrived PROVE LastTold(i) => LastTold(i)'
      BY <1>1, <2>4 DEF LastTold
    <2>5. ASSUME arrived' = Append(arrived, held[k])
          PROVE  LastTold(i) \/ held[k].rows[i] = db[i] => LastTold(i)'
      <3> DEFINE l == Len(arrived)
      <3>1. held[k] \in SyncMessages
        BY <1>1, SyncAssumption DEF ClientInv, Holding, ClientTypeOK
      <3>2. /\ DOMAIN arrived' = 1..(l + 1) /\ l \in Nat /\ DOMAIN arrived = 1..l
            /\ arrived'[l + 1] = held[k] /\ \A a \in 1..l : arrived'[a] = arrived[a]
        BY <1>1, <2>5, <3>1, MessageTypes, AppendProperties, LenProperties
      <3>3. held[k].rows[i] \in {Absent, db[i]}
        BY <1>1, <1>2 DEF Current
      <3>4. CASE held[k].rows[i] = db[i]
        BY <1>1, <3>2, <3>4 DEF LastTold
      <3>5. CASE held[k].rows[i] = Absent
        BY <1>1, <3>2, <3>5, RowTypes DEF LastTold
      <3> QED
        BY <3>3, <3>4, <3>5
    <2>6. LastTold(i) => LastTold(i)'
      BY <2>4, <2>5 DEF Send, cloudVars
    <2>7. ASSUME OnItsWay(i) PROVE OnItsWay(i)' \/ Unconnected \/ LastTold(i)'
      <3>1. CASE \E j \in DOMAIN outbound : outbound[j].rows[i] = db[i]
        BY <1>1, <3>1 DEF OnItsWay
      <3>2. ASSUME NEW j \in Conns, Safe(j), held[j].rows[i] = db[i], j # k PROVE OnItsWay(i)'
        BY <1>1, <1>4, <3>2 DEF OnItsWay, Safe
      <3>3. CASE Safe(k) /\ held[k].rows[i] = db[i] /\ ~ Unconnected
        <4>1. Arrives(k)
          BY <1>1, <3>3 DEF Safe, Arrives, Unconnected
        <4> QED
          BY <2>5, <3>3, <4>1 DEF Send
      <3> QED
        BY <2>7, <3>1, <3>2, <3>3 DEF OnItsWay
    <2> QED
      BY <1>3, <2>1, <2>2, <2>3, <2>6, <2>7 DEF Informed
  <1> QED
    BY <1>3, <1>5 DEF TellInv

LEMMA AckTells ==
    ASSUME SyncInv, TellInv, NEW k \in Conns, HandleServiceSyncAck(k)
    PROVE  TellInv'
  <1>1. UNCHANGED <<db, snd, msg, count, queued, alone, unreported, outbound, conn, net, dial, proc, held, via, arrived>>
    BY DEF HandleServiceSyncAck, ReadMessage, connVars, procVars, sendVars
  <1>2. InChannel' = InChannel
    BY <1>1 DEF InChannel
  <1>3. Current' /\ Mentions' /\ (Dropped => Dropped') /\ \A i \in Ids : BeingSent(i) => BeingSent(i)'
    BY <1>1, <1>2, SendersStay
  <1>4. \A i \in Ids : Informed(i) => Informed(i)'
    BY <1>1, <1>3 DEF Informed, Unconnected, WillReport, OnItsWay, Safe, LastTold
  <1> QED
    BY <1>1, <1>3, <1>4 DEF TellInv, Telling

(* A step of the client loses no message that is sure to take the            *)
(* connection that works, unless that one is lost.                           *)
LEMMA ClientKeepsSafe ==
    ASSUME SyncInv, Client, NEW i \in Ids, OnItsWay(i), db' = db
    PROVE  OnItsWay(i)' \/ Unconnected \/ Unconnected' \/ \E g \in Dialers : DialSucceeds(g)
  <1> USE DEF SyncInv, SyncTypeOK, ClientTypeOK, SetDial, connVars, procVars
  <1>1. ASSUME UNCHANGED <<outbound, proc, held, via, conn>> PROVE OnItsWay(i)'
    BY <1>1 DEF OnItsWay, Safe
  <1>2. ASSUME NEW g \in Dialers, Dial(g)
        PROVE  OnItsWay(i)' \/ Unconnected' \/ DialSucceeds(g)
    <2>1. CASE CloseConn(g)
      BY <2>1 DEF CloseConn, Unconnected
    <2>2. CASE Spawn(g)
      <3>1. made \in Conns /\ proc[made] = "none"
        BY <2>2 DEF Spawn, ClientInv, Spawned
      <3>2. proc' = [proc EXCEPT ![made] = "select"] /\ UNCHANGED <<outbound, held, via, conn>>
        BY <2>2 DEF Spawn
      <3>3. \A k \in Conns : Safe(k) => Safe(k)'
        BY <3>1, <3>2 DEF Safe
      <3> QED
        BY <3>2, <3>3 DEF OnItsWay
    <2>3. CASE DialFails(g) \/ Enter(g) \/ LoopHead(g) \/ Backoff(g) \/ Release(g)
      <3>1. UNCHANGED <<outbound, proc, held, via, conn>>
        BY <2>3 DEF DialFails, Enter, LoopHead, Backoff, Release
      <3> QED
        BY <1>1, <3>1
    <2> QED
      BY <1>2, <2>1, <2>2, <2>3 DEF Dial
  <1>3. ASSUME NEW k \in Conns, Reader(k) \/ Cut(k) PROVE OnItsWay(i)'
    BY <1>1, <1>3 DEF Reader, ReaderTop, ReadError, Cut
  <1>4. CASE Close
    BY <1>4 DEF Close, Unconnected
  <1>5. ASSUME NEW k \in Conns, Processor(k), ~ Unconnected PROVE OnItsWay(i)'
    <2>1. CASE Dequeue(k)
      <3> DEFINE l == Len(outbound)
      <3>1. outbound # <<>> /\ outbound' = Tail(outbound) /\ proc[k] = "select"
            /\ UNCHANGED <<via, conn>>
        BY <2>1 DEF Dequeue
      <3>2. /\ l \in Nat \ {0} /\ DOMAIN outbound' = 1..(l - 1) /\ DOMAIN outbound = 1..l
            /\ \A j \in 1..(l - 1) : outbound'[j] = outbound[j + 1]
            /\ Head(outbound) = outbound[1]
        BY <3>1, MessageTypes, HeadTailProperties, LenProperties
      <3>3. \A j \in Conns : /\ held'[j] = IF j = k THEN outbound[1] ELSE held[j]
                             /\ proc'[j] = IF j = k THEN "check" ELSE proc[j]
        BY <2>1, <3>2 DEF Dequeue
      <3>4. ASSUME NEW j \in DOMAIN outbound, outbound[j].rows[i] = db[i] PROVE OnItsWay(i)'
        <4>1. CASE j = 1
          <5>1. held'[k] = outbound[1] /\ proc'[k] = "check"
            BY <3>3
          <5>2. Safe(k)'
            BY <3>1, <5>1 DEF Safe
          <5> QED
            BY <3>4, <4>1, <5>1, <5>2 DEF OnItsWay
        <4>2. CASE j # 1
          <5>1. j - 1 \in DOMAIN outbound' /\ outbound'[j - 1] = outbound[j]
            BY <3>2, <4>2
          <5> QED
            BY <3>4, <5>1 DEF OnItsWay
        <4> QED
          BY <4>1, <4>2
      <3>5. ASSUME NEW j \in Conns, Safe(j), held[j].rows[i] = db[i] PROVE OnItsWay(i)'
        <4>1. j # k
          BY <3>1, <3>5 DEF Safe
        <4>2. held'[j] = held[j] /\ proc'[j] = proc[j]
          BY <3>3, <4>1
        <4>3. Safe(j)'
          BY <3>1, <3>5, <4>2 DEF Safe
        <4> QED
          BY <3>5, <4>2, <4>3 DEF OnItsWay
      <3> QED
        BY <3>4, <3>5 DEF OnItsWay
    <2>2. CASE ProcessorEnds(k)
      BY <2>2 DEF ProcessorEnds, OnItsWay, Safe
    <2>3. CASE CheckConnected(k) \/ TakeConn(k)
      <3>1. conn # 0 /\ UNCHANGED <<outbound, held, conn>>
        BY <1>5, <2>3 DEF CheckConnected, TakeConn, Unconnected
      <3>2. Safe(k)'
        BY <2>3, <3>1 DEF CheckConnected, TakeConn, Safe
      <3>3. \A j \in Conns : j # k => proc'[j] = proc[j] /\ via'[j] = via[j]
        BY <2>3, <3>1 DEF CheckConnected, TakeConn
      <3>4. \A j \in Conns : Safe(j) => Safe(j)'
        BY <3>1, <3>2, <3>3 DEF Safe
      <3> QED
        BY <3>1, <3>4 DEF OnItsWay
    <2> QED
      BY <1>5, <2>1, <2>2, <2>3 DEF Processor
  <1> QED
    BY <1>2, <1>3, <1>4, <1>5 DEF Client

LEMMA ClientTells ==
    ASSUME SyncInv, TellInv, Client
    PROVE  TellInv'
  <1>1. /\ SyncTypeOK /\ ClientInv /\ Sending /\ Telling
        /\ UNCHANGED <<db, snd, msg, count, queued, arrived, alone, unreported>>
    BY DEF SyncInv, MessageInv, TellInv, Client, sendVars
  <1>2. InChannel' \subseteq InChannel
    <2>1. CASE \E k \in Conns : Dequeue(k)
      BY <2>1, TakenIsUnderWay
    <2>2. CASE outbound' = outbound /\ (held' = held \/ \E k \in Conns : held' = [held EXCEPT ![k] = Nothing])
      <3>1. \A k \in Conns : held'[k] # Nothing => held'[k] = held[k]
        BY <1>1, <2>2 DEF SyncTypeOK, ClientTypeOK
      <3> QED
        BY <2>2, <3>1, InChannelIs
    <2> QED
      BY <1>1, <2>1, <2>2, ClientMoves
  <1>3. Current' /\ Mentions' /\ (Dropped => Dropped') /\ \A i \in Ids : BeingSent(i) => BeingSent(i)'
    BY <1>1, <1>2, SendersStay
  <1>4. WillReport => WillReport'
    BY <1>1, HandlersStay DEF WillReport
  <1>5. ASSUME NEW g \in Dialers, DialSucceeds(g) PROVE WillReport'
    <2>1. snd[g] = "idle"
      BY <1>1, <1>5 DEF Sending, DialSucceeds
    <2>2. dial'[g] = "handlers"
      BY <1>1, <1>5 DEF DialSucceeds, SetDial, SyncTypeOK, ClientTypeOK
    <2> QED
      BY <1>1, <2>1, <2>2 DEF WillReport
  <1>6. CASE \E g \in Dialers : DialSucceeds(g)
    BY <1>3, <1>5, <1>6 DEF TellInv, Telling, Informed
  <1>7. CASE ~ \E g \in Dialers : DialSucceeds(g)
    <2>1. Unconnected => Unconnected'
      <3> USE DEF SyncTypeOK, ClientTypeOK, connVars
      <3>1. ASSUME NEW g \in Dialers, Dial(g), Unconnected PROVE Unconnected'
        BY <1>7, <3>1 DEF Dial, DialFails, Spawn, Enter, CloseConn, LoopHead, Backoff,
                          Release, Unconnected
      <3>2. ASSUME NEW k \in Conns, Cut(k), Unconnected PROVE Unconnected'
        BY <1>1, <3>2 DEF Cut, Unconnected
      <3>3. ASSUME NEW k \in Conns, Reader(k) \/ Processor(k), Unconnected PROVE Unconnected'
        BY <3>3 DEF Reader, ReaderTop, ReadError, Processor, Dequeue, ProcessorEnds,
                    CheckConnected, TakeConn, Unconnected
      <3>4. CASE Close
        BY <3>4 DEF Close, Unconnected
      <3> QED
        BY <3>1, <3>2, <3>3, <3>4 DEF Client
    <2>2. ASSUME NEW i \in Ids, Informed(i) PROVE Informed(i)'
      <3>1. LastTold(i) => LastTold(i)'
        BY <1>1 DEF LastTold
      <3>2. OnItsWay(i) => OnItsWay(i)' \/ Unconnected \/ Unconnected'
        BY <1>1, <1>7, ClientKeepsSafe
      <3> QED
        BY <1>3, <1>4, <2>1, <2>2, <3>1, <3>2 DEF Informed
    <2> QED
      BY <1>1, <1>3, <2>2 DEF TellInv, Telling
  <1> QED
    BY <1>6, <1>7

LEMMA TellInitOK == Init => TellInv
  <1> SUFFICES ASSUME Init PROVE TellInv
    OBVIOUS
  <1>1. InChannel = {}
    BY DEF Init, ClientInit, InChannel
  <1>2. \A x \in Senders : msg[x].rows = NoRows /\ snd[x] = "idle"
    BY DEF Init
  <1>3. \A i \in Ids : NoRows[i] = Absent
    BY DEF NoRows
  <1>4. Unconnected
    BY DEF Init, ClientInit, Unconnected
  <1> QED
    BY <1>1, <1>2, <1>3, <1>4 DEF TellInv, Current, Mentions, Telling, Informed, Senders

LEMMA TellStep == SyncInv /\ TellInv /\ [Next]_vars => TellInv'
  <1> SUFFICES ASSUME SyncInv, TellInv, [Next]_vars PROVE TellInv'
    OBVIOUS
  <1>1. CASE UNCHANGED vars
    <2>1. UNCHANGED <<db, snd, msg, count, queued, alone, unreported, outbound, conn, net, dial, proc, held, via, arrived>>
      BY <1>1 DEF vars, clientVars
    <2>2. InChannel' = InChannel
      BY <2>1 DEF InChannel
    <2> QED
      BY <2>1, <2>2 DEF TellInv, Current, Mentions, Telling, Informed, Unconnected, WillReport,
                        BeingSent, OnItsWay, Safe, Dropped, LastTold, NoRows
  <1> QED
    BY <1>1, ChangeTells, FetchTells, SnapshotTells, RegisterTells, EnqueueTells, SendTells,
       AckTells, ClientTells DEF Next, Report

(* Once everything is settled, the cloud has been told.                      *)
LEMMA SettledIsTold == SyncInv /\ TellInv => ConvergesOneAtATime
  <1> SUFFICES ASSUME SyncInv, TellInv, alone, Settled, NEW i \in Ids \ unreported, db[i] \in Versions
               PROVE  Told(i) = db[i]
    BY DEF ConvergesOneAtATime
  <1>1. SyncTypeOK /\ Informed(i)
    BY DEF SyncInv, TellInv, Telling
  <1>2. ~ Unconnected /\ ~ WillReport
    BY DEF Settled, Unconnected, WillReport
  <1>3. ~ BeingSent(i) /\ ~ OnItsWay(i)
    BY OnItsWayIs DEF Settled, Quiet, BeingSent
  <1>4. ~ Dropped
    BY DEF Settled, Dropped
  <1>5. PICK a \in DOMAIN arrived : /\ arrived[a].rows[i] = db[i]
                                    /\ \A b \in DOMAIN arrived : b > a => arrived[b].rows[i] = Absent
    BY <1>1, <1>2, <1>3, <1>4 DEF Informed, LastTold
  <1> DEFINE about == {j \in DOMAIN arrived : arrived[j].rows[i] # Absent}
  <1>6. a \in about
    BY <1>1, <1>5, RowTypes
  <1>7. \A l \in about : l <= a
    BY <1>1, <1>5, MessageTypes
  <1>8. a = CHOOSE j \in about : \A l \in about : l <= j
    <2>1. \A j \in about : (\A l \in about : l <= j) => j = a
      BY <1>1, <1>6, <1>7, MessageTypes
    <2> QED
      BY <1>6, <1>7, <2>1
  <1> QED
    BY <1>5, <1>6, <1>8 DEF Told

(***************************************************************************)
(* The cloud converges: when services change one at a time, whatever       *)
(* connections break and whatever messages are lost with them, once        *)
(* everything is settled the last thing the cloud was told of a service is *)
(* what is stored, unless its last report was given up before it was made. *)
(***************************************************************************)
THEOREM CloudConverges == Spec => []ConvergesOneAtATime
  BY SyncCorrect, TellInitOK, TellStep, SettledIsTold, PTL DEF Spec
=============================================================================
