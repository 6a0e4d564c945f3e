-------------------------- MODULE SignalingProofs --------------------------
(***************************************************************************)
(* Theorems about Signaling: its types, that one goroutine dials at a      *)
(* time, that a connection has one reader, and that no connection is left  *)
(* open when c.conn is overwritten.                                        *)
(***************************************************************************)
EXTENDS Signaling, FiniteSetTheorems, SequenceTheorems, TLAPS

-----------------------------------------------------------------------------
(***************************************************************************)
(* The inductive invariant.  The goroutines hand one task on, to keep the  *)
(* client connected: a dialer that connects hands it to the reader it      *)
(* spawns, a reader that fails to the reconnect() it spawns, and one that  *)
(* finds c.reconnecting set drops it.  So at most one has it.  A           *)
(* reconnect() that has handed it on is about to clear the flag            *)
(* ("release"), and the next one, which began meanwhile, is still before   *)
(* the check of it.                                                        *)
(***************************************************************************)
Dials(g) == dial[g] \in {"enter", "close", "loop", "dial", "backoff", "handlers", "spawn"}
Reads(k) == reader[k] \in {"loop", "read"}

OneTask ==
    /\ \A g, h \in Dialers : Dials(g) /\ Dials(h) => g = h
    /\ \A j, k \in Conns : Reads(j) /\ Reads(k) => j = k
    /\ \A g \in Dialers, k \in Conns : ~ (Dials(g) /\ Reads(k))

\* c.reconnecting is set while one goroutine is past the check of it; only
\* the first attempt of Connect is made without.
Flag ==
    /\ \A g, h \in looping : g = h
    /\ reconnecting <=> looping # {}
    /\ \A g \in Dialers : dial[g] \in {"close", "loop", "backoff", "release"} => g \in looping
    /\ \A g \in Dialers : dial[g] \in {"dial", "handlers", "spawn"}
                              => g \in looping \/ looping = {}
    /\ \A g \in looping : dial[g] \notin {"none", "enter", "done"}

\* A reader is spawned once, and its reconnect() when it has ended.
Spawned ==
    /\ \A k \in Conns : dial[k] # "none" => reader[k] = "done"
    /\ \A k \in Conns : reader[k] # "none" => k <= made
    /\ \A k \in Conns : reader[k] = "none" => proc[k] = "none"
    /\ \A g \in Dialers : dial[g] \in {"handlers", "spawn"} => made \in Conns /\ reader[made] = "none"

\* A processor has a message from when it takes one until it has written it.
Holding ==
    \A k \in Conns : /\ held[k] # Nothing <=> proc[k] \in {"check", "send", "write"}
                     /\ proc[k] = "write" => via[k] \in Conns

\* c.conn is nil from when reconnect() has closed it until it has dialed.
Cleared == \A g \in Dialers : dial[g] \in {"loop", "dial", "backoff"} => conn = 0

ClientInv ==
    /\ ClientTypeOK /\ OneTask /\ Flag /\ Spawned /\ Holding
    /\ Cleared /\ NoLeakedConnection

LEMMA ClientInitOK == ClientInit => ClientInv
  <1> SUFFICES ASSUME ClientInit PROVE ClientInv
    OBVIOUS
  <1> USE SignalingAssumption DEF ClientInit, Conns, Dialers
  <1>1. ClientTypeOK
    <2>1. dial \in [Dialers -> {"dial", "none"}]
      OBVIOUS
    <2>2. outbound \in Seq(Messages) /\ Len(outbound) <= Capacity
      OBVIOUS
    <2>3. held \in [Conns -> Messages \cup {Nothing}] /\ proc \in [Conns -> {"none"}]
              /\ reader \in [Conns -> {"none"}]
      OBVIOUS
    <2>4. conn \in 0..MaxConns /\ made \in 0..MaxConns /\ net \in [Conns -> {"none"}]
      OBVIOUS
    <2> QED
      BY <2>1, <2>2, <2>3, <2>4 DEF ClientTypeOK
  <1>2. OneTask
    BY DEF OneTask, Dials, Reads
  <1>3. Flag
    BY DEF Flag
  <1>4. Spawned /\ Holding
    BY DEF Spawned, Holding
  <1>5. Cleared /\ NoLeakedConnection
    BY DEF Cleared, NoLeakedConnection
  <1> QED
    BY <1>1, <1>2, <1>3, <1>4, <1>5 DEF ClientInv

-----------------------------------------------------------------------------
(* The steps of a dialer.                                                    *)

LEMMA DialerStep ==
    ASSUME ClientInv, NEW g \in Dialers, Dial(g) \/ (HandlersDone(g) /\ UNCHANGED outbound)
    PROVE  ClientInv'
  <1> USE SignalingAssumption
      DEF ClientInv, ClientTypeOK, Conns, Dialers, connVars, flagVars, readVars, procVars, SetDial
  <1>1. CASE DialFails(g)
    <2>1. ClientTypeOK'
      BY <1>1 DEF DialFails, Spawned
    <2>2. OneTask'
      BY <1>1 DEF DialFails, OneTask, Dials, Reads, Spawned
    <2>3. Flag'
      BY <1>1 DEF DialFails, Flag, OneTask, Dials, Reads
    <2>4. Spawned'
      BY <1>1 DEF DialFails, Spawned, OneTask, Dials, Flag
    <2>5. Holding'
      BY <1>1 DEF DialFails, Holding, Spawned
    <2>6. Cleared'
      BY <1>1 DEF DialFails, Cleared, OneTask, Dials
    <2>7. NoLeakedConnection'
      BY <1>1 DEF DialFails, NoLeakedConnection, Cleared, Spawned
    <2> QED
      BY <2>1, <2>2, <2>3, <2>4, <2>5, <2>6, <2>7
  <1>2. CASE DialSucceeds(g)
    <2>1. ClientTypeOK'
      BY <1>2 DEF DialSucceeds, Spawned
    <2>2. OneTask'
      BY <1>2 DEF DialSucceeds, OneTask, Dials, Reads, Spawned
    <2>3. Flag'
      BY <1>2 DEF DialSucceeds, Flag, OneTask, Dials, Reads
    <2>4. Spawned'
      BY <1>2 DEF DialSucceeds, Spawned, OneTask, Dials, Flag
    <2>5. Holding'
      BY <1>2 DEF DialSucceeds, Holding, Spawned
    <2>6. Cleared'
      BY <1>2 DEF DialSucceeds, Cleared, OneTask, Dials
    <2>7. NoLeakedConnection'
      BY <1>2 DEF DialSucceeds, NoLeakedConnection, Cleared, Spawned
    <2> QED
      BY <2>1, <2>2, <2>3, <2>4, <2>5, <2>6, <2>7
  <1>3. CASE HandlersDone(g) /\ UNCHANGED outbound
    <2>1. ClientTypeOK'
      BY <1>3 DEF HandlersDone, Spawned
    <2>2. OneTask'
      BY <1>3 DEF HandlersDone, OneTask, Dials, Reads, Spawned
    <2>3. Flag'
      <3>1. \A h \in Dialers : dial'[h] = IF h = g THEN "spawn" ELSE dial[h]
        BY <1>3 DEF HandlersDone
      <3> QED
        BY <1>3, <3>1 DEF HandlersDone, Flag
    <2>4. Spawned'
      BY <1>3 DEF HandlersDone, Spawned, OneTask, Dials, Flag
    <2>5. Holding'
      BY <1>3 DEF HandlersDone, Holding, Spawned
    <2>6. Cleared'
      BY <1>3 DEF HandlersDone, Cleared, OneTask, Dials
    <2>7. NoLeakedConnection'
      BY <1>3 DEF HandlersDone, NoLeakedConnection, Cleared, Spawned
    <2> QED
      BY <2>1, <2>2, <2>3, <2>4, <2>5, <2>6, <2>7
  <1>4. CASE Spawn(g)
    <2>1. ClientTypeOK'
      BY <1>4 DEF Spawn, Spawned
    <2>2. OneTask'
      BY <1>4 DEF Spawn, OneTask, Dials, Reads, Spawned
    <2>3. Flag'
      BY <1>4 DEF Spawn, Flag, OneTask, Dials, Reads
    <2>4. Spawned'
      BY <1>4 DEF Spawn, Spawned, OneTask, Dials, Flag
    <2>5. Holding'
      BY <1>4 DEF Spawn, Holding, Spawned
    <2>6. Cleared'
      BY <1>4 DEF Spawn, Cleared, OneTask, Dials
    <2>7. NoLeakedConnection'
      BY <1>4 DEF Spawn, NoLeakedConnection, Cleared, Spawned
    <2> QED
      BY <2>1, <2>2, <2>3, <2>4, <2>5, <2>6, <2>7
  <1>5. CASE Enter(g)
    <2>1. ClientTypeOK'
      <3>1. dial' \in [Dialers -> {"none", "dial", "handlers", "spawn", "enter", "close",
                                   "loop", "backoff", "release", "done"}]
        BY <1>5 DEF Enter
      <3>2. reconnecting' \in BOOLEAN /\ looping' \subseteq Dialers
        <4>1. CASE reconnecting
          BY <1>5, <4>1 DEF Enter
        <4>2. CASE ~ reconnecting
          <5>1. reconnecting' = TRUE /\ looping' = looping \cup {g}
            BY <1>5, <4>2 DEF Enter
          <5> QED
            BY <5>1
        <4> QED
          BY <4>1, <4>2
      <3> QED
        BY <1>5, <3>1, <3>2 DEF Enter
    <2>0. /\ dial[g] = "enter" /\ dial'[g] \in {"done", "close"}
          /\ \A h \in Dialers : h # g => dial'[h] = dial[h]
          /\ UNCHANGED <<reader, proc, held, via, conn, made, net>>
      <3>1. CASE reconnecting
        BY <1>5, <3>1 DEF Enter
      <3>2. CASE ~ reconnecting
        BY <1>5, <3>2 DEF Enter
      <3> QED
        BY <3>1, <3>2
    <2>2. OneTask'
      BY <2>0 DEF OneTask, Dials, Reads
    <2>3. Flag'
      <3>1. CASE reconnecting
        <4>1. \A h \in Dialers : dial'[h] = IF h = g THEN "done" ELSE dial[h]
          BY <1>5, <3>1 DEF Enter
        <4>2. g \notin looping
          BY <1>5 DEF Enter, Flag
        <4> QED
          BY <1>5, <3>1, <4>1, <4>2 DEF Enter, Flag
      <3>2. CASE ~ reconnecting
        <4>1. \A h \in Dialers : dial'[h] = IF h = g THEN "close" ELSE dial[h]
          BY <1>5, <3>2 DEF Enter
        <4>2. looping = {} /\ looping' = {g} /\ reconnecting'
          BY <1>5, <3>2 DEF Enter, Flag
        <4>3. \A h \in Dialers \ {g} : dial[h] \notin {"dial", "handlers", "spawn"}
          BY <1>5 DEF Enter, OneTask, Dials
        <4> QED
          BY <4>1, <4>2, <4>3 DEF Flag
      <3> QED
        BY <3>1, <3>2
    <2>4. Spawned'
      <3>1. \A k \in Conns : dial'[k] # "none" => dial[k] # "none"
        BY <2>0
      <3>2. \A h \in Dialers : dial'[h] \in {"handlers", "spawn"} => dial[h] \in {"handlers", "spawn"}
        BY <2>0
      <3> QED
        BY <2>0, <3>1, <3>2 DEF Spawned
    <2>5. Holding'
      BY <2>0 DEF Holding
    <2>6. Cleared'
      BY <2>0 DEF Cleared
    <2>7. NoLeakedConnection'
      BY <1>5 DEF Enter, NoLeakedConnection, Cleared, Spawned
    <2> QED
      BY <2>1, <2>2, <2>3, <2>4, <2>5, <2>6, <2>7
  <1>6. CASE CloseConn(g)
    <2>1. ClientTypeOK'
      BY <1>6 DEF CloseConn, Spawned
    <2>2. OneTask'
      BY <1>6 DEF CloseConn, OneTask, Dials, Reads, Spawned
    <2>3. Flag'
      BY <1>6 DEF CloseConn, Flag, OneTask, Dials, Reads
    <2>4. Spawned'
      BY <1>6 DEF CloseConn, Spawned, OneTask, Dials, Flag
    <2>5. Holding'
      BY <1>6 DEF CloseConn, Holding, Spawned
    <2>6. Cleared'
      BY <1>6 DEF CloseConn, Cleared, OneTask, Dials
    <2>7. NoLeakedConnection'
      BY <1>6 DEF CloseConn, NoLeakedConnection, Cleared, Spawned
    <2> QED
      BY <2>1, <2>2, <2>3, <2>4, <2>5, <2>6, <2>7
  <1>7. CASE LoopHead(g)
    <2>1. ClientTypeOK'
      BY <1>7 DEF LoopHead, Spawned
    <2>2. OneTask'
      BY <1>7 DEF LoopHead, OneTask, Dials, Reads, Spawned
    <2>3. Flag'
      BY <1>7 DEF LoopHead, Flag, OneTask, Dials, Reads
    <2>4. Spawned'
      BY <1>7 DEF LoopHead, Spawned, OneTask, Dials, Flag
    <2>5. Holding'
      BY <1>7 DEF LoopHead, Holding, Spawned
    <2>6. Cleared'
      BY <1>7 DEF LoopHead, Cleared, OneTask, Dials
    <2>7. NoLeakedConnection'
      BY <1>7 DEF LoopHead, NoLeakedConnection, Cleared, Spawned
    <2> QED
      BY <2>1, <2>2, <2>3, <2>4, <2>5, <2>6, <2>7
  <1>8. CASE Backoff(g)
    <2>1. ClientTypeOK'
      BY <1>8 DEF Backoff, Spawned
    <2>2. OneTask'
      BY <1>8 DEF Backoff, OneTask, Dials, Reads, Spawned
    <2>3. Flag'
      BY <1>8 DEF Backoff, Flag, OneTask, Dials, Reads
    <2>4. Spawned'
      BY <1>8 DEF Backoff, Spawned, OneTask, Dials, Flag
    <2>5. Holding'
      BY <1>8 DEF Backoff, Holding, Spawned
    <2>6. Cleared'
      BY <1>8 DEF Backoff, Cleared, OneTask, Dials
    <2>7. NoLeakedConnection'
      BY <1>8 DEF Backoff, NoLeakedConnection, Cleared, Spawned
    <2> QED
      BY <2>1, <2>2, <2>3, <2>4, <2>5, <2>6, <2>7
  <1>9. CASE Release(g)
    <2>1. ClientTypeOK'
      BY <1>9 DEF Release, Spawned
    <2>2. OneTask'
      BY <1>9 DEF Release, OneTask, Dials, Reads, Spawned
    <2>3. Flag'
      <3>1. \A h \in Dialers : dial'[h] = IF h = g THEN "done" ELSE dial[h]
        BY <1>9 DEF Release
      <3>2. g \in looping /\ \A h \in looping : h = g
        BY <1>9 DEF Release, Flag
      <3>3. looping' = {}
        BY <1>9, <3>2 DEF Release
      <3>4. ~ reconnecting'
        BY <1>9 DEF Release
      <3> QED
        BY <3>1, <3>2, <3>3, <3>4 DEF Flag
    <2>4. Spawned'
      BY <1>9 DEF Release, Spawned, OneTask, Dials, Flag
    <2>5. Holding'
      BY <1>9 DEF Release, Holding, Spawned
    <2>6. Cleared'
      BY <1>9 DEF Release, Cleared, OneTask, Dials
    <2>7. NoLeakedConnection'
      BY <1>9 DEF Release, NoLeakedConnection, Cleared, Spawned
    <2> QED
      BY <2>1, <2>2, <2>3, <2>4, <2>5, <2>6, <2>7
  <1> QED
    BY <1>1, <1>2, <1>3, <1>4, <1>5, <1>6, <1>7, <1>8, <1>9 DEF Dial

(* The steps of a reader.                                                    *)
LEMMA ReaderStep ==
    ASSUME ClientInv, NEW k \in Conns, Reader(k) \/ ReadMessage(k)
    PROVE  ClientInv'
  <1> USE SignalingAssumption
      DEF ClientInv, ClientTypeOK, Conns, Dialers, connVars, flagVars, readVars, procVars, SetDial
  <1>1. CASE ReaderTop(k)
    <2>1. ClientTypeOK'
      <3>1. reader' \in [Conns -> {"none", "loop", "read", "done"}]
        BY <1>1 DEF ReaderTop
      <3>2. from' \in [Conns -> 0..MaxConns]
        BY <1>1 DEF ReaderTop
      <3> QED
        BY <1>1, <3>1, <3>2 DEF ReaderTop
    <2>0. /\ reader[k] = "loop" /\ reader'[k] \in {"done", "read"}
          /\ \A j \in Conns : j # k => reader'[j] = reader[j]
          /\ UNCHANGED <<dial, proc, made, reconnecting, looping>>
      <3>1. CASE cancelled \/ conn = 0
        BY <1>1, <3>1 DEF ReaderTop
      <3>2. CASE ~ (cancelled \/ conn = 0)
        BY <1>1, <3>2 DEF ReaderTop
      <3> QED
        BY <3>1, <3>2
    <2>2. OneTask'
      BY <2>0 DEF OneTask, Dials, Reads
    <2>3. Flag'
      BY <2>0 DEF Flag
    <2>4. Spawned'
      BY <2>0 DEF Spawned
    <2>5. Holding'
      BY <1>1 DEF ReaderTop, Holding
    <2>6. Cleared' /\ NoLeakedConnection'
      BY <1>1 DEF ReaderTop, Cleared, NoLeakedConnection
    <2> QED
      BY <2>1, <2>2, <2>3, <2>4, <2>5, <2>6
  <1>2. CASE ReadError(k)
    <2>1. ClientTypeOK'
      BY <1>2 DEF ReadError, Spawned
    <2>2. OneTask'
      BY <1>2 DEF ReadError, OneTask, Dials, Reads, Spawned
    <2>3. Flag'
      BY <1>2 DEF ReadError, Flag, Spawned
    <2>4. Spawned'
      <3>1. /\ \A j \in Conns : /\ reader'[j] = IF j = k THEN "done" ELSE reader[j]
                                /\ dial'[j] = IF j = k THEN "enter" ELSE dial[j]
            /\ reader[k] = "read" /\ proc' = proc /\ made' = made
        BY <1>2 DEF ReadError
      <3>2. \A g \in Dialers : dial'[g] \in {"handlers", "spawn"} => dial[g] \in {"handlers", "spawn"}
        BY <1>2 DEF ReadError
      <3>3. \A j \in Conns : dial'[j] # "none" => reader'[j] = "done"
        BY <3>1 DEF Spawned
      <3>4. \A j \in Conns : /\ reader'[j] # "none" => j <= made'
                             /\ reader'[j] = "none" => proc'[j] = "none"
        BY <3>1 DEF Spawned
      <3>5. \A g \in Dialers : dial'[g] \in {"handlers", "spawn"}
                                    => made' \in Conns /\ reader'[made'] = "none"
        <4> SUFFICES ASSUME NEW g \in Dialers, dial[g] \in {"handlers", "spawn"}
                     PROVE  made \in Conns /\ reader'[made] = "none"
          BY <3>1, <3>2
        <4>1. made \in Conns /\ reader[made] = "none"
          BY DEF Spawned
        <4> QED
          BY <3>1, <4>1
      <3> QED
        BY <3>3, <3>4, <3>5 DEF Spawned
    <2>5. Holding'
      BY <1>2 DEF ReadError, Holding
    <2>6. Cleared' /\ NoLeakedConnection'
      BY <1>2 DEF ReadError, Cleared, NoLeakedConnection
    <2> QED
      BY <2>1, <2>2, <2>3, <2>4, <2>5, <2>6
  <1>3. CASE ReadMessage(k)
    <2>1. ClientTypeOK'
      BY <1>3 DEF ReadMessage, Spawned
    <2>2. OneTask'
      BY <1>3 DEF ReadMessage, OneTask, Dials, Reads, Spawned
    <2>3. Flag'
      BY <1>3 DEF ReadMessage, Flag, Spawned
    <2>4. Spawned'
      BY <1>3 DEF ReadMessage, Spawned
    <2>5. Holding'
      BY <1>3 DEF ReadMessage, Holding
    <2>6. Cleared' /\ NoLeakedConnection'
      BY <1>3 DEF ReadMessage, Cleared, NoLeakedConnection
    <2> QED
      BY <2>1, <2>2, <2>3, <2>4, <2>5, <2>6
  <1> QED
    BY <1>1, <1>2, <1>3 DEF Reader

(* A processor that lets its message go. *)
LEMMA DropKeeps ==
    ASSUME ClientInv, NEW k \in Conns, Drop(k), proc[k] \notin {"none", "done"},
           UNCHANGED <<connVars, flagVars, cancelled, dial, readVars, outbound>>
    PROVE  ClientInv'
  <1> USE SignalingAssumption
      DEF ClientInv, ClientTypeOK, Conns, Dialers, connVars, flagVars, readVars, procVars
  <1>1. \A j \in Conns : /\ proc'[j] = IF j = k THEN "select" ELSE proc[j]
                         /\ held'[j] = IF j = k THEN Nothing ELSE held[j]
                         /\ via'[j] = via[j]
    BY DEF Drop
  <1>2. ClientTypeOK'
    BY DEF Drop
  <1>3. OneTask' /\ Flag'
    BY DEF OneTask, Dials, Reads, Flag
  <1>4. Spawned'
    BY <1>1 DEF Spawned
  <1>5. Holding'
    BY <1>1 DEF Holding
  <1>6. Cleared' /\ NoLeakedConnection'
    BY DEF Cleared, NoLeakedConnection
  <1> QED
    BY <1>2, <1>3, <1>4, <1>5, <1>6

(* The steps of a processor, and a connection that breaks.                   *)
LEMMA ProcessorStep ==
    ASSUME ClientInv, NEW k \in Conns, Processor(k) \/ WriteMessage(k) \/ Cut(k)
    PROVE  ClientInv'
  <1> USE SignalingAssumption
      DEF ClientInv, ClientTypeOK, Conns, Dialers, connVars, flagVars, readVars, procVars, SetDial
  <1>1. CASE Dequeue(k)
    <2>1. ClientTypeOK'
      <3>1. Head(outbound) \in Messages /\ Tail(outbound) \in Seq(Messages)
                /\ Len(Tail(outbound)) <= Capacity
        BY <1>1, HeadTailProperties DEF Dequeue
      <3>2. held' \in [Conns -> Messages \cup {Nothing}]
        BY <1>1, <3>1 DEF Dequeue
      <3> QED
        BY <1>1, <3>1, <3>2 DEF Dequeue
    <2>2. OneTask'
      BY <1>1 DEF Dequeue, OneTask, Dials, Reads, Spawned
    <2>3. Flag'
      BY <1>1 DEF Dequeue, Flag, Spawned
    <2>4. Spawned'
      BY <1>1 DEF Dequeue, Spawned
    <2>5. Holding'
      BY <1>1 DEF Dequeue, Holding
    <2>6. Cleared' /\ NoLeakedConnection'
      BY <1>1 DEF Dequeue, Cleared, NoLeakedConnection
    <2> QED
      BY <2>1, <2>2, <2>3, <2>4, <2>5, <2>6
  <1>2. CASE ProcessorEnds(k)
    <2>1. ClientTypeOK'
      BY <1>2 DEF ProcessorEnds, Spawned
    <2>2. OneTask'
      BY <1>2 DEF ProcessorEnds, OneTask, Dials, Reads, Spawned
    <2>3. Flag'
      BY <1>2 DEF ProcessorEnds, Flag, Spawned
    <2>4. Spawned'
      BY <1>2 DEF ProcessorEnds, Spawned
    <2>5. Holding'
      BY <1>2 DEF ProcessorEnds, Holding
    <2>6. Cleared' /\ NoLeakedConnection'
      BY <1>2 DEF ProcessorEnds, Cleared, NoLeakedConnection
    <2> QED
      BY <2>1, <2>2, <2>3, <2>4, <2>5, <2>6
  <1>3. CASE CheckConnected(k)
    <2>1. CASE conn = 0
      <3>1. Drop(k) /\ UNCHANGED <<connVars, flagVars, cancelled, dial, readVars, outbound>>
                /\ proc[k] \notin {"none", "done"}
        BY <1>3, <2>1 DEF CheckConnected
      <3> QED
        BY <3>1, DropKeeps
    <2>2. CASE conn # 0
      <3>1. /\ proc[k] = "check" /\ proc' = [proc EXCEPT ![k] = "send"] /\ held' = held
            /\ via' = via
            /\ UNCHANGED <<connVars, flagVars, cancelled, dial, readVars, outbound>>
        BY <1>3, <2>2 DEF CheckConnected
      <3>2. conn \in Conns
        BY <2>2
      <3>3. \A j \in Conns : /\ proc'[j] = IF j = k THEN "send" ELSE proc[j]
                             /\ via'[j] = via[j]
        BY <3>1
      <3>4. ClientTypeOK'
        BY <3>1, <3>2
      <3>5. OneTask' /\ Flag'
        BY <3>1 DEF OneTask, Dials, Reads, Flag
      <3>6. Spawned'
        BY <3>1, <3>3 DEF Spawned
      <3>7. Holding'
        BY <3>1, <3>2, <3>3 DEF Holding
      <3>8. Cleared' /\ NoLeakedConnection'
        BY <3>1 DEF Cleared, NoLeakedConnection
      <3> QED
        BY <3>4, <3>5, <3>6, <3>7, <3>8
    <2> QED
      BY <2>1, <2>2
  <1>4. CASE TakeConn(k)
    <2>1. CASE conn = 0
      <3>1. Drop(k) /\ UNCHANGED <<connVars, flagVars, cancelled, dial, readVars, outbound>>
                /\ proc[k] \notin {"none", "done"}
        BY <1>4, <2>1 DEF TakeConn
      <3> QED
        BY <3>1, DropKeeps
    <2>2. CASE conn # 0
      <3>1. /\ proc[k] = "send" /\ proc' = [proc EXCEPT ![k] = "write"] /\ held' = held
            /\ via' = [via EXCEPT ![k] = conn]
            /\ UNCHANGED <<connVars, flagVars, cancelled, dial, readVars, outbound>>
        BY <1>4, <2>2 DEF TakeConn
      <3>2. conn \in Conns
        BY <2>2
      <3>3. \A j \in Conns : /\ proc'[j] = IF j = k THEN "write" ELSE proc[j]
                             /\ via'[j] = IF j = k THEN conn ELSE via[j]
        BY <3>1
      <3>4. ClientTypeOK'
        BY <3>1, <3>2
      <3>5. OneTask' /\ Flag'
        BY <3>1 DEF OneTask, Dials, Reads, Flag
      <3>6. Spawned'
        BY <3>1, <3>3 DEF Spawned
      <3>7. Holding'
        BY <3>1, <3>2, <3>3 DEF Holding
      <3>8. Cleared' /\ NoLeakedConnection'
        BY <3>1 DEF Cleared, NoLeakedConnection
      <3> QED
        BY <3>4, <3>5, <3>6, <3>7, <3>8
    <2> QED
      BY <2>1, <2>2
  <1>5. CASE WriteMessage(k)
    <2>1. ClientTypeOK'
      BY <1>5 DEF WriteMessage, Drop, Spawned
    <2>2. OneTask'
      BY <1>5 DEF WriteMessage, Drop, OneTask, Dials, Reads, Spawned
    <2>3. Flag'
      BY <1>5 DEF WriteMessage, Drop, Flag, Spawned
    <2>4. Spawned'
      BY <1>5 DEF WriteMessage, Drop, Spawned
    <2>5. Holding'
      BY <1>5 DEF WriteMessage, Drop, Holding
    <2>6. Cleared' /\ NoLeakedConnection'
      BY <1>5 DEF WriteMessage, Drop, Cleared, NoLeakedConnection
    <2> QED
      BY <2>1, <2>2, <2>3, <2>4, <2>5, <2>6
  <1>6. CASE Cut(k)
    <2>1. ClientTypeOK'
      BY <1>6 DEF Cut, Spawned
    <2>2. OneTask'
      BY <1>6 DEF Cut, OneTask, Dials, Reads, Spawned
    <2>3. Flag'
      BY <1>6 DEF Cut, Flag, Spawned
    <2>4. Spawned'
      BY <1>6 DEF Cut, Spawned
    <2>5. Holding'
      BY <1>6 DEF Cut, Holding
    <2>6. Cleared' /\ NoLeakedConnection'
      BY <1>6 DEF Cut, Cleared, NoLeakedConnection
    <2> QED
      BY <2>1, <2>2, <2>3, <2>4, <2>5, <2>6
  <1> QED
    BY <1>1, <1>2, <1>3, <1>4, <1>5, <1>6 DEF Processor

-----------------------------------------------------------------------------
(* The outbound channel, and Close.                                          *)

LEMMA OfferType ==
    ASSUME ClientTypeOK, NEW m \in Messages, Offer(m)
    PROVE  outbound' \in Seq(Messages) /\ Len(outbound') <= Capacity
  BY SignalingAssumption, AppendProperties DEF Offer, ClientTypeOK

LEMMA OfferStep ==
    ASSUME ClientInv, NEW m \in Messages, Offer(m),
           UNCHANGED <<connVars, flagVars, cancelled, dial, readVars, procVars>>
    PROVE  ClientInv'
  <1>1. ClientTypeOK'
    BY OfferType DEF ClientInv, ClientTypeOK, connVars, flagVars, readVars, procVars
  <1> QED
    BY <1>1
    DEF ClientInv, OneTask, Dials, Reads, Flag, Spawned, Holding, Cleared, NoLeakedConnection,
        connVars, flagVars, readVars, procVars

LEMMA OnConnectStep ==
    ASSUME ClientInv, NEW g \in Dialers, OnConnect(g)
    PROVE  ClientInv'
  <1>1. CASE UNCHANGED outbound
    BY <1>1, DialerStep DEF OnConnect
  <1>2. ASSUME NEW m \in Messages, Offer(m) PROVE ClientInv'
    <2> USE DEF HandlersDone, OnConnect, SetDial, connVars, flagVars, readVars, procVars
    <2>1. \A h \in Dialers : dial'[h] = IF h = g THEN "spawn" ELSE dial[h]
      BY DEF ClientInv, ClientTypeOK
    <2>2. ClientTypeOK'
      BY <1>2, OfferType DEF ClientInv, ClientTypeOK
    <2>3. OneTask' /\ Flag'
      BY <2>1 DEF ClientInv, OneTask, Dials, Reads, Flag
    <2>4. Spawned' /\ Holding'
      BY <2>1 DEF ClientInv, Spawned, Holding, Conns, Dialers
    <2>5. Cleared' /\ NoLeakedConnection'
      BY <2>1 DEF ClientInv, Cleared, NoLeakedConnection
    <2> QED
      BY <2>2, <2>3, <2>4, <2>5 DEF ClientInv
  <1> QED
    BY <1>1, <1>2 DEF OnConnect

LEMMA CloseStep == ClientInv /\ Close => ClientInv'
  <1> SUFFICES ASSUME ClientInv, Close PROVE ClientInv'
    OBVIOUS
  <1> USE DEF Close, ClientInv, flagVars, readVars, procVars
  <1>1. ClientTypeOK'
    <2>1. conn' \in 0..MaxConns /\ cancelled' \in BOOLEAN
      BY SignalingAssumption
    <2>2. net' \in [Conns -> {"none", "up", "cut", "closed"}]
      BY DEF ClientTypeOK
    <2> QED
      BY <2>1, <2>2 DEF ClientTypeOK
  <1>2. OneTask' /\ Flag' /\ Spawned' /\ Holding'
    BY DEF OneTask, Dials, Reads, Flag, Spawned, Holding
  <1>3. Cleared' /\ NoLeakedConnection'
    BY DEF Cleared, NoLeakedConnection
  <1> QED
    BY <1>1, <1>2, <1>3

LEMMA ClientStep == ClientInv /\ [ClientNext]_clientVars => ClientInv'
  <1> SUFFICES ASSUME ClientInv, [ClientNext]_clientVars PROVE ClientInv'
    OBVIOUS
  <1>1. CASE ClientNext
    BY <1>1, DialerStep, OnConnectStep, ReaderStep, ProcessorStep, OfferStep, CloseStep
    DEF ClientNext
  <1>2. CASE UNCHANGED clientVars
    BY <1>2
    DEF clientVars, ClientInv, ClientTypeOK, OneTask, Dials, Reads, Flag, Spawned, Holding,
        Cleared, NoLeakedConnection
  <1> QED
    BY <1>1, <1>2

LEMMA ClientCorrect == ClientSpec => []ClientInv
  BY ClientInitOK, ClientStep, PTL DEF ClientSpec

-----------------------------------------------------------------------------
(* A goroutine past the check of the flag is one that loops, or Connect.     *)
LEMMA DialersApart == ClientInv => OneDialer
  <1> SUFFICES ASSUME ClientInv PROVE OneDialer
    OBVIOUS
  <1> DEFINE busy == {g \in Dialers : dial[g] \in {"close", "loop", "dial", "backoff",
                                                   "handlers", "spawn", "release"}}
  <1>1. \A g, h \in busy : g = h
    BY DEF ClientInv, OneTask, Dials, Flag
  <1>2. busy = {} \/ \E g \in busy : busy = {g}
    BY <1>1
  <1>3. Cardinality(busy) \in {0, 1}
    BY <1>2, FS_EmptySet, FS_Singleton
  <1> QED
    BY <1>3 DEF OneDialer

LEMMA ReadersApart == ClientInv => OneReader
  BY DEF ClientInv, OneTask, Reads, OneReader

(***************************************************************************)
(* The variables of the client keep their types: with any number of        *)
(* connections made and messages offered the outbound channel never        *)
(* exceeds its capacity.                                                   *)
(***************************************************************************)
THEOREM TypeCorrect == ClientSpec => []ClientTypeOK
  BY ClientCorrect, PTL DEF ClientInv

(***************************************************************************)
(* However often connections break, and whatever readers, reconnects and   *)
(* Close overlap, one goroutine dials or runs the handlers at a time.      *)
(***************************************************************************)
THEOREM DialsOneAtATime == ClientSpec => []OneDialer
  BY ClientCorrect, DialersApart, PTL

(***************************************************************************)
(* No two goroutines read one connection, although readMessages reads      *)
(* c.conn again for every message and does not stop when it is replaced.   *)
(***************************************************************************)
THEOREM ReadsByOne == ClientSpec => []OneReader
  BY ClientCorrect, ReadersApart, PTL

(***************************************************************************)
(* Until Close, connectOnce overwrites only a connection that is closed.   *)
(***************************************************************************)
THEOREM LeavesNoneOpen == ClientSpec => []NoLeakedConnection
  BY ClientCorrect, PTL DEF ClientInv
=============================================================================
