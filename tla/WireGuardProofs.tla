-------------------------- MODULE WireGuardProofs --------------------------
(***************************************************************************)
(* Theorems about WireGuard: its types, that peers have addresses of their *)
(* own and keep them, that no connection is lost sight of, and that an     *)
(* interface that was announced is withdrawn.                              *)
(***************************************************************************)
EXTENDS WireGuard, FiniteSetTheorems, TLAPS

-----------------------------------------------------------------------------
(***************************************************************************)
(* The inductive invariant.  Whoever holds m.mutex is about to forget a    *)
(* peer whose connection it has closed, and nobody else removes that       *)
(* connection from m.wgConns meanwhile.  The reader alone adds to the two  *)
(* maps: when it is about to, the peer has no connection and the address   *)
(* that was made out before is still apart from the others.                *)
(***************************************************************************)
Stations(x) ==
    IF x = Reader THEN {"idle", "lock", "forget", "create", "register"}
    ELSE IF x = Api THEN {"idle", "lock", "forget"}
    ELSE IF x = Starter THEN {"idle", "log", "read"}
    ELSE IF x \in States \X Conns THEN {"idle", "callback", "lock", "forget"}
    ELSE {"idle", "done", "tun", "ask", "announce"}

\* An actor that closes a connection, or makes one, has a peer.
Aimed == \A x \in Actors :
    /\ pc[x] \in Stations(x)
    /\ pc[x] \in {"lock", "forget", "create", "register"} => target[x] \in Peers

Locked == \A x \in Actors :
    /\ mutex = x <=> pc[x] = "forget"
    /\ pc[x] = "forget" => /\ wgConns[target[x]] \in Conns
                           /\ life[wgConns[target[x]]] = "closed"

\* The connection of a peer was made for it.
Owned == \A p \in Peers : wgConns[p] # 0 =>
    wgConns[p] \in 1..made /\ peer[wgConns[p]] = p

\* pion runs the callback of a state once, when the connection gets there.
ToCome(c) == IF life[c] \in {"none", "new"} THEN States
             ELSE IF life[c] = "connected" THEN {"failed", "closed"}
             ELSE IF life[c] = "failed" THEN {"closed"} ELSE {}

Called == \A c \in Conns :
    /\ c > made <=> life[c] = "none"
    /\ \A s \in ToCome(c) : pc[Callback(s, c)] = "idle"

\* The address the reader is about to enter.
Chosen ==
    /\ pc[Reader] \in {"idle", "create"} => config = None
    /\ pc[Reader] = "register" => config # None
    /\ pc[Reader] \in {"create", "register"} => wgConns[target[Reader]] = 0
    /\ \A q \in Peers : q # target[Reader] => Apart(config, clientPeers[q])

\* An interface was made before it is announced.
Made == \A c \in Conns :
    pc[Setup(c)] \in {"ask", "announce"} \/ [kind |-> "add", conn |-> c] \in announced
        => tun[c] # "none"

WireGuardInv ==
    /\ WireGuardTypeOK /\ Aimed /\ Locked /\ Owned /\ Called /\ Chosen /\ Made
    /\ AddressesDistinct /\ AddressIsStable /\ NoLeakedConnection /\ AnnouncedIsWithdrawn
-----------------------------------------------------------------------------
(* The actors are told apart by their names.                                 *)
LEMMA ActorsAre ==
    /\ {Reader, Api, Starter} \subseteq Actors
    /\ Reader # Api /\ Reader # Starter /\ Api # Starter
    /\ \A s \in States, c \in Conns : /\ Callback(s, c) \in Actors \ {Reader, Api, Starter}
                                      /\ Callback(s, c) \in States \X Conns
    /\ \A c \in Conns : /\ Setup(c) \in Actors \ {Reader, Api, Starter}
                        /\ Setup(c) \notin States \X Conns
    /\ \A s \in States, c \in Conns, t \in States, d \in Conns :
          Callback(s, c) = Callback(t, d) => s = t /\ c = d
    /\ \A c, d \in Conns : Setup(c) = Setup(d) => c = d
    /\ \A s \in States, c \in Conns, d \in Conns : Callback(s, c) # Setup(d)
    /\ {Reader, Api, Starter} \cap (States \X Conns) = {}
    /\ \A x \in Actors : \/ x \in {Reader, Api, Starter} \/ \E s \in States, c \in Conns : x = Callback(s, c)
                         \/ \E c \in Conns : x = Setup(c)
  BY WireGuardAssumption DEF Reader, Api, Starter, Callback, Setup, Actors, States, Conns

LEMMA StationsAre ==
    /\ Stations(Reader) = {"idle", "lock", "forget", "create", "register"}
    /\ Stations(Api) = {"idle", "lock", "forget"}
    /\ Stations(Starter) = {"idle", "log", "read"}
    /\ \A s \in States, c \in Conns : Stations(Callback(s, c)) = {"idle", "callback", "lock", "forget"}
    /\ \A c \in Conns : Stations(Setup(c)) = {"idle", "done", "tun", "ask", "announce"}
  BY ActorsAre DEF Stations

LEMMA NoneApart == None \notin Peers /\ None \notin Address /\ None \notin Actors
  BY WireGuardAssumption

\* Where a goroutine that closes a connection can be.
LEMMA ClosersAre ==
    ASSUME Aimed, NEW x \in Actors, pc[x] \in {"lock", "forget"}
    PROVE  /\ {"idle", "lock", "forget"} \subseteq Stations(x)
           /\ x # Reader => "register" \notin Stations(x)
           /\ \A c \in Conns : x # Setup(c)
           /\ target[x] \in Peers
  <1>1. pc[x] \in Stations(x) /\ target[x] \in Peers
    BY DEF Aimed
  <1>2. \A c \in Conns : x # Setup(c)
    BY <1>1, StationsAre
  <1>3. x \in {Reader, Api} \/ \E s \in States, c \in Conns : x = Callback(s, c)
    <2>1. x # Starter
      BY <1>1, StationsAre
    <2> QED
      BY <1>2, <2>1, ActorsAre
  <1>4. {"idle", "lock", "forget"} \subseteq Stations(x)
    BY <1>3, StationsAre
  <1>5. x # Reader => "register" \notin Stations(x)
    BY <1>3, StationsAre
  <1> QED
    BY <1>1, <1>2, <1>4, <1>5

(***************************************************************************)
(* A step that moves one actor, and no more than what belongs to it.       *)
(***************************************************************************)
LEMMA Walk ==
    ASSUME WireGuardInv, NEW x \in Actors, NEW l \in Stations(x), Goto(x, l),
           UNCHANGED <<clientPeers, wgConns, mutex, made, peer, address, life, tun, announced>>,
           target' \in [Actors -> Peers \cup {None}], netMutex' \in {Starter, None},
           connSate' \in [Conns -> BOOLEAN],
           pc[x] # "forget" /\ l \notin {"forget", "ask"},
           \A y \in Actors : y # x => target'[y] = target[y],
           l \in {"lock", "create", "register"} => target'[x] \in Peers,
           \A s \in States, c \in Conns : x = Callback(s, c) /\ l # "idle" => pc[x] # "idle",
           \A c \in Conns : x = Setup(c) /\ l = "announce" => tun[c] # "none" /\ wgConns[peer[c]] = c,
           IF x = Reader THEN Chosen' /\ config' \in Address \cup {None} ELSE config' = config
    PROVE  WireGuardInv'
  <1> USE DEF WireGuardInv
  <1>1. \A y \in Actors : pc'[y] = IF y = x THEN l ELSE pc[y]
    BY DEF WireGuardTypeOK, Goto
  <1>2. l \in {"idle", "done", "lock", "forget", "register", "create", "callback",
               "tun", "ask", "announce", "log", "read"}
    BY ActorsAre, StationsAre
  <1>3. WireGuardTypeOK'
    BY <1>2 DEF WireGuardTypeOK, Goto
  <1>4. Aimed'
    <2>1. Stations(x)' = Stations(x) /\ \A y \in Actors : Stations(y)' = Stations(y)
      BY DEF Stations
    <2> QED
      BY <1>1, <2>1 DEF Aimed
  <1>5. Locked'
    BY <1>1 DEF Locked
  <1>6. Owned'
    BY DEF Owned
  <1>7. Called'
    <2> SUFFICES ASSUME NEW c \in Conns, NEW s \in ToCome(c) PROVE pc'[Callback(s, c)] = "idle"
      BY DEF Called, ToCome
    <2>1. s \in States
      BY DEF ToCome, States, WireGuardTypeOK
    <2>2. pc[Callback(s, c)] = "idle"
      BY DEF Called
    <2>3. Callback(s, c) \in Actors
      BY <2>1, ActorsAre
    <2>4. CASE x = Callback(s, c)
      <3>1. l = "idle"
        BY <2>1, <2>2, <2>4
      <3> QED
        BY <1>1, <2>4, <3>1
    <2>5. CASE x # Callback(s, c)
      BY <1>1, <2>2, <2>3, <2>5
    <2> QED
      BY <2>4, <2>5
  <1>8. Chosen'
    <2>1. CASE x # Reader
      <3>1. pc'[Reader] = pc[Reader] /\ target'[Reader] = target[Reader] /\ config' = config
        BY <1>1, <2>1, ActorsAre
      <3> QED
        BY <3>1 DEF Chosen
    <2>2. CASE x = Reader
      BY <2>2
    <2> QED
      BY <2>1, <2>2
  <1>9. Made'
    BY <1>1, ActorsAre DEF Made
  <1>10. AddressesDistinct' /\ AddressIsStable' /\ NoLeakedConnection'
    BY DEF AddressesDistinct, AddressIsStable, NoLeakedConnection
  <1>11. AnnouncedIsWithdrawn'
    BY <1>1, ActorsAre DEF AnnouncedIsWithdrawn
  <1> QED
    BY <1>3, <1>4, <1>5, <1>6, <1>7, <1>8, <1>9, <1>10, <1>11
-----------------------------------------------------------------------------
(***************************************************************************)
(* The index of an address.                                                *)
(***************************************************************************)

\* A set of numbers has a least one: the intervals that end in its members
\* have a least one by inclusion.
LEMMA Least ==
    ASSUME NEW S \in SUBSET Nat, S # {}
    PROVE  \E i \in S : \A j \in S : i <= j
  <1> DEFINE below == {0..i : i \in S}  R == StrictSubsetOrdering(Nat)
  <1>1. below \subseteq FiniteSubsetsOf(Nat) /\ below # {}
    <2>1. \A i \in S : i \in Int /\ 0..i \in SUBSET Nat
      OBVIOUS
    <2>2. \A i \in S : 0..i \in FiniteSubsetsOf(Nat)
      BY <2>1, FS_Interval DEF FiniteSubsetsOf
    <2> QED
      BY <2>2
  <1>2. IsWellFoundedOn(R, FiniteSubsetsOf(Nat))
    BY FS_StrictSubsetOrderingWellFounded
  <1>3. \A i, j \in S : j < i => <<0..j, 0..i>> \in R
    <2> SUFFICES ASSUME NEW i \in S, NEW j \in S, j < i PROVE <<0..j, 0..i>> \in R
      OBVIOUS
    <2>1. 0..j \subseteq 0..i /\ 0..i \subseteq Nat /\ i \in 0..i /\ i \notin 0..j
      OBVIOUS
    <2> QED
      BY <2>1 DEF StrictSubsetOrdering
  <1> HIDE DEF R
  <1>4. PICK x \in below : \A y \in below : ~ (<<y, x>> \in R)
    <2> HIDE DEF below
    <2> QED
      BY <1>1, <1>2, WFMin
  <1>5. PICK i \in S : x = 0..i
    OBVIOUS
  <1>6. \A j \in S : ~ (j < i)
    BY <1>3, <1>4, <1>5
  <1> QED
    BY <1>6

LEMMA FindsFree == FindAvailableIndex \in Indices /\ (Free # {} => FindAvailableIndex \in Free)
  <1>1. Free \subseteq Indices /\ Indices \subseteq Nat /\ 0 \in Indices
    BY WireGuardAssumption DEF Free
  <1>2. CASE Free # {}
    <2>1. \E i \in Free : \A j \in Free : i <= j
      BY <1>1, <1>2, Least
    <2> QED
      BY <1>1, <1>2, <2>1 DEF FindAvailableIndex
  <1>3. CASE Free = {}
    BY <1>1, <1>3 DEF FindAvailableIndex
  <1> QED
    BY <1>2, <1>3

\* A peer without an address leaves an index for itself, unless there are more
\* peers than indices.
LEMMA NoneIsFree ==
    ASSUME WireGuardTypeOK, NEW p \in Peers, clientPeers[p] = None, Free = {}
    PROVE  Cardinality(Peers) > Cardinality(Indices)
  <1> DEFINE others == {q \in Peers : clientPeers[q] # None /\ clientPeers[q].index \in Indices}
             f == [q \in others |-> clientPeers[q].index]
  <1>1. others \subseteq Peers \ {p}
    OBVIOUS
  <1>2. f \in Surjection(others, Indices)
    <2>1. \A i \in Indices : \E q \in others : clientPeers[q].index = i
      BY DEF Free, Uses
    <2> QED
      BY <2>1 DEF Surjection
  <1>3. /\ IsFiniteSet(Peers) /\ IsFiniteSet(Peers \ {p}) /\ Cardinality(Peers) \in Nat
        /\ Cardinality(Peers \ {p}) = Cardinality(Peers) - 1
    BY FS_RemoveElement, FS_CardinalityType, WireGuardAssumption
  <1> HIDE DEF others, f
  <1>4. /\ IsFiniteSet(others) /\ Cardinality(others) <= Cardinality(Peers \ {p})
        /\ Cardinality(others) \in Nat
    BY <1>1, <1>3, FS_Subset, FS_CardinalityType
  <1>5. IsFiniteSet(Indices) /\ Cardinality(Indices) <= Cardinality(others)
    BY <1>2, <1>4, FS_Surjection
  <1>6. Cardinality(Indices) \in Nat
    BY <1>5, FS_CardinalityType
  <1> QED
    BY <1>3, <1>4, <1>5, <1>6

LEMMA ApartEitherWay == \A a, b : Apart(a, b) <=> Apart(b, a)
  BY DEF Apart

LEMMA AllocatedIs ==
    /\ Allocated \in Address
    /\ Allocated.index = FindAvailableIndex /\ Allocated.subnet = FindAvailableIndex
    /\ Allocated.origin = IF Free = {} THEN "wrapped" ELSE "free"
  <1>1. FindAvailableIndex \in Nat
    BY FindsFree, WireGuardAssumption
  <1> HIDE DEF FindAvailableIndex, Free
  <1> QED
    BY <1>1 DEF Allocated, Address

\* The address that is chosen is apart from the others.
LEMMA AllocatedApart ==
    ASSUME WireGuardTypeOK, NEW p \in Peers, clientPeers[p] = None, NEW q \in Peers
    PROVE  Apart(Allocated, clientPeers[q])
  <1> DEFINE a == Allocated  b == clientPeers[q]
  <1> SUFFICES ASSUME b # None, a.subnet = b.subnet, b.origin # "brought",
                      a.origin = "wrapped" => ~ (Cardinality(Peers) > Cardinality(Indices))
               PROVE  FALSE
    BY DEF Apart
  <1>1. Free # {}
    BY AllocatedIs, NoneIsFree
  <1>2. FindAvailableIndex \in Free
    BY <1>1, FindsFree
  <1>3. b.index = FindAvailableIndex
    BY AllocatedIs DEF WireGuardTypeOK, Address
  <1> QED
    BY <1>2, <1>3 DEF Free, Uses

\* A peer that is not known has no connection.
LEMMA UnknownUnconnected ==
    ASSUME WireGuardInv, NEW p \in Peers, clientPeers[p] = None
    PROVE  wgConns[p] = 0
  <1> SUFFICES ASSUME wgConns[p] # 0 PROVE FALSE
    OBVIOUS
  <1>1. address[wgConns[p]] \in Address /\ clientPeers[p] = address[wgConns[p]]
    BY DEF WireGuardInv, Owned, AddressIsStable, WireGuardTypeOK
  <1> QED
    BY <1>1, NoneApart

-----------------------------------------------------------------------------
(* Steps that only move an actor.                                            *)

LEMMA ConnectRequestKeeps == WireGuardInv /\ ConnectRequest => WireGuardInv'
  <1> SUFFICES ASSUME WireGuardInv, ConnectRequest PROVE WireGuardInv'
    OBVIOUS
  <1> USE ActorsAre, StationsAre
  <1>1. PICK p \in Peers : ConnectRequest!(p)
    BY DEF ConnectRequest
  <1> DEFINE l == IF clientPeers[p] # None THEN "lock" ELSE "register"
  <1>2. WireGuardTypeOK
    BY DEF WireGuardInv
  <1>3. Goto(Reader, l) /\ target' = [target EXCEPT ![Reader] = p]
    BY <1>1 DEF Close
  <1>4. pc'[Reader] = l /\ target'[Reader] = p
    BY <1>2, <1>3 DEF WireGuardTypeOK, Goto
  <1>5. target' \in [Actors -> Peers \cup {None}] /\ \A y \in Actors : y # Reader => target'[y] = target[y]
    BY <1>2, <1>3 DEF WireGuardTypeOK
  <1>6. config' \in Address /\ \A q \in Peers : q # p => Apart(config', clientPeers[q])
    <2>1. CASE clientPeers[p] # None
      BY <1>1, <1>2, <2>1 DEF WireGuardInv, WireGuardTypeOK, AddressesDistinct
    <2>2. CASE clientPeers[p] = None /\ config' = Allocated
      BY <1>2, <2>2, AllocatedIs, AllocatedApart
    <2>3. ASSUME NEW b \in Brought, config' = [index |-> b.index, subnet |-> b.subnet, origin |-> "brought"]
          PROVE  config' \in Address /\ config'.origin = "brought"
      BY <2>3, WireGuardAssumption DEF Address
    <2> QED
      BY <1>1, <2>1, <2>2, <2>3 DEF Apart
  <1>7. Chosen'
    BY <1>1, <1>4, <1>6, NoneApart, UnknownUnconnected DEF Chosen
  <1>8. /\ UNCHANGED <<clientPeers, wgConns, mutex, made, peer, address, life, tun, announced>>
        /\ netMutex' \in {Starter, None} /\ connSate' \in [Conns -> BOOLEAN]
        /\ pc[Reader] = "idle" /\ l \in Stations(Reader) /\ l \notin {"forget", "ask"}
    BY <1>1, <1>2 DEF lockVars, connVars, WireGuardTypeOK
  <1> HIDE DEF l
  <1> QED
    BY <1>3, <1>4, <1>5, <1>6, <1>7, <1>8, Walk

LEMMA OfferKeeps == WireGuardInv /\ Offer => WireGuardInv'
  <1> SUFFICES ASSUME WireGuardInv, Offer PROVE WireGuardInv'
    OBVIOUS
  <1> USE ActorsAre, StationsAre
  <1>1. PICK p \in Peers : Offer!(p)
    BY DEF Offer
  <1> DEFINE l == IF wgConns[p] # 0 THEN "lock" ELSE "create"
  <1>2. WireGuardTypeOK
    BY DEF WireGuardInv
  <1>3. Goto(Reader, l) /\ target' = [target EXCEPT ![Reader] = p]
    BY <1>1 DEF Close
  <1>4. pc'[Reader] = l /\ target'[Reader] = p
    BY <1>2, <1>3 DEF WireGuardTypeOK, Goto
  <1>5. target' \in [Actors -> Peers \cup {None}] /\ \A y \in Actors : y # Reader => target'[y] = target[y]
    BY <1>2, <1>3 DEF WireGuardTypeOK
  <1>6. Chosen'
    BY <1>1, <1>4 DEF Chosen, WireGuardInv, Apart
  <1> QED
    BY <1>1, <1>2, <1>3, <1>4, <1>5, <1>6, Walk
    DEF lockVars, connVars, WireGuardTypeOK

LEMMA DisconnectKeeps == WireGuardInv /\ DisconnectPeer => WireGuardInv'
  <1> SUFFICES ASSUME WireGuardInv, DisconnectPeer PROVE WireGuardInv'
    OBVIOUS
  <1> USE ActorsAre, StationsAre
  <1>1. PICK p \in Peers : DisconnectPeer!(p)
    BY DEF DisconnectPeer
  <1>2. WireGuardTypeOK
    BY DEF WireGuardInv
  <1>3. Goto(Api, "lock") /\ target' = [target EXCEPT ![Api] = p]
    BY <1>1 DEF Close
  <1>4. target' \in [Actors -> Peers \cup {None}] /\ target'[Api] = p
            /\ \A y \in Actors : y # Api => target'[y] = target[y]
    BY <1>2, <1>3 DEF WireGuardTypeOK
  <1> QED
    BY <1>1, <1>2, <1>3, <1>4, Walk DEF lockVars, connVars, WireGuardTypeOK

LEMMA StateChangeKeeps ==
    ASSUME WireGuardInv, NEW c \in Conns, NEW s \in States, StateChange(s, c)
    PROVE  WireGuardInv'
  <1> USE ActorsAre, StationsAre
  <1> DEFINE x == Callback(s, c)  l == IF s = "connected" THEN "idle" ELSE "lock"
  <1>1. WireGuardTypeOK /\ pc[x] = "callback" /\ x \in Actors \ {Reader, Api, Starter}
    BY DEF WireGuardInv, StateChange
  <1>2. peer[c] \in Peers
    <2>1. life[c] # "none"
      <3>1. s \notin ToCome(c)
        BY <1>1 DEF WireGuardInv, Called
      <3> QED
        BY <3>1 DEF ToCome
    <2>2. c \in 1..made
      BY <1>1, <2>1 DEF WireGuardInv, Called, WireGuardTypeOK, Conns
    <2> QED
      BY <1>1, <2>2 DEF WireGuardTypeOK
  <1>3. Goto(x, l) /\ target' \in {target, [target EXCEPT ![x] = peer[c]]}
            /\ (l = "lock" => target' = [target EXCEPT ![x] = peer[c]])
    <2>1. CASE s = "connected"
      BY <2>1 DEF StateChange
    <2>2. CASE s # "connected"
      BY <2>2 DEF StateChange, Close
    <2> QED
      BY <2>1, <2>2
  <1>4. /\ target' \in [Actors -> Peers \cup {None}] /\ (l = "lock" => target'[x] \in Peers)
        /\ \A y \in Actors : y # x => target'[y] = target[y]
    <2>1. target \in [Actors -> Peers \cup {None}] /\ x \in Actors
      BY <1>1 DEF WireGuardTypeOK
    <2>2. CASE target' = target
      <3>1. l = "lock" => target'[x] = peer[c]
        BY <1>3, <2>1
      <3> QED
        BY <1>2, <2>1, <2>2, <3>1
    <2>3. CASE target' = [target EXCEPT ![x] = peer[c]]
      BY <1>2, <2>1, <2>3
    <2> QED
      BY <1>3, <2>2, <2>3
  <1>5. connSate' \in [Conns -> BOOLEAN] /\ netMutex' \in {Starter, None} /\ config' = config
    BY <1>1 DEF StateChange, WireGuardTypeOK, lockVars
  <1>6. /\ l \in Stations(x) /\ l \notin {"forget", "ask", "create", "register", "announce"}
        /\ UNCHANGED <<clientPeers, wgConns, mutex, made, peer, address, life, tun, announced>>
    <2>1. Stations(x) = {"idle", "callback", "lock", "forget"}
      OBVIOUS
    <2>2. l \in {"idle", "lock"}
      OBVIOUS
    <2>3. UNCHANGED <<clientPeers, wgConns, mutex, made, peer, address, life, tun, announced>>
      BY DEF StateChange, lockVars
    <2> QED
      BY <2>1, <2>2, <2>3
  <1> HIDE DEF x, l
  <1> QED
    BY <1>1, <1>3, <1>4, <1>5, <1>6, Walk

LEMMA SetupMoves ==
    ASSUME WireGuardInv, NEW c \in Conns, Settle(c) \/ Ask(c)
    PROVE  WireGuardInv'
  <1> USE ActorsAre, StationsAre
  <1> DEFINE x == Setup(c)
  <1>1. PICK l \in {"tun", "done", "announce"} :
            /\ Goto(x, l) /\ pc[x] \in {"idle", "ask"}
            /\ l = "announce" => pc[x] = "ask" /\ life[c] = "connected"
    BY DEF Settle, Ask, Stable
  <1>2. WireGuardTypeOK
    BY DEF WireGuardInv
  <1>3. /\ UNCHANGED <<clientPeers, wgConns, mutex, netMutex, made, peer, address, life, tun, connSate,
                       target, config, announced>>
        /\ netMutex' \in {Starter, None} /\ connSate' \in [Conns -> BOOLEAN]
        /\ target' \in [Actors -> Peers \cup {None}]
    BY <1>2 DEF Settle, Ask, lockVars, connVars, WireGuardTypeOK
  <1>4. ASSUME l = "announce" PROVE tun[c] # "none" /\ wgConns[peer[c]] = c
    <2>1. c \in 1..made
      BY <1>1, <1>2, <1>4 DEF WireGuardInv, Called, WireGuardTypeOK, Conns
    <2> QED
      BY <1>1, <1>4, <2>1 DEF WireGuardInv, NoLeakedConnection, Made
  <1> HIDE DEF x
  <1>5. x \in Actors \ {Reader} /\ l \in Stations(x) /\ (\A d \in Conns : x = Setup(d) => d = c)
            /\ \A s \in States, d \in Conns : x # Callback(s, d)
    BY DEF x
  <1> QED
    BY <1>1, <1>3, <1>4, <1>5, Walk

LEMMA StarterKeeps == WireGuardInv /\ (SetNetworkService \/ GetInterfaceIPs) => WireGuardInv'
  <1> SUFFICES ASSUME WireGuardInv, SetNetworkService \/ GetInterfaceIPs PROVE WireGuardInv'
    OBVIOUS
  <1> USE ActorsAre, StationsAre
  <1>1. WireGuardTypeOK
    BY DEF WireGuardInv
  <1>2. PICK l \in {"log", "read", "idle"} : Goto(Starter, l)
    BY DEF SetNetworkService, GetInterfaceIPs, Return
  <1>3. /\ target' \in {target, [target EXCEPT ![Starter] = None]}
        /\ netMutex' \in {netMutex, Starter, None}
        /\ pc[Starter] \in {"idle", "log", "read"}
        /\ UNCHANGED <<clientPeers, wgConns, mutex, made, peer, address, life, tun, connSate,
                       config, announced>>
    BY DEF SetNetworkService, GetInterfaceIPs, Return, connVars
  <1>4. target' \in [Actors -> Peers \cup {None}] /\ \A y \in Actors : y # Starter => target'[y] = target[y]
    BY <1>1, <1>3 DEF WireGuardTypeOK
  <1>5. netMutex' \in {Starter, None} /\ connSate' \in [Conns -> BOOLEAN]
    BY <1>1, <1>3 DEF WireGuardTypeOK
  <1> QED
    BY <1>2, <1>3, <1>4, <1>5, Walk
-----------------------------------------------------------------------------
(* closeConnectionFromPeer                                                   *)

\* A closed connection is closed once: the callbacks that pion runs for it
\* were not run before.
LEMMA LockAndCloseKeeps ==
    ASSUME WireGuardInv, NEW x \in Actors, LockAndClose(x)
    PROVE  WireGuardInv'
  <1> DEFINE p == target[x]  c == wgConns[p]
  <1>1. WireGuardTypeOK /\ Aimed /\ pc[x] = "lock" /\ mutex = None
    BY DEF WireGuardInv, LockAndClose
  <1>2. /\ {"idle", "lock", "forget"} \subseteq Stations(x) /\ (\A d \in Conns : x # Setup(d)) /\ p \in Peers
    BY <1>1, ClosersAre
  <1>3. CASE c = 0 /\ x # Reader
    <2>1. /\ Goto(x, "idle") /\ target' = [target EXCEPT ![x] = None]
          /\ UNCHANGED <<clientPeers, wgConns, mutex, netMutex, made, peer, address, connSate, life, tun,
                         config, announced>>
      BY <1>3 DEF LockAndClose, Continue, Return
    <2>2. /\ target' \in [Actors -> Peers \cup {None}] /\ \A y \in Actors : y # x => target'[y] = target[y]
          /\ netMutex' \in {Starter, None} /\ connSate' \in [Conns -> BOOLEAN]
      BY <1>1, <2>1 DEF WireGuardTypeOK
    <2> QED
      BY <1>1, <1>2, <1>3, <2>1, <2>2, Walk
  <1>4. CASE c = 0 /\ x = Reader
    <2> DEFINE l == IF config = None THEN "create" ELSE "register"
    <2>1. /\ Goto(Reader, l)
          /\ UNCHANGED <<clientPeers, wgConns, mutex, netMutex, made, peer, address, connSate, life, tun,
                         target, config, announced>>
      BY <1>4 DEF LockAndClose, Continue
    <2>2. pc'[Reader] = l
      BY <1>1, <2>1, ActorsAre DEF Goto, WireGuardTypeOK
    <2>3. Chosen'
      BY <1>4, <2>1, <2>2 DEF Chosen, WireGuardInv
    <2>4. /\ target' \in [Actors -> Peers \cup {None}] /\ target'[Reader] \in Peers
          /\ netMutex' \in {Starter, None} /\ connSate' \in [Conns -> BOOLEAN]
          /\ config' \in Address \cup {None}
      BY <1>1, <1>2, <1>4, <2>1 DEF WireGuardTypeOK
    <2>5. l \in Stations(Reader) /\ l \notin {"forget", "ask", "announce", "lock"}
      BY StationsAre
    <2> HIDE DEF l
    <2> QED
      BY <1>1, <1>2, <1>4, <2>1, <2>3, <2>4, <2>5, ActorsAre, Walk
  <1>5. CASE c # 0
    <2>1. /\ c \in 1..made /\ c \in Conns /\ peer[c] = p
      BY <1>1, <1>2, <1>5 DEF WireGuardInv, Owned, WireGuardTypeOK, Conns
    <2>2. /\ mutex' = x /\ Shut({c})
          /\ pc' = [y \in Actors |-> IF y = x THEN "forget"
                                     ELSE IF y \in Woken({c}) THEN "callback" ELSE pc[y]]
          /\ UNCHANGED <<clientPeers, wgConns, netMutex, made, peer, address, connSate, target,
                         config, announced>>
      BY <1>5 DEF LockAndClose
    <2>3. \A d \in Conns : /\ life'[d] = IF d = c THEN "closed" ELSE life[d]
                           /\ tun'[d] # "none" <=> tun[d] # "none"
      BY <2>1, <2>2 DEF Shut
    <2>4. Woken({c}) = IF life[c] # "closed" THEN {Callback("closed", c)} ELSE {}
      BY DEF Woken
    <2>5. "closed" \in States /\ {"none", "new", "connected", "failed"} \cap {"closed"} = {}
      BY DEF States
    <2>6. ASSUME NEW y \in Actors, y \in Woken({c})
          PROVE  /\ y = Callback("closed", c) /\ y \in Actors \ {Reader, Api, Starter}
                 /\ \A d \in Conns : y # Setup(d)
                 /\ pc[y] = "idle" /\ "callback" \in Stations(y) /\ y # x
      <3>1. y = Callback("closed", c) /\ life[c] # "closed"
        BY <2>4, <2>6
      <3>2. "closed" \in ToCome(c)
        BY <1>1, <2>1, <2>5, <3>1 DEF ToCome, WireGuardTypeOK, States
      <3>3. pc[y] = "idle"
        BY <2>1, <3>1, <3>2 DEF WireGuardInv, Called
      <3>4. y # x
        BY <1>1, <3>3
      <3>5. y \notin {Reader, Api, Starter} /\ \A d \in Conns : y # Setup(d)
        BY <2>1, <2>5, <3>1, ActorsAre
      <3>6. "callback" \in Stations(y)
        BY <2>1, <2>5, <3>1, StationsAre
      <3> QED
        BY <3>1, <3>3, <3>4, <3>5, <3>6
    <2>7. \A y \in Actors : /\ pc'[y] = IF y = x THEN "forget"
                                        ELSE IF y \in Woken({c}) THEN "callback" ELSE pc[y]
                            /\ Stations(y)' = Stations(y)
      BY <2>2 DEF Stations
    <2> HIDE DEF c, p
    <2>8. WireGuardTypeOK'
      <3>1. /\ life' \in [Conns -> {"none", "new"} \cup States]
            /\ tun' \in [Conns -> {"none", "up", "closed"}]
        BY <1>1, <2>2, <2>5 DEF Shut, WireGuardTypeOK
      <3>2. pc' \in [Actors -> {"idle", "done", "lock", "forget", "register", "create", "callback",
                                "tun", "ask", "announce", "log", "read"}]
        BY <1>1, <2>2 DEF WireGuardTypeOK
      <3> QED
        BY <1>1, <2>2, <3>1, <3>2 DEF WireGuardTypeOK
    <2>9. Aimed'
      BY <1>1, <1>2, <2>2, <2>6, <2>7 DEF Aimed, p
    <2>10. Locked'
      <3>1. \A y \in Actors : pc[y] # "forget"
        BY <1>1, NoneApart DEF WireGuardInv, Locked
      <3> QED
        BY <1>5, <2>1, <2>2, <2>3, <2>7, <3>1 DEF Locked, c, p
    <2>11. Owned'
      BY <2>2 DEF WireGuardInv, Owned
    <2>12. Called'
      <3>1. \A d \in Conns : d > made' <=> life'[d] = "none"
        BY <1>1, <2>1, <2>2, <2>3 DEF WireGuardInv, Called, WireGuardTypeOK, Conns
      <3>2. ASSUME NEW d \in Conns, NEW s \in ToCome(d)' PROVE pc'[Callback(s, d)] = "idle"
        <4>1. d # c /\ s \in ToCome(d) /\ s \in States
          BY <2>3, <3>2 DEF ToCome, States
        <4>2. pc[Callback(s, d)] = "idle" /\ Callback(s, d) \in Actors
          BY <4>1, ActorsAre DEF WireGuardInv, Called
        <4>3. Callback(s, d) # x /\ Callback(s, d) \notin Woken({c})
          BY <1>1, <2>1, <2>4, <2>5, <4>1, <4>2, ActorsAre
        <4> QED
          BY <2>7, <4>2, <4>3
      <3> QED
        BY <3>1, <3>2 DEF Called
    <2>13. Chosen'
      <3>1. pc'[Reader] \in {pc[Reader], "forget"}
        BY <2>6, <2>7, ActorsAre
      <3> QED
        BY <2>2, <3>1 DEF WireGuardInv, Chosen
    <2>14. \A d \in Conns : pc'[Setup(d)] = pc[Setup(d)]
      BY <1>2, <2>6, <2>7, ActorsAre
    <2>15. Made' /\ AnnouncedIsWithdrawn'
      BY <2>2, <2>3, <2>14 DEF WireGuardInv, Made, AnnouncedIsWithdrawn
    <2>16. AddressesDistinct' /\ AddressIsStable'
      BY <2>2 DEF WireGuardInv, AddressesDistinct, AddressIsStable
    <2>17. NoLeakedConnection'
      <3>1. \A d \in 1..made : d \in Conns
        BY <1>1, WireGuardAssumption DEF WireGuardTypeOK, Conns
      <3> QED
        BY <2>2, <2>3, <3>1 DEF WireGuardInv, NoLeakedConnection
    <2> QED
      BY <2>8, <2>9, <2>10, <2>11, <2>12, <2>13, <2>15, <2>16, <2>17 DEF WireGuardInv
  <1> QED
    BY <1>3, <1>4, <1>5

\* Whoever forgets a peer has closed its connection, and takes back what was
\* announced of it.
LEMMA ForgetKeeps ==
    ASSUME WireGuardInv, NEW x \in Actors, Forget(x)
    PROVE  WireGuardInv'
  <1> DEFINE p == target[x]  c == wgConns[p]
  <1> DEFINE l == IF x # Reader THEN "idle" ELSE IF config = None THEN "create" ELSE "register"
  <1>1. WireGuardTypeOK /\ Aimed /\ pc[x] = "forget"
    BY DEF WireGuardInv, Forget
  <1>2. /\ {"idle", "lock", "forget"} \subseteq Stations(x) /\ (\A d \in Conns : x # Setup(d)) /\ p \in Peers
    BY <1>1, ClosersAre
  <1>3. mutex = x /\ c \in Conns /\ life[c] = "closed" /\ c \in 1..made /\ peer[c] = p
    BY <1>1, <1>2 DEF WireGuardInv, Locked, Owned, Conns
  <1>4. /\ wgConns' = [wgConns EXCEPT ![p] = 0] /\ clientPeers' = [clientPeers EXCEPT ![p] = None]
        /\ mutex' = None
        /\ address' = [address EXCEPT ![c] = None]
        /\ UNCHANGED <<netMutex, made, peer, life, connSate, tun, config>>
    BY DEF Forget
  <1>5. announced' = IF tun[c] # "none" THEN announced \cup {[kind |-> "remove", conn |-> c]} ELSE announced
    BY DEF Forget
  <1>6. Goto(x, l) /\ target' = IF x = Reader THEN target ELSE [target EXCEPT ![x] = None]
    BY DEF Forget, Continue, Return
  <1>7. \A q \in Peers : /\ wgConns'[q] = IF q = p THEN 0 ELSE wgConns[q]
                         /\ clientPeers'[q] = IF q = p THEN None ELSE clientPeers[q]
                         /\ q # p /\ wgConns[q] # 0 => address'[wgConns[q]] = address[wgConns[q]]
    BY <1>1, <1>3, <1>4 DEF WireGuardTypeOK, WireGuardInv, Owned, Conns
  <1>8. \A y \in Actors : /\ pc'[y] = IF y = x THEN l ELSE pc[y]
                          /\ y # x => target'[y] = target[y]
                          /\ Stations(y)' = Stations(y)
    BY <1>1, <1>6 DEF WireGuardTypeOK, Goto, Stations
  <1>9. l \in Stations(x) /\ l \in {"idle", "create", "register"} /\ (l # "idle" => target'[x] = p)
    BY <1>2, <1>6, StationsAre
  <1> HIDE DEF c, p
  <1>10. WireGuardTypeOK'
    <2>1. pc' \in [Actors -> {"idle", "done", "lock", "forget", "register", "create", "callback",
                              "tun", "ask", "announce", "log", "read"}]
      BY <1>1, <1>6, <1>9 DEF WireGuardTypeOK, Goto
    <2>2. target' \in [Actors -> Peers \cup {None}]
      BY <1>1, <1>6 DEF WireGuardTypeOK
    <2>3. announced' \subseteq Notes
      BY <1>1, <1>3, <1>5 DEF WireGuardTypeOK, Notes
    <2>4. wgConns' \in [Peers -> 0..MaxConns] /\ clientPeers' \in [Peers -> Address \cup {None}]
      <3>1. 0 \in 0..MaxConns
        BY WireGuardAssumption
      <3> QED
        BY <1>1, <1>4, <3>1 DEF WireGuardTypeOK
    <2>5. address' \in [Conns -> Address \cup {None}]
      BY <1>1, <1>4 DEF WireGuardTypeOK
    <2>6. \A q \in Peers : wgConns'[q] # 0 => address'[wgConns'[q]] \in Address
      BY <1>1, <1>7 DEF WireGuardTypeOK
    <2> QED
      BY <1>1, <1>4, <2>1, <2>2, <2>3, <2>4, <2>5, <2>6 DEF WireGuardTypeOK
  <1> HIDE DEF l
  <1>11. Aimed'
    BY <1>1, <1>2, <1>8, <1>9 DEF Aimed
  <1>12. Locked'
    <2>1. \A y \in Actors : pc'[y] # "forget"
      BY <1>3, <1>8, <1>9 DEF WireGuardInv, Locked
    <2> QED
      BY <1>4, <2>1, NoneApart DEF Locked
  <1>13. Owned'
    BY <1>4, <1>7 DEF WireGuardInv, Owned
  <1>14. Called'
    <2> SUFFICES ASSUME NEW d \in Conns, NEW s \in ToCome(d) PROVE pc'[Callback(s, d)] = "idle"
      BY <1>4 DEF Called, ToCome, WireGuardInv
    <2>1. s \in States
      BY DEF ToCome, States
    <2>2. pc[Callback(s, d)] = "idle"
      BY DEF Called, WireGuardInv
    <2> QED
      BY <1>1, <1>8, <2>1, <2>2, ActorsAre
  <1>15. Chosen'
    <2>1. CASE x # Reader
      <3>1. pc'[Reader] = pc[Reader] /\ target'[Reader] = target[Reader]
        BY <1>8, <2>1, ActorsAre
      <3>2. \A q \in Peers : clientPeers'[q] \in {clientPeers[q], None} /\ (wgConns[q] = 0 => wgConns'[q] = 0)
        BY <1>7
      <3>3. pc[Reader] \in {"create", "register"} => target[Reader] \in Peers
        BY <1>1, ActorsAre DEF Aimed
      <3> QED
        BY <1>4, <3>1, <3>2, <3>3, NoneApart DEF WireGuardInv, Chosen, Apart
    <2>2. CASE x = Reader
      <3>1. pc'[Reader] = (IF config = None THEN "create" ELSE "register") /\ target'[Reader] = p /\ target[Reader] = p
        BY <1>6, <1>8, <2>2, ActorsAre DEF l, p
      <3>2. wgConns'[p] = 0
        BY <1>2, <1>7 DEF p
      <3>3. \A q \in Peers : clientPeers'[q] \in {clientPeers[q], None}
        BY <1>7
      <3> QED
        BY <1>4, <3>1, <3>2, <3>3 DEF WireGuardInv, Chosen, Apart
    <2> QED
      BY <2>1, <2>2
  <1>16. \A d \in Conns : pc'[Setup(d)] = pc[Setup(d)]
    BY <1>2, <1>8, ActorsAre
  <1>17. \A d \in Conns : [kind |-> "add", conn |-> d] \in announced' <=> [kind |-> "add", conn |-> d] \in announced
    BY <1>5
  <1>18. Made'
    BY <1>4, <1>16, <1>17 DEF WireGuardInv, Made
  <1>19. AddressesDistinct' /\ AddressIsStable'
    <2>1. AddressesDistinct'
      BY <1>7 DEF WireGuardInv, AddressesDistinct, Apart
    <2>2. AddressIsStable'
      BY <1>7 DEF WireGuardInv, AddressIsStable
    <2> QED
      BY <2>1, <2>2
  <1>20. NoLeakedConnection'
    <2> SUFFICES ASSUME NEW d \in 1..made, life[d] # "closed" PROVE wgConns'[peer[d]] = d
      BY <1>4 DEF NoLeakedConnection
    <2>1. wgConns[peer[d]] = d /\ peer[d] \in Peers /\ d # c
      BY <1>1, <1>3 DEF WireGuardInv, NoLeakedConnection, WireGuardTypeOK
    <2> QED
      BY <1>2, <1>7, <2>1 DEF c, p
  <1>21. AnnouncedIsWithdrawn'
    <2> SUFFICES ASSUME NEW d \in Conns,
                        pc[Setup(d)] = "announce" \/ [kind |-> "add", conn |-> d] \in announced
                 PROVE  wgConns'[peer[d]] = d \/ [kind |-> "remove", conn |-> d] \in announced'
      BY <1>4, <1>16, <1>17 DEF AnnouncedIsWithdrawn
    <2>1. tun[d] # "none"
      BY DEF WireGuardInv, Made
    <2>2. CASE d = c
      BY <1>5, <2>1, <2>2 DEF c
    <2>3. CASE d # c /\ wgConns[peer[d]] = d
      <3>1. peer[d] # p
        BY <2>3 DEF c
      <3>2. wgConns'[peer[d]] = wgConns[peer[d]]
        BY <1>4, <3>1
      <3> QED
        BY <2>3, <3>2
    <2>4. CASE [kind |-> "remove", conn |-> d] \in announced
      BY <1>5, <2>4
    <2> QED
      BY <2>2, <2>3, <2>4 DEF WireGuardInv, AnnouncedIsWithdrawn
  <1> QED
    BY <1>10, <1>11, <1>12, <1>13, <1>14, <1>15, <1>18, <1>19, <1>20, <1>21 DEF WireGuardInv
-----------------------------------------------------------------------------
(* The other steps of the reader.                                            *)

LEMMA RegisterKeeps == WireGuardInv /\ Register => WireGuardInv'
  <1> SUFFICES ASSUME WireGuardInv, Register PROVE WireGuardInv'
    OBVIOUS
  <1> DEFINE p == target[Reader]
  <1>1. WireGuardTypeOK /\ pc[Reader] = "register" /\ Reader \in Actors
    BY ActorsAre DEF WireGuardInv, Register
  <1>2. p \in Peers /\ config \in Address /\ wgConns[p] = 0
    BY <1>1 DEF WireGuardInv, Aimed, Chosen, WireGuardTypeOK
  <1>3. /\ clientPeers' = [clientPeers EXCEPT ![p] = config] /\ config' = None
        /\ Goto(Reader, "idle") /\ target' = [target EXCEPT ![Reader] = None]
        /\ UNCHANGED <<wgConns, mutex, netMutex, made, peer, address, life, connSate, tun, announced>>
    BY DEF Register, Return, lockVars, connVars
  <1>4. \A q \in Peers : clientPeers'[q] = IF q = p THEN config ELSE clientPeers[q]
    BY <1>1, <1>3 DEF WireGuardTypeOK
  <1>5. \A y \in Actors : /\ pc'[y] = IF y = Reader THEN "idle" ELSE pc[y]
                          /\ y # Reader => target'[y] = target[y]
                          /\ Stations(y)' = Stations(y)
    BY <1>1, <1>3 DEF WireGuardTypeOK, Goto, Stations
  <1> HIDE DEF p
  <1>6. WireGuardTypeOK'
    BY <1>1, <1>2, <1>3 DEF WireGuardTypeOK, Goto
  <1>7. Aimed' /\ Locked'
    BY <1>1, <1>3, <1>5, StationsAre DEF WireGuardInv, Aimed, Locked
  <1>8. Owned' /\ NoLeakedConnection'
    BY <1>3 DEF WireGuardInv, Owned, NoLeakedConnection
  <1>9. Called'
    <2> SUFFICES ASSUME NEW d \in Conns, NEW s \in ToCome(d) PROVE pc'[Callback(s, d)] = "idle"
      BY <1>3 DEF Called, ToCome, WireGuardInv
    <2>1. s \in States
      BY DEF ToCome, States
    <2>2. pc[Callback(s, d)] = "idle"
      BY DEF Called, WireGuardInv
    <2> QED
      BY <1>5, <2>1, <2>2, ActorsAre
  <1>10. Chosen'
    BY <1>1, <1>3, <1>5 DEF Chosen, Apart
  <1>11. Made' /\ AnnouncedIsWithdrawn'
    BY <1>3, <1>5, ActorsAre DEF WireGuardInv, Made, AnnouncedIsWithdrawn
  <1>12. AddressesDistinct'
    BY <1>4, ApartEitherWay DEF WireGuardInv, AddressesDistinct, Chosen, p
  <1>13. AddressIsStable'
    BY <1>2, <1>3, <1>4 DEF WireGuardInv, AddressIsStable
  <1> QED
    BY <1>6, <1>7, <1>8, <1>9, <1>10, <1>11, <1>12, <1>13 DEF WireGuardInv

LEMMA CreateKeeps == WireGuardInv /\ Create => WireGuardInv'
  <1> SUFFICES ASSUME WireGuardInv, Create PROVE WireGuardInv'
    OBVIOUS
  <1> DEFINE p == target[Reader]  c == made + 1
  <1>1. WireGuardTypeOK /\ pc[Reader] = "create" /\ mutex = None /\ Reader \in Actors
    BY ActorsAre DEF WireGuardInv, Create
  <1>2. p \in Peers /\ config = None /\ wgConns[p] = 0
    BY <1>1 DEF WireGuardInv, Aimed, Chosen
  <1>3. /\ Goto(Reader, "idle") /\ target' = [target EXCEPT ![Reader] = None]
        /\ UNCHANGED <<clientPeers, mutex, netMutex, config, announced>>
    BY DEF Create, Return, lockVars
  <1>4. \A y \in Actors : /\ pc'[y] = IF y = Reader THEN "idle" ELSE pc[y]
                          /\ y # Reader => target'[y] = target[y]
                          /\ Stations(y)' = Stations(y)
    BY <1>1, <1>3 DEF WireGuardTypeOK, Goto, Stations
  <1>5. CASE UNCHANGED <<wgConns, connVars>>
    <2>1. /\ target' \in [Actors -> Peers \cup {None}] /\ netMutex' \in {Starter, None}
          /\ connSate' \in [Conns -> BOOLEAN] /\ config' \in Address \cup {None}
      BY <1>1, <1>3, <1>5 DEF WireGuardTypeOK, connVars
    <2>2. Chosen'
      BY <1>1, <1>2, <1>3, <1>4 DEF Chosen, Apart
    <2>3. UNCHANGED <<clientPeers, wgConns, mutex, made, peer, address, life, tun, announced>>
      BY <1>3, <1>5 DEF connVars
    <2> QED
      BY <1>1, <1>3, <1>4, <2>1, <2>2, <2>3, ActorsAre, StationsAre, Walk
  <1>6. CASE /\ clientPeers[p] # None /\ made < MaxConns
             /\ made' = made + 1
             /\ wgConns' = [wgConns EXCEPT ![p] = made']
             /\ peer' = [peer EXCEPT ![made'] = p]
             /\ address' = [address EXCEPT ![made'] = clientPeers[p]]
             /\ life' = [life EXCEPT ![made'] = "new"]
             /\ UNCHANGED <<connSate, tun>>
    <2>1. /\ made' = c /\ c \in Conns /\ c \notin 1..made /\ 1..made' = 1..made \cup {c}
          /\ 1..made \subseteq Conns /\ c # 0 /\ \A d \in Conns : d > made <=> d > c \/ d = c
      BY <1>1, <1>6, WireGuardAssumption DEF WireGuardTypeOK, Conns
    <2>2. \A q \in Peers : wgConns'[q] = IF q = p THEN c ELSE wgConns[q]
      BY <1>1, <1>6 DEF WireGuardTypeOK
    <2>3. \A d \in Conns : /\ peer'[d] = IF d = c THEN p ELSE peer[d]
                           /\ address'[d] = IF d = c THEN clientPeers[p] ELSE address[d]
                           /\ life'[d] = IF d = c THEN "new" ELSE life[d]
      BY <1>1, <1>6 DEF WireGuardTypeOK
    <2>4. \A q \in Peers : wgConns[q] # 0 => wgConns[q] \in 1..made /\ wgConns[q] # c /\ peer[wgConns[q]] = q
      BY <2>1 DEF WireGuardInv, Owned
    <2>5. life[c] = "none"
      BY <1>1, <2>1 DEF WireGuardInv, Called, WireGuardTypeOK
    <2> HIDE DEF p, c
    <2>6. WireGuardTypeOK'
      <3>1. wgConns' \in [Peers -> 0..MaxConns]
        <4>1. made' \in 0..MaxConns
          BY <2>1 DEF Conns
        <4> QED
          BY <1>1, <1>6, <4>1 DEF WireGuardTypeOK
      <3>2. /\ peer' \in [Conns -> Peers \cup {None}] /\ address' \in [Conns -> Address \cup {None}]
            /\ life' \in [Conns -> {"none", "new"} \cup States]
        BY <1>1, <1>2, <1>6 DEF WireGuardTypeOK
      <3>3. /\ \A d \in 1..made' : peer'[d] \in Peers
            /\ \A q \in Peers : wgConns'[q] # 0 => address'[wgConns'[q]] \in Address
        BY <1>1, <1>2, <1>6, <2>1, <2>2, <2>3, <2>4 DEF WireGuardTypeOK
      <3>4. made' \in 0..MaxConns
        BY <2>1 DEF Conns
      <3>5. pc' \in [Actors -> {"idle", "done", "lock", "forget", "register", "create", "callback",
                                "tun", "ask", "announce", "log", "read"}]
            /\ target' \in [Actors -> Peers \cup {None}]
        BY <1>1, <1>3 DEF WireGuardTypeOK, Goto
      <3> QED
        BY <1>1, <1>3, <1>6, <3>1, <3>2, <3>3, <3>4, <3>5 DEF WireGuardTypeOK
    <2>7. Aimed'
      BY <1>1, <1>4, StationsAre DEF WireGuardInv, Aimed
    <2>8. Locked'
      <3>1. \A y \in Actors : pc'[y] # "forget"
        BY <1>1, <1>4, NoneApart DEF WireGuardInv, Locked
      <3> QED
        BY <1>1, <1>3, <3>1, NoneApart DEF Locked
    <2>9. Owned'
      BY <2>1, <2>2, <2>3, <2>4 DEF Owned
    <2>10. Called'
      <3>1. \A d \in Conns : d > made' <=> life'[d] = "none"
        BY <1>1, <2>1, <2>3, <2>5 DEF WireGuardInv, Called
      <3>2. ASSUME NEW d \in Conns, NEW s \in ToCome(d)' PROVE pc'[Callback(s, d)] = "idle"
        <4>1. s \in States /\ s \in ToCome(d)
          BY <2>3, <2>5 DEF ToCome, States
        <4>2. pc[Callback(s, d)] = "idle"
          BY <4>1 DEF WireGuardInv, Called
        <4> QED
          BY <1>4, <4>1, <4>2, ActorsAre
      <3> QED
        BY <3>1, <3>2 DEF Called
    <2>11. Chosen'
      BY <1>1, <1>2, <1>3, <1>4 DEF Chosen, Apart
    <2>12. Made'
      BY <1>3, <1>4, <1>6, ActorsAre DEF WireGuardInv, Made
    <2>13. AddressesDistinct'
      BY <1>3 DEF WireGuardInv, AddressesDistinct
    <2>14. AddressIsStable'
      BY <1>3, <2>1, <2>2, <2>3, <2>4 DEF WireGuardInv, AddressIsStable
    <2>15. \A d \in Conns : d # c /\ wgConns[peer[d]] = d => wgConns'[peer[d]] = d
      <3> SUFFICES ASSUME NEW d \in Conns, d # c, wgConns[peer[d]] = d PROVE wgConns'[peer[d]] = d
        OBVIOUS
      <3>1. peer[d] # p
        BY <1>2 DEF p, Conns
      <3> QED
        BY <1>6, <3>1
    <2>16. NoLeakedConnection'
      BY <1>2, <2>1, <2>2, <2>3, <2>15 DEF WireGuardInv, NoLeakedConnection, p
    <2>17. AnnouncedIsWithdrawn'
      <3> SUFFICES ASSUME NEW d \in Conns,
                          pc'[Setup(d)] = "announce" \/ [kind |-> "add", conn |-> d] \in announced'
                   PROVE  wgConns'[peer'[d]] = d \/ [kind |-> "remove", conn |-> d] \in announced'
        BY DEF AnnouncedIsWithdrawn
      <3>1. CASE d = c
        BY <1>2, <2>2, <2>3, <3>1 DEF p
      <3>2. CASE d # c
        BY <1>3, <1>4, <2>3, <2>15, <3>2, ActorsAre DEF WireGuardInv, AnnouncedIsWithdrawn
      <3> QED
        BY <3>1, <3>2
    <2> QED
      BY <2>6, <2>7, <2>8, <2>9, <2>10, <2>11, <2>12, <2>13, <2>14, <2>16, <2>17 DEF WireGuardInv
  <1> QED
    BY <1>5, <1>6 DEF Create

-----------------------------------------------------------------------------
(* The steps of a connection and of its interface.                           *)

LEMMA ChangeKeeps ==
    ASSUME WireGuardInv, NEW c \in Conns, Connect(c) \/ Fail(c)
    PROVE  WireGuardInv'
  <1>1. WireGuardTypeOK
    BY DEF WireGuardInv
  <1>2. PICK s \in {"connected", "failed"} :
            Change(c, s) /\ s \in ToCome(c) /\ life[c] \notin {"none", "closed"}
    BY DEF Connect, Fail, ToCome, States
  <1> DEFINE x == Callback(s, c)
  <1>3. /\ life' = [life EXCEPT ![c] = s] /\ Goto(x, "callback")
        /\ UNCHANGED <<clientPeers, wgConns, mutex, netMutex, made, peer, address, connSate, tun,
                       target, config, announced>>
    BY <1>2 DEF Change, lockVars
  <1>4. x \in Actors \ {Reader, Api, Starter} /\ s \in States /\ pc[x] = "idle"
            /\ (\A d \in Conns : x # Setup(d)) /\ "callback" \in Stations(x)
    <2>1. s \in States
      BY <1>2 DEF States
    <2>2. pc[x] = "idle"
      BY <1>2 DEF WireGuardInv, Called
    <2>3. x \in Actors \ {Reader, Api, Starter} /\ \A d \in Conns : x # Setup(d)
      BY <2>1, ActorsAre
    <2>4. "callback" \in Stations(x)
      BY <2>1, StationsAre
    <2> QED
      BY <2>1, <2>2, <2>3, <2>4
  <1>5. \A y \in Actors : /\ pc'[y] = IF y = x THEN "callback" ELSE pc[y]
                          /\ Stations(y)' = Stations(y)
    BY <1>1, <1>3 DEF WireGuardTypeOK, Goto, Stations
  <1>6. \A d \in Conns : life'[d] = IF d = c THEN s ELSE life[d]
    BY <1>1, <1>3 DEF WireGuardTypeOK
  <1>7. WireGuardTypeOK'
    BY <1>1, <1>3, <1>4 DEF WireGuardTypeOK, Goto
  <1>8. Called'
    <2>1. \A d \in Conns : d > made' <=> life'[d] = "none"
      BY <1>2, <1>3, <1>6 DEF WireGuardInv, Called
    <2>2. ASSUME NEW d \in Conns, NEW t \in ToCome(d)' PROVE pc'[Callback(t, d)] = "idle"
      <3>1. t \in States /\ t \in ToCome(d) /\ ~ (d = c /\ t = s)
        BY <1>2, <1>6 DEF ToCome, States
      <3>2. pc[Callback(t, d)] = "idle"
        BY <3>1 DEF WireGuardInv, Called
      <3>3. Callback(t, d) # x /\ Callback(t, d) \in Actors
        BY <1>4, <3>1, ActorsAre
      <3> QED
        BY <1>5, <3>2, <3>3
    <2> QED
      BY <2>1, <2>2 DEF Called
  <1> HIDE DEF x
  <1>9. Aimed'
    BY <1>3, <1>4, <1>5 DEF WireGuardInv, Aimed
  <1>10. Locked'
    BY <1>2, <1>3, <1>4, <1>5, <1>6 DEF WireGuardInv, Locked
  <1>11. Owned' /\ AddressesDistinct' /\ AddressIsStable'
    BY <1>3 DEF WireGuardInv, Owned, AddressesDistinct, AddressIsStable
  <1>12. Chosen'
    BY <1>3, <1>4, <1>5, ActorsAre DEF WireGuardInv, Chosen
  <1>13. \A d \in Conns : pc'[Setup(d)] = pc[Setup(d)]
    BY <1>4, <1>5, ActorsAre
  <1>14. Made' /\ AnnouncedIsWithdrawn'
    BY <1>3, <1>13 DEF WireGuardInv, Made, AnnouncedIsWithdrawn
  <1>15. NoLeakedConnection'
    <2>1. \A d \in 1..made : d \in Conns
      BY <1>1, WireGuardAssumption DEF WireGuardTypeOK, Conns
    <2> QED
      BY <1>2, <1>3, <1>6, <2>1 DEF WireGuardInv, NoLeakedConnection
  <1> QED
    BY <1>7, <1>8, <1>9, <1>10, <1>11, <1>12, <1>14, <1>15 DEF WireGuardInv

\* An interface is made, and one in its way is closed; or it is announced.
LEMMA InterfaceKeeps ==
    ASSUME WireGuardInv, NEW c \in Conns, MakeInterface(c) \/ Announce(c)
    PROVE  WireGuardInv'
  <1> DEFINE x == Setup(c)
  <1>1. WireGuardTypeOK /\ x \in Actors \ {Reader, Api, Starter} /\ (\A s \in States, d \in Conns : x # Callback(s, d))
            /\ \A d \in Conns : d # c => Setup(d) # x
    BY ActorsAre DEF WireGuardInv
  <1>2. PICK l \in {"ask", "done"} :
          /\ Goto(x, l) /\ (l = "ask" => tun'[c] = "up")
          /\ pc[x] \in {"tun", "announce"}
    BY <1>1 DEF MakeInterface, Announce, WireGuardTypeOK
  <1>3. UNCHANGED <<clientPeers, wgConns, mutex, netMutex, made, peer, address, life, connSate, target, config>>
    BY DEF MakeInterface, Announce, lockVars, connVars
  <1>4. /\ tun' \in [Conns -> {"none", "up", "closed"}]
        /\ \A d \in Conns : tun[d] # "none" => tun'[d] # "none"
    BY <1>1 DEF MakeInterface, Announce, connVars, WireGuardTypeOK
  <1>5. announced' = announced \/ (pc[x] = "announce" /\ announced' = announced \cup {[kind |-> "add", conn |-> c]})
    BY DEF MakeInterface, Announce
  <1>6. \A y \in Actors : /\ pc'[y] = IF y = x THEN l ELSE pc[y]
                          /\ Stations(y)' = Stations(y)
    BY <1>1, <1>2 DEF WireGuardTypeOK, Goto, Stations
  <1>7. l \in Stations(x)
    BY StationsAre
  <1> HIDE DEF x
  <1>8. WireGuardTypeOK'
    <2>1. announced' \subseteq Notes
      BY <1>1, <1>5 DEF WireGuardTypeOK, Notes
    <2> QED
      BY <1>1, <1>2, <1>3, <1>4, <2>1 DEF WireGuardTypeOK, Goto
  <1>9. Aimed'
    BY <1>3, <1>6, <1>7 DEF WireGuardInv, Aimed
  <1>10. Locked'
    BY <1>2, <1>3, <1>6 DEF WireGuardInv, Locked
  <1>11. Owned' /\ AddressesDistinct' /\ AddressIsStable' /\ NoLeakedConnection'
    BY <1>3 DEF WireGuardInv, Owned, AddressesDistinct, AddressIsStable, NoLeakedConnection
  <1>12. Called'
    <2> SUFFICES ASSUME NEW d \in Conns, NEW s \in ToCome(d) PROVE pc'[Callback(s, d)] = "idle"
      BY <1>3 DEF Called, ToCome, WireGuardInv
    <2>1. s \in States
      BY DEF ToCome, States
    <2>2. pc[Callback(s, d)] = "idle"
      BY DEF Called, WireGuardInv
    <2> QED
      BY <1>1, <1>6, <2>1, <2>2, ActorsAre
  <1>13. Chosen'
    BY <1>1, <1>3, <1>6, ActorsAre DEF WireGuardInv, Chosen
  <1>14. \A d \in Conns : /\ pc'[Setup(d)] = IF d = c THEN l ELSE pc[Setup(d)]
                          /\ [kind |-> "add", conn |-> d] \in announced'
                                => \/ [kind |-> "add", conn |-> d] \in announced
                                   \/ d = c /\ pc[Setup(d)] = "announce"
    BY <1>1, <1>5, <1>6, ActorsAre DEF x
  <1>15. Made'
    BY <1>2, <1>4, <1>14 DEF WireGuardInv, Made
  <1>16. AnnouncedIsWithdrawn'
    <2>1. announced \subseteq announced'
      BY <1>5
    <2> QED
      BY <1>2, <1>3, <1>14, <2>1 DEF WireGuardInv, AnnouncedIsWithdrawn
  <1> QED
    BY <1>8, <1>9, <1>10, <1>11, <1>12, <1>13, <1>15, <1>16 DEF WireGuardInv

-----------------------------------------------------------------------------
LEMMA WireGuardInitOK == Init => WireGuardInv
  <1> SUFFICES ASSUME Init PROVE WireGuardInv
    OBVIOUS
  <1> USE DEF Init
  <1>1. WireGuardTypeOK
    BY WireGuardAssumption DEF WireGuardTypeOK
  <1>2. Aimed
    <2>1. \A x \in Actors : "idle" \in Stations(x)
      BY DEF Stations
    <2> QED
      BY <2>1 DEF Aimed
  <1>3. Locked
    BY NoneApart DEF Locked
  <1>4. Called
    BY ActorsAre, WireGuardAssumption DEF Called, ToCome, Conns
  <1>5. Chosen
    BY ActorsAre DEF Chosen, Apart
  <1>6. Made /\ AnnouncedIsWithdrawn
    BY ActorsAre DEF Made, AnnouncedIsWithdrawn
  <1>7. Owned /\ AddressesDistinct /\ AddressIsStable /\ NoLeakedConnection
    BY DEF Owned, AddressesDistinct, Apart, AddressIsStable, NoLeakedConnection
  <1> QED
    BY <1>1, <1>2, <1>3, <1>4, <1>5, <1>6, <1>7 DEF WireGuardInv

LEMMA WireGuardStep == WireGuardInv /\ [Next]_vars => WireGuardInv'
  <1> SUFFICES ASSUME WireGuardInv, [Next]_vars PROVE WireGuardInv'
    OBVIOUS
  <1>1. CASE UNCHANGED vars
    BY <1>1 DEF vars, WireGuardInv, WireGuardTypeOK, Aimed, Stations, Locked, Owned, Called, ToCome,
                Chosen, Made, AddressesDistinct, AddressIsStable, NoLeakedConnection,
                AnnouncedIsWithdrawn
  <1>2. CASE Begin
    BY <1>2, ConnectRequestKeeps, OfferKeeps, DisconnectKeeps, StarterKeeps, ChangeKeeps, SetupMoves
    DEF Begin
  <1>3. ASSUME NEW x \in Actors, Step(x) PROVE WireGuardInv'
    BY <1>3, LockAndCloseKeeps, ForgetKeeps, RegisterKeeps, CreateKeeps, StarterKeeps, SetupMoves,
       InterfaceKeeps, StateChangeKeeps
    DEF Step
  <1> QED
    BY <1>1, <1>2, <1>3 DEF Next

LEMMA WireGuardCorrect == Spec => []WireGuardInv
  BY WireGuardInitOK, WireGuardStep, PTL DEF Spec

(***************************************************************************)
(* Whatever requests, callbacks and set-ups overlap, the variables keep    *)
(* their types: a connection that was made has a peer and an address of    *)
(* the range.                                                              *)
(***************************************************************************)
THEOREM WireGuardTypeCorrect == Spec => []WireGuardTypeOK
  BY WireGuardCorrect, PTL DEF WireGuardInv

(***************************************************************************)
(* Two peers share a subnet only when one of them brought its address with *)
(* its request, or when there are more peers than indices: the index that  *)
(* findAvailableIndex chose is still free when it is entered, although     *)
(* m.mutex is not held meanwhile and peers are forgotten.                  *)
(***************************************************************************)
THEOREM AddressesAreDistinct == Spec => []AddressesDistinct
  BY WireGuardCorrect, PTL DEF WireGuardInv

(***************************************************************************)
(* The address of a peer does not change while it has a connection, which  *)
(* was made with it.                                                       *)
(***************************************************************************)
THEOREM AddressesAreStable == Spec => []AddressIsStable
  BY WireGuardCorrect, PTL DEF WireGuardInv

(***************************************************************************)
(* However offers, disconnections and callbacks overlap, a WebRTC          *)
(* connection that is not closed can be reached through m.wgConns.         *)
(***************************************************************************)
THEOREM LeaksNoConnection == Spec => []NoLeakedConnection
  BY WireGuardCorrect, PTL DEF WireGuardInv

(***************************************************************************)
(* The proxy provider is told to stop listening on an interface once the   *)
(* connection is gone, if it was ever told, or is about to be told, to     *)
(* listen on it.                                                           *)
(***************************************************************************)
THEOREM WithdrawsWhatItAnnounced == Spec => []AnnouncedIsWithdrawn
  BY WireGuardCorrect, PTL DEF WireGuardInv
=============================================================================
