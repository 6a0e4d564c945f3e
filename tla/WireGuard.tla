----------------------------- MODULE WireGuard -----------------------------
(***************************************************************************)
(* The WireGuard manager (pkg/providers/wireguard/manager.go) and its      *)
(* connections (peer.go): a client asks for an address over signaling,     *)
(* offers a WebRTC connection, and once its data channel is open a TUN     *)
(* interface is made and announced to the proxy provider.                  *)
(*                                                                         *)
(* An actor is a goroutine: the reader of the signaling client, which runs *)
(* the handlers one after the other; an API request; Service.Start; a      *)
(* callback that pion runs in a goroutine of its own for every change of   *)
(* state of a connection; the goroutine that sets an opened channel up.    *)
(***************************************************************************)
EXTENDS Naturals, FiniteSets

CONSTANTS Peers,      \* ids of clients
          Indices,    \* indices of addresses, 0..254 in the code
          Brought,    \* addresses that requests bring with them
          MaxConns,   \* bound: connections that are made
          MaxBusy,    \* bound: goroutines under way when another one begins
          None        \* no address, no peer, no holder

Conns == 1..MaxConns
States == {"connected", "failed", "closed"}

\* "failed" stands for Disconnected and Failed, which are treated alike.
Reader == <<"reader", 0>>
Api == <<"api", 0>>
Starter == <<"starter", 0>>
Callback(s, c) == <<s, c>>
Setup(c) == <<"setup", c>>
Actors == {Reader, Api, Starter} \cup ((States \cup {"setup"}) \X Conns)

\* An address is in the subnet of its index, where findAvailableIndex chose it.
Address == {a \in [index: Nat, subnet: Nat, origin: {"free", "wrapped", "brought"}] :
               a.origin # "brought" => a.subnet = a.index}

ASSUME WireGuardAssumption ==
    /\ IsFiniteSet(Peers) /\ Indices \subseteq Nat /\ 0 \in Indices
    /\ Brought \subseteq [index: Nat, subnet: Nat]
    /\ MaxConns \in Nat /\ MaxBusy \in Nat
    /\ None \notin Peers \cup Address \cup Actors

VARIABLES
    clientPeers,  \* m.clientPeers: the address of every peer that asked for one
    wgConns,      \* m.wgConns: the connection of a peer, 0 if it has none
    mutex,        \* who holds m.mutex for writing
    netMutex,     \* who holds m.netServiceMutex for writing
    made,         \* connections made so far
    peer,         \* the peer of each connection
    address,      \* history: the address that each one in m.wgConns was made with
    life,         \* the state of its WebRTC connection
    connSate,     \* whether its callbacks last recorded Connected
    tun,          \* its TUN interface
    pc,           \* where each actor is
    target,       \* the peer whose connection it closes
    config,       \* the address the reader is about to enter
    announced     \* history: calls of notifyInterfaceAdded and Removed, by connection

lockVars == <<mutex, netMutex>>
connVars == <<made, peer, address, life, connSate, tun>>
vars == <<clientPeers, wgConns, mutex, netMutex, made, peer, address, life,
          connSate, tun, pc, target, config, announced>>

Goto(x, l) == pc' = [pc EXCEPT ![x] = l]

Close(x, p, l) == Goto(x, l) /\ target' = [target EXCEPT ![x] = p]

\* The end of what x does; its variables are out of scope.
Return(x) == Goto(x, "idle") /\ target' = [target EXCEPT ![x] = None]

-----------------------------------------------------------------------------
(* closeConnectionFromPeer *)

\* Where an actor goes on after it.
Continue(x) == IF x # Reader THEN Return(x)
               ELSE Goto(x, IF config = None THEN "create" ELSE "register") /\ UNCHANGED target

\* The state changes of a connection that close() brings about.
Shut(cs) ==
    /\ life' = [c \in Conns |-> IF c \in cs THEN "closed" ELSE life[c]]
    /\ tun' = [c \in Conns |-> IF c \in cs /\ tun[c] = "up" THEN "closed" ELSE tun[c]]

Woken(cs) == {Callback("closed", c) : c \in {d \in cs : life[d] # "closed"}}

\* m.mutex is taken and the connection closed; pion spawns its callback.
LockAndClose(x) ==
    /\ pc[x] = "lock" /\ mutex = None
    /\ LET c == wgConns[target[x]] IN
       IF c = 0
       THEN Continue(x) /\ UNCHANGED <<mutex, life, tun>>
       ELSE /\ mutex' = x
            /\ Shut({c})
            /\ pc' = [y \in Actors |-> IF y = x THEN "forget"
                                       ELSE IF y \in Woken({c}) THEN "callback" ELSE pc[y]]
            /\ UNCHANGED target
    /\ UNCHANGED <<clientPeers, wgConns, netMutex, made, peer, address, connSate,
                   config, announced>>

\* The peer is forgotten, the interface withdrawn if it was ever made, and
\* m.mutex released.  notifyInterfaceRemoved takes netServiceMutex meanwhile.
Forget(x) ==
    LET p == target[x]  c == wgConns[p] IN
    /\ pc[x] = "forget"
    /\ tun[c] = "none" \/ netMutex = None
    /\ wgConns' = [wgConns EXCEPT ![p] = 0]
    /\ clientPeers' = [clientPeers EXCEPT ![p] = None]
    /\ IF tun[c] # "none"
       THEN announced' = announced \cup {[kind |-> "remove", conn |-> c]}
       ELSE UNCHANGED announced
    /\ mutex' = None
    /\ Continue(x)
    /\ address' = [address EXCEPT ![c] = None]
    /\ UNCHANGED <<netMutex, made, peer, life, connSate, tun, config>>

-----------------------------------------------------------------------------
(* The handlers of signaling messages *)

Uses(p, i) == clientPeers[p] # None /\ clientPeers[p].index = i

\* Mutant: the index of a peer without a connection is free.
FreeUnlessConnected == {i \in Indices : \A p \in Peers : wgConns[p] = 0 \/ ~ Uses(p, i)}

\* findAvailableIndex
Free == {i \in Indices : \A p \in Peers : ~ Uses(p, i)}
FindAvailableIndex == IF Free = {} THEN 0 ELSE CHOOSE i \in Free : \A j \in Free : i <= j

Allocated == [index |-> FindAvailableIndex, subnet |-> FindAvailableIndex,
              origin |-> IF Free = {} THEN "wrapped" ELSE "free"]

\* Mutant: a peer that is known gets a new index, and keeps its connection.
ConnectRequestAgain == \E p \in Peers :
    /\ pc[Reader] = "idle"
    /\ Close(Reader, p, "register")
    /\ config' = Allocated
    /\ UNCHANGED <<clientPeers, wgConns, lockVars, connVars, announced>>

\* handleConnectRequestInner: a peer that is known keeps its address and loses
\* its connection; another has one chosen unless its request brings it.  No
\* mutex is held.
ConnectRequest == \E p \in Peers :
    /\ pc[Reader] = "idle"
    /\ \/ /\ clientPeers[p] # None
          /\ config' = clientPeers[p]
          /\ Close(Reader, p, "lock")
       \/ /\ clientPeers[p] = None
          /\ \/ config' = Allocated
             \/ \E b \in Brought :
                   config' = [index |-> b.index, subnet |-> b.subnet, origin |-> "brought"]
          /\ Close(Reader, p, "register")
    /\ UNCHANGED <<clientPeers, wgConns, lockVars, connVars, announced>>

Register ==
    /\ pc[Reader] = "register"
    /\ clientPeers' = [clientPeers EXCEPT ![target[Reader]] = config]
    /\ config' = None
    /\ Return(Reader)
    /\ UNCHANGED <<wgConns, lockVars, connVars, announced>>

\* Mutant: the connection that is replaced is not closed.
OfferReplaces == \E p \in Peers :
    /\ pc[Reader] = "idle" /\ mutex = None
    /\ wgConns[p] # 0 => ~ connSate[wgConns[p]]
    /\ Close(Reader, p, "create")
    /\ UNCHANGED <<clientPeers, wgConns, lockVars, connVars, config, announced>>

\* handleOffer: nothing is done for a peer that is connected, as far as the
\* callbacks have said.
Offer == \E p \in Peers :
    /\ pc[Reader] = "idle" /\ mutex = None
    /\ wgConns[p] # 0 => ~ connSate[wgConns[p]]
    /\ Close(Reader, p, IF wgConns[p] # 0 THEN "lock" ELSE "create")
    /\ UNCHANGED <<clientPeers, wgConns, lockVars, connVars, config, announced>>

\* Mutant: a peer that asked for no address is served as well.
CreateUnknown ==
    LET p == target[Reader] IN
    /\ pc[Reader] = "create" /\ mutex = None
    /\ Return(Reader)
    /\ made < MaxConns
    /\ made' = made + 1
    /\ wgConns' = [wgConns EXCEPT ![p] = made']
    /\ peer' = [peer EXCEPT ![made'] = p]
    /\ address' = [address EXCEPT ![made'] = clientPeers[p]]
    /\ life' = [life EXCEPT ![made'] = "new"]
    /\ UNCHANGED <<connSate, tun>>
    /\ UNCHANGED <<clientPeers, lockVars, config, announced>>

\* The peer must be known, and pion must make the connection: otherwise an
\* error is returned.  m.mutex is held until the answer is sent.  The panic of
\* an offer that comes before the TURN credentials is left out.
Create ==
    LET p == target[Reader] IN
    /\ pc[Reader] = "create" /\ mutex = None
    /\ Return(Reader)
    /\ \/ UNCHANGED <<wgConns, connVars>>
       \/ /\ clientPeers[p] # None /\ made < MaxConns
          /\ made' = made + 1
          /\ wgConns' = [wgConns EXCEPT ![p] = made']
          /\ peer' = [peer EXCEPT ![made'] = p]
          /\ address' = [address EXCEPT ![made'] = clientPeers[p]]
          /\ life' = [life EXCEPT ![made'] = "new"]
          /\ UNCHANGED <<connSate, tun>>
    /\ UNCHANGED <<clientPeers, lockVars, config, announced>>

\* Bound: one request at a time.
DisconnectPeer == \E p \in Peers :
    /\ pc[Api] = "idle" /\ mutex = None
    /\ wgConns[p] # 0
    /\ Close(Api, p, "lock")
    /\ UNCHANGED <<clientPeers, wgConns, lockVars, connVars, config, announced>>

-----------------------------------------------------------------------------
(* The connection *)

\* pion changes the state of a connection and runs the callback.
Change(c, s) ==
    /\ life' = [life EXCEPT ![c] = s]
    /\ Goto(Callback(s, c), "callback")
    /\ UNCHANGED <<clientPeers, wgConns, lockVars, made, peer, address, connSate, tun,
                   target, config, announced>>

Connect(c) == life[c] = "new" /\ Change(c, "connected")

Fail(c) == life[c] \in {"new", "connected"} /\ Change(c, "failed")

\* OnConnectionStateChange: by the peer's id, whichever connection it has.
StateChange(s, c) ==
    LET x == Callback(s, c) IN
    /\ pc[x] = "callback"
    /\ connSate' = [connSate EXCEPT ![c] = (s = "connected")]
    /\ IF s = "connected" THEN Goto(x, "idle") /\ UNCHANGED target ELSE Close(x, peer[c], "lock")
    /\ UNCHANGED <<clientPeers, wgConns, lockVars, made, peer, address, life, tun,
                   config, announced>>

\* The channel is open and the connection connected, as far as is known.
Stable(c) == life[c] = "connected" /\ connSate[c]

\* A while after the data channel has opened the session is still there; if it
\* is not, nothing is done.
Settle(c) ==
    /\ pc[Setup(c)] = "idle" /\ tun[c] = "none"
    /\ Stable(c)
    /\ Goto(Setup(c), "tun")
    /\ UNCHANGED <<clientPeers, wgConns, lockVars, connVars, target, config, announced>>

\* setupWireGuardConn: the name of the interface is the peer's, and one that
\* is in the way is deleted.  Or an error, after which nothing is left.
MakeInterface(c) ==
    /\ pc[Setup(c)] = "tun"
    /\ \/ /\ tun' = [d \in Conns |-> IF d = c THEN "up"
                                     ELSE IF peer[d] = peer[c] /\ tun[d] = "up" THEN "closed"
                                     ELSE tun[d]]
          /\ Goto(Setup(c), "ask")
       \/ Goto(Setup(c), "done") /\ UNCHANGED tun
    /\ UNCHANGED <<clientPeers, wgConns, lockVars, made, peer, address, life, connSate,
                   target, config, announced>>

\* Mutant: the interface is announced whatever became of the connection.
AskNothing(c) ==
    /\ pc[Setup(c)] = "ask"
    /\ Goto(Setup(c), "announce")
    /\ UNCHANGED <<clientPeers, wgConns, lockVars, connVars, target, config, announced>>

\* "Only announce interface if still connected".
Ask(c) ==
    /\ pc[Setup(c)] = "ask"
    /\ Goto(Setup(c), IF Stable(c) THEN "announce" ELSE "done")
    /\ UNCHANGED <<clientPeers, wgConns, lockVars, connVars, target, config, announced>>

\* notifyInterfaceAdded
Announce(c) ==
    /\ pc[Setup(c)] = "announce" /\ netMutex = None
    /\ announced' = announced \cup {[kind |-> "add", conn |-> c]}
    /\ Goto(Setup(c), "done")
    /\ UNCHANGED <<clientPeers, wgConns, lockVars, connVars, target, config>>

-----------------------------------------------------------------------------
(* SetNetworkService *)

SetNetworkService ==
    /\ pc[Starter] = "idle"
    /\ netMutex' = Starter
    /\ Goto(Starter, "log")
    /\ UNCHANGED <<clientPeers, wgConns, mutex, connVars, target, config, announced>>

\* It is called twice, to be logged and to be passed on to the proxy provider,
\* before netServiceMutex is released.
GetInterfaceIPs ==
    /\ pc[Starter] \in {"log", "read"} /\ mutex = None
    /\ IF pc[Starter] = "log"
       THEN Goto(Starter, "read") /\ UNCHANGED <<netMutex, target>>
       ELSE Return(Starter) /\ netMutex' = None
    /\ UNCHANGED <<clientPeers, wgConns, mutex, connVars, config, announced>>

-----------------------------------------------------------------------------

Init ==
    /\ clientPeers = [p \in Peers |-> None]
    /\ wgConns = [p \in Peers |-> 0]
    /\ mutex = None /\ netMutex = None
    /\ made = 0
    /\ peer = [c \in Conns |-> None] /\ address = [c \in Conns |-> None]
    /\ life = [c \in Conns |-> "none"] /\ connSate = [c \in Conns |-> FALSE]
    /\ tun = [c \in Conns |-> "none"]
    /\ pc = [x \in Actors |-> "idle"]
    /\ target = [x \in Actors |-> None]
    /\ config = None
    /\ announced = {}

\* What an actor does once it has begun.
Step(x) == \/ LockAndClose(x) \/ Forget(x)
           \/ x = Reader /\ (Register \/ Create)
           \/ x = Starter /\ GetInterfaceIPs
           \/ \E c \in Conns : x = Setup(c) /\ (MakeInterface(c) \/ Ask(c) \/ Announce(c))
           \/ \E c \in Conns, s \in States : x = Callback(s, c) /\ StateChange(s, c)

Begin == \/ ConnectRequest \/ Offer \/ DisconnectPeer \/ SetNetworkService
         \/ \E c \in Conns : Connect(c) \/ Fail(c) \/ Settle(c)

UnderWay == {x \in Actors : pc[x] \notin {"idle", "done"}}

Next == \/ Cardinality(UnderWay) < MaxBusy /\ Begin
        \/ \E x \in Actors : Step(x)

Spec == Init /\ [][Next]_vars

\* The Go scheduler runs every goroutine, and a mutex starves none of them.
Fairness == \A x \in Actors : SF_vars(Step(x))

LiveSpec == Spec /\ Fairness

-----------------------------------------------------------------------------
(* Properties *)

Notes == [kind: {"add", "remove"}, conn: Conns]

\* Types; a connection that was made has a peer, and one in use an address.
WireGuardTypeOK ==
    /\ clientPeers \in [Peers -> Address \cup {None}]
    /\ wgConns \in [Peers -> 0..MaxConns]
    /\ mutex \in Actors \cup {None} /\ netMutex \in {Starter, None}
    /\ made \in 0..MaxConns
    /\ peer \in [Conns -> Peers \cup {None}] /\ address \in [Conns -> Address \cup {None}]
    /\ \A c \in 1..made : peer[c] \in Peers
    /\ \A p \in Peers : wgConns[p] # 0 => address[wgConns[p]] \in Address
    /\ life \in [Conns -> {"none", "new"} \cup States]
    /\ connSate \in [Conns -> BOOLEAN]
    /\ tun \in [Conns -> {"none", "up", "closed"}]
    /\ pc \in [Actors -> {"idle", "done", "lock", "forget", "register", "create", "callback",
                          "tun", "ask", "announce", "log", "read"}]
    /\ target \in [Actors -> Peers \cup {None}]
    /\ config \in Address \cup {None}
    /\ announced \subseteq Notes

\* Two addresses are in different subnets, unless a peer brought one of them,
\* or one was chosen when there were none left, which takes more peers than
\* indices.
Apart(a, b) == a # None /\ b # None /\ a.subnet = b.subnet =>
    \/ "brought" \in {a.origin, b.origin}
    \/ "wrapped" \in {a.origin, b.origin} /\ Cardinality(Peers) > Cardinality(Indices)

\* The peers' subnets do not collide but for these reasons, although the reader
\* chooses an index without m.mutex and others forget peers meanwhile.
AddressesDistinct == \A p, q \in Peers : p # q => Apart(clientPeers[p], clientPeers[q])

\* The address of a peer is the one its connection was made with.
AddressIsStable ==
    \A p \in Peers : wgConns[p] # 0 => clientPeers[p] = address[wgConns[p]]

\* A WebRTC connection that is not closed is in m.wgConns, so that
\* DisconnectPeer and Stop reach it.
NoLeakedConnection ==
    \A c \in 1..made : life[c] # "closed" => wgConns[peer[c]] = c

\* An interface that is announced, or about to be, has been withdrawn once its
\* connection is gone, whatever overlaps.
AnnouncedIsWithdrawn ==
    \A c \in Conns :
        (pc[Setup(c)] = "announce" \/ [kind |-> "add", conn |-> c] \in announced)
            => wgConns[peer[c]] = c \/ [kind |-> "remove", conn |-> c] \in announced

\* manager.go:238 and 256 spawn the notifications "to avoid blocking": every
\* goroutine of the manager ends, or is back waiting for a message.
ActorsReturn == \A x \in Actors : x \in UnderWay ~> x \notin UnderWay
=============================================================================
