----------------------------- MODULE Lifecycle -----------------------------
(***************************************************************************)
(* The program from its start to its end: main, the registry of providers  *)
(* (pkg/providers/registry.go), and how the WireGuard service hands the    *)
(* interfaces of its clients to the proxy provider while both start        *)
(* (wireguard/service.go, SetNetworkService; composed with EdgeConfig).    *)
(*                                                                         *)
(* main connects to the cloud before it starts the providers, each in a    *)
(* goroutine of its own, so clients may have interfaces before.  What      *)
(* SetNetworkService may do to the locks is WireGuard's subject, what the  *)
(* proxy provider does with an interface Proxy's.                          *)
(***************************************************************************)
EXTENDS EdgeConfig

CONSTANT Clients      \* whose interface has a name of its own

Providers == {"proxy", "wireguard"}

VARIABLES
    ui,          \* the table: ids of Edge UI services
    registered,  \* history: ids under which the agent has asked the cloud for a connection
    client,      \* the signaling client: none, created or connected
    svc,         \* where each provider is
    tun,         \* clients that have an interface
    announcing,  \* clients whose set-up goroutine is about to announce it
    notes,       \* goroutines of notifyInterfaceAdded and Removed
    ips,         \* what GetInterfaceIPs has returned to SetNetworkService
    known,       \* interfaces of the proxy provider
    crossed      \* history: clients last announced while a removal was under way

netVars == <<tun, announcing, notes, ips, known, crossed>>
vars == <<configVars, ui, registered, client, svc, netVars>>

InUse == ui \cup registered

Manager == client # "none" /\ svc["wireguard"] # "new"

\* m.networkService is set, and netServiceMutex held by SetNetworkService.
Told == svc["wireguard"] \in {"reading", "passing", "running"}
Locked == svc["wireguard"] \in {"reading", "passing"}

Goto(place) == main' = place /\ UNCHANGED <<file, cfg, damaged>>
Becomes(p, s) == svc' = [svc EXCEPT ![p] = s]

-----------------------------------------------------------------------------
(* The end of a run *)

Fresh ==
    /\ client' = "none" /\ svc' = [p \in Providers |-> "new"]
    /\ tun' = {} /\ announcing' = {} /\ notes' = {} /\ ips' = {} /\ known' = {} /\ crossed' = {}

Exit(place) == main' = place /\ Ends(InUse) /\ Fresh /\ UNCHANGED <<ui, registered>>

\* At any step: main itself calls log.Fatalf when a file, the database, an
\* address or a client is refused.
Crash == main \notin Off /\ Exit("off")

-----------------------------------------------------------------------------
(* main *)

LoadConfig == Load(InUse) /\ UNCHANGED <<ui, registered, client, svc, netVars>>

Save == (Truncate \/ Write) /\ UNCHANGED <<ui, registered, client, svc, netVars>>

\* The client is made when there is a cloud_url.
OpenStore ==
    /\ main = "store" /\ Goto("initialize")
    /\ client' = IF cfg.cloud THEN "created" ELSE "none"
    /\ UNCHANGED <<ui, registered, svc, netVars>>

\* InitializeAll, in the order of a map.  The proxy provider makes its Edge UI
\* service, unless there is one with the edge's id.
Initialize(p) ==
    /\ main = "initialize" /\ svc[p] = "new"
    /\ Becomes(p, "initialized")
    /\ ui' = IF p = "proxy" THEN ui \cup {cfg.id} ELSE ui
    /\ UNCHANGED <<configVars, registered, client, netVars>>

Connect ==
    /\ main = "initialize" /\ \A p \in Providers : svc[p] = "initialized"
    /\ Goto("start")
    /\ IF client = "created" /\ cfg.key
       THEN client' = "connected" /\ registered' = registered \cup {cfg.id}
       ELSE UNCHANGED <<client, registered>>
    /\ UNCHANGED <<ui, svc, netVars>>

StartRunnable ==
    /\ main = "start" /\ Goto("serve")
    /\ svc' = [p \in Providers |-> "spawned"]
    /\ UNCHANGED <<ui, registered, client, netVars>>

\* The server ends first, then the providers in reverse order.
Signal ==
    /\ main = "serve" /\ Goto("stopWireguard")
    /\ UNCHANGED <<ui, registered, client, svc, netVars>>

\* manager.Stop closes the connections: see Withdraw.
StopWireguard ==
    /\ main = "stopWireguard" /\ Goto("stopProxy")
    /\ UNCHANGED <<ui, registered, client, svc, netVars>>

\* Stop does nothing to a provider that has not started yet; Start may follow.
StopProxy ==
    /\ main = "stopProxy" /\ Goto("close")
    /\ IF svc["proxy"] = "running" THEN Becomes("proxy", "stopped") ELSE UNCHANGED svc
    /\ UNCHANGED <<ui, registered, client, netVars>>

\* The deferred Close of a client that never connected calls a nil function.
CloseClient == main = "close" /\ Exit(IF client = "created" THEN "panicked" ELSE "off")

-----------------------------------------------------------------------------
(* The goroutines of the providers *)

StartProxy ==
    /\ svc["proxy"] = "spawned" /\ Becomes("proxy", "running")
    /\ UNCHANGED <<configVars, ui, registered, client, netVars>>

\* Service.Start calls SetNetworkService of a manager that may be nil.
SetNetworkService ==
    /\ svc["wireguard"] = "spawned"
    /\ \/ ~ Manager /\ Exit("panicked")
       \/ /\ Manager /\ Becomes("wireguard", "reading")
          /\ UNCHANGED <<configVars, ui, registered, client, netVars>>

GetInterfaceIPs ==
    /\ svc["wireguard"] = "reading" /\ Becomes("wireguard", "passing")
    /\ ips' = tun
    /\ UNCHANGED <<configVars, ui, registered, client, tun, announcing, notes, known, crossed>>

\* The whole map is replaced, and netServiceMutex released.
SetInterfaceIPs ==
    /\ svc["wireguard"] = "passing" /\ Becomes("wireguard", "running")
    /\ known' = ips /\ ips' = {}
    /\ UNCHANGED <<configVars, ui, registered, client, tun, announcing, notes, crossed>>

-----------------------------------------------------------------------------
(* The interfaces of clients *)

\* p.tunDevice is set with no lock, and announced a little later.
MakeInterface(c) ==
    /\ client = "connected" /\ c \notin tun \cup announcing
    /\ tun' = tun \cup {c} /\ announcing' = announcing \cup {c}
    /\ UNCHANGED <<configVars, ui, registered, client, svc, notes, ips, known, crossed>>

Notify(kind, c) == notes' = IF Told THEN notes \cup {<<kind, c>>} ELSE notes

\* Mutant: m.networkService is read without its mutex.
AnnounceUnlocked(c) ==
    /\ c \in announcing
    /\ announcing' = announcing \ {c}
    /\ Notify("add", c)
    /\ crossed' = IF <<"remove", c>> \in notes THEN crossed \cup {c} ELSE crossed \ {c}
    /\ UNCHANGED <<configVars, ui, registered, client, svc, tun, ips, known>>

\* notifyInterfaceAdded.  Nobody may be there to hear it.
Announce(c) ==
    /\ c \in announcing /\ ~ Locked
    /\ announcing' = announcing \ {c}
    /\ Notify("add", c)
    /\ crossed' = IF <<"remove", c>> \in notes THEN crossed \cup {c} ELSE crossed \ {c}
    /\ UNCHANGED <<configVars, ui, registered, client, svc, tun, ips, known>>

\* closeConnectionFromPeer and notifyInterfaceRemoved.  An announcement that
\* is no longer wanted is left out, or is too late to be.
Withdraw(c) ==
    /\ c \in tun /\ ~ Locked
    /\ tun' = tun \ {c}
    /\ announcing' \in {announcing, announcing \ {c}}
    /\ Notify("remove", c)
    /\ UNCHANGED <<configVars, ui, registered, client, svc, ips, known, crossed>>

\* AddInterface and RemoveInterface, in goroutines of their own.
Deliver(kind, c) ==
    /\ <<kind, c>> \in notes
    /\ notes' = notes \ {<<kind, c>>}
    /\ known' = IF kind = "add" THEN known \cup {c} ELSE known \ {c}
    /\ UNCHANGED <<configVars, ui, registered, client, svc, tun, announcing, ips, crossed>>

-----------------------------------------------------------------------------

Init ==
    /\ ConfigInit
    /\ ui = {} /\ registered = {}
    /\ client = "none" /\ svc = [p \in Providers |-> "new"]
    /\ tun = {} /\ announcing = {} /\ notes = {} /\ ips = {} /\ known = {} /\ crossed = {}

Next == \/ LoadConfig \/ Save \/ OpenStore
        \/ \E p \in Providers : Initialize(p)
        \/ Connect \/ StartRunnable \/ Signal \/ StopWireguard \/ StopProxy \/ CloseClient
        \/ StartProxy \/ SetNetworkService \/ GetInterfaceIPs \/ SetInterfaceIPs
        \/ \E c \in Clients : \/ MakeInterface(c) \/ Announce(c) \/ Withdraw(c)
                              \/ \E kind \in {"add", "remove"} : Deliver(kind, c)
        \/ UserEdits(InUse) /\ UNCHANGED <<ui, registered, client, svc, netVars>>
        \/ Crash

Spec == Init /\ [][Next]_vars

-----------------------------------------------------------------------------
(* Properties *)

LifecycleTypeOK ==
    /\ main \in Off \cup {"save", "write", "store", "initialize", "start", "serve",
                          "stopWireguard", "stopProxy", "close"}
    /\ file \in Settings \cup {Missing, Unreadable} /\ cfg \in Settings
    /\ damaged \in BOOLEAN
    /\ ui \subseteq Ids /\ registered \subseteq Ids
    /\ client \in {"none", "created", "connected"}
    /\ svc \in [Providers -> {"new", "initialized", "spawned", "reading", "passing",
                              "running", "stopped"}]
    /\ tun \subseteq Clients /\ announcing \subseteq Clients /\ ips \subseteq Clients
    /\ known \subseteq Clients /\ crossed \subseteq Clients
    /\ notes \subseteq {"add", "remove"} \X Clients

\* The agent keeps one identity over all its runs, wherever they were cut: the
\* cloud and the service table (which would else show a second Edge UI) know
\* only the id that the file has, unless the file itself was lost, be it by a
\* crash within a Save, or could not be read.
KeepsItsEdge == ~ damaged => InUse \subseteq {Identity}

\* However the interfaces of clients come and go while the services start, the
\* proxy provider ends up knowing every one there is, unless its addition
\* overtook a removal ("Run in goroutine to avoid blocking").
InterfacesKnown ==
    svc["wireguard"] = "running" /\ announcing = {} /\ notes = {} => tun \ crossed \subseteq known

\* "Cloud URL not configured, running without cloud connectivity" (main.go:73;
\* README.md:64 has it optional): no start of the agent ends in a panic.
NoPanic == main # "panicked"
=============================================================================
