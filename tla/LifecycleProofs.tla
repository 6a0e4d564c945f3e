-------------------------- MODULE LifecycleProofs --------------------------
(***************************************************************************)
(* Theorems about Lifecycle: its type invariant, that the agent keeps its  *)
(* edge id over all its runs, and that the proxy provider learns of every  *)
(* interface.                                                              *)
(***************************************************************************)
EXTENDS Lifecycle, TLAPS

LEMMA BlankType == Blank \in Settings
  BY DEF Blank, Settings

LEMMA ContentType == Content \in Settings
  BY BlankType DEF Content

(* What Load makes of the file: a configuration with the id that the file    *)
(* has, if it has one and is read, or with one that is saved first.          *)
LEMMA LoadType ==
    ASSUME NEW inUse, Load(inUse)
    PROVE  /\ cfg' \in Settings /\ cfg'.id \in Ids
           /\ \/ main' \in {"save", "store"} /\ Content.id # NoId /\ cfg'.id = Content.id
              \/ main' = "save" /\ (Content.id # NoId => damaged' \/ inUse = {})
  <1>1. PICK env \in [cloud: BOOLEAN, key: BOOLEAN], read \in {Content, Blank} : Load(inUse)!(env, read)
    BY DEF Load
  <1>2. read \in Settings /\ Overridden(read, env) \in Settings /\ Overridden(read, env).id = read.id
    BY ContentType, BlankType DEF Overridden, Settings
  <1>3. ASSUME NEW i \in Ids, cfg' = [Overridden(read, env) EXCEPT !.complete = TRUE, !.id = i]
        PROVE  cfg' \in Settings /\ cfg'.id \in Ids
    BY <1>2, <1>3 DEF Settings
  <1>4. ASSUME cfg' = [Overridden(read, env) EXCEPT !.complete = TRUE]
        PROVE  cfg' \in Settings /\ cfg'.id = read.id
    BY <1>2, <1>4 DEF Settings
  <1>5. read.id \in Ids \cup {NoId} /\ Blank.id = NoId
    BY <1>2 DEF Settings, Blank
  <1>6. main' \in {"save", "store"} /\ (read.id = NoId => main' = "save")
    BY <1>1 DEF Lacks
  <1>7. CASE read.id # NoId
    BY <1>1, <1>4, <1>5, <1>6, <1>7
  <1>8. CASE read.id = NoId
    BY <1>1, <1>3, <1>6, <1>8
  <1> QED
    BY <1>7, <1>8

(* A run that has loaded its configuration has an id to use.                 *)
TypeInv == LifecycleTypeOK /\ (main \notin Off => cfg.id \in Ids)

LEMMA TypeInit == Init => TypeInv
  BY BlankType DEF Init, ConfigInit, TypeInv, LifecycleTypeOK, Off

(* The steps that end a run, and the state they leave.                       *)
LEMMA ExitType ==
    ASSUME TypeInv, NEW place \in Off, Exit(place)
    PROVE  TypeInv'
  BY BlankType DEF Exit, Ends, Fresh, TypeInv, LifecycleTypeOK, Off

LEMMA TypeStep == TypeInv /\ [Next]_vars => TypeInv'
  <1> SUFFICES ASSUME TypeInv, [Next]_vars PROVE TypeInv'
    OBVIOUS
  <1> USE DEF TypeInv, LifecycleTypeOK, Off
  <1>1. CASE LoadConfig
    BY <1>1, LoadType DEF LoadConfig, Load, netVars
  <1>2. CASE Save
    BY <1>2 DEF Save, Truncate, Write, netVars
  <1>3. CASE OpenStore
    BY <1>3 DEF OpenStore, Goto, netVars
  <1>4. ASSUME NEW p \in Providers, Initialize(p) PROVE TypeInv'
    BY <1>4 DEF Initialize, Becomes, configVars, netVars
  <1>5. CASE Connect
    BY <1>5 DEF Connect, Goto, netVars
  <1>6. CASE StartRunnable
    BY <1>6 DEF StartRunnable, Goto, netVars
  <1>7. CASE Signal \/ StopWireguard
    BY <1>7 DEF Signal, StopWireguard, Goto, netVars
  <1>8. CASE StopProxy
    BY <1>8 DEF StopProxy, Goto, Becomes, netVars
  <1>9. CASE CloseClient \/ Crash
    BY <1>9, ExitType DEF CloseClient, Crash
  <1>10. CASE StartProxy
    BY <1>10 DEF StartProxy, Becomes, configVars, netVars
  <1>11. CASE SetNetworkService
    BY <1>11, ExitType DEF SetNetworkService, Becomes, configVars, netVars
  <1>12. CASE GetInterfaceIPs \/ SetInterfaceIPs
    BY <1>12 DEF GetInterfaceIPs, SetInterfaceIPs, Becomes, configVars
  <1>13. ASSUME NEW c \in Clients, MakeInterface(c) \/ Announce(c) \/ Withdraw(c)
         PROVE  TypeInv'
    BY <1>13 DEF MakeInterface, Announce, Withdraw, Notify, configVars
  <1>14. ASSUME NEW c \in Clients, NEW kind \in {"add", "remove"}, Deliver(kind, c)
         PROVE  TypeInv'
    BY <1>14 DEF Deliver, configVars
  <1>15. CASE UserEdits(InUse) /\ UNCHANGED <<ui, registered, client, svc, netVars>>
    BY <1>15 DEF UserEdits, netVars
  <1>16. CASE UNCHANGED vars
    BY <1>16 DEF vars, configVars, netVars
  <1> QED
    BY <1>1, <1>2, <1>3, <1>4, <1>5, <1>6, <1>7, <1>8, <1>9, <1>10, <1>11, <1>12, <1>13,
       <1>14, <1>15, <1>16 DEF Next

(***************************************************************************)
(* Variables keep their types over all runs of the program.                *)
(***************************************************************************)
THEOREM TypeCorrect == Spec => []LifecycleTypeOK
  <1>1. TypeInv => LifecycleTypeOK
    BY DEF TypeInv
  <1> QED
    BY <1>1, TypeInit, TypeStep, PTL DEF Spec

-----------------------------------------------------------------------------
(***************************************************************************)
(* KeepsItsEdge is not inductive: the id in memory must be the one that    *)
(* the file has before it is used, and what is about to be saved must not  *)
(* take another id's place.                                                *)
(***************************************************************************)
EdgeInv ==
    /\ KeepsItsEdge
    /\ main = "save" /\ ~ damaged => InUse \subseteq {cfg.id}
    /\ main \in {"store", "initialize"} => Content.id = cfg.id

LEMMA EdgeInit == Init => EdgeInv
  BY DEF Init, ConfigInit, EdgeInv, KeepsItsEdge, InUse

(* A step that leaves the file, the configuration and the ids in use alone,  *)
(* and does not return to a place before the ids are used.                   *)
LEMMA EdgeBystander ==
    ASSUME EdgeInv, UNCHANGED <<file, cfg, damaged, ui, registered>>,
           main' = main \/ (main # "write" /\ main' \notin {"save", "write", "store"}),
           main' = "initialize" => main \in {"store", "initialize"}
    PROVE  EdgeInv'
  BY DEF EdgeInv, KeepsItsEdge, InUse, Identity, Content

LEMMA EdgeExit ==
    ASSUME EdgeInv, NEW place \in Off, Exit(place)
    PROVE  EdgeInv'
  <1>1. InUse' = InUse /\ Content' = Content
    BY DEF Exit, Ends, InUse, Content, Blank
  <1>2. ~ damaged' => InUse \subseteq {Content.id}
    BY DEF Exit, Ends, EdgeInv, KeepsItsEdge, Identity
  <1> QED
    BY <1>1, <1>2 DEF Exit, Off, EdgeInv, KeepsItsEdge, Identity

LEMMA EdgeStep == TypeInv /\ EdgeInv /\ [Next]_vars => EdgeInv'
  <1> SUFFICES ASSUME TypeInv, EdgeInv, [Next]_vars PROVE EdgeInv'
    OBVIOUS
  <1>1. CASE LoadConfig
    <2>1. main \in Off /\ main' \in {"save", "store"} /\ UNCHANGED <<file, ui, registered>>
          /\ (damaged => damaged')
      BY <1>1, LoadType DEF LoadConfig, Load
    <2>2. ~ damaged => InUse \subseteq {Content.id}
      BY <2>1 DEF EdgeInv, KeepsItsEdge, Identity, Off
    <2>3. InUse' = InUse /\ Content' = Content /\ Identity' = Content.id
      BY <2>1 DEF InUse, Content, Identity, Blank
    <2>4. Content.id = NoId /\ ~ damaged => InUse = {}
      BY <2>2, ConfigAssumption DEF TypeInv, LifecycleTypeOK, InUse
    <2>5. CASE main' = "save" /\ (Content.id # NoId => damaged' \/ InUse = {})
      BY <2>1, <2>2, <2>3, <2>4, <2>5 DEF EdgeInv, KeepsItsEdge
    <2>6. CASE Content.id # NoId /\ cfg'.id = Content.id
      BY <2>1, <2>2, <2>3, <2>6 DEF EdgeInv, KeepsItsEdge
    <2> QED
      BY <1>1, LoadType, <2>5, <2>6 DEF LoadConfig
  <1>2. CASE Save
    <2>1. CASE Truncate
      BY <1>2, <2>1 DEF Save, Truncate, EdgeInv, KeepsItsEdge, Identity, InUse
    <2>2. CASE Write
      BY <1>2, <2>2 DEF Save, Write, EdgeInv, KeepsItsEdge, Identity, InUse, Content,
                        TypeInv, LifecycleTypeOK
    <2> QED
      BY <1>2, <2>1, <2>2 DEF Save
  <1>3. CASE OpenStore
    BY <1>3, EdgeBystander DEF OpenStore, Goto
  <1>4. ASSUME NEW p \in Providers, Initialize(p) PROVE EdgeInv'
    BY <1>4 DEF Initialize, configVars, EdgeInv, KeepsItsEdge, Identity, InUse, Content
  <1>5. CASE Connect
    BY <1>5 DEF Connect, Goto, EdgeInv, KeepsItsEdge, Identity, InUse, Content
  <1>6. CASE StartRunnable \/ Signal \/ StopWireguard \/ StopProxy
    BY <1>6, EdgeBystander DEF StartRunnable, Signal, StopWireguard, StopProxy, Goto
  <1>7. CASE CloseClient \/ Crash
    BY <1>7, EdgeExit DEF CloseClient, Crash, Off
  <1>8. CASE StartProxy \/ GetInterfaceIPs \/ SetInterfaceIPs
    BY <1>8, EdgeBystander DEF StartProxy, GetInterfaceIPs, SetInterfaceIPs, configVars
  <1>9. CASE SetNetworkService
    BY <1>9, EdgeExit, EdgeBystander DEF SetNetworkService, configVars, Off
  <1>10. ASSUME NEW c \in Clients, MakeInterface(c) \/ Announce(c) \/ Withdraw(c) PROVE EdgeInv'
    BY <1>10, EdgeBystander DEF MakeInterface, Announce, Withdraw, configVars
  <1>11. ASSUME NEW c \in Clients, NEW kind \in {"add", "remove"}, Deliver(kind, c) PROVE EdgeInv'
    BY <1>11, EdgeBystander DEF Deliver, configVars
  <1>12. CASE UserEdits(InUse) /\ UNCHANGED <<ui, registered, client, svc, netVars>>
    <2>1. main \in Off \cup {"serve"} /\ main' = main /\ InUse' = InUse
      BY <1>12 DEF UserEdits, InUse
    <2>2. Content'.id = Content.id \/ damaged' \/ InUse = {}
      BY <1>12 DEF UserEdits, Content
    <2>3. damaged => damaged'
      BY <1>12 DEF UserEdits
    <2> QED
      BY <2>1, <2>2, <2>3 DEF EdgeInv, KeepsItsEdge, Identity, Off
  <1>13. CASE UNCHANGED vars
    BY <1>13, EdgeBystander DEF vars, configVars
  <1> QED
    BY <1>1, <1>2, <1>3, <1>4, <1>5, <1>6, <1>7, <1>8, <1>9, <1>10, <1>11, <1>12, <1>13 DEF Next

(***************************************************************************)
(* Whatever cuts the runs of the program, and as long as the file is not   *)
(* lost, the cloud and the service table know one edge id only: the one    *)
(* that EnsureDefaultConfig has saved before anybody learned of it.        *)
(***************************************************************************)
THEOREM EdgeIsStable == Spec => []KeepsItsEdge
  <1>1. EdgeInv => KeepsItsEdge
    BY DEF EdgeInv
  <1> QED
    BY <1>1, TypeInit, TypeStep, EdgeInit, EdgeStep, PTL DEF Spec

-----------------------------------------------------------------------------
(***************************************************************************)
(* Where the news of an interface are while SetNetworkService runs: its    *)
(* addition is still to be announced, or to be read, or to be passed on,   *)
(* or under way; and no removal can undo it.                               *)
(***************************************************************************)
Heard(c) == \/ c \in crossed \/ c \in announcing
            \/ svc["wireguard"] \in {"new", "initialized", "spawned", "reading"}
            \/ svc["wireguard"] = "passing" /\ c \in ips
            \/ /\ svc["wireguard"] = "running"
               /\ <<"remove", c>> \notin notes
               /\ c \in known \/ <<"add", c>> \in notes

NetInv == /\ \A c \in tun : Heard(c)
          /\ svc["wireguard"] # "running" => notes = {}
          /\ svc["wireguard"] # "stopped"
          /\ main \in Off \cup {"save", "write", "store"} => svc["wireguard"] = "new"
          /\ main \in {"initialize", "start"} => svc["wireguard"] \in {"new", "initialized"}

LEMMA NetInit == Init => NetInv
  BY DEF Init, NetInv, Providers

(* A run that is over has no interfaces and no news.                         *)
LEMMA NetExit ==
    ASSUME NEW place \in Off, Exit(place)
    PROVE  NetInv'
  BY DEF Exit, Fresh, NetInv, Providers, Off

(* A step that does not touch interfaces, nor the WireGuard service.         *)
LEMMA NetBystander ==
    ASSUME NetInv, UNCHANGED netVars, svc'["wireguard"] = svc["wireguard"],
           main' = main \/ main' \notin Off \cup {"save", "write", "store", "initialize", "start"}
    PROVE  NetInv'
  BY DEF NetInv, Heard, netVars

LEMMA NetStep == TypeInv /\ NetInv /\ [Next]_vars => NetInv'
  <1> SUFFICES ASSUME TypeInv, NetInv, [Next]_vars PROVE NetInv'
    OBVIOUS
  <1>1. CASE LoadConfig \/ Save \/ OpenStore
    BY <1>1, LoadType DEF LoadConfig, Load, Save, Truncate, Write, OpenStore, Goto, NetInv, Heard,
                          netVars, Off
  <1>2. ASSUME NEW p \in Providers, Initialize(p) PROVE NetInv'
    BY <1>2 DEF Initialize, Becomes, configVars, netVars, NetInv, Heard, Off, Providers,
                TypeInv, LifecycleTypeOK
  <1>3. CASE Connect
    BY <1>3 DEF Connect, Goto, netVars, NetInv, Heard, Off
  <1>4. CASE StartRunnable
    BY <1>4 DEF StartRunnable, Goto, netVars, NetInv, Heard, Off, Providers
  <1>5. CASE Signal \/ StopWireguard
    BY <1>5, NetBystander DEF Signal, StopWireguard, Goto, Off
  <1>6. CASE StopProxy \/ StartProxy
    BY <1>6, NetBystander DEF StopProxy, StartProxy, Goto, Becomes, configVars, Off, Providers,
                              TypeInv, LifecycleTypeOK
  <1>7. CASE CloseClient \/ Crash
    BY <1>7, NetExit DEF CloseClient, Crash, Off
  <1>8. CASE SetNetworkService
    <2>1. CASE Exit("panicked")
      BY <2>1, NetExit DEF Off
    <2>2. CASE Becomes("wireguard", "reading") /\ UNCHANGED <<configVars, netVars>>
      BY <1>8, <2>2 DEF SetNetworkService, Becomes, configVars, netVars, NetInv, Heard, Off,
                        Providers, TypeInv, LifecycleTypeOK
    <2> QED
      BY <1>8, <2>1, <2>2 DEF SetNetworkService
  <1>9. CASE GetInterfaceIPs
    BY <1>9 DEF GetInterfaceIPs, Becomes, configVars, NetInv, Heard, Off, Providers,
                TypeInv, LifecycleTypeOK
  <1>10. CASE SetInterfaceIPs
    BY <1>10 DEF SetInterfaceIPs, Becomes, configVars, NetInv, Heard, Off, Providers,
                 TypeInv, LifecycleTypeOK
  <1>11. ASSUME NEW c \in Clients, MakeInterface(c) PROVE NetInv'
    BY <1>11 DEF MakeInterface, configVars, NetInv, Heard, Off
  <1>12. ASSUME NEW c \in Clients, Announce(c) PROVE NetInv'
    BY <1>12 DEF Announce, Notify, Told, Locked, configVars, NetInv, Heard, Off, Providers,
                 TypeInv, LifecycleTypeOK
  <1>13. ASSUME NEW c \in Clients, Withdraw(c) PROVE NetInv'
    BY <1>13 DEF Withdraw, Notify, Told, Locked, configVars, NetInv, Heard, Off, Providers,
                 TypeInv, LifecycleTypeOK
  <1>14. ASSUME NEW c \in Clients, NEW kind \in {"add", "remove"}, Deliver(kind, c) PROVE NetInv'
    BY <1>14 DEF Deliver, configVars, NetInv, Heard, Off
  <1>15. CASE UserEdits(InUse) /\ UNCHANGED <<ui, registered, client, svc, netVars>>
    BY <1>15, NetBystander DEF UserEdits
  <1>16. CASE UNCHANGED vars
    BY <1>16, NetBystander DEF vars, configVars
  <1> QED
    BY <1>1, <1>2, <1>3, <1>4, <1>5, <1>6, <1>7, <1>8, <1>9, <1>10, <1>11, <1>12, <1>13,
       <1>14, <1>15, <1>16 DEF Next

(***************************************************************************)
(* The proxy provider learns of every interface of a client, also of those *)
(* that are made before and while SetNetworkService runs: what is recorded *)
(* before it reads is passed on by it, the rest is announced after it.     *)
(***************************************************************************)
THEOREM InterfacesAreKnown == Spec => []InterfacesKnown
  <1>1. NetInv => InterfacesKnown
    BY DEF NetInv, Heard, InterfacesKnown
  <1> QED
    BY <1>1, TypeInit, TypeStep, NetInit, NetStep, PTL DEF Spec

=============================================================================
