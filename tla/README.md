# A formal model of the Arqut edge agent

This directory holds TLA+ modules that model the edge agent (`src/`), TLC
configurations that check them on small instances, and theorems about them whose
proofs TLAPS checks. Paths below are relative to `src/`; line numbers of every
definition are in `PROJECT.json` ("map").

    tlc -workers 2 -config MCProxyOverlap.cfg MCProxy     # a run: see "Runs"
    for m in *Proofs.tla; do tlapm $m; done               # the proofs: see "Proofs"

## 1. The system

The agent runs on an edge device (often as a Home Assistant add-on). Remote
clients reach web services of the local network through it: a client is
introduced by a cloud server over a WebSocket, opens a WebRTC data channel to
the agent, runs WireGuard over it, and finds on the agent's end of that tunnel
one HTTP reverse proxy per service, each on a TCP port of its own.

    cloud <--WebSocket--> signaling client --messages--> WireGuard manager
      ^                        ^                             | interfaces
      | service-sync           | outbound channel            v
      +------------------------+------------------ proxy provider --- SQLite
                                                      ^      |
                                           HTTP API --+      +-- listeners

### Inventory

| Component | State | Operations | What is hard | What makes it correct |
|---|---|---|---|---|
| proxy provider (`pkg/providers/proxy/proxy.go`, `routes.go`) | `interfaces`, `servers`, `started`, `ctx`, all under `p.mu`; the `http.Server`s and their goroutines | Create/Update/Delete/Modify/Expose service, AddInterface, RemoveInterface, SetInterfaceIPs, Start, Stop | nothing spans two sections under `p.mu`: handlers, notifications, Start and Stop interleave at every database call and bind; binds are retried; Stop races late binds | no listener out of reach, keys stand for bound listeners, every enabled service on every interface, listeners agree with rows, Stop releases |
| service repository (`pkg/storage/repositories`, `pkg/models`) | table `proxy_services` | insert, update, delete, list, pages | checks and writes are separate statements; pages ordered by a name that is not unique | tunnel ports distinct, pages partition the table |
| service synchronization (`proxy.go:141-309`) | `syncCallbacks`, messages on the outbound channel | one message per change, a batch per connection, acknowledgements | rows are read before the message is queued; full channel; lost messages and acknowledgements | at most once, callbacks present when an answer comes, the cloud converges |
| signaling client (`pkg/signaling/client.go`) | `conn`, `reconnecting`, `outboundChan`, handlers | Connect, reconnect, readMessages, processOutboundMessages, Close | a goroutine per connection for reading and for writing that outlives it, one flag, Close during a dial | one dialer, one reader per connection, no connection leaked, reconnects, Close ends everything |
| WireGuard manager and peers (`pkg/providers/wireguard/manager.go`, `peer.go`) | `clientPeers`, `wgConns`, two mutexes; per connection `connSate`, TUN device | connect-request, offer, answer, ICE, DisconnectPeer, pion callbacks, set-up, SetNetworkService, Stop | callbacks run late, in goroutines of their own, and close by the peer's id; `clientPeers` is used without the mutex; set-up races close; lock order | distinct and stable addresses, no connection leaked, announced interfaces withdrawn, no deadlock |
| WebRTC bind (`wrtc_bind.go`, `wrtc_endpoint.go`) | data channel, receive and closed channels | Open, Close, SetDataChannel, Send | channels are replaced by Open; wireguard-go awaits the old receive functions before | a reader ends when the bind closes |
| TUN interfaces (`interface.go`, `utils.go`) | operating system | create, delete, clean up | retries against the system | -- |
| registry (`pkg/providers/registry.go`) | providers, runnable services | Initialize, StartRunnable, Shutdown | Initialize in the order of a map; starts in goroutines that Shutdown does not wait for | no service is used before it was made |
| program (`cmd/arqut-edge-ce/main.go`) | -- | start, signal, stop; fatal errors | connects before the services start; what is optional (`cloud_url`, `api_key`) | no start or stop panics; no interface is missed while services start |
| Home Assistant add-on: store (`pkg/haaddon/httpstore.go`, `client.go`, `version.go`) | Core's confirmed configuration and the one on trial | UpdateHAConfig: read, configure, wait out the restart, promote | Core restarts and reverts by itself; users and a second caller act between any two calls; the add-on may crash | nothing of others is overwritten, a good end is a confirmed configuration, every run ends |
| Home Assistant add-on: YAML (`pkg/haaddon/config.go`) | `configuration.yaml` | a patch per subnet | read-modify-write by two callers, truncation before the write | the file ends with every subnet |
| configuration (`pkg/config/config.go`) | YAML file, edge id | Load, Save | Save truncates; a read error is ignored; runs cut at any step | the edge id is stable |
| SQLite storage, API server, core app, logger, utilities, UI | -- | -- | -- | routing, rendering and statement execution |
| optional providers (acl, auth, analytics, integration) | -- | -- | not registered (`main.go:205-208`) | -- |

### How they interact

* `main` builds the manager, the proxy provider and the client, registers their
  message and connect handlers, connects signaling, then starts the providers in
  goroutines of their own (`registry.go:128`).
* The reader of the signaling client runs message handlers one after the other.
  The manager's handlers run there, so a handler that blocks stops signaling.
* The manager announces interfaces to the proxy provider from goroutines it
  spawns (`manager.go:239, 257`), which therefore can arrive in either order.
* Each change of a service is put on the outbound channel. Every new connection
  runs `OnReconnect`, which puts the whole table on it.
* `main` at its start, and the API's expose handler at any time, run
  UpdateHAConfig in the background (`main.go:105`, `api/server.go:237`): two callers
  may be anywhere in it, with Home Assistant and its users acting in between.
* API handlers and everything above share SQLite, one statement at a time.

The hazards this yields are listed in `PROJECT.json` with the line where each
bites and the properties aimed at it.

## 2. The modules

| Module | Models | State |
|---|---|---|
| `Proxy` | the proxy provider over the service table | table and what the cloud was told; interfaces, started, contexts; servers; per worker: place and locals |
| `MCProxy` | small instances of it | -- |
| `ProxyProofs`, `ProxyListenerProofs`, `ProxyOverlapProofs` | theorems about `Proxy`: types and paths; listeners; which overlaps it withstands | -- |
| `Signaling` | the signaling client | connection, flag, dialers, readers, processors, channel |
| `SignalingProofs` | theorems about `Signaling` | -- |
| `ServiceSync` | service synchronization composed with `Signaling` | table, messages, callbacks, what the cloud received |
| `ServiceSyncProofs` | theorems about `ServiceSync`, its refinement of `LossyChannel` among them | -- |
| `LossyChannel` | what the path to the cloud promises (abstract) | in transit, delivered |
| `WireGuard`, `MCWireGuard` | the manager and its connections | maps, mutexes, connections, per goroutine: place |
| `WireGuardProofs` | theorems about `WireGuard` | -- |
| `HAStore` | UpdateHAConfig against Home Assistant's store | Core, confirmed and staged configuration; per caller: place, connection, what it sends, its timeout |
| `HAYaml` | UpdateHAConfig against `configuration.yaml` (extends `HAStore`) | the file; per caller: subnet, copy |
| `HAAddon`, `MCHAAddon` | both under one choice of version, with crashes | where Home Assistant is configured |
| `HAAddonProofs` | theorems about `HAAddon` | -- |
| `EdgeConfig` | the configuration file, Load and Save | place of `main`, file, configuration in memory |
| `Lifecycle` | runs of the program one after the other: `main`, registry, the interfaces that come up while services start (extends `EdgeConfig`) | client, providers, interfaces and their notifications |
| `LifecycleProofs` | theorems about `Lifecycle` | -- |

### Proxy

A *worker* is a goroutine that runs one operation at a time: a request handler,
a notification, Start, Stop. `pc[w]` says where it is, `loc[w]` holds its local
variables. Every database call, every section under `p.mu` and every
listen or shutdown is one action, since nothing in the code spans two of them;
`Begin(w)` starts an operation, `Step(w)` continues it, `Goroutine(s)` is what
the two goroutines of a server do.

* A row keeps its tunnel port, its target (local host and port), its route
  (protocol and path) and its enabled flag. Names and timestamps are left out.
* A server's life is `unused, bound, spawned, serving, shut, closed`: `bound` from
  `net.Listen` until it is recorded in `p.servers`, `spawned` until `Serve`
  runs, `shut` when `Shutdown` came before `Serve`, which then closes the listener.
  A closed server that nothing refers to is given back (`unused`), so that
  `Slots` bounds the servers of an address that exist together, not over time.
* `servers` is the set of values of `p.servers`; `Key` gives a server's key.
* `hand[w]` and `kill[w]` are the servers a worker holds outside the map.
* Failures are switched on by constants: `DbMayFail`, `ListenMayFail`,
  `SyncMayDrop`, `StopMayTimeOut`. `OrderedNotifications` says whether the
  manager's notifications arrive as they were sent.

### Signaling, ServiceSync and LossyChannel

Goroutine `k` of `Signaling` is the reader that the `k`-th connection spawned and,
once it failed, the `reconnect()` it spawned in turn; goroutine 0 is `Connect`.
Processors of old connections live on and compete for the channel, as in the
code. `Cut` breaks a connection without either side noticing.

`ServiceSync` extends it. A handler writes the row (`ChangeRow`), then reads it again
after an update (`FetchRow`) or starts a service it has made or that a PUT has
changed (`StartService`), and reports: `Register` and `Enqueue` are the two
sections of `syncServiceOperation`. When the query or the start fails it returns without a report
(`GiveUp`), and the cloud does not learn of the row. `Snapshot` is the
query of `OnReconnect`; when it fails, no batch is sent. `unreported` holds the
services whose last report was not made for one of these reasons, until the next
one that mentions them. A message sent over a connection may
be lost, its acknowledgement too. The module implements
`LossyChannel` under the mapping `transit <- InChannel, delivered <- arrived`
(`InChannel`: the channel and what processors hold). A service is 0 before it
is created; `alone` records whether every change so far found nothing under way.

### WireGuard

An actor is a goroutine: the reader of signaling messages, one API request,
`Service.Start`, one callback per connection and state, one set-up goroutine per
connection. `LockAndClose` and `Forget` are `closeConnectionFromPeer` before and
after it asks for `netServiceMutex`, which it does with `m.mutex` held; the
readers of that mutex are short and modelled by its being free. A handler holds
`m.mutex` where the code does, and `clientPeers` is used without it where the
code does that (map accesses are atomic in the model; in Go they are a data
race that the runtime may abort on). A request of an unknown peer may bring an
address (`edge_ip` and `index`), which is stored as it is (`manager.go:277-278, 289`);
`Brought` holds those that do. An address records its index, its subnet and its
origin: `free` and `wrapped` are chosen by findAvailableIndex, the latter when none was left.
`announced` records the calls of `notifyInterfaceAdded` and `...Removed`;
their delivery is the subject of `Proxy` and, while the services start, of
`Lifecycle`.

### HAStore, HAYaml and HAAddon

A *caller* is a goroutine of UpdateHAConfig; `run[c]` is where it is. Each call over
the websocket is one action (`Read`, `Configure`, `Confirm`, `Promote`,
`Recheck`), and a caller keeps its connection from one to the next until Core
restarts: `live` holds the callers whose connection works, and `CallFails` is a call on
one that does not, one that Core refuses, or one whose reply cannot be read. `Connects` and `GivesUp` are the outcomes of dialHA within the loops of
redialHA and whenReady, refused tokens included; `Expire` is the timeout of the latter. Core is
`up, stopping, down` or `starting`; it stages a configuration and restarts (`Stage`),
drops a trial that equals the confirmed one, reverts a trial at any time (`Revert`),
and its users apply and confirm configurations. These actions are Home
Assistant's, modelled from what `httpstore.go` and `client.go` say of it and rely on.

A configuration is its set of trusted networks and `use_x_forwarded_for`;
the settings the add-on does not touch go the way of the foreign networks.

`HAYaml` reads, truncates and writes the file as three steps, once per
subnet. `Patch` is patchHTTPSection with addBlankAroundSection; the section may be
absent or not a mapping, and may hold several `trusted_proxies`, of
which Home Assistant's loader takes the last (`FileTrusts`). `torn` records that two
writes have mixed or that a crash cut one.

`HAAddon` chooses between the two by the version, read off the disk or asked from
Core, and adds the crash that ends all callers.

### EdgeConfig and Lifecycle

`file` outlives a run of the program, `cfg` does not. `Load` is Load with
EnsureDefaultConfig, in which the read of a good file may fail; `Truncate` and `Write` are the two halves of Save. A user may edit
or spoil the file. `Lifecycle` follows `main` (`main`: off, save, write, store,
initialize, start, serve, the two stops, close; `panicked` when a nil pointer or a nil
function was used), with `Crash` at any step, which also stands for every `log.Fatalf`.
`ui` and `registered` are the edge ids for which the table has an Edge UI service and
under which the cloud was asked for a connection.

While the services start, SetNetworkService copies the manager's interfaces to the
proxy provider (`GetInterfaceIPs`, `SetInterfaceIPs`, under netServiceMutex), and
clients' interfaces come (`MakeInterface`, `Announce`) and go (`Withdraw`); what is
announced reaches the proxy provider through goroutines of its own (`Deliver`).

## 3. Runs

All runs finish within three minutes with two TLC workers.

| Run | Instance | Checks |
|---|---|---|
| `proxy_sequential` | 1 worker, all operations but SetInterfaceIPs, 2 services, 2 interfaces, 2 addresses, 2 ports; 0.9M states | `TypeOK`, `NoMissedListener`, `RunningIsEnabled`, `ServesStoredTarget`, `ToldIsStored`, `TunnelPortsDistinct` |
| `proxy_concurrent` | 2 workers, any of the ten operations, every failure, unordered notifications; 1.2M with symmetry | `NoOrphanListener`, `RecordedIsBound` |
| `proxy_overlap` | 2 workers; modify, addInterface, start, stop; 47k | `NoMissedListener`, `OperationsReturn`, `StopReleases` |
| `service_sync` | 1 change at a time, 2 connections, channel of 1, 2 messages, a service that exists or not; 278k | `SyncTypeOK`, `PendingHasCallback`, `OrderedUntilReconnect`, `OneDialer`, `OneReader`, `NoLeakedConnection`, `ConvergesOneAtATime`, `AtMostOnce`, `LoopEnds`, `CloseEnds` |
| `wireguard` | 2 clients, 2 indices, an address that requests bring, 2 connections, 3 goroutines at a time; 3.0M with symmetry | `WireGuardTypeOK`, `AddressesDistinct`, `AddressIsStable`, `NoLeakedConnection`, `AnnouncedIsWithdrawn` |
| `ha_addon` | 2 callers, 2 subnets, 3 users' configurations, 5 files; 321k | `HATypeOK`, `FileEndsTrusted`, `StagesWhatIsMissing`, `OkIsTrusted`, `RunEnds` |
| `lifecycle` | 3 edge ids, 1 client; 216k | `LifecycleTypeOK`, `KeepsItsEdge`, `InterfacesKnown` |
| `signaling_lost`, `wireguard_locks`, `lifecycle_panic`, `ha_yaml`, `ha_yaml_race` | the smallest instance that shows it | one property each, **violated**: see "Findings" |

What the passing runs show:

* **proxy_sequential.** After each operation of any sequence of operations, with an interface
  coming and going and a Start and a Stop in between, every enabled service listens on
  every interface with the target its row has, nothing else runs, the cloud has been told what is
  stored, and ports are distinct. These properties are about one operation at a
  time: with operations that overlap some of them fail (section 5). Section 6 proves of four
  of them which overlaps they withstand.
* **proxy_concurrent.** Whatever overlaps and fails, an open listener stays in the map or
  in the hands of the worker about to record it or shut it, and a key stands for a
  bound listener. Both are also proved.
* **proxy_overlap.** The order of writes and reads in AddInterface, Start and a
  toggle is right: whichever write comes last, its worker sees the others'.
  A mutant that trusts the request instead of reading the row again breaks it. For creations too it is
  proved, with any number of workers. Operations end, and Stop releases every listener of its
  context, those bound after it included.
* **service_sync.** `c.reconnecting` keeps dialing to one goroutine, each connection has one
  reader, a connection that is overwritten has been closed, a reconnect ends and
  everything ends after Close. Over that client callbacks are registered early enough, messages are
  never duplicated, and are ordered as long as there has been one connection. When
  services change one at a time, the batch of a reconnection makes up for
  every message that was lost: the cloud ends with what is stored, but for a service whose
  last report was never made.
* **wireguard.** Choosing an index without the mutex is safe because a single reader chooses, so that
  chosen addresses are apart; one that a request brings may not be (`AddressesDistinct` excuses it, section 5).
  The address of a connected peer stays the same, chosen or brought;
  closing by peer id, which a late callback may do to a newer connection, loses no
  record of a connection; an interface that is announced is withdrawn when its
  connection goes. In this run a closed connection's set-up may leave a TUN device up
  (section 5), but never announced.
* **ha_addon.** However callers, users, reverts, restarts and crashes fall, what a caller
  stages is what Core has plus the missing subnets, although nothing compares the
  two: any change in between restarts Core, which breaks the
  caller's connection. A good end is a confirmed configuration that trusts the add-on unless a user
  or Core interfered. Callers that patch the file at the same time still end
  with both subnets: every copy that is written has the first one, and the last to write has checked
  the second. With three subnets this fails (finding 5). Every run ends.
* **lifecycle.** Over runs cut at any step the agent keeps the id its file has, because it is
  saved before it is used; the file itself may be lost, by a user or a crash within
  Save, and then a new id and a second Edge UI appear. SetNetworkService misses no
  interface that comes up meanwhile, because it holds the mutex that announcements take.

### Bounds, and why they are enough

* `Workers`: 2. Each hazard listed for the provider is a race of two operations;
  servers run goroutines of their own besides. One worker where properties hold
  only then.
* `Slots`: 2 or 3 servers of an address at a time: one serving, one that shuts
  down, one that is bound by a retry. `MaxStarts = 1`: the registry starts the
  provider once. `maxBindRetries` is 3 in the code; 1 or 2 where workers overlap,
  enough for a retry to succeed and to give up.
* `MaxConns`: 2 connections show an old reader, processor or callback beside a new
  one; 3 where a chain of reconnects matters (`signaling_lost`). Dialing beyond the bound
  fails.
* `Capacity` 1 in place of 100: a full channel is reached. `MaxMessages`: two, of
  changes and batches in any order: a lost change and the batch that makes up for it, a change
  that overtakes a batch.
* `Callers`: 2, as `main` starts one and a request another. `SubnetList`: 2, so that there is a
  first and a later one; with three, `FileEndsTrusted` fails (`ha_yaml_race`). `UserConfigs`: the default, one with a foreign proxy, one that
  already trusts the add-on, which is what makes a trial equal to the confirmed
  configuration or settled by somebody else.
* `Ids` (edge ids): 3, so that a lost id can be replaced twice. Runs of the program, crashes, reverts,
  user's edits and restarts of Core are unbounded.
* `MaxBusy = 3` (`wireguard`): nothing new begins while three goroutines of the manager are
  in the middle of something, say a late callback, the reader and the set-up; the
  callbacks that a close wakes come on top. `wireguard_locks` has no such limit.
* `Indices`: two for two clients, so that none is given twice for want of another (`manager.go:539`); the theorem
  covers more clients than indices. `Brought`: one address, with index 0 and the subnet of index 1, which
  blocks one index and collides with the other.
* Deadlock is checked in the `Proxy` runs. The other systems stop by themselves: a
  client that is closed, connections used up.

### Fairness

The Go scheduler runs every goroutine: weak fairness of every worker's and
goroutine's step. A timer ends: `RetryListen` gets strong fairness, since its delay outlasts
the moment in which a shut server still holds the address. A
`select` picks among ready cases at random: strong fairness of `ProcessorEnds`.
For `LoopEnds` the cloud is reachable again and again (`SF` of
`DialSucceeds`). Go's mutexes hand over to a waiter that starves: strong
fairness in `WireGuard`. In `HAAddon`, weak fairness of every caller's next step and of its
timer; nothing is assumed of Core, which may stay down for ever. No operation, message or failure is assumed to happen.

## 4. Findings

1. **`wireguard_locks` / `ActorsReturn`.** SetNetworkService takes `netServiceMutex` and then, in
   GetInterfaceIPs, `m.mutex` (`manager.go:159-164`); closeConnectionFromPeer
   holds `m.mutex` when it takes `netServiceMutex` (`manager.go:491-517`). A connection that
   closes while Service.Start runs deadlocks both, and all signaling handlers after them.
2. **`signaling_lost` / `Reconnects`.** A connection that breaks before `reconnect()` has cleared its
   flag is never replaced, though its reader, which is the last to see it, is to "Trigger reconnection and exit this
   goroutine" (`client.go:175`): the reconnect() it spawns finds the flag set and returns.
3. **`lifecycle_panic` / `NoPanic`.** Without a `cloud_url` (the state of a first start, and
   optional by the README) the WireGuard service has no manager and its Start calls it
   (`wireguard/service.go:74`): the process ends. With a `cloud_url` but no `api_key`, the deferred
   Close calls a nil function at the end (`signaling/client.go:375`).
4. **`ha_yaml` / `FileEndsTrusted`.** A `trusted_proxies` that is not a list makes the patch append
   another key for every subnet and at every run (`haaddon/config.go:277-284`), of which Home Assistant
    reads the last: one subnet is trusted.
5. **`ha_yaml_race` / `FileEndsTrusted`.** The file is read, patched and written back once per subnet
   (`haaddon/config.go:137-139, 166-181`), by `main` at its start (`main.go:105`) and by every expose request
   (`api/server.go:237`), with nothing that keeps them apart. A copy read before the other run's
   write replaces what that write added, and the other run, past that subnet, does not add it again:
   from three subnets on a subnet is lost. Found by the proof of `FileTrustsEverySubnet`, whose
   invariant could not be kept without `NobodyBehind`.

## 5. Known behaviour outside the runs

These follow from the modules (a property fails on an instance that is not among
the runs) or from reading, and no document of the repository denies them:

* A service disabled while Start or AddInterface works from an older list is stopped and then
  started from the list (`proxy.go:368-386, 919-931`).
* A row that was written is not reported when the service then fails to start or the row cannot be read again
  (`proxy.go:563-567, 585-589`, `routes.go:213-216, 225-228`), nor is a batch sent when the query for it fails
  (`proxy.go:153-158`): the cloud misses the change until the next report of that service or the
  next connection, with nothing lost (`unreported`).
* A connect-request that brings an `edge_ip` and an `index` is stored as it is (`manager.go:277-278, 289`): two peers
  may share a subnet with indices free. And when all indices are used, index 0 is given again.
* An offer that comes before the turn-response ends the process: generateTurnCredentials reads through
  a nil pointer (`utils.go:16-18, 33-38`, `peer.go:33`) and nothing recovers in the reader. `Create` has no such step.
* A PUT decides on its restart by a row and a listener read before its write (`routes.go:184-205`): beside another
  change it may leave the service with another target, missed, or running though disabled.
* A PUT that the repository refuses leaves a running service stopped: handleUpdateService
  stops the listener, the write fails, and nothing starts it again (`routes.go:203-210`).
* When changes overlap with a batch or with each other, the cloud may end with an older row: rows
  are read before the message is queued, with no lock (`proxy.go:152-196, 588-597`). A deletion whose
  message is lost is never made up for: the batch lists what is stored.
* Path and protocol of a running service change only at its next start
  (`routes.go:198-204` restarts for the target and the enabled flag only).
* Two creations at a time can be given one tunnel port (`proxy.go:547-563`).
* Deletes, toggles and creations that overlap may report to the cloud in another order than
  they wrote.
* With unordered notifications an interface removed and added again may end without listeners.
* A TUN device made after its connection was closed stays up until the peer's
  next connection, which deletes it by name.
* A new offer of a peer whose connection is not connected is refused as from an unknown peer: closing
  the old connection deletes its configuration (`manager.go:335, 341`).
* Callbacks of lost messages stay in `syncCallbacks`.
* SetInterfaceIPs sets the map without starting services: an interface made before WireGuard's Start
  and after the proxy's gets no listeners until the next start of a service.
* A reconnecting client's removal may overtake its new announcement (`crossed` in `Lifecycle`):
  the proxy provider then does not know its interface.
* Manager.Stop ranges over `wgConns` without the mutex, while callbacks delete from it; the process is
  about to end.
* A configuration file that cannot be read, be it for a moment, is replaced by defaults at the Save that follows, with its
  `api_key`, `cloud_url` and edge id lost; what the environment overrides is saved too when
  anything else is.
* A refused token ends whenReady's wait, though redialHA's comment (`haaddon/client.go:116-118`) says that the
  proxy refuses tokens while Core is down: at a cold boot the run may fail at once (`GivesUp`).
* confirm logs that Home Assistant trusts the proxy also when the trial has failed
  (`httpstore.go:170-172`), and promotes whatever is on trial, a user's configuration included.
* A crash between truncation and write leaves `configuration.yaml` empty, and two callers may mix
  their writes (`torn`); an `http:` that is not a mapping is overwritten.

## 6. Proofs

| Theorem | Statement |
|---|---|
| `ProxyProofs!TypeCorrect` | `Spec => []TypeOK` |
| `ProxyListenerProofs!ListenersAttended` | `Spec => []NoOrphanListener` |
| `ProxyListenerProofs!KeysAreBound` | `Spec => []RecordedIsBound` |
| `ProxyOverlapProofs!PortsStayDistinct` | `Spec /\ []PortsApart => []TunnelPortsDistinct`, given `InitPortsDistinct` |
| `ProxyOverlapProofs!RunningServicesAreEnabled` | `Spec /\ []ChangesAlone => []RunningIsEnabled` |
| `ProxyOverlapProofs!TargetsAreStored` | `Spec /\ []ChangesAlone => []ServesStoredTarget` |
| `ProxyOverlapProofs!ToldWhatIsStored` | `Spec /\ [](ChangesAlone /\ StartsSucceed) => []ToldIsStored`, given `DbMayFail = FALSE`, `SyncMayDrop = FALSE` |
| `ProxyOverlapProofs!NoServiceMissesAnInterface` | `Spec /\ []PortsApart => []NoMissedListener`, given `Growing`, `InitPortsDistinct` |
| `SignalingProofs!TypeCorrect` | `ClientSpec => []ClientTypeOK` |
| `SignalingProofs!DialsOneAtATime` | `ClientSpec => []OneDialer` |
| `SignalingProofs!ReadsByOne` | `ClientSpec => []OneReader` |
| `SignalingProofs!LeavesNoneOpen` | `ClientSpec => []NoLeakedConnection` |
| `ServiceSyncProofs!RunsTheClient` | `Spec => ClientSpec` |
| `ServiceSyncProofs!SyncTypeCorrect` | `Spec => []SyncTypeOK` |
| `ServiceSyncProofs!CallbacksAreThere` | `Spec => []PendingHasCallback` |
| `ServiceSyncProofs!FirstConnectionInOrder` | `Spec => []OrderedUntilReconnect` |
| `ServiceSyncProofs!DeliversAtMostOnce` | `Spec => AtMostOnce` (it implements `LossyChannel`) |
| `ServiceSyncProofs!CloudConverges` | `Spec => []ConvergesOneAtATime` |
| `WireGuardProofs!WireGuardTypeCorrect` | `Spec => []WireGuardTypeOK` |
| `WireGuardProofs!AddressesAreDistinct` | `Spec => []AddressesDistinct` |
| `WireGuardProofs!AddressesAreStable` | `Spec => []AddressIsStable` |
| `WireGuardProofs!LeaksNoConnection` | `Spec => []NoLeakedConnection` |
| `WireGuardProofs!WithdrawsWhatItAnnounced` | `Spec => []AnnouncedIsWithdrawn` |
| `HAAddonProofs!TypeCorrect` | `Spec => []HATypeOK` |
| `HAAddonProofs!StagesOnlyWhatIsMissing` | `Spec => StagesWhatIsMissing` |
| `HAAddonProofs!OkMeansTrusted` | `Spec => OkIsTrusted` |
| `HAAddonProofs!FileTrustsEverySubnet` | `Spec => []FileEndsTrusted`, given `PlainFiles`, `NobodyBehind` |
| `LifecycleProofs!TypeCorrect` | `Spec => []LifecycleTypeOK` |
| `LifecycleProofs!EdgeIsStable` | `Spec => []KeepsItsEdge` |
| `LifecycleProofs!InterfacesAreKnown` | `Spec => []InterfacesKnown` |

They hold for every value of the constants that satisfies the assumptions the modules
declare (`ProxyAssumption`; `SignalingAssumption` and `SyncAssumption`, with finitely many handlers;
`WireGuardAssumption`, with finitely many peers and 0 among the indices; `HAStoreAssumption` and
`HAYamlAssumption`; `ConfigAssumption`), which TLC evaluates on every run: any number of workers, services,
addresses, slots, connections, messages, peers, callers, subnets, configurations and edge ids, any
failure switched on or off. Only the hypotheses the table names restrict them further.

### Proxy

* *TypeCorrect.* `TypeOK` is not inductive: a field of `loc[w]` may be `None`, and is used
  as a row, request or binding at places where the operation has set it. `TypeInv`
  adds, per place, which fields are set (`LocalOK`) and that a worker about to record holds
  a server. One lemma reduces a step of a worker to the type of the shared
  variables and its new locals; then there is a lemma per operation or step.
* *Listeners.* `ListenerInv` adds to the two properties that no two workers hold one server
  (`HandsOK`), that what a worker shuts down is its own and out of the map (`KillsOK`), that what is in
  the map was recorded (`MapOK`), and that an address is bound once (`OneListener`). Without
  the first two, a server taken out of the map by two workers could be forgotten by
  both; without the last, overwriting a key could drop an open listener. TLC
  checked it as an invariant of the `proxy_concurrent` instance before it was proved.
* *Which overlaps.* The other properties fail when the wrong two operations overlap. Each theorem
  names the overlap and proves the property of every behaviour without it, with any number of workers that
  do anything else. One worker, the case of `proxy_sequential`, meets all these conditions.
  `PortsApart`: no two creations are between allocatePort and CreateService. `ChangesAlone`: a
  modify, update or delete is the only operation under way; creations,
  interfaces, starts and stops overlap freely, and every call may fail. `StartsSucceed`: no
  startProxyServer of a creation or an update fails, since its error skips the notification.
  `RunInv` says that what is in the map, and whatever a worker is about to start, was read from
  rows that are still so (`ServersOK`, `StartOK`), and that a service whose row is about to change has been
  stopped (`StopOK`). `ToldInv` says that the cloud was told of each row or that a worker is on its way to.
* *No missed listener.* `Growing` limits the operations: services are
  created, exposed and toggled, interfaces come up and the provider starts, in any overlap;
  nothing refuses a call and a bind is tried at least twice. `CoverInv`: every service and interface that need
  a listener have one, or a worker will still try (`Willing`), is trying or holds it. The
  last of two writers, of the row and of the interface map, finds the other's write, so it is willing.
  A bind fails only on an address that is taken: by the service itself, which is then
  served, or by its listener that is closing. The worker that made it close, or one that
  found it, is willing to try again (`Released`); that takes distinct ports, hence
  `PortsApart`. TLC checked `CoverInv` first, on an instance with two workers, two services and
  overlapping creations, toggles, interfaces and Start (1.1M states).

### Signaling and ServiceSync

* *Signaling.* Its goroutines hand on one task, to keep the client connected: a dialer hands it to
  the reader it spawns, a reader that fails to a reconnect(), which drops it when the flag is set
  (finding 2). `OneTask` says that at most one has it. `Flag` relates `c.reconnecting` to the one goroutine past the
  check of it, which may be one that has handed the task on and not cleared the flag yet;
  `Spawned` says that a goroutine begins after the one it follows, `Cleared` that a
  reconnect() dials only with `c.conn` nil. `OneDialer` and `OneReader` follow.
* *RunsTheClient.* Each step of `ServiceSync` is a step of `Signaling` or leaves the client's variables
  alone, so the theorems about the client hold in the composition.
* *ServiceSync.* Each message has one place (`Sending`, `Placed`): about to be queued, at
  the end of `queued` that is the channel, before it in a processor's hands, or arrived; `Numbered`
  and `Counted` keep numbers apart, `InOrder` adds that over one connection what arrived is an initial
  part of `queued` in its order. From this follow the callbacks, the order and the refinement: a step puts a
  message, loses one, delivers one, or leaves channel and arrivals alone.
* *CloudConverges.* `TellInv`: while changes come one at a time, every message under way says what is
  stored (`Current`), and for each service that is not in `unreported` (`Informed`) there is no working connection, or
  a dialer is about to report, or a message that says it is not yet sent or sure to take the working
  connection, or one was dropped, or the last one that arrived says it.

### WireGuard

* `WireGuardInv` follows the three kinds of goroutines. A callback or request that is in `forget`
  holds `m.mutex` and has closed the connection it is about to remove (`Locked`); a connection belongs to
  the peer under which it is recorded (`Owned`); each callback runs once (`Called`); what the
  reader has chosen is free until it is entered, because all others only delete (`Chosen`). Two addresses
  are `Apart` unless one was brought, or one was chosen with none free; then every index has a peer that uses it and
  is not the one that asks, so there are more peers than indices. That the
  loop of findAvailableIndex finds a free index when there is one rests on the lemma `Least`, that a set
  of naturals has a least element, which follows from the library's well-founded order of
  finite sets without induction over data.

### The other parts

* *HAAddon.* `StoreInv` adds to the types that a caller about to send a configuration and still
  connected has one made from what Core has now, which does not trust the add-on (`Fresh`); this is
  inductive because connections are gone whenever Core is down or stopping, and
  Core changes what it runs in no other state. `Kept` adds that once a caller has found or staged a
  configuration that trusts the add-on, Core keeps one that does, unless a user or Core
  disturbed it. `YamlInv` says that a caller that patches is at one of the subnets.
* *The file.* `FileInv`, while no two writes have mixed: the file and every copy give `trusted_proxies` once and as
  a list (`WellFormed`), trust the subnets their caller is past (`Passed`), and once a run has ended
  the file trusts all, or somebody still patches it (`Ended`). `PlainFiles` excludes finding 4. `Passed` needs
  that a caller's older copy does not undo what another is past, which is
  `NobodyBehind`: one caller, or at most two subnets. Without it the property is false (finding 5).
* *Lifecycle.* `EdgeInv` adds to `KeepsItsEdge` that before Save nothing but the id in memory has been used,
  and that from `store` on, where ids come into use, the file has that id. `NetInv` says that an interface is
  known, copied, announced or about to be, according to the stage of SetNetworkService, and that nobody is notified
  before it is done.

Only model-checked: liveness (`OperationsReturn`, `StopReleases`, `LoopEnds`, `CloseEnds`, `RunEnds`; fairness and
ENABLED are out of the prover's reach), and `NoMissedListener` where services are also updated and deleted,
interfaces go and the provider stops: `proxy_sequential` checks that of one worker, and
`proxy_overlap` Stop beside toggles and interfaces of two.

## 7. Not modelled

The ping server on port 3031 and the body of the reverse proxy (requests and
responses carry no state of the agent); HTTP middleware and rendering; `Clear`
of the proxy provider (no caller); keepalive goroutines; answers, ICE candidates and TURN
credentials; `Manager.Stop`; the WebRTC bind, whose Open and Close wireguard-go calls one after
the other; TUN commands; pages of the service list; the discovery of local
subnets and its failures; an upgrade of Core, or a user's edit of
`configuration.yaml`, in the middle of a run of UpdateHAConfig; SQLite itself, whose
statements are taken to be atomic.

## 8. Plan

1. `Proxy`, its runs and its theorems. Done. To prove: `NoServiceMissesAnInterface` with updates, deletions
   and interfaces that go, under a condition like `ChangesAlone`.
2. `Signaling`, `ServiceSync`, `LossyChannel`, with all their safety properties and the refinement. Done.
3. `WireGuard`, with all its safety properties. Done but for `Manager.Stop`.
4. `HAStore`, `HAYaml`, `HAAddon`, with all their safety properties. Done.
5. `EdgeConfig`, `Lifecycle`, with all their safety properties. Done.
6. WireGuard's notifications composed with the interface map of `Proxy`; pages as
   functions of the table, against the list.
