# Verification of tsd

tsd serves Prometheus' HTTP service discovery for machines on a Tailscale
network. On every machine an **Agent** keeps a list of scrape services; one
**Central** discovers the Agents through tailscaled, polls their lists and
serves the union to Prometheus. This directory holds TLA+ models of both
daemons, the TLC configurations that check them on small instances, and proofs
that TLAPS checks for every instance. Paths are relative to the repository;
`collector.go`, `server.go` and the like are under `internal/`.

## 1. Inventory

### Components

| Component (source) | State | Operations | Model |
|---|---|---|---|
| Service registry (`agent/registry.go`) | entries by name, `svcModifiedAt`, `healthModifiedAt` | add, update, remove, updateHealth, touchServices, lists | `Registry` |
| HTTP API (`agent/server.go` 600-770) | none of its own | services, services/health, conditional requests, push, proxy | `Collector`, `AgentListen`, `AgentRequests` (a proxied scrape is not modelled) |
| Collector (`central/collector.go`) | service cache, remembered `Last-Modified` values, peer list, targets, cache file | Run with watcher, channel and ticker; refresh and its queries, save, load; manual peers | `Collector`, `RefreshLoop`, `CentralPeers` |
| Discovery (`central/discovery.go`) | tags, port, attribute values | Discover, Watch, UpdateConfig, RefreshSelfAttrs, ClearSelfAttrs | `RefreshLoop` (one step in `Collector`) |
| Service management (`agent/mgmt.go`, `agent/server.go` 300-391, 572-606, 839-985) | `agent.toml`, `s.cfg`, registry, bucket and proxy stores, checks | add, remove, reload, start | `AgentServices` |
| Health checks (`agent/health.go`) | cancel functions by name, goroutines | Register, Unregister, check loop | `HealthChecker` |
| Listener and node attributes (`agent/daemon.go`, `agent/server.go` 230-336, 393-547, `tsutil/attrs.go`) | `s.cfg`, authorized tags, HTTP server, own addresses | LoadNodeAttrs, Reload, rebind, detectAndSetSelfIP, Start | `AgentListen` |
| Push buckets (`agent/bucket.go`) | buckets by name, metric groups by grouping key | put, post, delete, scrape, clear, add, remove | `AgentRequests`, `BucketStore` |
| Request authentication (`agent/server.go` 118-219) | recorded clients | a decision from a copy of token, tags and `allow_anonymous` | `AgentRequests` |
| Central start-up, reload, manual peers (`central/daemon.go`, `server.go`, `mgmt.go`) | `central.toml`, `s.cfg`, manual peers | reload, peer add and remove, start | `CentralPeers`, `RefreshLoop` (settings and attributes), `Collector` (the refresh a reload starts) |
| Atomic file writes (`config/paths.go`) | a file | replace, create | a save that happens or does not; a default file created, cut off or not (`CentralPeers`) |
| Transport, CLI, self metrics, service installation, version, packaging | - | - | not modelled |

### How they interact

- Central's refresh loop (ticker and netmap trigger) and every `POST /reload`
  run `refresh`. These share the collector's maps under several locks, and each
  spawns goroutines: two HTTP requests per online peer, and one that saves.
- An Agent's HTTP handlers read the registry and the configuration while
  management handlers, health checks and the Tailscale watcher write them.
- The Agent's management handlers, one at a time (`mgmtMu`), first write
  `agent.toml` and then change registry, stores and checks, rolling both back
  on an error.
- Central's management handlers, one at a time as well, write `central.toml`
  before they change the collector's manual peers and `s.cfg`; a reload also
  changes the discoverer's settings and attributes, which the watcher writes too.
- Pushes find their bucket under the store's lock and change it under its own.
- tailscaled is asked (status) and listened to (IPN bus), and may be away.

### What is hard

Conditional requests whose header outlives the body it belongs to; overlapping
refreshes; a refresh whose context ends under it; Central's and the Agent's
crashes between two writes; instants compared by the second; results of
cancelled checks; the configuration written by three goroutines of which two do
not exclude each other; ports that cannot be bound; notifications that are
coalesced in a channel of capacity one and lost with their connection; settings
that are copied, used later and replaced meanwhile; an object that loses its
name while a request holds it. `PROJECT.json` lists each
hazard at its line, with the properties that cover it.

### What makes each correct

- *Collector and Agent API*: a 304 stands for the list Central has; targets are
  those of the peers shown as ok; an outage does not cost a peer its services;
  the published list becomes the Agent's again after anything.
- *Service management*: file, running configuration and runtime agree between
  operations; a refused request changes nothing; an Agent starts from its file.
- *Health checks*: one live check per configured one; its result prevails.
- *Refresh loop*: every netmap change is followed by a look at the netmap, with
  no help of the ticker; what is published catches up with netmap and settings.
- *Manual peers*: file, `s.cfg` and runtime agree between operations; what a
  request was told is in the file; a reload drops no peer added by request.
- *Push buckets*: every request takes effect on its bucket in one step or not at
  all; no page shows a series twice.
- *Authentication*: one rule, applied to one setting that was in force.
- *Listener*: the Agent listens exactly where its configuration says, announces
  itself there, and follows the policy, or ignores it when told so.

## 2. Modules

| Module | What it is |
|---|---|
| `Registry` | The registry as operators on a value. No state; `Collector` holds one per Agent. |
| `Collector` | Central and the Agents it polls. |
| `AgentServices` | The management handlers, reload, start-up and crashes of one Agent. |
| `HealthChecker` | Goroutines of health checks and the operations that start and cancel them. |
| `AgentListen` | Start, watcher, reload and rebinding of one Agent, and a client of it. |
| `RefreshLoop` | When Central refreshes and with which settings: watcher, channel, loop, reloads. |
| `NetmapFollower` | What watcher, channel and loop promise together; `RefreshLoop` implements it. |
| `CentralPeers` | Central's manual peers: file, requests, reload, crashes, and the merge with discovered ones. |
| `AgentRequests` | Authenticated pushes, scrapes and clears, and the buckets they work on. |
| `BucketStore` | What the buckets promise; `AgentRequests` implements it. |
| `MC...` | Small instances of the module of that name. |
| `Lists` | Lists of which some entries are kept, for `AgentServices` and `CentralPeers`. |
| `CollectorProofs`, `AgentServicesProofs`, `HealthCheckerProofs`, `AgentListenProofs`, `RefreshLoopProofs`, `CentralPeersProofs`, `AgentRequestsProofs`, `ListsProofs` | Theorems and their proofs (§5). |

The step of every model is one critical section, one request leg, one file
write or one computation on locals; whatever another goroutine may do in
between happens in between. `PROJECT.json` maps every definition to its lines.

**Collector.** `refresh` runs in `Refreshers`: the `Loop`, and one per `POST
/reload`. A refresher's `pc` goes start, discovered, query, apply (merged,
forget), publish. `Discover` reads the netmap and adds manual peers,
`RestoreOffline` shows the cache for offline ones, `Send`/`Serve`/`Receive` and
the failures `TimeOut`, `Refuse`, `Garble` are the legs of the two requests of a
peer. `Serve` takes two steps: the instant is read first, the list after. `Join`
is `wg.Wait`; `Merge`/`Store` update the cache of a peer that answered,
`Restore` shows the cache of one that did not; `EvictExpired`/`Forget` are the
two critical sections of the eviction, and `Publish` writes peers and targets.
`HandlerReturns` cancels a reload's refresh: its `QueryFails` from then on.
`SaveSnapshot`/`SaveWrite` are the saving goroutine, `CentralRestarts` loses
all but the file, `AgentRestarts` boots a registry with new instants. A service
is a target and a health; a `Last-Modified` is a number of seconds.

**AgentServices.** `op` is the operation of the holder of `mgmtMu` and `call`
the runtime change it is making, which is one of add, remove, update of a
static, bucket or proxy, step by step as in `server.go` (store, registry,
check, and the undo of a step when the next one fails). An add or remove first saves the file,
then calls, then commits `s.cfg` or rolls back; a reload adopts the file and
goes through registry and configuration in the code's order. `Crash` comes
between any two steps; `Boot` and `StartOne` are the start.

**HealthChecker.** `cancels` is the map of cancel functions; a `routine` is a
goroutine with its context's flag. `Probe`, `Answer`, `Write`, `Ticks` and `Stop`
are `doCheck` and the select of `runCheck`; a cancelled probe ends with a result
of its own, which is written too.

**AgentListen.** Goroutines `main`, `watch`, `reload`, each with its locals.
`CopyConfig`, `ReadAttrs` and `CommitAttrs` are `LoadNodeAttrs`; `SameAddress` to
`CloseOld` are `rebindHTTPServer`; `ReadPort` to `TouchAfterDetect`
are `detectAndSetSelfIP`. `bound` is what the network stack knows. A server is
its address: two servers of one address cannot listen at once, so the branches
of `rebindHTTPServer` that find the address taken over in the meantime
(server.go:526) or no server at all (520) are unreachable. `Overlap` says whether
the watcher may work while `main` is starting or a reload is under way. The code
lets it: see the findings.

**RefreshLoop.** A netmap is a number and the capabilities the policy grants.
`bus` is the watcher's connection and whether a notification waits in it
(tailscaled merges them, `NotifyRateLimit`). `Connect`, `Notified`, `BusLost` and
`Trigger` are `Watch` and the goroutine of `Run`; `ReadSelfAttrs` and
`StoreSelfAttrs` are the two halves of `RefreshSelfAttrs`, of the watcher and of
reloads. A refresh is `TakeConfig`, `TakeAttrs` (two locks in `Discover`),
`Status`, `Publish`; what it does with the peers is in `Collector`. `Reload`,
`UpdateConfig` and `ClearSelfAttrs` or `ReloadAttrs` are `Server.Reload`, which
`ReloadFails` leaves at once; either way a refresh follows, whose context may end
(`StatusFails`). `NetmapFollower` has the world's number and the number looked at
last: with `netmap.number` and `seen` (the netmap the loop read last) for them,
every step of `RefreshLoop` is a change, a look or nothing, and the watcher,
channel and loop together provide the fairness of its `Look`.

**CentralPeers.** `op` is the holder of `mgmtMu`: add and remove go `Save`,
`ApplyAdd` or `ApplyRemove`, then `Commit`, or `SaveFails`, or `Rollback` when
there was no such peer; a reload goes `Reload` (parse and adopt), `ReloadPort`,
`ReloadPeers`. `Load` is `LoadCentralConfig`, for the start and for reloads; a
missing file may be created with the defaults, fail to be created, or be cut off
and no longer parse (a cut that leaves other valid settings is left out).
`manual` is the map by address, with `fromConfig`. A refresh goes `Discover`,
`LockManual`, `MergePeers`, `Publish`: the middle two are `mergePeers`, under the
read lock for which `ApplyAdd`, `ApplyRemove` and `ReloadPeers` wait, with every
order in which the map may be ranged over and, peer by peer, the discoverer's
port before or after a `ReloadPort` that comes in between. `acked` is a history variable: what the last answered request said of
an address, forgotten when somebody edits the file. The node attributes are left
to `RefreshLoop`.

**AgentRequests.** A push goes `Arrive`, `CopySettings`, `Judge` (with `WhoIs`
answering or not), `Lookup`, and `Push` or `Refuse` after its body is read; a
scrape or the management's clear starts at `Lookup`. A bucket is an object; its
name leads to an object or to none, and a request keeps the object it found. A
path is a sequence of label pairs and a grouping key their set, which is what
the sorted, length-prefixed key of the code comes to. The history variables are
`inForce`, the settings there were since an undecided push arrived, and `gone`,
the requests whose bucket was removed while they held it. `BucketStore` has no
objects: a store by name and labels, and a set of requests each carried out in
one step, or dropped when its bucket is removed first. A push that is dropped is
answered 202 like any other; what the refinement excludes is that it reaches a
bucket added later under the name.

## 3. Runs

`tlc -config X.cfg M`; sizes are distinct states. "Fails" runs are
counterexamples to what the repository says of itself.

| Run | Instance | What it shows | States |
|---|---|---|---|
| `collector_reliable` | 1 Agent, 1 service, TTL 0, 2 changes, 1 service query lost or refused, 1 crash of Central, 1 saver | `NotModifiedMeansCurrent`, `EventuallyCurrent` | 0.7 M |
| `collector_outage` | any failure of any query, offline and absent, tailscaled down, 1 Agent restart, the peer also manual, TTL 1, clock to 2 | `NotModifiedIsUsable`, `OutageKeepsServices` | 1.3 M |
| `collector_reload` | loop and one cancellable reload, an old Agent without the health endpoint, 1 restart | `TypeOK`, `TargetsMatchPeers` | 1.0 M |
| `collector_lost_health` | as reliable, but a health query may time out | fails `NotModifiedMeansCurrent` | |
| `agentservices_requests` | 2 names, 2 label sets, 2 edits of 5 kinds, 1 failing rebind, clashing names | `TypeOK`, `RuntimeRealisesConfig`, `FileHoldsConfig`, `RefusedChangesNothing`, `BucketsSurviveReload` | 134 k |
| `agentservices_crash` | 2 crashes, 1 failing save, no clashing names | `StartsFromItsOwnFile`, `RuntimeRealisesConfig` | 18 k |
| `healthchecker_checks` | 1 name, 2 URLs, 3 operations, 3 goroutines | `TypeOK`, `OneLiveCheck`, `ConfiguredCheckPrevails`, `CancelledChecksEnd` | 73 k |
| `agentlisten_policy` | 2 ports, 2 files, 3 policies, 2 sets of own addresses, 2 changes of the world, 1 failing bind, 1 reload, no overlap | `TypeOK`, `ServedWhereConfigured`, `AnnouncedIsCurrent`, `OffMeansOff`, `FollowsPolicy` | 1.0 M |
| `refreshloop_follow` | 2 netmaps, 2 policies, 2 configurations, 1 outage, 1 reload | `TypeOK`, `NoLostChange`, `AttrsAsAsked`, `FollowsNetmap`, `EventuallyCurrent` | 1.0 M |
| `refreshloop_switched_off` | as above without outage, 3 policies, 1 configuration | fails `IgnoredWhenOff` | |
| `centralpeers_manage` | 1 node with 2 addresses, 2 peers in the file, which is missing at first, 1 edit of 3 kinds, 1 crash, 1 failing save | `TypeOK`, `RuntimeHoldsConfig`, `AcknowledgedIsDurable`, `CliPeersSurviveReload`, `EventuallyMerged` | 1.3 M |
| `agentrequests_buckets` | 2 pushes of 3 kinds each and a scrape or a clear, 1 name, 2 objects, 3 settings and 1 change of them | `TypeOK`, `NoDuplicateSeries`, `DecidedUnderOneSetting`, `ImplementsStore` | 0.6 M |

**Bounds.** Every bound is a CONSTANT named `Max...` (or `TTL`, `Goroutines`).
One Agent and one service are enough for the collector's properties, which
speak of one peer at a time: peers share nothing but the order in which a
refresh merges them and the snapshot that is saved, and the proofs, which are
for any number of peers and services, cover `TypeOK` and `TargetsMatchPeers` in
full, and the other safety properties for the loop without overlapping reloads.
Every safety property of the other modules is proved for every value of the
bounds as well (§5), so that the bounds matter to liveness alone. Two changes of the service list give
three lists, enough for a client to be two versions behind; clock and instants
go as far as the changes can push them ahead of the clock. Two names let
requests clash, and three goroutines are one check, its cancelled predecessor
and that one's. Two changes of the world around an Agent's start and one reload
are an edit with an outage, two policies, or an outage and its end. In
`RefreshLoop` one change and one outage, in either order and around a busy loop,
are a change that is missed, coalesced or announced twice. In `CentralPeers` one
node with two addresses lets two manual peers name it, and two entries let one
address be in the file twice. Two objects of one name are a bucket and the one
added after it was removed, and one change of the settings an older and a newer
setting; a stranger makes their mix visible, being admitted by neither.

**Deadlock** is checked in `Collector` and `AgentServices`. It is not in
`HealthChecker`, where operations are bounded and a service without a check
leaves nothing to do, nor in `AgentListen`, where an Agent whose world has
stopped changing (or whose first bind failed, after which the daemon exits)
rests. `CentralPeers` rests after a crash with a file that does not parse, and
`AgentRequests` when every request is answered and the bounds are reached;
`RefreshLoop`, whose ticker never stops, is checked.

**Fairness.** `Collector`: weak fairness of the loop's own steps (a ticker never
stops, and each request ends in an answer or the client's timeout) and of the
saving goroutines, which wait for the disk only. None on Agents, faults, netmap,
clock, reloads or crashes. `HealthChecker`: an operation under way and a check
go on; `Stop` is a branch of a `select` whose other branch may be ready as well,
so it gets strong fairness, which is Go's random choice. `AgentListen`: the three
goroutines go on; nobody has to edit, change a policy or start tailscaled. `RefreshLoop`:
the watcher, a triggered loop and a refresh go on, and tailscaled is started
again after an outage; the ticker is not among them, since `FollowsNetmap` is
about the trigger alone, and is a hypothesis of `EventuallyCurrent`.
`CentralPeers`: refreshes go on, and a request that has begun does so under
strong fairness, since a refresh takes `manualMu` again and again but a writer
waiting for an `RWMutex` is let in before the next reader; with weak fairness
TLC finds a request that waits for ever. Nobody has to ask, edit or start Central.

**Restrictions of the passing runs**, all named in the constants: the first
`NotModifiedMeansCurrent` run lets only service queries fail before their
instant is known and restarts no Agent; `StartsFromItsOwnFile` needs names that
do not clash; `agentservices_*` only remove services by their own type's
endpoint; `agentlisten_policy` excludes overlap; `AttrsAsAsked` speaks of a
Central not reloaded, or that wants no attributes. What happens beyond each is in
the next section; the hazards that lie there say so in their notes.

## 4. What the code does otherwise than it says

With a run:

1. `collector_lost_health`. The service query's `Last-Modified` is remembered
   when the response is read (collector.go:594), but the list is dropped when
   the health query fails (426, 464). The next 304 stands for a list Central
   never stored, until the Agent's services change again.
2. `refreshloop_switched_off`. The watcher has the `node_attrs` it was started
   with (collector.go:191). A reload that switches it off clears the attributes
   once (central/server.go:124), and the next netmap brings them back, although
   the attributes are to be ignored altogether (docs/node-attrs.md:159,
   config/central.go:50).

Without one, each reproduced by changing the constants named:

- `collector_reload` with `OldAgents = {}`, `MaxRestarts = 0` and the property
  `TimeoutMeansNoAnswer`: `POST /reload` starts the refresh with `r.Context()`
  (central/mgmt.go:83), which ends when the handler returns. Peers are published
  as `timeout` although every Agent answered.
- `agentservices_requests` with `MayMistype = TRUE`: `RuntimeRealisesConfig`.
  `service/remove` accepts the name of a bucket or a proxy and removes its
  registry entry and its health check (server.go:972).
- `healthchecker_checks` with `HealthIsOfConfiguredCheck`: a cancelled check
  writes into the entry that replaced its own (health.go:130); an entry without
  a check may keep it.
- `agentlisten_policy` with `Overlap = TRUE`: `OffMeansOff`. `LoadNodeAttrs`
  authorizes what it read before a reload that switched the attributes off
  (server.go:250).
- `refreshloop_follow` with `FollowedWhenOn`: a reload asks tailscaled, the
  netmap changes and the watcher stores the new attributes, and then the reload
  stores the old ones (discovery.go:69-76), until the next netmap.
- Garbled body of a service response, `collector_reliable` with `Faults =
  {<<"svc", "decode">>}`: as 1, within one query (`NotModifiedMeansCurrent`).
- An Agent restart after its instants ran ahead of the clock,
  `collector_reliable` with `MaxRestarts = 1`, `MaxModified = 2`: the new list
  may have an earlier or the same instant (`NotModifiedMeansCurrent`).
- Overlapping refreshes, `collector_reliable` with `Reloads = {r1}`: the older
  list is stored beside the newer header (`NotModifiedMeansCurrent`).
- Two savers, `Savers = {s1, s2}`: `FileNeverGoesBack`. The snapshot is taken
  before `saveMu`.
- No fault at all, `MaxTime = 0`: `EventuallyCurrentHealth`. Updating an entry
  drops its health without touching `healthModifiedAt`; Central goes on
  inheriting the one it has.
- `agentservices_crash` with `MayClash = TRUE`, `MaxSaveFailures = 0`:
  `StartsFromItsOwnFile`. An add that clashes is in the file until it is rolled
  back; a crash in between leaves a file that does not start.
- `agentservices_requests` with `MaxSaveFailures = 1`: `FileHoldsConfig`, when
  the save of the rollback is what fails.
- `agentservices_requests` with `MayMistype = TRUE`: also `RefusedChangesNothing`, a
  mistyped remove that is refused at its second step has changed the first, and
  `BucketsSurviveReload`, since it frees a name in the registry alone, which
  another service may take: a reload then makes one of the two and undoes the other.
- `agentservices_requests` with a file among the `Edits` that names a service
  twice: `RuntimeRealisesConfig`, `RefusedChangesNothing` and
  `BucketsSurviveReload`. A reload adopts the file as it is (server.go:328), only
  logs what could not be added, and keeps both entries in the configuration.
- `agentservices_requests` with `MaxSaveFailures = 1`: the same three. The file
  keeps the clashing add whose rollback was not saved, and the next reload reads it.
- `agentlisten_policy` with `Overlap = TRUE`: `ServedWhereConfigured`, since the
  watcher may override the configured port between `Start` reading it
  (server.go:416) and the server being known (462), and then no rebind follows;
  `AnnouncedIsCurrent`, since neither that override nor a reload
  that takes it back moves the instant (in a registry without services); `FollowsPolicy`,
  since a reload may commit tags it read before the watcher committed newer ones.

Visible in the model's text rather than in a run: the watcher is given
`node_attrs` once (daemon.go:70), so an Agent started with it off does not follow
the policy after a reload that switches it on, although the switch "支持热重载"
(docs/node-attrs.md:159), which is why `FollowsPolicy` speaks of `watchesAttrs`;
attributes that become invalid withdraw the tags but leave the overridden port
until a reload (configWithNodeAttrs works on the overridden copy); and a port
that could not be bound is tried again only when the next netmap comes. On
Central's side, a start with `node_attrs` off and a reload that switches it on
read the attributes once and never follow them; a manual peer without a port
gets the configured one even where the attributes give discovered peers another
(collector.go:707); an add or remove saves `s.cfg`, so that an edit by hand that
was not reloaded is overwritten; a reload that fails to parse refreshes all the
same; and a default file whose writing was cut off (paths.go:82-91) is not
noticed until the next start or reload, which it fails.

## 5. Proofs

`tlapm M.tla`. The proofs hold for every value of the constants that satisfies
the ASSUMEs of the modules (finite sets of names, bounds that are numbers, model
values that differ), which TLC evaluates in the runs. TLC checked each inductive
invariant below, on instances of the runs' size, before its proof was written.
Every safety property that a passing run checks is the statement of a theorem;
a hypothesis it needs is named, and what TLC finds without it is in §4.

**`CollectorProofs`**
- The registry's operators keep `RegistryState`; `PutAdvances` and
  `RemoveAdvances`: the instant of the list moves strictly forward, whatever the
  clock does; `UpdateHealthKeepsServices`: a health result leaves list and instant.
- `TypeCorrect`, `Spec => []TypeOK`. `TypeOK` alone is not inductive: between
  `Merge` and `Store` the merged result must be a record, so `TypeInv` adds that.
- `TargetsAlwaysMatchPeers`, `Spec => []TargetsMatchPeers`, with any number of
  overlapping refreshes. `Publish` replaces peers and targets by a refresh's
  locals, so the invariant (`ScrapeInv`) says of every refresh that its `found`
  are the targets of its `list`; that needs (`ListInv`) that no peer is ok before
  it was queried and that a peer still to do is not ok yet, or its old targets
  would remain.

The next three are about a collector without overlapping reloads (`LoopOnly`):
- `NotModifiedAlwaysUsable`. `UsableInv` ties each request to where the refresh
  is, and says that a conditional request that is out, or a 304 not yet merged,
  has its peer in the cache: the loop evicts only after its last merge.
- `NotModifiedAlwaysCurrent`, also assuming that health requests do not fail
  and no Agent restarts (`HealthNeverFails`; finding 1 and the restart show
  why). `CurrentInv` follows the list of the Agent's present instant through
  every place it may be: the response (`body` when its `lm` is the Agent's
  instant), the finished query, the merged result, and the cache unless the
  answer is still `Pending`. An answer built around a change carries an instant
  that the change has passed, by `PutAdvances`, so it is asked for again.
- `OutageAlwaysKeepsServices`. `KeptInv` says that whatever is published or
  listed and not older than the TTL has its like in the cache (`Backed`), and
  that a refresh has settled for nothing older than what is published. `DatesInv`
  makes that inductive: nothing in cache, file, snapshot or list is of the
  future, nor later than the instant a refresh under way began with, so that the
  list it writes is not newer than what it evicts by. An older refresh that
  overlaps would publish last.

**`ListsProofs`**: what filtering a slice leaves: the kept entries in their order
(`KeptInOrder`), as many as were kept and each as often (`KeptEntries`), and
everything when all are kept (`KeptAll`). `Kept` says it by positions, without recursion: the i-th entry
is the one with i - 1 kept positions before it.

**`AgentServicesProofs`**
- `TypeCorrect`, for any constants. `TypeInv` adds which operation goes with
  which phase and call, and that a reload drops only what is registered.
- `RuntimeAlwaysRealisesConfig`, `RefusalsChangeNothing`,
  `BucketsAlwaysSurviveReload`, under `Ordinary`: a service is removed by its own
  type's endpoint, no edit names a service twice, and names do not clash unless
  every save succeeds. `ServicesInv` says, for every name, what registry, stores
  and checks hold of it at each point of each operation: a name that the call
  under way is not about is as the configuration has it (`AsIn`), or, in a
  reload, as the old one had it while it is still to drop, absent while it is
  still to load, and as the new one has it after that. The call's own name goes
  through the states of an add, a remove or an update (`Adding` and its like); a
  clashing add, which has two services under one name until its undo, has its
  own description (`Clashing`), which ends where the request began, so that a
  refusal is seen to restore `op.before`. `StartInv` says the same of the start,
  where a name used twice is what keeps the Agent from coming up.
- `FileAlwaysHoldsConfig`, under `Ordinary`, and wherever every save succeeds
  (`MaxSaveFailures = 0`) for any requests and files, mistyped removes and
  services named twice included: `WrittenInv` has the file equal to the
  configuration except from a request's save to its commit or rollback.
- `OwnFileAlwaysStarts`, with names that do not clash (`OwnFile`): `OwnFileInv`
  says of file, configuration and both sides of a request that they name every
  service once, and `StartInv` then lets no step of the start fail.

**`CentralPeersProofs`**, for any constants:
- `AppendedPeer` and `FilteredPeers`: what an add and a remove make of the list
  in the file, where an address may be several times and its last entry counts.
- `TypeCorrect`; no published port is 0.
- `RuntimeAlwaysHoldsConfig` and `CliPeersAlwaysSurviveReload`. `PeersInv` says
  that the manual peers are those of the configuration (`Holds`) or, at the commit of a
  request, those of what it is about to become, and that a rollback is that of
  a remove that found nothing, so that it takes nothing back.
- `AcknowledgedIsAlwaysDurable`. `FileInv` says that once something was answered
  and nobody edits, file and configuration differ only while a request is
  carried out, and that what was said of an address is so in the configuration
  while Central runs and in the file while it does not.

**`HealthCheckerProofs`**: `TypeCorrect`, `AlwaysOneLiveCheck`. `ChecksInv` says
that the stored cancel functions are those of the live checks, one per name, and
that apart from the name under work they are as configured; `OpInv` that an
operation past `Unregister` finds no check. A second check of one name would
come from registering over a live one, which `OpInv` rules out.

**`AgentListenProofs`**: `TypeCorrect` in general, the rest under `OneAtATime`,
that is `Overlap = FALSE` (§4 shows what each loses otherwise). `TurnInv` says that
the goroutines take turns. `AlwaysServedWhereConfigured` from `ServedInv`, which
follows the second address of a move from `Bind` to `CloseOld` and says that a
reload adopts the address it moved to; `OffAlwaysMeansOff` from `TagsInv`, which
says it of the tags about to be committed too; `AlwaysAnnouncedCurrent` from
`AnnouncedInv`, by which a client with the present instant has the present
address unless the instant is about to move.

**`RefreshLoopProofs`**: `TypeCorrect`; `NoChangeIsLost` from `LookInv`, which says
where a change that is not seen yet is (bus, watcher, channel, or a loop that has
yet to read); `StepsFollow`, the safety half of `FollowsNetmap`, from the same;
`AttrsAlwaysAsAsked` from `WatchedInv` (where the policy's attributes are, while
nothing was reloaded) and `UnwatchedInv` (who may store any, one reload at a time).

**`AgentRequestsProofs`**: `TypeCorrect`, `PagesHaveNoDuplicates`,
`AlwaysDecidedUnderOneSetting`. `IsGroups` says that a bucket's groups are a
function from label sets to families; every push keeps it, and what a scrape
shows is then an `IsPage`. `JudgingInv` says that the settings in force, and the
copy a push is judged by, are among those there were since it arrived; the
decision itself (`AdmitsIsEntitled`) is the documented rule on one copy.
`RequestsImplementStore`, `Spec => ImplementsStore`, is the whole refinement (the
abstract specification has no fairness): initial states and each action map to
the store's. `HoldsInv` is what this takes: no two names share an object, and a
request in hand holds its name's object, or, when it is in `gone`, one that no
name will lead to again.

**Only model-checked.** Liveness, which is beyond the prover: `EventuallyCurrent`
(of `Collector` and of `RefreshLoop`), `ConfiguredCheckPrevails`,
`CancelledChecksEnd`, `FollowsPolicy`, `EventuallyMerged`, and the fairness of
`FollowsNetmap`. The counterexamples of §4 are TLC's as well.

## 6. Not modelled

- Transport, command line, self metrics, service installation, version and
  packaging: no state of their own, or written once.
- Readers of Central's peer list (`/api/v1/sd` with its bearer token, the status
  handlers), and with them the unsynchronized write of fresh health into a slice
  the published list shares (collector.go:445): the model has the shared slice as
  part of the cache only.
- A proxied scrape: one HTTP exchange with no state but its response.
- The shutdown of both daemons and their signals: a crash at the same point does
  less, and is modelled where something is persisted.
- The Prometheus text format: parsing a push is a push that parses or does not
  (400). A family with different types or help texts in two groups is one family.
- How WhoIs finds a caller: it answers or it does not.
- Variable substitution in targets, the choice among a node's addresses by
  family, wording and formats.
- Durations except the TTL: a tick or a timeout may come at any time.

## 7. Plan

Done, in this order, the conditional requests between the two daemons being the
heart of the system: `Registry`, `Collector`, `AgentServices`, `HealthChecker`,
`AgentListen`; then `RefreshLoop` with `NetmapFollower`, `CentralPeers`,
`AgentRequests` with `BucketStore`; and the proofs above. Next:

1. Abstract specifications, with the refinement proved: `HealthChecker`
   implements the set of checks that `AgentServices` has; the collector's cache of
   one peer implements a register that is only ever set to lists the Agent had.
2. The weaker promises that overlapping reloads keep: which of
   `OutageKeepsServices` and the 304 properties hold of a peer at the end of the
   last of the refreshes that overlap.
