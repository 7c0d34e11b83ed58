---------------------------- MODULE Collector ----------------------------
(***************************************************************************)
(* Central's collector (internal/central/collector.go) and the Agents it   *)
(* polls.  A refresh discovers the peers, asks each online one for its     *)
(* service list and its health map with conditional requests, merges the   *)
(* answers into the service cache and publishes the peer list and the      *)
(* scrape targets.  Refreshes run on the ticker loop and, concurrently, in *)
(* one goroutine per POST /reload; each spawns a goroutine that saves the  *)
(* cache to disk.                                                          *)
(*                                                                         *)
(* One step is one critical section, one request leg or one local          *)
(* computation of the code, so everything another goroutine can do in      *)
(* between happens here too.                                               *)
(***************************************************************************)
EXTENDS Registry

CONSTANTS
    Peers,          \* Agents, named by their Tailscale IP
    ManualPeers,    \* peers configured by hand as well
    OldAgents,      \* Agents without /api/v1/services/health
    Loop,           \* the refresh loop of Run
    Reloads,        \* refreshes started by POST /reload
    Savers,         \* savePeerCache goroutines; {} when there is no peersFile
    NetmapStates,   \* what Tailscale may say of a peer
    TailscaleFails, \* whether the local tailscaled may be unreachable
    Faults,         \* the query failures that may happen: <<query, failure>>
    TTL,            \* serviceHistoryTTL, in the clock's unit
    MaxTime,        \* bound of the clock
    MaxModified,    \* bound of an Agent's Last-Modified instants
    MaxFaults, MaxRestarts, MaxCrashes  \* how often each may happen

Kinds == {"svc", "health"}
Failures == {"timeout", "unauthorized", "decode"}
Refreshers == {Loop} \cup Reloads

ASSUME CollectorAssumption ==
    /\ ManualPeers \subseteq Peers
    /\ OldAgents \subseteq Peers
    /\ Loop \notin Reloads
    /\ NetmapStates \subseteq {"online", "offline", "absent"}
    /\ NetmapStates # {}
    /\ TailscaleFails \in BOOLEAN
    /\ Faults \subseteq Kinds \X Failures
    /\ {TTL, MaxTime, MaxModified, MaxFaults, MaxRestarts, MaxCrashes} \subseteq Nat

VARIABLES
    \* The world: Agents' registries, the clock, Tailscale, the disk.
    agents, clock, netmap, tailscaleUp, file, budget,
    \* The collector's shared state.
    serviceCache, lastModified, peers, targets, tsDown,
    \* Locals of each refresh, and the goroutines that save the cache.
    pc, cancelled, now, list, query, todo, merged, found, expired, saver

world == <<agents, clock, netmap, tailscaleUp, file>>
shared == <<serviceCache, lastModified, peers, targets, tsDown>>
locals == <<pc, cancelled, now, list, query, todo, merged, found, expired>>
vars == <<world, budget, shared, locals, saver>>

\* f is a map from some of the elements of D to elements of R.
PartialMap(f, D, R) == DOMAIN f \subseteq D /\ f \in [DOMAIN f -> R]

NoTime == -1
Times == Nat \cup {NoTime}
Cached == [services: Services, fetchedAt: Nat]
EmptyCache == [p \in {} |-> NoTime]

Healthy == "ok"
AgentHealth == {"ok", "unknown", "timeout", "unauthorized", "offline"}
PeerInfo == [health: AgentHealth, services: Services, updatedAt: Times]
EmptyList == [p \in {} |-> NoTime]

\* One scrape target as published: an address and labels, which say whose.
Published == Peers \X Names \X Targets

\* A request and what came of it.  res is the status the Agent answered, or
\* the failure.
Query == [st: {"idle", "sent", "listing", "answered", "done"},
          ims: Times, lm: Times, body: Services \cup HealthMap,
          res: {"none", "200", "304", "404", "timeout", "unauthorized"}]
NoQuery == [st |-> "idle", ims |-> NoTime, lm |-> NoTime,
            body |-> NoServices, res |-> "none"]
\* A finished query keeps its outcome and its body, and nothing else.
Done(q, res) == [NoQuery EXCEPT !.st = "done", !.res = res, !.body = q.body]
NoQueries == [p \in Peers |-> [k \in Kinds |-> NoQuery]]

Budget == [fault : Nat, restart : Nat, crash : Nat]

Merged == [peer: Peers, services: Services]
NothingMerged == [peer |-> NoTime, services |-> NoServices]

IdleSaver == [st |-> "idle", snapshot |-> EmptyCache]

-----------------------------------------------------------------------------
(* Agents: what one does of its own accord, as Central can tell.           *)

\* A registry as start-up leaves it at instant t: one add per configured
\* service, all within one second.
Booted(services, t) ==
    [entries |-> WithoutHealth(services),
     svcModifiedAt |-> t + Cardinality(DOMAIN services),
     healthModifiedAt |-> t]

BootServices == {WithoutHealth(s) : s \in Services}

\* An entry is added or replaced, removed, or its resolved addresses change.
AgentChanges(p) ==
    /\ agents[p].svcModifiedAt < MaxModified
    /\ \/ \E n \in Names, t \in Targets :
            agents' = [agents EXCEPT ![p] = Put(@, n, t, clock)]
       \/ \E n \in DOMAIN agents[p].entries :
            agents' = [agents EXCEPT ![p] = Remove(@, n, clock)]
    /\ UNCHANGED <<clock, netmap, tailscaleUp, file, budget, shared, locals, saver>>

\* A health check of p writes a result.
AgentChecks(p) ==
    /\ agents[p].healthModifiedAt < MaxModified
    /\ \E n \in DOMAIN agents[p].entries, h \in HealthStates :
        agents' = [agents EXCEPT ![p] = UpdateHealth(@, n, h, clock)]
    /\ UNCHANGED <<clock, netmap, tailscaleUp, file, budget, shared, locals, saver>>

\* p is restarted with whatever its configuration file now lists.  Requests
\* it was answering die with it.
AgentRestarts(p) ==
    /\ budget.restart > 0
    /\ budget' = [budget EXCEPT !.restart = @ - 1]
    /\ \E s \in BootServices : agents' = [agents EXCEPT ![p] = Booted(s, clock)]
    /\ query' = [r \in Refreshers |-> [query[r] EXCEPT ![p] =
                    [k \in Kinds |->
                        IF @[k].st = "listing"
                        THEN Done(NoQuery, "timeout")
                        ELSE @[k]]]]
    /\ UNCHANGED <<clock, netmap, tailscaleUp, file, shared, pc, cancelled, now,
                   list, todo, merged, found, expired, saver>>

Tick ==
    /\ clock < MaxTime
    /\ clock' = clock + 1
    /\ UNCHANGED <<agents, netmap, tailscaleUp, file, budget, shared, locals, saver>>

NetmapChanges ==
    /\ \E p \in Peers : \E s \in NetmapStates \ {netmap[p]} : netmap' = [netmap EXCEPT ![p] = s]
    /\ UNCHANGED <<agents, clock, tailscaleUp, file, budget, shared, locals, saver>>

TailscaleFlips ==
    /\ TailscaleFails
    /\ tailscaleUp' = ~tailscaleUp
    /\ UNCHANGED <<agents, clock, netmap, file, budget, shared, locals, saver>>

-----------------------------------------------------------------------------
(* A refresh.                                                              *)

\* The ticker or a queued trigger (Loop), or POST /reload.
Start(r) ==
    /\ pc[r] = "idle"
    /\ pc' = [pc EXCEPT ![r] = "start"]
    /\ UNCHANGED <<world, budget, shared, cancelled, now, list, query, todo,
                   merged, found, expired, saver>>

\* The handler of POST /reload returns, which cancels r.Context(), the
\* context its refresh goroutine runs under.
HandlerReturns(r) ==
    /\ r \in Reloads
    /\ pc[r] # "idle"
    /\ ~cancelled[r]
    /\ cancelled' = [cancelled EXCEPT ![r] = TRUE]
    /\ UNCHANGED <<world, budget, shared, pc, now, list, query, todo, merged,
                   found, expired, saver>>

\* The peers of a netmap, merged with the manual ones.
Discovered(nm) ==
    [p \in {x \in Peers : nm[x] # "absent" \/ x \in ManualPeers} |->
        [health |-> IF nm[p] = "offline" THEN "offline" ELSE "unknown",
         services |-> NoServices, updatedAt |-> NoTime]]

Discover(r) ==
    /\ pc[r] = "start"
    /\ tailscaleUp
    /\ ~cancelled[r]
    /\ tsDown' = FALSE
    /\ list' = [list EXCEPT ![r] = Discovered(netmap)]
    /\ pc' = [pc EXCEPT ![r] = "discovered"]
    /\ UNCHANGED <<world, budget, serviceCache, lastModified, peers, targets,
                   cancelled, now, query, todo, merged, found, expired, saver>>

DiscoverFails(r) ==
    /\ pc[r] = "start"
    /\ ~tailscaleUp \/ cancelled[r]
    /\ tsDown' = TRUE
    /\ pc' = [pc EXCEPT ![r] = "idle"]
    /\ cancelled' = [cancelled EXCEPT ![r] = FALSE]
    /\ UNCHANGED <<world, budget, serviceCache, lastModified, peers, targets,
                   now, list, query, todo, merged, found, expired, saver>>

FreshOffByOne(p, t) ==      \* mutant: < for <=
    p \in DOMAIN serviceCache /\ t - serviceCache[p].fetchedAt < TTL

Fresh(p, t) == p \in DOMAIN serviceCache /\ t - serviceCache[p].fetchedAt <= TTL

\* peer with its last known services, while they are recent enough.
WithCached(peer, p, t) ==
    IF Fresh(p, t)
    THEN [peer EXCEPT !.services = serviceCache[p].services,
                      !.updatedAt = serviceCache[p].fetchedAt]
    ELSE peer

Offline(r) == {p \in DOMAIN list[r] : list[r][p].health = "offline"}
Asked(r) == DOMAIN list[r] \ Offline(r)

RestoreOffline(r) ==
    /\ pc[r] = "discovered"
    /\ now' = [now EXCEPT ![r] = clock]
    /\ list' = [list EXCEPT ![r] = [p \in DOMAIN @ |->
                    IF p \in Offline(r) THEN WithCached(@[p], p, clock) ELSE @[p]]]
    /\ pc' = [pc EXCEPT ![r] = "query"]
    /\ UNCHANGED <<world, budget, shared, cancelled, query, todo, merged, found,
                   expired, saver>>

-----------------------------------------------------------------------------
(* The two requests to each peer, all of them concurrent.                  *)

\* Only the query changes.
Answers(r, p, k, q) ==
    /\ query' = [query EXCEPT ![r][p][k] = q]
    /\ UNCHANGED <<world, shared, pc, cancelled, now, list, todo, merged, found,
                   expired, saver>>

IfModifiedSinceAlways(p, k) == lastModified[k][p]   \* mutant: no hasServiceCache

\* Only sent while the services a 304 would stand for are cached.
IfModifiedSince(p, k) ==
    IF p \in DOMAIN serviceCache THEN lastModified[k][p] ELSE NoTime

Send(r, p, k) ==
    /\ pc[r] = "query"
    /\ ~cancelled[r]
    /\ p \in Asked(r)
    /\ query[r][p][k].st = "idle"
    /\ Answers(r, p, k, [NoQuery EXCEPT !.st = "sent",
                                       !.ims = IfModifiedSince(p, k)])
    /\ UNCHANGED budget

ModifiedAt(p, k) ==
    IF k = "svc" THEN agents[p].svcModifiedAt ELSE agents[p].healthModifiedAt

Listing(p, k) ==
    IF k = "svc" THEN ListWithoutHealth(agents[p]) ELSE ListHealth(agents[p])

\* The Agent reads the modification instant first, answers 304 if the client
\* has it, and otherwise takes the list under another lock.
Serve(r, p, k) ==
    /\ query[r][p][k].st = "sent"
    /\ Answers(r, p, k,
        IF k = "health" /\ p \in OldAgents
        THEN [query[r][p][k] EXCEPT !.st = "answered", !.res = "404"]
        ELSE IF ModifiedAt(p, k) <= query[r][p][k].ims
        THEN [query[r][p][k] EXCEPT !.st = "answered", !.res = "304"]
        ELSE [query[r][p][k] EXCEPT !.st = "listing", !.lm = ModifiedAt(p, k)])
    /\ UNCHANGED budget

List(r, p, k) ==
    /\ query[r][p][k].st = "listing"
    /\ Answers(r, p, k, [query[r][p][k] EXCEPT !.st = "answered", !.res = "200",
                                               !.body = Listing(p, k)])
    /\ UNCHANGED budget

\* lastModified once the header of a response to q has been read.
Noted(p, k, q) ==
    IF q.res = "200" THEN [lastModified EXCEPT ![k][p] = q.lm] ELSE lastModified

Receive(r, p, k) ==
    /\ query[r][p][k].st = "answered"
    /\ query' = [query EXCEPT ![r][p][k] = Done(@, @.res)]
    /\ lastModified' = Noted(p, k, query[r][p][k])
    /\ UNCHANGED <<world, budget, serviceCache, peers, targets, tsDown, pc,
                   cancelled, now, list, todo, merged, found, expired, saver>>

\* A failure of the environment, or of a request whose context is cancelled.
MayFail(r, k, f) ==
    \/ cancelled[r] /\ f # "unauthorized" /\ UNCHANGED budget
    \/ /\ <<k, f>> \in Faults
       /\ budget.fault > 0
       /\ budget' = [budget EXCEPT !.fault = @ - 1]

\* The header arrives, and its Last-Modified is noted, but not the body.
Garble(r, p, k) ==
    /\ query[r][p][k].st = "answered"
    /\ query[r][p][k].res = "200"
    /\ MayFail(r, k, "decode")
    /\ query' = [query EXCEPT ![r][p][k] = Done(NoQuery, "timeout")]
    /\ lastModified' = Noted(p, k, query[r][p][k])
    /\ UNCHANGED <<world, serviceCache, peers, targets, tsDown, pc, cancelled,
                   now, list, todo, merged, found, expired, saver>>

\* No usable answer: connection refused or lost, deadline, HTTP 5xx.
TimeOut(r, p, k) ==
    /\ pc[r] = "query"
    /\ p \in Asked(r)
    /\ \/ query[r][p][k].st \in {"sent", "listing", "answered"}
       \/ query[r][p][k].st = "idle" /\ cancelled[r]
    /\ MayFail(r, k, "timeout")
    /\ Answers(r, p, k, Done(NoQuery, "timeout"))

\* The Agent refuses the token, before its handler looks at the registry.
Refuse(r, p, k) ==
    /\ query[r][p][k].st = "sent"
    /\ MayFail(r, k, "unauthorized")
    /\ Answers(r, p, k, Done(NoQuery, "unauthorized"))

Join(r) ==
    /\ pc[r] = "query"
    /\ \A p \in Asked(r), k \in Kinds : query[r][p][k].st = "done"
    /\ todo' = [todo EXCEPT ![r] = Asked(r)]
    /\ pc' = [pc EXCEPT ![r] = "apply"]
    /\ UNCHANGED <<world, budget, shared, cancelled, now, list, query, merged,
                   found, expired, saver>>

-----------------------------------------------------------------------------
(* Applying the results, publishing, saving.                               *)

WorseHealthFirst(a, b) == IF a = "200" THEN b ELSE a   \* mutant: not mapped

\* The health of a peer two of whose queries ended as a and b: the worse.
WorseHealth(a, b) ==
    IF "unauthorized" \in {a, b} THEN "unauthorized"
    ELSE IF "timeout" \in {a, b} THEN "timeout"
    ELSE Healthy

Outcome(r, p) == WorseHealth(query[r][p]["svc"].res, query[r][p]["health"].res)

CachedServices(p) ==
    IF p \in DOMAIN serviceCache THEN serviceCache[p].services ELSE NoServices

\* services with the health map laid over it; a name the map lacks keeps
\* what it had.
Overlay(services, healthMap) ==
    [n \in DOMAIN services |->
        IF n \in DOMAIN healthMap
        THEN [services[n] EXCEPT !.health = healthMap[n]] ELSE services[n]]

InheritCachedHealth(services, old) ==
    [n \in DOMAIN services |->
        IF services[n].health = NoHealth /\ n \in DOMAIN old
        THEN [services[n] EXCEPT !.health = old[n].health] ELSE services[n]]

BaseServicesOfBody(r, p) == query[r][p]["svc"].body    \* mutant: 304 ignored

BaseServices(r, p) ==
    IF query[r][p]["svc"].res = "304" THEN CachedServices(p)
    ELSE query[r][p]["svc"].body

MergedServices(r, p) ==
    IF query[r][p]["health"].res = "200"
    THEN Overlay(BaseServices(r, p), query[r][p]["health"].body)
    ELSE IF query[r][p]["health"].res = "304" /\ query[r][p]["svc"].res # "304"
    THEN InheritCachedHealth(BaseServices(r, p), CachedServices(p))
    ELSE BaseServices(r, p)

\* On a 304 the slice merged into is the cached one itself.
Merge(r, p) ==
    /\ pc[r] = "apply"
    /\ p \in todo[r]
    /\ Outcome(r, p) = Healthy
    /\ merged' = [merged EXCEPT ![r] = [peer |-> p, services |-> MergedServices(r, p)]]
    /\ serviceCache' =
        IF query[r][p]["svc"].res = "304" /\ p \in DOMAIN serviceCache
        THEN [serviceCache EXCEPT ![p].services = MergedServices(r, p)]
        ELSE serviceCache
    /\ pc' = [pc EXCEPT ![r] = "merged"]
    /\ UNCHANGED <<world, budget, lastModified, peers, targets, tsDown, cancelled,
                   now, list, query, todo, found, expired, saver>>

TargetsOf(p, services) == {<<p, n, services[n].target>> : n \in DOMAIN services}

Store(r) ==
    /\ pc[r] = "merged"
    /\ LET p == merged[r].peer
           s == merged[r].services
       IN  /\ serviceCache' = [x \in DOMAIN serviceCache \cup {p} |->
                IF x = p THEN [services |-> s, fetchedAt |-> now[r]]
                         ELSE serviceCache[x]]
           /\ list' = [list EXCEPT ![r][p] =
                [health |-> Healthy, services |-> s, updatedAt |-> now[r]]]
           /\ found' = [found EXCEPT ![r] = @ \cup TargetsOf(p, s)]
           /\ todo' = [todo EXCEPT ![r] = @ \ {p}]
    /\ merged' = [merged EXCEPT ![r] = NothingMerged]
    /\ pc' = [pc EXCEPT ![r] = "apply"]
    /\ UNCHANGED <<world, budget, lastModified, peers, targets, tsDown, cancelled,
                   now, query, expired, saver>>

RestoreAndScrape(r, p) ==       \* mutant: keeps scraping the unreachable
    /\ pc[r] = "apply"
    /\ p \in todo[r]
    /\ Outcome(r, p) # Healthy
    /\ list' = [list EXCEPT ![r][p] =
                    WithCached([@ EXCEPT !.health = Outcome(r, p)], p, now[r])]
    /\ todo' = [todo EXCEPT ![r] = @ \ {p}]
    /\ found' = [found EXCEPT ![r] = @ \cup TargetsOf(p, CachedServices(p))]
    /\ UNCHANGED <<world, budget, shared, pc, cancelled, now, query, merged,
                   expired, saver>>

Restore(r, p) ==
    /\ pc[r] = "apply"
    /\ p \in todo[r]
    /\ Outcome(r, p) # Healthy
    /\ list' = [list EXCEPT ![r][p] =
                    WithCached([@ EXCEPT !.health = Outcome(r, p)], p, now[r])]
    /\ todo' = [todo EXCEPT ![r] = @ \ {p}]
    /\ UNCHANGED <<world, budget, shared, pc, cancelled, now, query, merged,
                   found, expired, saver>>

EvictExpired(r) ==
    /\ pc[r] = "apply"
    /\ todo[r] = {}
    /\ expired' = [expired EXCEPT ![r] = {p \in DOMAIN serviceCache : ~Fresh(p, now[r])}]
    /\ serviceCache' = [p \in {x \in DOMAIN serviceCache : Fresh(x, now[r])} |-> serviceCache[p]]
    /\ pc' = [pc EXCEPT ![r] = "forget"]
    /\ UNCHANGED <<world, budget, lastModified, peers, targets, tsDown, cancelled,
                   now, list, query, todo, merged, found, saver>>

Forget(r) ==
    /\ pc[r] = "forget"
    /\ lastModified' = [k \in Kinds |-> [p \in Peers |->
                            IF p \in expired[r] THEN NoTime ELSE lastModified[k][p]]]
    /\ expired' = [expired EXCEPT ![r] = {}]
    /\ pc' = [pc EXCEPT ![r] = "publish"]
    /\ UNCHANGED <<world, budget, serviceCache, peers, targets, tsDown, cancelled,
                   now, list, query, todo, merged, found, saver>>

\* Spawns savePeerCache, which returns at once when there is no peersFile.
Publish(r) ==
    /\ pc[r] = "publish"
    /\ peers' = list[r]
    /\ targets' = found[r]
    /\ IF Savers = {}
       THEN UNCHANGED saver
       ELSE \E s \in Savers : /\ saver[s].st = "idle"
                              /\ saver' = [saver EXCEPT ![s].st = "spawned"]
    /\ pc' = [pc EXCEPT ![r] = "idle"]
    /\ cancelled' = [cancelled EXCEPT ![r] = FALSE]
    /\ list' = [list EXCEPT ![r] = EmptyList]
    /\ found' = [found EXCEPT ![r] = {}]
    /\ query' = [query EXCEPT ![r] = NoQueries]
    /\ now' = [now EXCEPT ![r] = 0]
    /\ UNCHANGED <<world, budget, serviceCache, lastModified, tsDown, todo, merged,
                   expired>>

SaveSnapshot(s) ==
    /\ saver[s].st = "spawned"
    /\ saver' = [saver EXCEPT ![s] = [st |-> "writing", snapshot |-> serviceCache]]
    /\ UNCHANGED <<world, budget, shared, locals>>

\* AtomicWriteJSON renames a complete file into place.
SaveWrite(s) ==
    /\ saver[s].st = "writing"
    /\ file' = saver[s].snapshot
    /\ saver' = [saver EXCEPT ![s] = IdleSaver]
    /\ UNCHANGED <<agents, clock, netmap, tailscaleUp, budget, shared, locals>>

-----------------------------------------------------------------------------

\* What loadPeerCache takes from the file at instant t.
Loaded(t) ==
    [p \in {x \in DOMAIN file : t - file[x].fetchedAt <= TTL} |-> file[p]]

Fresh0 ==   \* the locals of a collector that has just been started
    /\ pc' = [r \in Refreshers |-> IF r = Loop THEN "start" ELSE "idle"]
    /\ cancelled' = [r \in Refreshers |-> FALSE]
    /\ now' = [r \in Refreshers |-> 0]
    /\ list' = [r \in Refreshers |-> EmptyList]
    /\ query' = [r \in Refreshers |-> NoQueries]
    /\ todo' = [r \in Refreshers |-> {}]
    /\ merged' = [r \in Refreshers |-> NothingMerged]
    /\ found' = [r \in Refreshers |-> {}]
    /\ expired' = [r \in Refreshers |-> {}]
    /\ saver' = [s \in Savers |-> IdleSaver]

\* Central stops at any point and starts again: only the file is left.
CentralRestarts ==
    /\ budget.crash > 0
    /\ budget' = [budget EXCEPT !.crash = @ - 1]
    /\ serviceCache' = Loaded(clock)
    /\ lastModified' = [k \in Kinds |-> [p \in Peers |-> NoTime]]
    /\ peers' = EmptyList
    /\ targets' = {}
    /\ tsDown' = FALSE
    /\ Fresh0
    /\ UNCHANGED world

Init ==
    /\ agents \in [Peers -> {Booted(s, 0) : s \in BootServices}]
    /\ clock = 0
    /\ netmap \in [Peers -> NetmapStates]
    /\ tailscaleUp = TRUE
    /\ file = EmptyCache
    /\ budget = [fault |-> MaxFaults, restart |-> MaxRestarts, crash |-> MaxCrashes]
    /\ serviceCache = EmptyCache
    /\ lastModified = [k \in Kinds |-> [p \in Peers |-> NoTime]]
    /\ peers = EmptyList
    /\ targets = {}
    /\ tsDown = FALSE
    /\ pc = [r \in Refreshers |-> IF r = Loop THEN "start" ELSE "idle"]
    /\ cancelled = [r \in Refreshers |-> FALSE]
    /\ now = [r \in Refreshers |-> 0]
    /\ list = [r \in Refreshers |-> EmptyList]
    /\ query = [r \in Refreshers |-> NoQueries]
    /\ todo = [r \in Refreshers |-> {}]
    /\ merged = [r \in Refreshers |-> NothingMerged]
    /\ found = [r \in Refreshers |-> {}]
    /\ expired = [r \in Refreshers |-> {}]
    /\ saver = [s \in Savers |-> IdleSaver]

World == \/ \E p \in Peers : AgentChanges(p) \/ AgentChecks(p) \/ AgentRestarts(p)
         \/ Tick \/ NetmapChanges \/ TailscaleFlips

QueryStep(r) == \E p \in Peers, k \in Kinds :
    Send(r, p, k) \/ Serve(r, p, k) \/ List(r, p, k) \/ Receive(r, p, k)

QueryFails(r) == \E p \in Peers, k \in Kinds :
    Garble(r, p, k) \/ TimeOut(r, p, k) \/ Refuse(r, p, k)

ApplyStep(r) ==
    \/ \E p \in Peers : Merge(r, p) \/ Restore(r, p)
    \/ Store(r) \/ EvictExpired(r) \/ Forget(r) \/ Publish(r)

\* What a refresh does when nothing fails under it.
Refresh(r) ==
    Start(r) \/ Discover(r) \/ DiscoverFails(r) \/ RestoreOffline(r)
    \/ QueryStep(r) \/ Join(r) \/ ApplyStep(r)

Save(s) == SaveSnapshot(s) \/ SaveWrite(s)

Next == \/ World
        \/ \E r \in Refreshers : Refresh(r) \/ QueryFails(r) \/ HandlerReturns(r)
        \/ \E s \in Savers : Save(s)
        \/ CentralRestarts

Spec == Init /\ [][Next]_vars

\* The ticker never stops and every request ends within the client's
\* timeout, so the loop keeps moving; savers are goroutines that never wait
\* on anything but the disk.  Nothing obliges an Agent, the netmap, a fault
\* or an operator to act.
Fairness == WF_vars(Refresh(Loop)) /\ \A s \in Savers : WF_vars(Save(s))
FairSpec == Spec /\ Fairness
-----------------------------------------------------------------------------
(* Properties.                                                             *)

\* Every variable holds a value of its kind.
TypeOK ==
    /\ agents \in [Peers -> RegistryState]
    /\ clock \in Nat
    /\ netmap \in [Peers -> {"online", "offline", "absent"}]
    /\ tailscaleUp \in BOOLEAN
    /\ PartialMap(file, Peers, Cached)
    /\ budget \in Budget
    /\ PartialMap(serviceCache, Peers, Cached)
    /\ lastModified \in [Kinds -> [Peers -> Times]]
    /\ PartialMap(peers, Peers, PeerInfo)
    /\ targets \subseteq Published
    /\ tsDown \in BOOLEAN
    /\ pc \in [Refreshers -> {"idle", "start", "discovered", "query", "apply",
                              "merged", "forget", "publish"}]
    /\ cancelled \in [Refreshers -> BOOLEAN]
    /\ now \in [Refreshers -> Nat]
    /\ DOMAIN list = Refreshers
    /\ \A r \in Refreshers : PartialMap(list[r], Peers, PeerInfo)
    /\ query \in [Refreshers -> [Peers -> [Kinds -> Query]]]
    /\ \A r \in Refreshers, p \in Peers :
        /\ query[r][p]["svc"].body \in Services
        /\ query[r][p]["health"].body \in HealthMap
    /\ todo \in [Refreshers -> SUBSET Peers]
    /\ merged \in [Refreshers -> Merged \cup {NothingMerged}]
    /\ found \in [Refreshers -> SUBSET Published]
    /\ expired \in [Refreshers -> SUBSET Peers]
    /\ DOMAIN saver = Savers
    /\ \A s \in Savers :
        /\ saver[s] = [st |-> saver[s].st, snapshot |-> saver[s].snapshot]
        /\ saver[s].st \in {"idle", "spawned", "writing"}
        /\ PartialMap(saver[s].snapshot, Peers, Cached)

\* Whether p would answer the collector's next service request with a 304.
WouldAnswer304(p) ==
    p \in DOMAIN serviceCache /\ agents[p].svcModifiedAt <= lastModified["svc"][p]

\* "the client already has the latest data" (agent/server.go:683-684): with
\* no refresh under way, an Agent that would answer 304 to the next request
\* for services is one whose present list is the cached one.  It relates
\* what Central remembers of the header to what it kept of the body, across
\* failed queries, restarts and concurrent refreshes.
NotModifiedMeansCurrent ==
    \A p \in Peers :
        (\A r \in Refreshers : pc[r] \in {"idle", "start"}) /\ WouldAnswer304(p)
            => WithoutHealth(serviceCache[p].services) = ListWithoutHealth(agents[p])

\* A 304 is only ever received while the services it stands for are still
\* cached (collector.go:562-564: "A stale Last-Modified without cached
\* services would make a 304 response unusable").
NotModifiedIsUsable ==
    \A r \in Refreshers : pc[r] = "apply" =>
        \A p \in todo[r] :
            query[r][p]["svc"].res = "304" => p \in DOMAIN serviceCache

\* What Prometheus is told to scrape is exactly the services of the peers
\* shown as ok, whatever refreshes overlap: an unreachable peer keeps its
\* services in the peer list but none of its targets.
TargetsMatchPeers ==
    targets = UNION {TargetsOf(p, peers[p].services) :
                        p \in {x \in DOMAIN peers : peers[x].health = Healthy}}

\* A peer that stops answering, goes offline or loses Tailscale keeps the
\* services it was last shown with for as long as they are not older than
\* serviceHistoryTTL (collector.go:31-33).
OutageKeepsServices ==
    [][peers' # peers =>
        \A p \in DOMAIN peers \cap DOMAIN peers' :
            /\ peers[p].updatedAt # NoTime
            /\ peers'[p].health # Healthy
            /\ clock - peers[p].updatedAt <= TTL
            => peers'[p].updatedAt >= peers[p].updatedAt]_vars

\* An Agent whose services have stopped changing is eventually, and again
\* and again, published with exactly the list it has.
EventuallyCurrent ==
    []<>(\A p \in Peers :
            /\ p \in DOMAIN peers
            /\ peers[p].health = Healthy
            /\ WithoutHealth(peers[p].services) = ListWithoutHealth(agents[p]))

-----------------------------------------------------------------------------
(* What one might expect, and the code does not promise: TLC refutes each  *)
(* (see the README).                                                       *)

\* "timeout" is for an Agent that did not respond (protocol/types.go:95-97):
\* a peer is never shown so when every request was answered and no Agent was
\* restarted.  A reload's handler may return before its refresh is done.
TimeoutMeansNoAnswer ==
    budget.fault = MaxFaults /\ budget.restart = MaxRestarts =>
        \A p \in DOMAIN peers : peers[p].health # "timeout"

\* "saveMu serialises concurrent savePeerCache() calls" (collector.go:72),
\* but the snapshot is taken before it: with two savers the file does go
\* back to what an earlier refresh fetched.
FileNeverGoesBack ==
    [][\A p \in DOMAIN file \cap DOMAIN file' :
            file'[p].fetchedAt >= file[p].fetchedAt]_vars

\* EventuallyCurrent for the health of the services as well.  An update of
\* an entry drops its health without a new healthModifiedAt, so Central may
\* inherit the dropped one for ever.
EventuallyCurrentHealth ==
    []<>(\A p \in Peers : p \in DOMAIN peers /\ peers[p].services = agents[p].entries)
=============================================================================
