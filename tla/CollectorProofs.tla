-------------------------- MODULE CollectorProofs --------------------------
(***************************************************************************)
(* Theorems about Registry and Collector, for any Agents, services,        *)
(* refreshes, faults and restarts: what the operations of the registry     *)
(* return and how they move the modification instants that HTTP clients    *)
(* compare; types and targets of the collector; and the conditional        *)
(* requests of its loop, while no POST /reload overlaps it: a 304 always   *)
(* stands for services that are still cached, and, as long as no Agent     *)
(* restarts and no health request fails, always for the Agent's present    *)
(* list; and an Agent that stops answering keeps its services for the TTL. *)
(* The runs show what becomes of the two about 304s without their          *)
(* conditions.                                                             *)
(***************************************************************************)
EXTENDS Collector, FiniteSetTheorems, TLAPS

-----------------------------------------------------------------------------
(* The registry.                                                           *)

\* A service list is a function from some of the names to entries.
LEMMA InServices ==
    ASSUME NEW s
    PROVE  s \in Services <=> DOMAIN s \in SUBSET Names /\ s \in [DOMAIN s -> Entry]
BY DEF Services

\* A health map is a function from some of the names to statuses.
LEMMA InHealthMap ==
    ASSUME NEW s
    PROVE  s \in HealthMap <=> DOMAIN s \in SUBSET Names /\ s \in [DOMAIN s -> HealthStates]
BY DEF HealthMap

\* The empty list and the empty map are the same value.
LEMMA NoServicesType == NoServices \in Services /\ NoServices \in HealthMap
BY InServices, InHealthMap DEF NoServices

\* An entry whose health is replaced is an entry.
LEMMA NoHealthEntry ==
    ASSUME NEW e \in Entry
    PROVE  /\ [e EXCEPT !.health = NoHealth] \in Entry
           /\ e.target \in Targets
           /\ e.health \in HealthStates \cup {NoHealth}
           /\ \A h \in HealthStates \cup {NoHealth} : [e EXCEPT !.health = h] \in Entry
BY DEF Entry

\* A list stripped of its health names the same services.
LEMMA WithoutHealthType ==
    ASSUME NEW s \in Services
    PROVE  WithoutHealth(s) \in Services /\ DOMAIN WithoutHealth(s) = DOMAIN s
BY InServices, NoHealthEntry DEF WithoutHealth

\* The instant after any other is later, whatever the clock says.
LEMMA NextModifiedAtType ==
    ASSUME NEW prev \in Nat, NEW instant \in Nat
    PROVE  NextModifiedAt(prev, instant) \in Nat /\ NextModifiedAt(prev, instant) > prev
BY DEF NextModifiedAt

\* A touched registry is a registry with a later instant.
LEMMA TouchServicesType ==
    ASSUME NEW reg \in RegistryState, NEW entries \in Services, NEW instant \in Nat
    PROVE  LET next == TouchServices([reg EXCEPT !.entries = entries], instant)
           IN  /\ next \in RegistryState
               /\ next.svcModifiedAt > reg.svcModifiedAt
               /\ next.entries = entries
               /\ next.healthModifiedAt = reg.healthModifiedAt
BY NextModifiedAtType DEF TouchServices, RegistryState

\* Every change of the service list moves its modification instant forward
\* (registry.go:164-170), so a client that remembers the instant of an
\* earlier list is never told that it has the present one.
THEOREM PutAdvances ==
    ASSUME NEW reg \in RegistryState, NEW name \in Names, NEW target \in Targets,
           NEW instant \in Nat
    PROVE  /\ Put(reg, name, target, instant) \in RegistryState
           /\ Put(reg, name, target, instant).svcModifiedAt > reg.svcModifiedAt
<1> DEFINE entries == [n \in DOMAIN reg.entries \cup {name} |->
                        IF n = name THEN [target |-> target, health |-> NoHealth]
                                    ELSE reg.entries[n]]
<1>1. entries \in Services
  BY InServices DEF RegistryState, Entry
<1>2. Put(reg, name, target, instant) = TouchServices([reg EXCEPT !.entries = entries], instant)
  BY DEF Put
<1> QED
  BY <1>1, <1>2, TouchServicesType

\* Removing an entry moves the service list's instant strictly forward too
\* (registry.go:41-50).
THEOREM RemoveAdvances ==
    ASSUME NEW reg \in RegistryState, NEW name, NEW instant \in Nat
    PROVE  /\ Remove(reg, name, instant) \in RegistryState
           /\ Remove(reg, name, instant).svcModifiedAt > reg.svcModifiedAt
<1> DEFINE entries == [n \in DOMAIN reg.entries \ {name} |-> reg.entries[n]]
<1>1. entries \in Services
  BY InServices DEF RegistryState
<1>2. Remove(reg, name, instant) = TouchServices([reg EXCEPT !.entries = entries], instant)
  BY DEF Remove
<1> QED
  BY <1>1, <1>2, TouchServicesType

\* A health result changes neither the list a client of /services sees nor
\* its instant, and never takes the health instant back.
THEOREM UpdateHealthKeepsServices ==
    ASSUME NEW reg \in RegistryState, NEW name, NEW health \in HealthStates,
           NEW instant \in Nat
    PROVE  /\ UpdateHealth(reg, name, health, instant) \in RegistryState
           /\ UpdateHealth(reg, name, health, instant).svcModifiedAt = reg.svcModifiedAt
           /\ UpdateHealth(reg, name, health, instant).healthModifiedAt >= reg.healthModifiedAt
           /\ ListWithoutHealth(UpdateHealth(reg, name, health, instant)) = ListWithoutHealth(reg)
<1>1. CASE ~Has(reg, name)
  BY <1>1 DEF UpdateHealth, RegistryState
<1>2. CASE Has(reg, name)
  <2> DEFINE at == IF HealthChanged(reg.entries[name].health, health)
                   THEN NextModifiedAt(reg.healthModifiedAt, instant)
                   ELSE reg.healthModifiedAt
             entries == [reg.entries EXCEPT ![name].health = health]
  <2>1. at \in Nat /\ at >= reg.healthModifiedAt
    <3>1. reg.healthModifiedAt \in Nat
      BY DEF RegistryState
    <3>2. NextModifiedAt(reg.healthModifiedAt, instant) \in Nat
          /\ NextModifiedAt(reg.healthModifiedAt, instant) > reg.healthModifiedAt
      BY <3>1, NextModifiedAtType
    <3>3. at \in {NextModifiedAt(reg.healthModifiedAt, instant), reg.healthModifiedAt}
      BY Zenon
    <3> QED
      BY <3>1, <3>2, <3>3
  <2>2. reg.entries \in [DOMAIN reg.entries -> Entry] /\ DOMAIN reg.entries \in SUBSET Names
    BY InServices DEF RegistryState
  <2>3. reg.entries[name] \in Entry
    BY <1>2, <2>2 DEF Has
  <2>4. entries \in [DOMAIN reg.entries -> Entry]
    BY <1>2, <2>2, <2>3, NoHealthEntry DEF Has
  <2>5. entries \in Services
    BY <2>2, <2>4, InServices
  <2>6. UpdateHealth(reg, name, health, instant) =
            [entries |-> entries, svcModifiedAt |-> reg.svcModifiedAt, healthModifiedAt |-> at]
    BY <1>2 DEF UpdateHealth, RegistryState
  <2>7. WithoutHealth(entries) = WithoutHealth(reg.entries)
    <3>1. ASSUME NEW n \in DOMAIN reg.entries
          PROVE  [entries[n] EXCEPT !.health = NoHealth] =
                 [reg.entries[n] EXCEPT !.health = NoHealth]
      BY <1>2, <2>2, <2>3 DEF Has, Entry
    <3> QED
      BY <2>2, <2>4, <3>1 DEF WithoutHealth
  <2> QED
    BY <2>1, <2>5, <2>6, <2>7 DEF RegistryState, ListWithoutHealth
<1> QED
  BY <1>1, <1>2

\* What the two handlers answer with.
LEMMA ListTypes ==
    ASSUME NEW reg \in RegistryState
    PROVE  ListWithoutHealth(reg) \in Services /\ ListHealth(reg) \in HealthMap
<1>1. reg.entries \in Services
  BY DEF RegistryState
<1>2. ListHealth(reg) \in HealthMap
  BY <1>1, InServices, InHealthMap, NoHealthEntry DEF ListHealth
<1> QED
  BY <1>1, <1>2, WithoutHealthType DEF ListWithoutHealth

-----------------------------------------------------------------------------
(* The collector.  TypeInv is the inductive form of TypeOK: a refresh that *)
(* is between Merge and Store has something to store.                      *)

TypeInv ==
    /\ TypeOK
    /\ \A r \in Refreshers : pc[r] = "merged" => merged[r] \in Merged

-----------------------------------------------------------------------------
(* Types of the values the actions build.                                  *)

\* The cache, the peer list and the targets the daemon starts with.
LEMMA EmptyTypes ==
    /\ PartialMap(EmptyCache, Peers, Cached)
    /\ PartialMap(EmptyList, Peers, PeerInfo)
BY DEF PartialMap, EmptyCache, EmptyList

\* A request that has not been made.
LEMMA NoQueryType ==
    /\ NoQuery \in Query
    /\ NoQuery.body \in Services
    /\ NoQuery.body \in HealthMap
    /\ NoQuery.st = "idle"
BY NoServicesType DEF NoQuery, Query, Times

\* The requests a refresh starts with.
LEMMA NoQueriesType ==
    /\ NoQueries \in [Peers -> [Kinds -> Query]]
    /\ \A p \in Peers : NoQueries[p]["svc"] = NoQuery /\ NoQueries[p]["health"] = NoQuery
BY NoQueryType DEF NoQueries, Kinds

\* A finished request keeps its body.
LEMMA DoneType ==
    ASSUME NEW q \in Query,
           NEW res \in {"none", "200", "304", "404", "timeout", "unauthorized"}
    PROVE  Done(q, res) \in Query /\ Done(q, res).body = q.body
BY NoQueryType DEF Done, Query, NoQuery, Times

\* A discovered list shows no peer as ok before it was queried.
LEMMA DiscoveredType ==
    ASSUME NEW nm
    PROVE  /\ PartialMap(Discovered(nm), Peers, PeerInfo)
           /\ \A p \in DOMAIN Discovered(nm) :
                Discovered(nm)[p].health \in {"offline", "unknown"}
BY NoServicesType DEF Discovered, PartialMap, PeerInfo, AgentHealth, Times

\* A restarted Agent's registry.
LEMMA BootedType ==
    ASSUME NEW s \in Services, NEW t \in Nat
    PROVE  Booted(s, t) \in RegistryState
<1>1. Cardinality(DOMAIN s) \in Nat
  BY InServices, RegistryAssumption, FS_Subset, FS_CardinalityType
<1> QED
  BY <1>1, WithoutHealthType DEF Booted, RegistryState

\* What a restarted Agent may list.
LEMMA BootServicesType == BootServices \subseteq Services
BY WithoutHealthType DEF BootServices

\* Showing cached services does not change a peer's health.
LEMMA WithCachedType ==
    ASSUME TypeOK, NEW peer \in PeerInfo, NEW p, NEW t
    PROVE  WithCached(peer, p, t) \in PeerInfo /\ WithCached(peer, p, t).health = peer.health
BY DEF TypeOK, WithCached, Fresh, PeerInfo, PartialMap, Cached, Times

\* A 304 that refreshes the health of a cached entry.
LEMMA CachedEntryType ==
    ASSUME NEW c \in Cached, NEW s \in Services
    PROVE  [c EXCEPT !.services = s] \in Cached
BY DEF Cached

\* What the cache holds of a peer, if anything.
LEMMA CachedServicesType ==
    ASSUME TypeOK, NEW p
    PROVE  CachedServices(p) \in Services
BY NoServicesType DEF TypeOK, CachedServices, PartialMap, Cached

\* Health written over a list of services leaves a list of services.
LEMMA OverlayType ==
    ASSUME NEW s \in Services, NEW h \in HealthMap
    PROVE  Overlay(s, h) \in Services /\ WithoutHealth(Overlay(s, h)) = WithoutHealth(s)
<1> USE InServices, InHealthMap
<1>1. ASSUME NEW n \in DOMAIN s
      PROVE  /\ Overlay(s, h)[n] \in Entry
             /\ [Overlay(s, h)[n] EXCEPT !.health = NoHealth] = [s[n] EXCEPT !.health = NoHealth]
  BY NoHealthEntry DEF Overlay, Entry
<1> QED
  BY <1>1 DEF Overlay, WithoutHealth

\* As does health inherited from the cache.
LEMMA InheritType ==
    ASSUME NEW s \in Services, NEW old \in Services
    PROVE  /\ InheritCachedHealth(s, old) \in Services
           /\ WithoutHealth(InheritCachedHealth(s, old)) = WithoutHealth(s)
<1> USE InServices
<1>1. ASSUME NEW n \in DOMAIN s
      PROVE  /\ InheritCachedHealth(s, old)[n] \in Entry
             /\ [InheritCachedHealth(s, old)[n] EXCEPT !.health = NoHealth] =
                [s[n] EXCEPT !.health = NoHealth]
  BY NoHealthEntry DEF InheritCachedHealth, Entry
<1> QED
  BY <1>1 DEF InheritCachedHealth, WithoutHealth

\* Whatever is merged, the merged list is the base list but for its health.
LEMMA MergedServicesType ==
    ASSUME TypeOK, NEW r \in Refreshers, NEW p \in Peers
    PROVE  /\ BaseServices(r, p) \in Services
           /\ MergedServices(r, p) \in Services
           /\ WithoutHealth(MergedServices(r, p)) = WithoutHealth(BaseServices(r, p))
<1>1. query[r][p]["svc"].body \in Services /\ query[r][p]["health"].body \in HealthMap
  BY DEF TypeOK
<1>2. BaseServices(r, p) \in Services
  BY <1>1, CachedServicesType DEF BaseServices
<1> QED
  BY <1>1, <1>2, CachedServicesType, OverlayType, InheritType DEF MergedServices

\* A peer's targets are its own.
LEMMA TargetsOfType ==
    ASSUME NEW p \in Peers, NEW s \in Services
    PROVE  TargetsOf(p, s) \subseteq Published
BY InServices DEF TargetsOf, Published, Entry

-----------------------------------------------------------------------------
(* Every step keeps the types.                                             *)

\* The daemon starts well typed.
LEMMA TypeInit == Init => TypeInv
<1> SUFFICES ASSUME Init PROVE TypeInv
  OBVIOUS
<1>1. agents \in [Peers -> RegistryState]
  BY BootServicesType, BootedType DEF Init
<1>2. query \in [Refreshers -> [Peers -> [Kinds -> Query]]]
      /\ \A r \in Refreshers, p \in Peers :
            query[r][p]["svc"].body \in Services /\ query[r][p]["health"].body \in HealthMap
  BY NoQueriesType, NoQueryType DEF Init
<1>3. DOMAIN saver = Savers /\ \A s \in Savers : saver[s] = IdleSaver
  BY DEF Init
<1>4. budget \in Budget
  BY CollectorAssumption DEF Init, Budget
<1>5. netmap \in [Peers -> {"online", "offline", "absent"}]
  BY CollectorAssumption DEF Init
<1> QED
  BY <1>1, <1>2, <1>3, <1>4, <1>5, EmptyTypes
  DEF Init, TypeInv, TypeOK, IdleSaver, Times

\* The part of TypeOK that is about the requests.
QueryTypes ==
    /\ query \in [Refreshers -> [Peers -> [Kinds -> Query]]]
    /\ \A r \in Refreshers, p \in Peers :
        /\ query[r][p]["svc"].body \in Services
        /\ query[r][p]["health"].body \in HealthMap

\* The Last-Modified values remembered after a response.
LEMMA NotedType ==
    ASSUME TypeOK, NEW r \in Refreshers, NEW p \in Peers, NEW k \in Kinds
    PROVE  Noted(p, k, query[r][p][k]) \in [Kinds -> [Peers -> Times]]
BY DEF TypeOK, Noted, Query

\* An accident that may still happen can be taken from the budget.
LEMMA BudgetType ==
    ASSUME NEW b \in Budget
    PROVE  /\ b.fault > 0 => [b EXCEPT !.fault = @ - 1] \in Budget
           /\ b.restart > 0 => [b EXCEPT !.restart = @ - 1] \in Budget
           /\ b.crash > 0 => [b EXCEPT !.crash = @ - 1] \in Budget
<1>1. b.fault \in Nat /\ b.restart \in Nat /\ b.crash \in Nat
  BY DEF Budget
<1>2. /\ b.fault > 0 => b.fault - 1 \in Nat
      /\ b.restart > 0 => b.restart - 1 \in Nat
      /\ b.crash > 0 => b.crash - 1 \in Nat
  BY <1>1
<1> QED
  BY <1>1, <1>2 DEF Budget

\* A fault that may happen is taken from the budget.
LEMMA MayFailType ==
    ASSUME TypeOK, NEW r, NEW k, NEW f, MayFail(r, k, f)
    PROVE  budget' \in Budget
BY BudgetType DEF TypeOK, MayFail

\* A step that changes nothing but one query keeps the types.
LEMMA AnswersType ==
    ASSUME TypeInv, NEW r \in Refreshers, NEW p \in Peers, NEW k \in Kinds,
           NEW q \in Query, Answers(r, p, k, q),
           budget' \in Budget,
           k = "svc" => q.body \in Services,
           k = "health" => q.body \in HealthMap
    PROVE  TypeInv'
<1>1. query' \in [Refreshers -> [Peers -> [Kinds -> Query]]]
      /\ \A x \in Refreshers, y \in Peers :
            query'[x][y]["svc"].body \in Services /\ query'[x][y]["health"].body \in HealthMap
  BY DEF TypeInv, TypeOK, Answers, Kinds
<1> QED
  BY <1>1 DEF TypeInv, TypeOK, Answers, world, shared

\* Every step keeps the types, action by action.
LEMMA TypeStep == TypeInv /\ [Next]_vars => TypeInv'
<1> SUFFICES ASSUME TypeInv, [Next]_vars PROVE TypeInv'
  OBVIOUS
<1> USE DEF world, shared, locals
\* The world.
<1>1. ASSUME NEW p \in Peers, AgentChanges(p) PROVE TypeInv'
  <2>1. agents[p] \in RegistryState /\ clock \in Nat /\ agents \in [Peers -> RegistryState]
    BY DEF TypeInv, TypeOK
  <2>2. \E reg \in RegistryState : agents' = [agents EXCEPT ![p] = reg]
    <3>1. CASE \E n \in Names, t \in Targets :
                agents' = [agents EXCEPT ![p] = Put(@, n, t, clock)]
      BY <2>1, <3>1, PutAdvances
    <3>2. CASE \E n \in DOMAIN agents[p].entries :
                agents' = [agents EXCEPT ![p] = Remove(@, n, clock)]
      BY <2>1, <3>2, RemoveAdvances
    <3> QED
      BY <1>1, <3>1, <3>2 DEF AgentChanges
  <2>3. agents' \in [Peers -> RegistryState]
    BY <2>1, <2>2
  <2> QED
    BY <1>1, <2>3 DEF TypeInv, TypeOK, AgentChanges
<1>2. ASSUME NEW p \in Peers, AgentChecks(p) PROVE TypeInv'
  BY <1>2, UpdateHealthKeepsServices DEF TypeInv, TypeOK, AgentChecks
<1>3. ASSUME NEW p \in Peers, AgentRestarts(p) PROVE TypeInv'
  <2>1. agents' \in [Peers -> RegistryState]
    BY <1>3, BootServicesType, BootedType DEF TypeInv, TypeOK, AgentRestarts
  <2>2. ASSUME NEW r \in Refreshers, NEW k \in Kinds
        PROVE  /\ query'[r][p][k] \in {query[r][p][k], Done(NoQuery, "timeout")}
               /\ query[r][p][k] \in Query
    BY <1>3 DEF TypeInv, TypeOK, AgentRestarts
  <2>3. Done(NoQuery, "timeout") \in Query
        /\ Done(NoQuery, "timeout").body \in Services \cap HealthMap
    BY DoneType, NoQueryType
  <2>4. query' \in [Refreshers -> [Peers -> [Kinds -> Query]]]
        /\ \A r \in Refreshers, y \in Peers :
            query'[r][y]["svc"].body \in Services /\ query'[r][y]["health"].body \in HealthMap
    BY <1>3, <2>2, <2>3 DEF TypeInv, TypeOK, AgentRestarts, Kinds
  <2>5. budget' \in Budget
    BY <1>3, BudgetType DEF TypeInv, TypeOK, AgentRestarts
  <2> QED
    BY <1>3, <2>1, <2>4, <2>5 DEF TypeInv, TypeOK, AgentRestarts
<1>4. CASE Tick
  BY <1>4 DEF TypeInv, TypeOK, Tick
<1>5. CASE NetmapChanges
  BY <1>5, CollectorAssumption DEF TypeInv, TypeOK, NetmapChanges
<1>6. CASE TailscaleFlips
  BY <1>6 DEF TypeInv, TypeOK, TailscaleFlips
\* A refresh up to its requests.
<1>7. ASSUME NEW r \in Refreshers, Start(r) PROVE TypeInv'
  BY <1>7 DEF TypeInv, TypeOK, Start
<1>8. ASSUME NEW r \in Refreshers, HandlerReturns(r) PROVE TypeInv'
  BY <1>8 DEF TypeInv, TypeOK, HandlerReturns
<1>9. ASSUME NEW r \in Refreshers, Discover(r) PROVE TypeInv'
  BY <1>9, DiscoveredType DEF TypeInv, TypeOK, Discover
<1>10. ASSUME NEW r \in Refreshers, DiscoverFails(r) PROVE TypeInv'
  BY <1>10 DEF TypeInv, TypeOK, DiscoverFails
<1>11. ASSUME NEW r \in Refreshers, RestoreOffline(r) PROVE TypeInv'
  <2>1. PartialMap(list'[r], Peers, PeerInfo)
    BY <1>11, WithCachedType DEF TypeInv, TypeOK, RestoreOffline, PartialMap
  <2> QED
    BY <1>11, <2>1 DEF TypeInv, TypeOK, RestoreOffline
\* The requests.
<1>12. ASSUME NEW r \in Refreshers, NEW p \in Peers, NEW k \in Kinds,
              Send(r, p, k) PROVE TypeInv'
  <2>1. lastModified[k][p] \in Times
    BY DEF TypeInv, TypeOK
  <2>2. [NoQuery EXCEPT !.st = "sent", !.ims = IfModifiedSince(p, k)] \in Query
    BY <2>1, NoQueryType DEF IfModifiedSince, Query, Times
  <2>3. [NoQuery EXCEPT !.st = "sent", !.ims = IfModifiedSince(p, k)].body = NoQuery.body
    BY NoQueryType DEF Query
  <2> QED
    BY <1>12, <2>2, <2>3, NoQueryType, AnswersType DEF Send, TypeInv, TypeOK
<1>13. ASSUME NEW r \in Refreshers, NEW p \in Peers, NEW k \in Kinds,
              Serve(r, p, k) PROVE TypeInv'
  <2> DEFINE q == query[r][p][k]
  <2>1. q \in Query /\ q.body \in (IF k = "svc" THEN Services ELSE HealthMap)
    BY DEF TypeInv, TypeOK, Kinds
  <2>2. ModifiedAt(p, k) \in Times
    BY DEF TypeInv, TypeOK, ModifiedAt, RegistryState, Times
  <2>3. PICK a \in {[q EXCEPT !.st = "answered", !.res = "404"],
                    [q EXCEPT !.st = "answered", !.res = "304"],
                    [q EXCEPT !.st = "listing", !.lm = ModifiedAt(p, k)]} :
            Answers(r, p, k, a)
    BY <1>13 DEF Serve
  <2>4. a \in Query /\ a.body = q.body
    BY <2>1, <2>2 DEF Query
  <2> HIDE DEF q
  <2> QED
    BY <1>13, <2>1, <2>3, <2>4, AnswersType DEF Serve, TypeInv, TypeOK, Kinds
<1>14. ASSUME NEW r \in Refreshers, NEW p \in Peers, NEW k \in Kinds,
              List(r, p, k) PROVE TypeInv'
  <2>1. query[r][p][k] \in Query
    BY DEF TypeInv, TypeOK
  <2>2. Listing(p, k) \in (IF k = "svc" THEN Services ELSE HealthMap)
    BY ListTypes DEF TypeInv, TypeOK, Listing
  <2> DEFINE a == [query[r][p][k] EXCEPT !.st = "answered", !.res = "200",
                                         !.body = Listing(p, k)]
  <2>3. a \in Query /\ a.body = Listing(p, k)
    BY <2>1, <2>2 DEF Query
  <2>4. Answers(r, p, k, a) /\ budget' = budget
    BY <1>14 DEF List
  <2> HIDE DEF a
  <2> QED
    BY <2>2, <2>3, <2>4, AnswersType DEF TypeInv, TypeOK, Kinds
<1>15. ASSUME NEW r \in Refreshers, NEW p \in Peers, NEW k \in Kinds,
              Receive(r, p, k) PROVE TypeInv'
  <2>1. query' = [query EXCEPT ![r][p][k] = Done(query[r][p][k], query[r][p][k].res)]
    BY <1>15 DEF Receive
  <2>2. Done(query[r][p][k], query[r][p][k].res) \in Query
        /\ Done(query[r][p][k], query[r][p][k].res).body = query[r][p][k].body
    <3>1. query[r][p][k] \in Query
      BY DEF TypeInv, TypeOK
    <3>2. query[r][p][k].res \in {"none", "200", "304", "404", "timeout", "unauthorized"}
      BY <3>1 DEF Query
    <3> QED
      BY <3>1, <3>2, DoneType
  <2>3. QueryTypes'
    BY <2>1, <2>2 DEF TypeInv, TypeOK, QueryTypes, Kinds
  <2>4. lastModified' \in [Kinds -> [Peers -> Times]]
    BY <1>15, NotedType DEF TypeInv, TypeOK, Receive
  <2> QED
    BY <1>15, <2>3, <2>4 DEF TypeInv, TypeOK, Receive, QueryTypes
<1>16. ASSUME NEW r \in Refreshers, NEW p \in Peers, NEW k \in Kinds,
              Garble(r, p, k) PROVE TypeInv'
  <2>1. query' = [query EXCEPT ![r][p][k] = Done(NoQuery, "timeout")]
    BY <1>16 DEF Garble
  <2>2. Done(NoQuery, "timeout") \in Query /\ Done(NoQuery, "timeout").body = NoQuery.body
    BY DoneType, NoQueryType
  <2>3. QueryTypes'
    BY <2>1, <2>2, NoQueryType DEF TypeInv, TypeOK, QueryTypes, Kinds
  <2>4. lastModified' \in [Kinds -> [Peers -> Times]]
    BY <1>16, NotedType DEF TypeInv, TypeOK, Garble
  <2>5. budget' \in Budget
    BY <1>16, MayFailType DEF TypeInv, Garble
  <2> QED
    BY <1>16, <2>3, <2>4, <2>5 DEF TypeInv, TypeOK, Garble, QueryTypes
<1>17. ASSUME NEW r \in Refreshers, NEW p \in Peers, NEW k \in Kinds,
              TimeOut(r, p, k) PROVE TypeInv'
  <2>1. Done(NoQuery, "timeout") \in Query /\ Done(NoQuery, "timeout").body = NoQuery.body
    BY DoneType, NoQueryType
  <2>2. budget' \in Budget
    BY <1>17, MayFailType DEF TypeInv, TimeOut
  <2> QED
    BY <1>17, <2>1, <2>2, NoQueryType, AnswersType DEF TimeOut
<1>18. ASSUME NEW r \in Refreshers, NEW p \in Peers, NEW k \in Kinds,
              Refuse(r, p, k) PROVE TypeInv'
  <2>1. Done(NoQuery, "unauthorized") \in Query
        /\ Done(NoQuery, "unauthorized").body = NoQuery.body
    BY DoneType, NoQueryType
  <2>2. budget' \in Budget
    BY <1>18, MayFailType DEF TypeInv, Refuse
  <2> QED
    BY <1>18, <2>1, <2>2, NoQueryType, AnswersType DEF Refuse
<1>19. ASSUME NEW r \in Refreshers, Join(r) PROVE TypeInv'
  BY <1>19 DEF TypeInv, TypeOK, Join, Asked, PartialMap
\* Applying and publishing.
<1>20. ASSUME NEW r \in Refreshers, NEW p \in Peers, Merge(r, p) PROVE TypeInv'
  <2>1. merged' \in [Refreshers -> Merged \cup {NothingMerged}] /\ merged'[r] \in Merged
    BY <1>20, MergedServicesType DEF TypeInv, TypeOK, Merge, Merged
  <2>2. PartialMap(serviceCache', Peers, Cached)
    <3>1. MergedServices(r, p) \in Services
      BY MergedServicesType DEF TypeInv
    <3> QED
      BY <1>20, <3>1, CachedEntryType DEF TypeInv, TypeOK, Merge, PartialMap
  <2> QED
    BY <1>20, <2>1, <2>2 DEF TypeInv, TypeOK, Merge
<1>21. ASSUME NEW r \in Refreshers, Store(r) PROVE TypeInv'
  <2>1. merged[r].peer \in Peers /\ merged[r].services \in Services /\ now[r] \in Nat
    BY <1>21 DEF TypeInv, TypeOK, Store, Merged
  <2>2. PartialMap(serviceCache', Peers, Cached)
    BY <1>21, <2>1 DEF TypeInv, TypeOK, Store, PartialMap, Cached
  <2>3. PartialMap(list'[r], Peers, PeerInfo)
    BY <1>21, <2>1 DEF TypeInv, TypeOK, Store, PartialMap, PeerInfo, AgentHealth, Healthy, Times
  <2>4. found' \in [Refreshers -> SUBSET Published]
    BY <1>21, <2>1, TargetsOfType DEF TypeInv, TypeOK, Store
  <2> QED
    BY <1>21, <2>2, <2>3, <2>4 DEF TypeInv, TypeOK, Store
<1>22. ASSUME NEW r \in Refreshers, NEW p \in Peers, Restore(r, p) PROVE TypeInv'
  <2>1. Outcome(r, p) \in AgentHealth
    BY DEF Outcome, WorseHealth, AgentHealth, Healthy
  <2>2. p \in DOMAIN list[r] =>
            WithCached([list[r][p] EXCEPT !.health = Outcome(r, p)], p, now[r]) \in PeerInfo
    <3>1. p \in DOMAIN list[r] =>
            [list[r][p] EXCEPT !.health = Outcome(r, p)] \in PeerInfo
      <4>1. p \in DOMAIN list[r] => list[r][p] \in PeerInfo
        BY DEF TypeInv, TypeOK, PartialMap
      <4> QED
        BY <2>1, <4>1 DEF PeerInfo
    <3> QED
      BY <3>1, WithCachedType DEF TypeInv
  <2>3. PartialMap(list'[r], Peers, PeerInfo)
    BY <1>22, <2>2 DEF TypeInv, TypeOK, Restore, PartialMap
  <2> QED
    BY <1>22, <2>3 DEF TypeInv, TypeOK, Restore
<1>23. ASSUME NEW r \in Refreshers, EvictExpired(r) PROVE TypeInv'
  <2>1. PartialMap(serviceCache', Peers, Cached)
    BY <1>23 DEF TypeInv, TypeOK, EvictExpired, PartialMap
  <2>2. expired' \in [Refreshers -> SUBSET Peers]
    BY <1>23 DEF TypeInv, TypeOK, EvictExpired, PartialMap
  <2> QED
    BY <1>23, <2>1, <2>2 DEF TypeInv, TypeOK, EvictExpired
<1>24. ASSUME NEW r \in Refreshers, Forget(r) PROVE TypeInv'
  BY <1>24 DEF TypeInv, TypeOK, Forget, Times
<1>25. ASSUME NEW r \in Refreshers, Publish(r) PROVE TypeInv'
  <2>1. QueryTypes'
    BY <1>25, NoQueriesType, NoQueryType DEF TypeInv, TypeOK, Publish, QueryTypes
  <2>2. /\ DOMAIN saver' = Savers
        /\ \A s \in Savers :
            /\ saver'[s] = [st |-> saver'[s].st, snapshot |-> saver'[s].snapshot]
            /\ saver'[s].st \in {"idle", "spawned", "writing"}
            /\ PartialMap(saver'[s].snapshot, Peers, Cached)
    <3> DEFINE Good(sv) == /\ DOMAIN sv = Savers
                           /\ \A s \in Savers :
                                /\ sv[s] = [st |-> sv[s].st, snapshot |-> sv[s].snapshot]
                                /\ sv[s].st \in {"idle", "spawned", "writing"}
                                /\ PartialMap(sv[s].snapshot, Peers, Cached)
    <3>1. Good(saver)
      BY DEF TypeInv, TypeOK
    <3>2. ASSUME NEW s \in Savers PROVE Good([saver EXCEPT ![s].st = "spawned"])
      <4> DEFINE sv == [saver EXCEPT ![s].st = "spawned"]
      <4>1. /\ DOMAIN sv = Savers
            /\ \A x \in Savers \ {s} : sv[x] = saver[x]
            /\ sv[s] = [saver[s] EXCEPT !.st = "spawned"]
        BY <3>1
      <4>2. saver[s] = [st |-> saver[s].st, snapshot |-> saver[s].snapshot]
        BY <3>1
      <4>3. [saver[s] EXCEPT !.st = "spawned"]
                = [st |-> "spawned", snapshot |-> saver[s].snapshot]
        BY <4>2
      <4>4. sv[s].st = "spawned" /\ sv[s].snapshot = saver[s].snapshot
        BY <4>1, <4>3
      <4>5. sv[s] = [st |-> sv[s].st, snapshot |-> sv[s].snapshot]
        BY <4>1, <4>3, <4>4
      <4> HIDE DEF sv
      <4> QED
        BY <3>1, <4>1, <4>4, <4>5
    <3>3. (UNCHANGED saver) \/ \E s \in Savers : saver' = [saver EXCEPT ![s].st = "spawned"]
      BY <1>25 DEF Publish
    <3>4. Good(saver')
      <4> HIDE DEF Good
      <4> QED
        BY <3>1, <3>2, <3>3
    <3> QED
      BY <3>4
  <2>3. /\ PartialMap(peers', Peers, PeerInfo)
        /\ DOMAIN list' = Refreshers
        /\ \A x \in Refreshers : PartialMap(list'[x], Peers, PeerInfo)
    BY <1>25, EmptyTypes DEF TypeInv, TypeOK, Publish
  <2> QED
    BY <1>25, <2>1, <2>2, <2>3 DEF TypeInv, TypeOK, Publish, QueryTypes
\* Saving and restarting.
<1>26. ASSUME NEW s \in Savers, SaveSnapshot(s) PROVE TypeInv'
  BY <1>26 DEF TypeInv, TypeOK, SaveSnapshot
<1>27. ASSUME NEW s \in Savers, SaveWrite(s) PROVE TypeInv'
  BY <1>27, EmptyTypes DEF TypeInv, TypeOK, SaveWrite, IdleSaver
<1>28. CASE CentralRestarts
  <2>1. PartialMap(serviceCache', Peers, Cached)
    BY <1>28 DEF TypeInv, TypeOK, CentralRestarts, Loaded, PartialMap
  <2>2. QueryTypes'
    BY <1>28, NoQueriesType, NoQueryType DEF CentralRestarts, Fresh0, QueryTypes
  <2>3. /\ DOMAIN saver' = Savers
        /\ \A s \in Savers : saver'[s] = IdleSaver
    BY <1>28 DEF CentralRestarts, Fresh0
  <2>4. budget' \in Budget
    BY <1>28, BudgetType DEF TypeInv, TypeOK, CentralRestarts
  <2> QED
    BY <1>28, <2>1, <2>2, <2>3, <2>4, EmptyTypes
    DEF TypeInv, TypeOK, CentralRestarts, Fresh0, QueryTypes, IdleSaver, Times
<1>29. CASE UNCHANGED vars
  BY <1>29 DEF TypeInv, TypeOK, vars
<1> QED
  BY <1>1, <1>2, <1>3, <1>4, <1>5, <1>6, <1>7, <1>8, <1>9, <1>10, <1>11, <1>12,
     <1>13, <1>14, <1>15, <1>16, <1>17, <1>18, <1>19, <1>20, <1>21, <1>22, <1>23,
     <1>24, <1>25, <1>26, <1>27, <1>28, <1>29
  DEF Next, World, Refresh, QueryStep, QueryFails, ApplyStep, Save

\* Every variable always holds a value of its kind, whatever the Agents, the
\* network, Tailscale and the restarts of either side do: in particular the
\* body of a service response is only ever merged as a service list and the
\* body of a health response as a health map (collector.go:593-672).
THEOREM TypeCorrect == Spec => []TypeOK
<1>1. TypeInv => TypeOK
  BY DEF TypeInv
<1> QED
  BY TypeInit, TypeStep, <1>1, PTL DEF Spec

-----------------------------------------------------------------------------
(* The scrape targets.                                                     *)

HealthyIn(l) == {p \in DOMAIN l : l[p].health = Healthy}
TargetsIn(l) == UNION {TargetsOf(p, l[p].services) : p \in HealthyIn(l)}

\* What keeps the two published variables together: the targets a refresh has
\* found are at every moment those of the peers its list already shows as
\* ok, because a peer is not ok until it is stored and is stored only once.
ListInv(r) ==
    /\ found[r] = TargetsIn(list[r])
    /\ pc[r] \in {"idle", "start"} => list[r] = EmptyList
    /\ pc[r] \in {"discovered", "query"} => HealthyIn(list[r]) = {}
    /\ pc[r] \in {"apply", "merged"} => todo[r] \subseteq DOMAIN list[r] \ HealthyIn(list[r])
    /\ pc[r] = "merged" => merged[r].peer \in todo[r]

ScrapeInv ==
    /\ targets = TargetsIn(peers)
    /\ \A r \in Refreshers : ListInv(r)

\* A list without an ok peer gives Prometheus nothing to scrape.
LEMMA NoneHealthy ==
    ASSUME NEW l, HealthyIn(l) = {}
    PROVE  TargetsIn(l) = {}
BY DEF TargetsIn

\* Such as the empty list.
LEMMA EmptyListScrapesNothing == HealthyIn(EmptyList) = {} /\ TargetsIn(EmptyList) = {}
BY DEF HealthyIn, TargetsIn, EmptyList

\* Changing a list at a peer that is not shown as ok adds the targets of its
\* new services, if it is ok now, and takes none away.
LEMMA TargetsInAt ==
    ASSUME NEW l, NEW m, NEW p \in DOMAIN l \ HealthyIn(l),
           DOMAIN m = DOMAIN l, \A x \in DOMAIN l \ {p} : m[x] = l[x]
    PROVE  /\ HealthyIn(m) = HealthyIn(l) \cup (IF m[p].health = Healthy THEN {p} ELSE {})
           /\ TargetsIn(m) = TargetsIn(l) \cup
                (IF m[p].health = Healthy THEN TargetsOf(p, m[p].services) ELSE {})
<1>1. HealthyIn(m) = HealthyIn(l) \cup (IF m[p].health = Healthy THEN {p} ELSE {})
  BY DEF HealthyIn
<1>2. \A x \in HealthyIn(l) : TargetsOf(x, m[x].services) = TargetsOf(x, l[x].services)
  BY DEF HealthyIn
<1> QED
  BY <1>1, <1>2 DEF TargetsIn

\* The other refreshes are where they were.
OnlyRefresh(r) ==
    \A x \in Refreshers \ {r} :
        /\ pc'[x] = pc[x] /\ list'[x] = list[x] /\ todo'[x] = todo[x]
        /\ merged'[x] = merged[x] /\ found'[x] = found[x]

\* A step of one refresh that leaves what is published alone.
LEMMA OnlyRefreshMoves ==
    ASSUME ScrapeInv, NEW r \in Refreshers, OnlyRefresh(r), ListInv(r)',
           targets' = TargetsIn(peers')
    PROVE  ScrapeInv'
BY DEF ScrapeInv, ListInv, OnlyRefresh

\* The daemon starts with nothing published.
LEMMA ScrapeInit == Init => ScrapeInv
BY EmptyListScrapesNothing DEF Init, ScrapeInv, ListInv

\* Every step keeps targets and lists together.
LEMMA ScrapeStep == TypeInv /\ ScrapeInv /\ [Next]_vars => ScrapeInv'
<1> SUFFICES ASSUME TypeInv, ScrapeInv, [Next]_vars PROVE ScrapeInv'
  OBVIOUS
<1> USE DEF world, shared, locals
\* Steps of the world, of requests, of savers and of HTTP handlers.
<1>1. ASSUME UNCHANGED <<targets, peers, pc, list, todo, merged, found>> PROVE ScrapeInv'
  BY <1>1 DEF ScrapeInv, ListInv
<1>2. ASSUME NEW r \in Refreshers, QueryStep(r) \/ QueryFails(r) PROVE ScrapeInv'
  <2>1. ASSUME NEW p \in Peers, NEW k \in Kinds, NEW q, Answers(r, p, k, q) PROVE ScrapeInv'
    BY <1>1, <2>1 DEF Answers
  <2>2. ASSUME NEW p \in Peers, NEW k \in Kinds,
               Send(r, p, k) \/ Serve(r, p, k) \/ List(r, p, k)
               \/ TimeOut(r, p, k) \/ Refuse(r, p, k)
        PROVE  ScrapeInv'
    BY <2>1, <2>2 DEF Send, Serve, List, TimeOut, Refuse
  <2>3. ASSUME NEW p \in Peers, NEW k \in Kinds, Receive(r, p, k) \/ Garble(r, p, k)
        PROVE  ScrapeInv'
    BY <1>1, <2>3 DEF Receive, Garble
  <2> QED
    BY <1>2, <2>2, <2>3 DEF QueryStep, QueryFails
<1>3. ASSUME NEW r \in Refreshers, HandlerReturns(r) PROVE ScrapeInv'
  BY <1>1, <1>3 DEF HandlerReturns
<1>4. ASSUME World PROVE ScrapeInv'
  BY <1>1, <1>4 DEF World, AgentChanges, AgentChecks, AgentRestarts, Tick, NetmapChanges,
     TailscaleFlips
<1>5. ASSUME NEW s \in Savers, Save(s) PROVE ScrapeInv'
  BY <1>1, <1>5 DEF Save, SaveSnapshot, SaveWrite
\* Steps of a refresh, which leave the published variables alone but for the
\* last.
<1>6. ASSUME NEW r \in Refreshers, Start(r) PROVE ScrapeInv'
  <2>1. ListInv(r)'
    BY <1>6 DEF Start, TypeInv, TypeOK, ScrapeInv, ListInv
  <2> QED
    BY <1>6, <2>1, OnlyRefreshMoves DEF Start, TypeInv, TypeOK, ScrapeInv, OnlyRefresh
<1>7. ASSUME NEW r \in Refreshers, Discover(r) PROVE ScrapeInv'
  <2>1. HealthyIn(list'[r]) = {} /\ pc'[r] = "discovered" /\ found'[r] = found[r]
    BY <1>7, DiscoveredType DEF Discover, TypeInv, TypeOK, HealthyIn, Healthy
  <2>2. found[r] = {}
    BY <1>7, EmptyListScrapesNothing DEF Discover, ScrapeInv, ListInv
  <2>3. ListInv(r)'
    BY <2>1, <2>2, NoneHealthy DEF ListInv
  <2> QED
    BY <1>7, <2>3, OnlyRefreshMoves DEF Discover, TypeInv, TypeOK, ScrapeInv, OnlyRefresh
<1>8. ASSUME NEW r \in Refreshers, DiscoverFails(r) PROVE ScrapeInv'
  <2>1. ListInv(r)'
    BY <1>8 DEF DiscoverFails, TypeInv, TypeOK, ScrapeInv, ListInv
  <2> QED
    BY <1>8, <2>1, OnlyRefreshMoves DEF DiscoverFails, TypeInv, TypeOK, ScrapeInv, OnlyRefresh
<1>9. ASSUME NEW r \in Refreshers, RestoreOffline(r) PROVE ScrapeInv'
  <2>1. \A p \in DOMAIN list[r] : list[r][p] \in PeerInfo /\ list[r][p].health # Healthy
    BY <1>9 DEF RestoreOffline, TypeInv, TypeOK, PartialMap, ScrapeInv, ListInv, HealthyIn
  <2>2. /\ DOMAIN list'[r] = DOMAIN list[r]
        /\ \A p \in DOMAIN list[r] :
            list'[r][p] \in {list[r][p], WithCached(list[r][p], p, clock)}
    BY <1>9 DEF RestoreOffline, TypeInv, TypeOK
  <2>3. \A p \in DOMAIN list[r] : list'[r][p].health # Healthy
    BY <2>1, <2>2, WithCachedType DEF TypeInv
  <2>4. HealthyIn(list[r]) = {} /\ HealthyIn(list'[r]) = {}
    BY <2>1, <2>2, <2>3 DEF HealthyIn
  <2>5. found[r] = {} /\ found'[r] = found[r] /\ pc'[r] = "query"
    BY <1>9, <2>4, NoneHealthy DEF RestoreOffline, ScrapeInv, ListInv, TypeInv, TypeOK
  <2>6. ListInv(r)'
    BY <2>4, <2>5, NoneHealthy DEF ListInv
  <2> QED
    BY <1>9, <2>6, OnlyRefreshMoves
    DEF RestoreOffline, TypeInv, TypeOK, ScrapeInv, OnlyRefresh
<1>10. ASSUME NEW r \in Refreshers, Join(r) PROVE ScrapeInv'
  <2>1. HealthyIn(list[r]) = {} /\ Asked(r) \subseteq DOMAIN list[r]
    BY <1>10 DEF Join, Asked, ScrapeInv, ListInv
  <2>2. list'[r] = list[r] /\ found'[r] = found[r] /\ todo'[r] = Asked(r) /\ pc'[r] = "apply"
    BY <1>10 DEF Join, TypeInv, TypeOK
  <2>3. ListInv(r)'
    BY <2>1, <2>2 DEF ScrapeInv, ListInv
  <2> QED
    BY <1>10, <2>3, OnlyRefreshMoves DEF Join, TypeInv, TypeOK, ScrapeInv, OnlyRefresh
<1>11. ASSUME NEW r \in Refreshers, NEW p \in Peers, Merge(r, p) PROVE ScrapeInv'
  <2>1. ListInv(r)'
    BY <1>11 DEF Merge, TypeInv, TypeOK, ScrapeInv, ListInv
  <2> QED
    BY <1>11, <2>1, OnlyRefreshMoves DEF Merge, TypeInv, TypeOK, ScrapeInv, OnlyRefresh
<1>12. ASSUME NEW r \in Refreshers, Store(r) PROVE ScrapeInv'
  <2> DEFINE p == merged[r].peer
             s == merged[r].services
  <2>1. p \in todo[r] /\ p \in DOMAIN list[r] \ HealthyIn(list[r])
        /\ todo[r] \subseteq DOMAIN list[r] \ HealthyIn(list[r])
    BY <1>12 DEF Store, ScrapeInv, ListInv
  <2>2. /\ list'[r] = [list[r] EXCEPT ![p] =
                [health |-> Healthy, services |-> s, updatedAt |-> now[r]]]
        /\ found'[r] = found[r] \cup TargetsOf(p, s)
        /\ todo'[r] = todo[r] \ {p}
        /\ pc'[r] = "apply"
    BY <1>12 DEF Store, TypeInv, TypeOK
  <2>3. DOMAIN list'[r] = DOMAIN list[r] /\ list'[r][p].health = Healthy
        /\ list'[r][p].services = s /\ \A x \in DOMAIN list[r] \ {p} : list'[r][x] = list[r][x]
    BY <2>1, <2>2
  <2>4. HealthyIn(list'[r]) = HealthyIn(list[r]) \cup {p}
        /\ TargetsIn(list'[r]) = TargetsIn(list[r]) \cup TargetsOf(p, s)
    BY <2>1, <2>3, TargetsInAt
  <2>5. found[r] = TargetsIn(list[r])
    BY DEF ScrapeInv, ListInv
  <2> HIDE DEF p, s
  <2>6. ListInv(r)'
    BY <2>1, <2>2, <2>3, <2>4, <2>5 DEF ListInv
  <2> QED
    BY <1>12, <2>6, OnlyRefreshMoves DEF Store, TypeInv, TypeOK, ScrapeInv, OnlyRefresh
<1>13. ASSUME NEW r \in Refreshers, NEW p \in Peers, Restore(r, p) PROVE ScrapeInv'
  <2>1. p \in DOMAIN list[r] \ HealthyIn(list[r])
        /\ todo[r] \subseteq DOMAIN list[r] \ HealthyIn(list[r])
    BY <1>13 DEF Restore, ScrapeInv, ListInv
  <2> DEFINE e == [list[r][p] EXCEPT !.health = Outcome(r, p)]
  <2>2. e \in PeerInfo /\ e.health # Healthy
    <3>1. list[r][p] \in PeerInfo
      BY <2>1 DEF TypeInv, TypeOK, PartialMap
    <3>2. Outcome(r, p) \in AgentHealth /\ Outcome(r, p) # Healthy
      BY <1>13 DEF Restore, Outcome, WorseHealth, AgentHealth, Healthy
    <3> QED
      BY <3>1, <3>2 DEF PeerInfo
  <2>3. /\ list'[r] = [list[r] EXCEPT ![p] = WithCached(e, p, now[r])]
        /\ found'[r] = found[r]
        /\ todo'[r] = todo[r] \ {p}
        /\ pc'[r] = "apply"
    BY <1>13 DEF Restore, TypeInv, TypeOK
  <2>4. WithCached(e, p, now[r]).health # Healthy
    BY <2>2, WithCachedType DEF TypeInv
  <2> HIDE DEF e
  <2>5. DOMAIN list'[r] = DOMAIN list[r] /\ list'[r][p].health # Healthy
        /\ \A x \in DOMAIN list[r] \ {p} : list'[r][x] = list[r][x]
    BY <2>1, <2>3, <2>4
  <2>6. HealthyIn(list'[r]) = HealthyIn(list[r]) /\ TargetsIn(list'[r]) = TargetsIn(list[r])
    BY <2>1, <2>5, TargetsInAt
  <2>7. ListInv(r)'
    BY <2>1, <2>3, <2>5, <2>6 DEF ListInv, ScrapeInv
  <2> QED
    BY <1>13, <2>7, OnlyRefreshMoves DEF Restore, TypeInv, TypeOK, ScrapeInv, OnlyRefresh
<1>14. ASSUME NEW r \in Refreshers, EvictExpired(r) \/ Forget(r) PROVE ScrapeInv'
  BY <1>14, OnlyRefreshMoves
  DEF EvictExpired, Forget, TypeInv, TypeOK, ScrapeInv, ListInv, OnlyRefresh
<1>15. ASSUME NEW r \in Refreshers, Publish(r) PROVE ScrapeInv'
  <2>1. targets' = TargetsIn(peers')
    BY <1>15 DEF Publish, ScrapeInv, ListInv
  <2>2. list'[r] = EmptyList /\ found'[r] = {} /\ pc'[r] = "idle"
    BY <1>15 DEF Publish, TypeInv, TypeOK
  <2>3. ListInv(r)'
    BY <2>2, EmptyListScrapesNothing DEF ListInv
  <2> QED
    BY <1>15, <2>1, <2>3, OnlyRefreshMoves DEF Publish, TypeInv, TypeOK, OnlyRefresh
<1>16. ASSUME CentralRestarts PROVE ScrapeInv'
  BY <1>16, EmptyListScrapesNothing DEF CentralRestarts, Fresh0, ScrapeInv, ListInv
<1>17. CASE UNCHANGED vars
  BY <1>1, <1>17 DEF vars
<1> QED
  BY <1>2, <1>3, <1>4, <1>5, <1>6, <1>7, <1>8, <1>9, <1>10, <1>11, <1>12, <1>13,
     <1>14, <1>15, <1>16, <1>17
  DEF Next, Refresh, ApplyStep

\* What Prometheus is told to scrape is always exactly the services of the
\* peers shown as ok, for any number of overlapping refreshes, peers, faults
\* and restarts (collector.go:479-491).
THEOREM TargetsAlwaysMatchPeers == Spec => []TargetsMatchPeers
<1>1. ScrapeInv => TargetsMatchPeers
  BY DEF ScrapeInv, TargetsMatchPeers, TargetsIn, HealthyIn
<1> QED
  BY TypeInit, TypeStep, ScrapeInit, ScrapeStep, <1>1, PTL DEF Spec

-----------------------------------------------------------------------------
(* Conditional requests.                                                   *)

LoopOnly == Reloads = {}

Q(p) == query[Loop][p]["svc"]
H(p) == query[Loop][p]["health"]

-----------------------------------------------------------------------------
(* A 304 is usable.                                                        *)

\* Between Send and Merge nothing evicts the peer a conditional request was
\* sent to: the loop evicts only after the last result has been applied.
RequestInv(p) ==
    /\ pc[Loop] \in {"idle", "start", "discovered"} => Q(p).st = "idle"
    /\ pc[Loop] = "query" /\ Q(p).st # "idle" => p \in Asked(Loop)
    /\ Q(p).st \in {"sent", "listing", "answered"} => pc[Loop] = "query"
    /\ Q(p).st \in {"idle", "sent", "listing"} => Q(p).res = "none"
    /\ Q(p).st \in {"answered", "done"} => Q(p).res \in {"200", "304", "timeout", "unauthorized"}
    /\ pc[Loop] \in {"apply", "merged"} /\ p \in todo[Loop] => Q(p).st = "done"
    /\ /\ pc[Loop] \in {"query", "apply", "merged"}
       /\ (Q(p).st = "sent" /\ Q(p).ims # NoTime) \/ Q(p).res = "304"
       => p \in DOMAIN serviceCache

UsableInv ==
    /\ ~cancelled[Loop]
    /\ \A p \in Peers : RequestInv(p)

\* A finished request, field by field.
LEMMA DoneIs ==
    ASSUME NEW q, NEW res
    PROVE  /\ Done(q, res).st = "done" /\ Done(q, res).res = res
           /\ Done(q, res).ims = NoTime /\ Done(q, res).body = q.body
BY DEF Done, NoQuery

\* A request that has not been made, field by field.
LEMMA NoQueryIs ==
    /\ NoQuery.st = "idle" /\ NoQuery.res = "none" /\ NoQuery.ims = NoTime
BY DEF NoQuery

\* What a step that gives one request a new state leaves of the others.
LEMMA OneQuery ==
    ASSUME TypeInv, NEW p \in Peers, NEW k \in Kinds, NEW q,
           query' = [query EXCEPT ![Loop][p][k] = q]
    PROVE  /\ query'[Loop][p][k] = q
           /\ \A x \in Peers, j \in Kinds :
                x # p \/ j # k => query'[Loop][x][j] = query[Loop][x][j]
BY DEF TypeInv, TypeOK, Refreshers

\* What an Agent makes of a request: q is its new state.
Served(p, k, q) ==
    /\ query' = [query EXCEPT ![Loop][p][k] = q]
    /\ q.st \in {"answered", "listing"}
    /\ q.st = "answered" /\ k = "svc" => q.res = "304"
    /\ q.st = "answered" => q.res \in {"404", "304"}
    /\ q.st = "listing" => q.res = query[Loop][p][k].res /\ q.lm = ModifiedAt(p, k)
    /\ q.res = "304" => query[Loop][p][k].ims # NoTime \/ query[Loop][p][k].res = "304"

\* What an Agent's answer leaves of a request.
LEMMA ServeIs ==
    ASSUME TypeInv, NEW p \in Peers, NEW k \in Kinds, Serve(Loop, p, k)
    PROVE  \E q : Served(p, k, q)
<1> DEFINE q0 == query[Loop][p][k]
           a(res) == [q0 EXCEPT !.st = "answered", !.res = res]
           l == [q0 EXCEPT !.st = "listing", !.lm = ModifiedAt(p, k)]
<1>1. q0 \in Query
  BY DEF TypeInv, TypeOK, Refreshers
<1>2. ModifiedAt(p, k) \in Nat
  BY DEF TypeInv, TypeOK, ModifiedAt, RegistryState
<1>3. \A res : a(res).st = "answered" /\ a(res).res = res
  BY <1>1 DEF Query
<1>4. l.st = "listing" /\ l.res = q0.res /\ l.lm = ModifiedAt(p, k)
  BY <1>1 DEF Query
<1>5. CASE k = "health" /\ p \in OldAgents
  <2>1. query' = [query EXCEPT ![Loop][p][k] = a("404")]
    BY <1>5 DEF Serve, Answers
  <2> HIDE DEF a
  <2> QED
    BY <1>3, <1>5, <2>1 DEF Served
<1>6. CASE ~(k = "health" /\ p \in OldAgents) /\ ModifiedAt(p, k) <= q0.ims
  <2>1. query' = [query EXCEPT ![Loop][p][k] = a("304")]
    BY <1>6 DEF Serve, Answers
  <2>2. q0.ims # NoTime
    BY <1>2, <1>6 DEF NoTime
  <2> HIDE DEF a
  <2> QED
    BY <1>3, <2>1, <2>2 DEF Served
<1>7. CASE ~(k = "health" /\ p \in OldAgents) /\ ~(ModifiedAt(p, k) <= q0.ims)
  <2>1. query' = [query EXCEPT ![Loop][p][k] = l]
    BY <1>7 DEF Serve, Answers
  <2> HIDE DEF l
  <2>2. Served(p, k, l)
    BY <1>4, <2>1 DEF Served
  <2> QED
    BY <2>2
<1> QED
  BY <1>5, <1>6, <1>7

\* A step that moves the request of one peer and no other.
LEMMA RequestsOnly ==
    ASSUME UsableInv, NEW p \in Peers, RequestInv(p)',
           \A x \in Peers \ {p} : Q(x)' = Q(x),
           UNCHANGED <<pc, list, todo, cancelled, serviceCache>>
    PROVE  UsableInv'
BY DEF UsableInv, RequestInv, Asked, Offline

\* No request is under way at start-up.
LEMMA UsableInit == Init => UsableInv
BY NoQueriesType, NoQueryIs DEF Init, UsableInv, RequestInv, Q, Refreshers

\* Every step of a collector without overlapping refreshes keeps UsableInv.
LEMMA UsableStep == LoopOnly /\ TypeInv /\ UsableInv /\ [Next]_vars => UsableInv'
<1> SUFFICES ASSUME LoopOnly, TypeInv, UsableInv, [Next]_vars PROVE UsableInv'
  OBVIOUS
<1> USE DEF world, shared, locals
<1>0. Refreshers = {Loop}
  BY DEF LoopOnly, Refreshers
<1>1. ASSUME UNCHANGED <<pc, list, todo, cancelled, serviceCache, query>> PROVE UsableInv'
  BY <1>1 DEF UsableInv, RequestInv, Asked, Offline, Q
<1>2. ASSUME NEW p \in Peers, AgentRestarts(p) PROVE UsableInv'
  <2>1. \A x \in Peers \ {p} : Q(x)' = Q(x)
    BY <1>0, <1>2 DEF AgentRestarts, Q, TypeInv, TypeOK
  <2>2. Q(p)' = Q(p) \/ (Q(p).st = "listing" /\ Q(p)' = Done(NoQuery, "timeout"))
    BY <1>0, <1>2 DEF AgentRestarts, Q, Kinds, TypeInv, TypeOK
  <2>3. UNCHANGED <<pc, list, todo, cancelled, serviceCache>>
    BY <1>2 DEF AgentRestarts
  <2>4. RequestInv(p)'
    BY <2>2, <2>3, DoneIs DEF UsableInv, RequestInv, Asked, Offline
  <2> QED
    BY <2>1, <2>3, <2>4, RequestsOnly
<1>3. ASSUME World PROVE UsableInv'
  BY <1>1, <1>2, <1>3 DEF World, AgentChanges, AgentChecks, Tick, NetmapChanges, TailscaleFlips
<1>4. ASSUME NEW s \in Savers, Save(s) PROVE UsableInv'
  BY <1>1, <1>4 DEF Save, SaveSnapshot, SaveWrite
<1>5. CASE HandlerReturns(Loop)
  BY <1>5, CollectorAssumption DEF HandlerReturns
<1>6. CASE Start(Loop) \/ Discover(Loop) \/ DiscoverFails(Loop)
  <2>1. /\ pc[Loop] \in {"idle", "start"} /\ pc'[Loop] \in {"idle", "start", "discovered"}
        /\ ~cancelled'[Loop] /\ UNCHANGED query
    BY <1>0, <1>6 DEF Start, Discover, DiscoverFails, UsableInv, TypeInv, TypeOK
  <2> QED
    BY <2>1 DEF UsableInv, RequestInv, Q
<1>7. CASE RestoreOffline(Loop)
  BY <1>7 DEF RestoreOffline, UsableInv, RequestInv, Q, TypeInv, TypeOK
\* The requests.
<1>8. ASSUME NEW p \in Peers, NEW k \in Kinds, Send(Loop, p, k) PROVE UsableInv'
  <2> DEFINE q == [NoQuery EXCEPT !.st = "sent", !.ims = IfModifiedSince(p, k)]
  <2>1. query' = [query EXCEPT ![Loop][p][k] = q]
        /\ UNCHANGED <<pc, list, todo, cancelled, serviceCache>>
    BY <1>8 DEF Send, Answers
  <2>2. q.st = "sent" /\ q.res = "none" /\ q.ims = IfModifiedSince(p, k)
    BY DEF NoQuery
  <2> HIDE DEF q
  <2>3. RequestInv(p)'
    BY <1>8, <2>1, <2>2, OneQuery
    DEF Send, IfModifiedSince, UsableInv, RequestInv, Q, Kinds, Asked, Offline
  <2> QED
    BY <2>1, <2>3, OneQuery, RequestsOnly DEF Q, Kinds
<1>9. ASSUME NEW p \in Peers, NEW k \in Kinds, Serve(Loop, p, k) PROVE UsableInv'
  <2> DEFINE q0 == query[Loop][p][k]
  <2>3. PICK q : Served(p, k, q)
    BY <1>9, ServeIs
  <2>5. q0.st = "sent" /\ UNCHANGED <<pc, list, todo, cancelled, serviceCache>>
    BY <1>9 DEF Serve, Answers
  <2>4. /\ query'[Loop][p][k] = q
        /\ \A x \in Peers, j \in Kinds :
                x # p \/ j # k => query'[Loop][x][j] = query[Loop][x][j]
    <3>1. query' = [query EXCEPT ![Loop][p][k] = q]
      BY <2>3 DEF Served
    <3> QED
      BY <3>1, OneQuery
  <2>6. CASE k = "svc"
    <3>1. Q(p) = q0 /\ Q(p)' = q
      BY <2>4, <2>6 DEF Q
    <3> HIDE DEF q0
    <3>2. RequestInv(p)
      BY DEF UsableInv
    <3>3. q0.res = "none" /\ pc[Loop] = "query" /\ p \in Asked(Loop)
      BY <2>5, <3>1, <3>2 DEF RequestInv
    <3>4. q.res = "304" => p \in DOMAIN serviceCache
      BY <2>3, <2>5, <2>6, <3>1, <3>2, <3>3 DEF RequestInv, Served, Q
    <3>5. Asked(Loop)' = Asked(Loop)
      BY <2>5 DEF Asked, Offline
    <3>6. q.st = "answered" => q.res = "304"
      BY <2>3, <2>6 DEF Served
    <3>7. q.st \in {"answered", "listing"} /\ (q.st = "listing" => q.res = "none")
      BY <2>3, <2>6, <3>1, <3>3 DEF Served, Q
    <3>8. RequestInv(p)'
      BY <2>5, <3>1, <3>3, <3>4, <3>5, <3>6, <3>7 DEF RequestInv
    <3> QED
      BY <2>4, <2>5, <2>6, <3>8, RequestsOnly DEF Q, Kinds
  <2>7. CASE k = "health"
    <3>1. \A x \in Peers : Q(x)' = Q(x)
      BY <2>4, <2>7 DEF Q, Kinds
    <3> QED
      BY <2>5, <3>1 DEF UsableInv, RequestInv, Asked, Offline
  <2> QED
    BY <2>6, <2>7 DEF Kinds
<1>10. ASSUME NEW p \in Peers, NEW k \in Kinds, List(Loop, p, k) PROVE UsableInv'
  <2> DEFINE q == [query[Loop][p][k] EXCEPT !.st = "answered", !.res = "200",
                                            !.body = Listing(p, k)]
  <2>1. query' = [query EXCEPT ![Loop][p][k] = q]
        /\ UNCHANGED <<pc, list, todo, cancelled, serviceCache>>
    BY <1>10 DEF List, Answers
  <2>2. q.st = "answered" /\ q.res = "200"
    BY DEF TypeInv, TypeOK, Refreshers, Query
  <2> HIDE DEF q
  <2>3. RequestInv(p)'
    BY <1>10, <2>1, <2>2, OneQuery DEF List, UsableInv, RequestInv, Q, Kinds, Asked, Offline
  <2> QED
    BY <2>1, <2>3, OneQuery, RequestsOnly DEF Q, Kinds
<1>11. ASSUME NEW p \in Peers, UNCHANGED <<pc, list, todo, cancelled, serviceCache>>,
              \A x \in Peers \ {p} : Q(x)' = Q(x),
              pc[Loop] = "query", p \in Asked(Loop), Q(p)'.st = "done",
              \/ Q(p)'.res \in {"timeout", "unauthorized"}
              \/ Q(p)'.res = Q(p).res /\ Q(p).st = "answered"
       PROVE  UsableInv'
  <2>1. RequestInv(p)'
    BY <1>11 DEF UsableInv, RequestInv, Asked, Offline
  <2> QED
    BY <1>11, <2>1, RequestsOnly
<1>12. ASSUME NEW p \in Peers, NEW k \in Kinds,
              \/ Receive(Loop, p, k) \/ Garble(Loop, p, k)
              \/ TimeOut(Loop, p, k) \/ Refuse(Loop, p, k)
       PROVE  UsableInv'
  <2>1. CASE k = "svc"
    <3>1. pc[Loop] = "query" /\ p \in Asked(Loop)
      BY <1>12, <2>1 DEF Receive, Garble, TimeOut, Refuse, UsableInv, RequestInv, Q
    <3>2. UNCHANGED <<pc, list, todo, cancelled, serviceCache>>
      BY <1>12 DEF Receive, Garble, TimeOut, Refuse, Answers
    <3>3. PICK q, res : /\ query' = [query EXCEPT ![Loop][p][k] = Done(q, res)]
                        /\ \/ res \in {"timeout", "unauthorized"}
                           \/ res = Q(p).res /\ Q(p).st = "answered"
      <4>1. CASE Receive(Loop, p, k)
        BY <2>1, <4>1 DEF Receive, Q
      <4>2. CASE Garble(Loop, p, k) \/ TimeOut(Loop, p, k) \/ Refuse(Loop, p, k)
        BY <4>2 DEF Garble, TimeOut, Refuse, Answers
      <4> QED
        BY <1>12, <4>1, <4>2
    <3> DEFINE d == Done(q, res)
    <3>4. d.st = "done" /\ d.res = res
      BY DoneIs
    <3>5. query' = [query EXCEPT ![Loop][p][k] = d]
      BY <3>3
    <3>6. d.res \in {"timeout", "unauthorized"} \/ (d.res = Q(p).res /\ Q(p).st = "answered")
      BY <3>3, <3>4
    <3> HIDE DEF d
    <3>7. Q(p)' = d /\ \A x \in Peers \ {p} : Q(x)' = Q(x)
      <4>1. /\ query'[Loop][p][k] = d
            /\ \A x \in Peers, j \in Kinds :
                    x # p \/ j # k => query'[Loop][x][j] = query[Loop][x][j]
        BY <3>5, OneQuery
      <4> QED
        BY <2>1, <4>1 DEF Q, Kinds
    <3> QED
      BY <1>11, <3>1, <3>2, <3>4, <3>6, <3>7
  <2>2. CASE k = "health"
    <3>1. \A x \in Peers : Q(x)' = Q(x)
      <4>1. PICK q : query' = [query EXCEPT ![Loop][p][k] = q]
        BY <1>12 DEF Receive, Garble, TimeOut, Refuse, Answers
      <4> QED
        BY <2>2, <4>1, OneQuery DEF Q, Kinds
    <3>2. UNCHANGED <<pc, list, todo, cancelled, serviceCache>>
      BY <1>12 DEF Receive, Garble, TimeOut, Refuse, Answers
    <3> QED
      BY <3>1, <3>2 DEF UsableInv, RequestInv, Asked, Offline
  <2> QED
    BY <2>1, <2>2 DEF Kinds
\* Applying the results.
<1>13. CASE Join(Loop)
  <2>1. /\ \A p \in Peers : Q(p)' = Q(p)
        /\ \A p \in Asked(Loop) : Q(p).st = "done"
        /\ \A p \in Peers : Q(p).st # "idle" => p \in Asked(Loop)
    BY <1>13 DEF Join, Q, Kinds, UsableInv, RequestInv
  <2>2. pc[Loop] = "query" /\ pc'[Loop] = "apply" /\ todo'[Loop] = Asked(Loop)
        /\ UNCHANGED <<cancelled, serviceCache>>
    BY <1>0, <1>13 DEF Join, TypeInv, TypeOK
  <2> QED
    BY <2>1, <2>2 DEF UsableInv, RequestInv
<1>14. ASSUME NEW p \in Peers, Merge(Loop, p) PROVE UsableInv'
  <2>1. DOMAIN serviceCache' = DOMAIN serviceCache /\ pc'[Loop] = "merged"
        /\ pc[Loop] = "apply" /\ UNCHANGED <<query, todo, cancelled>>
    BY <1>0, <1>14 DEF Merge, TypeInv, TypeOK
  <2> QED
    BY <2>1 DEF UsableInv, RequestInv, Q
<1>15. CASE Store(Loop)
  <2>1. DOMAIN serviceCache \subseteq DOMAIN serviceCache' /\ pc'[Loop] = "apply"
        /\ pc[Loop] = "merged" /\ todo'[Loop] \subseteq todo[Loop]
        /\ UNCHANGED <<query, cancelled>>
    BY <1>0, <1>15 DEF Store, TypeInv, TypeOK
  <2> QED
    BY <2>1 DEF UsableInv, RequestInv, Q
<1>16. ASSUME NEW p \in Peers, Restore(Loop, p) PROVE UsableInv'
  <2>1. pc'[Loop] = "apply" /\ pc[Loop] = "apply" /\ todo'[Loop] \subseteq todo[Loop]
        /\ UNCHANGED <<query, cancelled, serviceCache>>
    BY <1>0, <1>16 DEF Restore, TypeInv, TypeOK
  <2> QED
    BY <2>1 DEF UsableInv, RequestInv, Q
<1>17. CASE EvictExpired(Loop) \/ Forget(Loop)
  <2>1. pc'[Loop] \in {"forget", "publish"} /\ pc[Loop] \in {"apply", "forget"}
        /\ UNCHANGED <<query, cancelled>>
    BY <1>0, <1>17 DEF EvictExpired, Forget, TypeInv, TypeOK
  <2> QED
    BY <2>1 DEF UsableInv, RequestInv, Q
<1>18. CASE Publish(Loop) \/ CentralRestarts
  <2>1. query'[Loop] = NoQueries /\ ~cancelled'[Loop] /\ pc'[Loop] \in {"idle", "start"}
    BY <1>0, <1>18 DEF Publish, CentralRestarts, Fresh0, TypeInv, TypeOK
  <2>2. \A p \in Peers : Q(p)' = NoQuery
    BY <2>1, NoQueriesType DEF Q
  <2> QED
    BY <2>1, <2>2, NoQueryIs DEF UsableInv, RequestInv
<1>19. CASE UNCHANGED vars
  BY <1>1, <1>19 DEF vars
<1> QED
  BY <1>0, <1>3, <1>4, <1>5, <1>6, <1>7, <1>8, <1>9, <1>10, <1>12, <1>13, <1>14, <1>15,
     <1>16, <1>17, <1>18, <1>19
  DEF Next, Refresh, QueryStep, QueryFails, ApplyStep

\* While no POST /reload overlaps the loop, a 304 is only ever received while
\* the services it stands for are cached, whatever fails, restarts or
\* expires (collector.go:562-564).
THEOREM NotModifiedAlwaysUsable == LoopOnly /\ Spec => []NotModifiedIsUsable
<1> SUFFICES ASSUME LoopOnly PROVE Spec => []NotModifiedIsUsable
  OBVIOUS
<1>1. TypeInv /\ UsableInv => NotModifiedIsUsable
  BY DEF LoopOnly, Refreshers, UsableInv, RequestInv, NotModifiedIsUsable, Q, TypeInv, TypeOK
<1>2. TypeInv /\ UsableInv /\ [Next]_vars => UsableInv'
  BY UsableStep
<1> QED
  BY TypeInit, TypeStep, UsableInit, <1>1, <1>2, PTL DEF Spec

-----------------------------------------------------------------------------
(* A 304 is current.                                                       *)

HealthNeverFails == MaxRestarts = 0 /\ Faults \subseteq ({"svc"} \X {"timeout", "unauthorized"})

Noticed(p) == lastModified["svc"][p] = agents[p].svcModifiedAt
Current(p) == ListWithoutHealth(agents[p])

\* A list has been received from p, and its Last-Modified noted, but the list
\* is not cached yet.
Pending(p) ==
    /\ Q(p).st = "done" /\ Q(p).res = "200"
    /\ \/ pc[Loop] = "query"
       \/ pc[Loop] \in {"apply", "merged"} /\ p \in todo[Loop]

CurrentPeer(p) ==
    /\ lastModified["svc"][p] <= agents[p].svcModifiedAt
    /\ H(p).res \notin {"timeout", "unauthorized"}
    /\ Q(p).st = "listing" => Q(p).lm <= agents[p].svcModifiedAt
    /\ Q(p).st = "answered" /\ Q(p).res = "200" =>
        /\ Q(p).lm <= agents[p].svcModifiedAt
        /\ Q(p).lm = agents[p].svcModifiedAt => Q(p).body = Current(p)
    /\ Pending(p) /\ Noticed(p) => Q(p).body = Current(p)
    /\ pc[Loop] = "merged" /\ merged[Loop].peer = p /\ Noticed(p) =>
        WithoutHealth(merged[Loop].services) = Current(p)
    /\ p \in DOMAIN serviceCache /\ ~Pending(p) /\ Noticed(p) =>
        WithoutHealth(serviceCache[p].services) = Current(p)

CurrentInv ==
    /\ budget.restart = 0
    /\ \A p \in Peers : CurrentPeer(p)

\* Dropping the health is idempotent.
LEMMA WithoutHealthTwice ==
    ASSUME NEW s \in Services
    PROVE  WithoutHealth(WithoutHealth(s)) = WithoutHealth(s)
<1>1. ASSUME NEW n \in DOMAIN s
      PROVE  [[s[n] EXCEPT !.health = NoHealth] EXCEPT !.health = NoHealth]
                = [s[n] EXCEPT !.health = NoHealth]
  BY InServices DEF Entry
<1> QED
  BY <1>1 DEF WithoutHealth

\* The Last-Modified instants as the actions compare them.
LEMMA InstantTypes ==
    ASSUME TypeInv, NEW p \in Peers
    PROVE  /\ agents[p] \in RegistryState
           /\ agents[p].svcModifiedAt \in Nat
           /\ lastModified["svc"][p] \in Int
           /\ Q(p) \in Query /\ H(p) \in Query
           /\ Q(p).lm \in Int
           /\ Current(p) \in Services
BY ListTypes DEF TypeInv, TypeOK, RegistryState, Q, H, Query, Refreshers, Kinds, Times, NoTime,
   Current

\* Nothing CurrentPeer(p) reads has changed.
Same(p) ==
    /\ Q(p)' = Q(p) /\ H(p)' = H(p)
    /\ agents'[p] = agents[p]
    /\ lastModified'["svc"][p] = lastModified["svc"][p]

\* A step that changes nothing of p keeps its conjunct.
LEMMA SameIsCurrent ==
    ASSUME NEW p, CurrentPeer(p), Same(p), UNCHANGED <<pc, todo, merged, serviceCache>>
    PROVE  CurrentPeer(p)'
BY DEF CurrentPeer, Same, Pending, Noticed, Current

\* A new state of one service request leaves the others.
LEMMA SvcQuery ==
    ASSUME TypeInv, NEW p \in Peers, NEW q, query' = [query EXCEPT ![Loop][p]["svc"] = q]
    PROVE  /\ Q(p)' = q /\ H(p)' = H(p)
           /\ \A x \in Peers \ {p} : Q(x)' = Q(x) /\ H(x)' = H(x)
BY DEF TypeInv, TypeOK, Refreshers, Kinds, Q, H

\* A new state of one health request leaves the others.
LEMMA HealthQuery ==
    ASSUME TypeInv, NEW p \in Peers, NEW q, query' = [query EXCEPT ![Loop][p]["health"] = q]
    PROVE  /\ H(p)' = q /\ Q(p)' = Q(p)
           /\ \A x \in Peers \ {p} : Q(x)' = Q(x) /\ H(x)' = H(x)
BY DEF TypeInv, TypeOK, Refreshers, Kinds, Q, H

\* Nothing is remembered at start-up.
LEMMA CurrentInit == HealthNeverFails /\ Init => CurrentInv
<1> SUFFICES ASSUME HealthNeverFails, Init PROVE CurrentInv
  OBVIOUS
<1>1. TypeInv
  BY TypeInit
<1>2. \A p \in Peers : Q(p) = NoQuery /\ H(p) = NoQuery
  BY NoQueriesType DEF Init, Q, H, Refreshers
<1>3. \A p \in Peers : lastModified["svc"][p] = NoTime
  BY DEF Init, Kinds
<1>4. pc[Loop] = "start" /\ serviceCache = EmptyCache /\ budget.restart = 0
  BY DEF Init, Refreshers, HealthNeverFails
<1> QED
  BY <1>1, <1>2, <1>3, <1>4, InstantTypes, NoQueryIs
  DEF CurrentInv, CurrentPeer, Pending, Noticed, NoTime

\* No fault is left that could befall a health request.
LEMMA NoHealthFault ==
    ASSUME HealthNeverFails, UsableInv, NEW k, NEW f, MayFail(Loop, k, f)
    PROVE  k = "svc" /\ f \in {"timeout", "unauthorized"}
BY DEF HealthNeverFails, UsableInv, MayFail

\* Every step keeps CurrentInv, when health requests do not fail.
LEMMA CurrentStep ==
    LoopOnly /\ HealthNeverFails /\ TypeInv /\ UsableInv /\ CurrentInv /\ [Next]_vars
        => CurrentInv'
<1> SUFFICES ASSUME LoopOnly, HealthNeverFails, TypeInv, UsableInv, CurrentInv, [Next]_vars
             PROVE  CurrentInv'
  OBVIOUS
<1> USE DEF world, shared, locals
<1>0. Refreshers = {Loop}
  BY DEF LoopOnly, Refreshers
<1>1. ASSUME UNCHANGED <<pc, todo, merged, serviceCache, query, agents, lastModified, budget>>
      PROVE  CurrentInv'
  BY <1>1, SameIsCurrent DEF CurrentInv, Same, Q, H
\* The world.
<1>2. ASSUME NEW p \in Peers, AgentChanges(p) PROVE CurrentInv'
  <2>1. UNCHANGED <<pc, todo, merged, serviceCache, query, lastModified, budget, clock>>
        /\ \A x \in Peers \ {p} : agents'[x] = agents[x]
    BY <1>2 DEF AgentChanges, TypeInv, TypeOK
  <2>2. agents'[p].svcModifiedAt > agents[p].svcModifiedAt /\ agents'[p].svcModifiedAt \in Nat
    <3>1. agents[p] \in RegistryState /\ clock \in Nat
      BY DEF TypeInv, TypeOK
    <3>2. agents'[p] \in RegistryState /\ agents'[p].svcModifiedAt > agents[p].svcModifiedAt
      BY <1>2, <3>1, PutAdvances, RemoveAdvances DEF AgentChanges, TypeInv, TypeOK
    <3> QED
      BY <3>2 DEF RegistryState
  <2>3. \A x \in Peers \ {p} : CurrentPeer(x)'
    BY <2>1, SameIsCurrent DEF CurrentInv, Same, Q, H
  <2>4. CurrentPeer(p)'
    BY <2>1, <2>2, InstantTypes DEF CurrentInv, CurrentPeer, Pending, Noticed, Q, H
  <2> QED
    BY <2>1, <2>3, <2>4 DEF CurrentInv
<1>3. ASSUME NEW p \in Peers, AgentChecks(p) PROVE CurrentInv'
  <2>1. UNCHANGED <<pc, todo, merged, serviceCache, query, lastModified, budget, clock>>
        /\ \A x \in Peers \ {p} : agents'[x] = agents[x]
    BY <1>3 DEF AgentChecks, TypeInv, TypeOK
  <2>2. /\ agents'[p].svcModifiedAt = agents[p].svcModifiedAt
        /\ ListWithoutHealth(agents'[p]) = ListWithoutHealth(agents[p])
    <3>1. agents[p] \in RegistryState /\ clock \in Nat
      BY DEF TypeInv, TypeOK
    <3> QED
      BY <1>3, <3>1, UpdateHealthKeepsServices DEF AgentChecks, TypeInv, TypeOK
  <2>3. \A x \in Peers \ {p} : CurrentPeer(x)'
    BY <2>1, SameIsCurrent DEF CurrentInv, Same, Q, H
  <2>4. CurrentPeer(p)'
    BY <2>1, <2>2 DEF CurrentInv, CurrentPeer, Pending, Noticed, Current, Q, H
  <2> QED
    BY <2>1, <2>3, <2>4 DEF CurrentInv
<1>4. ASSUME NEW p \in Peers, AgentRestarts(p) PROVE CurrentInv'
  BY <1>4 DEF AgentRestarts, CurrentInv
<1>5. ASSUME World PROVE CurrentInv'
  BY <1>1, <1>2, <1>3, <1>4, <1>5 DEF World, Tick, NetmapChanges, TailscaleFlips
<1>6. ASSUME NEW s \in Savers, Save(s) PROVE CurrentInv'
  BY <1>1, <1>6 DEF Save, SaveSnapshot, SaveWrite
\* A refresh up to its requests.
<1>7. CASE Start(Loop) \/ HandlerReturns(Loop) \/ Discover(Loop) \/ DiscoverFails(Loop)
           \/ RestoreOffline(Loop)
  <2>1. UNCHANGED <<merged, serviceCache, query, agents, lastModified, budget>>
        /\ pc'[Loop] # "merged"
        /\ pc'[Loop] \notin {"apply", "merged"}
        /\ pc[Loop] \in {"idle", "start", "discovered"}
    BY <1>0, <1>7, CollectorAssumption
    DEF Start, HandlerReturns, Discover, DiscoverFails, RestoreOffline, TypeInv, TypeOK
  <2>2. \A p \in Peers : Q(p).st = "idle"
    BY <2>1 DEF UsableInv, RequestInv
  <2> QED
    BY <2>1, <2>2 DEF CurrentInv, CurrentPeer, Pending, Noticed, Current, Q, H
\* The requests.  Each changes one query of one peer.
<1>8. ASSUME NEW p \in Peers, CurrentPeer(p)',
             \A x \in Peers \ {p} : /\ Q(x)' = Q(x) /\ H(x)' = H(x)
                                    /\ lastModified'["svc"][x] = lastModified["svc"][x],
             UNCHANGED <<pc, todo, merged, serviceCache, agents>>, budget'.restart = budget.restart
      PROVE  CurrentInv'
  <2>1. \A x \in Peers \ {p} : CurrentPeer(x)'
    BY <1>8, SameIsCurrent DEF CurrentInv, Same
  <2> QED
    BY <1>8, <2>1 DEF CurrentInv
<1>9. ASSUME NEW p \in Peers, Send(Loop, p, "svc") PROVE CurrentInv'
  <2> DEFINE q == [NoQuery EXCEPT !.st = "sent", !.ims = IfModifiedSince(p, "svc")]
  <2>1. query' = [query EXCEPT ![Loop][p]["svc"] = q]
    BY <1>9 DEF Send, Answers
  <2>2. UNCHANGED <<pc, todo, merged, serviceCache, agents, lastModified, budget>>
    BY <1>9 DEF Send, Answers
  <2>3. q.st = "sent"
    BY DEF NoQuery
  <2>4. Q(p).st = "idle"
    BY <1>9 DEF Send, Q
  <2> HIDE DEF q
  <2>5. Q(p)' = q /\ H(p)' = H(p) /\ \A x \in Peers \ {p} : Q(x)' = Q(x) /\ H(x)' = H(x)
    BY <2>1, SvcQuery
  <2>6. CurrentPeer(p)'
    BY <2>2, <2>3, <2>4, <2>5 DEF CurrentInv, CurrentPeer, Pending, Noticed, Current
  <2> QED
    BY <1>8, <2>2, <2>5, <2>6
<1>10. ASSUME NEW p \in Peers, Serve(Loop, p, "svc") PROVE CurrentInv'
  <2>1. PICK q : Served(p, "svc", q)
    BY <1>10, ServeIs DEF Kinds
  <2>2. query' = [query EXCEPT ![Loop][p]["svc"] = q]
    BY <2>1 DEF Served
  <2>3. UNCHANGED <<pc, todo, merged, serviceCache, agents, lastModified, budget>>
    BY <1>10 DEF Serve, Answers
  <2>4. Q(p).st = "sent"
    BY <1>10 DEF Serve, Q
  <2>5. /\ q.st \in {"answered", "listing"}
        /\ q.st = "answered" => q.res = "304"
        /\ q.st = "listing" => q.lm = agents[p].svcModifiedAt
    BY <2>1 DEF Served, ModifiedAt
  <2>6. Q(p)' = q /\ H(p)' = H(p) /\ \A x \in Peers \ {p} : Q(x)' = Q(x) /\ H(x)' = H(x)
    BY <2>2, SvcQuery
  <2>7. CurrentPeer(p)'
    BY <2>3, <2>4, <2>5, <2>6, InstantTypes DEF CurrentInv, CurrentPeer, Pending, Noticed, Current
  <2> QED
    BY <1>8, <2>3, <2>6, <2>7
<1>11. ASSUME NEW p \in Peers, List(Loop, p, "svc") PROVE CurrentInv'
  <2> DEFINE q == [query[Loop][p]["svc"] EXCEPT !.st = "answered", !.res = "200",
                                                !.body = Listing(p, "svc")]
  <2>1. query' = [query EXCEPT ![Loop][p]["svc"] = q]
    BY <1>11 DEF List, Answers
  <2>2. UNCHANGED <<pc, todo, merged, serviceCache, agents, lastModified, budget>>
    BY <1>11 DEF List, Answers
  <2>3. Q(p) \in Query
    BY InstantTypes
  <2>4. q.st = "answered" /\ q.lm = Q(p).lm /\ q.body = Current(p)
    BY <2>3 DEF Q, Query, Listing, Current
  <2>5. Q(p).st = "listing"
    BY <1>11 DEF List, Q
  <2> HIDE DEF q
  <2>6. Q(p)' = q /\ H(p)' = H(p) /\ \A x \in Peers \ {p} : Q(x)' = Q(x) /\ H(x)' = H(x)
    BY <2>1, SvcQuery
  <2>7. CurrentPeer(p)'
    BY <2>2, <2>4, <2>5, <2>6 DEF CurrentInv, CurrentPeer, Pending, Noticed, Current
  <2> QED
    BY <1>8, <2>2, <2>6, <2>7
<1>12. ASSUME NEW p \in Peers, Receive(Loop, p, "svc") PROVE CurrentInv'
  <2> DEFINE q == Done(Q(p), Q(p).res)
  <2>1. query' = [query EXCEPT ![Loop][p]["svc"] = q]
    BY <1>12 DEF Receive, Q
  <2>2. UNCHANGED <<pc, todo, merged, serviceCache, agents, budget>>
    BY <1>12 DEF Receive
  <2>3. /\ Q(p).res = "200" => lastModified'["svc"][p] = Q(p).lm
        /\ Q(p).res # "200" => lastModified' = lastModified
        /\ \A x \in Peers \ {p} : lastModified'["svc"][x] = lastModified["svc"][x]
    BY <1>12 DEF Receive, Noted, Q, TypeInv, TypeOK, Kinds
  <2>4. q.st = "done" /\ q.res = Q(p).res /\ q.body = Q(p).body
    BY DoneIs
  <2>5. Q(p).st = "answered" /\ pc[Loop] = "query"
    BY <1>12 DEF Receive, Q, UsableInv, RequestInv
  <2> HIDE DEF q
  <2>6. Q(p)' = q /\ H(p)' = H(p) /\ \A x \in Peers \ {p} : Q(x)' = Q(x) /\ H(x)' = H(x)
    BY <2>1, SvcQuery
  <2>7. CASE Q(p).res = "200"
    <3>1. Pending(p)'
      BY <2>2, <2>4, <2>5, <2>6, <2>7 DEF Pending
    <3> QED
      <4>1. CurrentPeer(p)'
        BY <2>2, <2>3, <2>4, <2>5, <2>6, <2>7, <3>1
        DEF CurrentInv, CurrentPeer, Noticed, Current
      <4> QED
        BY <1>8, <2>2, <2>3, <2>6, <4>1
  <2>8. CASE Q(p).res # "200"
    <3>1. CurrentPeer(p)'
      BY <2>2, <2>3, <2>4, <2>5, <2>6, <2>8
      DEF CurrentInv, CurrentPeer, Pending, Noticed, Current
    <3> QED
      BY <1>8, <2>2, <2>3, <2>6, <3>1
  <2> QED
    BY <2>7, <2>8
<1>13. ASSUME NEW p \in Peers, TimeOut(Loop, p, "svc") \/ Refuse(Loop, p, "svc")
       PROVE  CurrentInv'
  <2>1. PICK res \in {"timeout", "unauthorized"} :
            query' = [query EXCEPT ![Loop][p]["svc"] = Done(NoQuery, res)]
    BY <1>13 DEF TimeOut, Refuse, Answers
  <2>2. UNCHANGED <<pc, todo, merged, serviceCache, agents, lastModified>>
    BY <1>13 DEF TimeOut, Refuse, Answers
  <2>3. budget'.restart = budget.restart
    BY <1>13 DEF TimeOut, Refuse, MayFail, TypeInv, TypeOK, Budget
  <2> DEFINE q == Done(NoQuery, res)
  <2>4. q.st = "done" /\ q.res = res
    BY DoneIs
  <2>5. Q(p).st # "done"
    BY <1>13 DEF TimeOut, Refuse, Q
  <2>6. query' = [query EXCEPT ![Loop][p]["svc"] = q]
    BY <2>1
  <2> HIDE DEF q
  <2>7. Q(p)' = q /\ H(p)' = H(p) /\ \A x \in Peers \ {p} : Q(x)' = Q(x) /\ H(x)' = H(x)
    BY <2>6, SvcQuery
  <2>8. CurrentPeer(p)'
    BY <2>2, <2>4, <2>5, <2>7 DEF CurrentInv, CurrentPeer, Pending, Noticed, Current
  <2> QED
    BY <1>8, <2>2, <2>3, <2>7, <2>8
<1>14. ASSUME NEW p \in Peers,
              \/ Send(Loop, p, "health") \/ Serve(Loop, p, "health")
              \/ List(Loop, p, "health") \/ Receive(Loop, p, "health")
       PROVE  CurrentInv'
  <2>1. PICK q : /\ query' = [query EXCEPT ![Loop][p]["health"] = q]
                 /\ q.res \in {"none", "200", "304", "404", H(p).res}
    <3>1. CASE Send(Loop, p, "health")
      <4> DEFINE q == [NoQuery EXCEPT !.st = "sent", !.ims = IfModifiedSince(p, "health")]
      <4>1. query' = [query EXCEPT ![Loop][p]["health"] = q]
        BY <3>1 DEF Send, Answers
      <4>2. q.res = "none"
        BY DEF NoQuery
      <4> HIDE DEF q
      <4> QED
        BY <4>1, <4>2
    <3>2. CASE Serve(Loop, p, "health")
      <4>1. PICK q : Served(p, "health", q)
        BY <3>2, ServeIs DEF Kinds
      <4> QED
        BY <4>1 DEF Served, H
    <3>3. CASE List(Loop, p, "health")
      <4> DEFINE q == [query[Loop][p]["health"] EXCEPT !.st = "answered", !.res = "200",
                                                       !.body = Listing(p, "health")]
      <4>1. query' = [query EXCEPT ![Loop][p]["health"] = q]
        BY <3>3 DEF List, Answers
      <4>2. H(p) \in Query
        BY InstantTypes
      <4>3. q.res = "200"
        BY <4>2 DEF H, Query
      <4> HIDE DEF q
      <4> QED
        BY <4>1, <4>3
    <3>4. CASE Receive(Loop, p, "health")
      <4> DEFINE q == Done(H(p), H(p).res)
      <4>1. query' = [query EXCEPT ![Loop][p]["health"] = q]
        BY <3>4 DEF Receive, H
      <4>2. q.res = H(p).res
        BY DoneIs
      <4> HIDE DEF q
      <4> QED
        BY <4>1, <4>2
    <3> QED
      BY <1>14, <3>1, <3>2, <3>3, <3>4
  <2>2. UNCHANGED <<pc, todo, merged, serviceCache, agents, budget>>
    BY <1>14 DEF Send, Serve, List, Receive, Answers
  <2>3. \A x \in Peers : lastModified'["svc"][x] = lastModified["svc"][x]
    BY <1>14 DEF Send, Serve, List, Receive, Answers, Noted, TypeInv, TypeOK, Kinds
  <2>4. H(p)' = q /\ Q(p)' = Q(p) /\ \A x \in Peers \ {p} : Q(x)' = Q(x) /\ H(x)' = H(x)
    <3>1. query' = [query EXCEPT ![Loop][p]["health"] = q]
      BY <2>1
    <3> QED
      BY <3>1, HealthQuery
  <2>5. CurrentPeer(p)'
    BY <2>1, <2>2, <2>3, <2>4 DEF CurrentInv, CurrentPeer, Pending, Noticed, Current
  <2> QED
    BY <1>8, <2>2, <2>3, <2>4, <2>5
<1>15. ASSUME NEW p \in Peers, NEW k \in Kinds, Garble(Loop, p, k) PROVE FALSE
  BY <1>15, NoHealthFault DEF Garble
<1>16. ASSUME NEW p \in Peers, TimeOut(Loop, p, "health") \/ Refuse(Loop, p, "health") PROVE FALSE
  BY <1>16, NoHealthFault DEF TimeOut, Refuse
\* Applying the results.
<1>17. CASE Join(Loop)
  <2>1. /\ pc[Loop] = "query" /\ pc'[Loop] = "apply" /\ todo'[Loop] = Asked(Loop)
        /\ UNCHANGED <<merged, serviceCache, query, agents, lastModified, budget>>
    BY <1>0, <1>17 DEF Join, TypeInv, TypeOK
  <2>2. \A p \in Peers : Q(p).st = "done" => p \in Asked(Loop)
    BY <2>1 DEF UsableInv, RequestInv
  <2> QED
    BY <2>1, <2>2 DEF CurrentInv, CurrentPeer, Pending, Noticed, Current, Q, H
<1>18. ASSUME NEW p \in Peers, Merge(Loop, p) PROVE CurrentInv'
  <2> DEFINE m == MergedServices(Loop, p)
  <2>1. /\ pc[Loop] = "apply" /\ p \in todo[Loop] /\ pc'[Loop] = "merged"
        /\ merged'[Loop].peer = p /\ merged'[Loop].services = m
        /\ UNCHANGED <<query, todo, agents, lastModified, budget>>
    BY <1>0, <1>18 DEF Merge, TypeInv, TypeOK
  <2>2. WithoutHealth(m) = WithoutHealth(BaseServices(Loop, p))
    BY <1>0, MergedServicesType DEF TypeInv
  <2>3. Q(p).st = "done" /\ Q(p).res \in {"200", "304"}
        /\ (Q(p).res = "304" => p \in DOMAIN serviceCache)
    BY <1>18, <2>1 DEF Merge, Outcome, WorseHealth, Healthy, UsableInv, RequestInv, Q
  <2> HIDE DEF m
  <2>4. Noticed(p) => WithoutHealth(m) = Current(p)
    <3>1. CASE Q(p).res = "200"
      <4>1. BaseServices(Loop, p) = Q(p).body /\ Pending(p)
        BY <2>1, <2>3, <3>1 DEF BaseServices, Pending, Q
      <4>2. Noticed(p) => Q(p).body = Current(p)
        BY <4>1 DEF CurrentInv, CurrentPeer
      <4>3. WithoutHealth(Current(p)) = Current(p)
        <5>1. agents[p].entries \in Services
          BY DEF TypeInv, TypeOK, RegistryState
        <5> QED
          BY <5>1, WithoutHealthTwice DEF Current, ListWithoutHealth
      <4> QED
        BY <2>2, <4>1, <4>2, <4>3
    <3>2. CASE Q(p).res = "304"
      <4>1. BaseServices(Loop, p) = serviceCache[p].services /\ ~Pending(p)
            /\ p \in DOMAIN serviceCache
        BY <2>3, <3>2 DEF BaseServices, CachedServices, Pending, Q
      <4> QED
        BY <2>2, <4>1 DEF CurrentInv, CurrentPeer
    <3> QED
      BY <2>3, <3>1, <3>2
  <2>5. /\ DOMAIN serviceCache' = DOMAIN serviceCache
        /\ \A x \in DOMAIN serviceCache \ {p} : serviceCache'[x] = serviceCache[x]
        /\ p \in DOMAIN serviceCache => \/ serviceCache'[p] = serviceCache[p]
                                       \/ serviceCache'[p].services = m
    <3>1. p \in DOMAIN serviceCache => serviceCache[p] \in Cached
      BY DEF TypeInv, TypeOK, PartialMap
    <3> QED
      BY <1>18, <3>1 DEF Merge, Cached, m
  <2>6. \A x \in Peers : Pending(x)' = Pending(x)
    BY <2>1 DEF Pending, Q
  <2>7. \A x \in Peers \ {p} : CurrentPeer(x)'
    BY <2>1, <2>5, <2>6 DEF CurrentInv, CurrentPeer, Noticed, Current, Q, H
  <2>8. CurrentPeer(p)'
    BY <2>1, <2>3, <2>4, <2>5, <2>6 DEF CurrentInv, CurrentPeer, Noticed, Current, Q, H
  <2> QED
    BY <2>1, <2>7, <2>8 DEF CurrentInv
<1>19. CASE Store(Loop)
  <2> DEFINE p == merged[Loop].peer
  <2>1. /\ pc[Loop] = "merged" /\ pc'[Loop] = "apply" /\ todo'[Loop] = todo[Loop] \ {p}
        /\ UNCHANGED <<query, agents, lastModified, budget>>
    BY <1>0, <1>19 DEF Store, TypeInv, TypeOK
  <2>2. /\ DOMAIN serviceCache' = DOMAIN serviceCache \cup {p}
        /\ \A x \in DOMAIN serviceCache \ {p} : serviceCache'[x] = serviceCache[x]
        /\ serviceCache'[p].services = merged[Loop].services
    BY <1>19 DEF Store
  <2>3. ASSUME NEW x \in Peers, x # p PROVE CurrentPeer(x)'
    BY <2>1, <2>2, <2>3 DEF CurrentInv, CurrentPeer, Pending, Noticed, Current, Q, H
  <2>4. ASSUME NEW x \in Peers, x = p PROVE CurrentPeer(x)'
    BY <2>1, <2>2, <2>4 DEF CurrentInv, CurrentPeer, Pending, Noticed, Current, Q, H
  <2> QED
    BY <2>1, <2>3, <2>4 DEF CurrentInv
<1>20. ASSUME NEW p \in Peers, Restore(Loop, p) PROVE CurrentInv'
  <2>1. /\ pc[Loop] = "apply" /\ pc'[Loop] = "apply" /\ todo'[Loop] = todo[Loop] \ {p}
        /\ UNCHANGED <<merged, query, serviceCache, agents, lastModified, budget>>
    BY <1>0, <1>20 DEF Restore, TypeInv, TypeOK
  <2>2. ~Pending(p)
    BY <1>20 DEF Restore, Outcome, WorseHealth, Healthy, CurrentInv, CurrentPeer, Pending, Q, H
  <2>3. \A x \in Peers : Pending(x)' = Pending(x)
    BY <2>1, <2>2 DEF Pending, Q
  <2> QED
    BY <2>1, <2>3 DEF CurrentInv, CurrentPeer, Noticed, Current, Q, H
<1>21. CASE EvictExpired(Loop)
  <2>1. /\ pc[Loop] = "apply" /\ todo[Loop] = {} /\ pc'[Loop] = "forget"
        /\ DOMAIN serviceCache' \subseteq DOMAIN serviceCache
        /\ \A x \in DOMAIN serviceCache' : serviceCache'[x] = serviceCache[x]
        /\ UNCHANGED <<query, agents, lastModified, budget>>
    BY <1>0, <1>21 DEF EvictExpired, TypeInv, TypeOK
  <2> QED
    BY <2>1 DEF CurrentInv, CurrentPeer, Pending, Noticed, Current, Q, H
<1>22. CASE Forget(Loop)
  <2>1. /\ pc[Loop] = "forget" /\ pc'[Loop] = "publish"
        /\ UNCHANGED <<query, agents, serviceCache, budget>>
        /\ \A x \in Peers : lastModified'["svc"][x] \in {NoTime, lastModified["svc"][x]}
    BY <1>0, <1>22 DEF Forget, TypeInv, TypeOK, Kinds
  <2> QED
    BY <2>1, InstantTypes
    DEF CurrentInv, CurrentPeer, Pending, Noticed, Current, Q, H, NoTime
<1>23. CASE Publish(Loop) \/ CentralRestarts
  <2>1. query'[Loop] = NoQueries /\ pc'[Loop] \in {"idle", "start"} /\ UNCHANGED agents
        /\ budget'.restart = budget.restart
    BY <1>0, <1>23 DEF Publish, CentralRestarts, Fresh0, TypeInv, TypeOK, Budget
  <2>2. \A p \in Peers : Q(p)' = NoQuery /\ H(p)' = NoQuery
    BY <2>1, NoQueriesType DEF Q, H
  <2>3. CASE Publish(Loop)
    <3>1. pc[Loop] = "publish" /\ UNCHANGED <<serviceCache, lastModified>>
      BY <2>3 DEF Publish
    <3> QED
      BY <2>1, <2>2, <3>1, NoQueryIs
      DEF CurrentInv, CurrentPeer, Pending, Noticed, Current, Q, H
  <2>4. CASE CentralRestarts
    <3>1. \A p \in Peers : lastModified'["svc"][p] = NoTime
      BY <2>4 DEF CentralRestarts, Kinds
    <3> QED
      BY <2>1, <2>2, <3>1, NoQueryIs, InstantTypes
      DEF CurrentInv, CurrentPeer, Pending, Noticed, Current, NoTime
  <2> QED
    BY <1>23, <2>3, <2>4
<1>24. CASE UNCHANGED vars
  BY <1>1, <1>24 DEF vars
<1>25. ASSUME NEW p \in Peers, NEW k \in Kinds,
              \/ Send(Loop, p, k) \/ Serve(Loop, p, k) \/ List(Loop, p, k)
              \/ Receive(Loop, p, k) \/ Garble(Loop, p, k)
              \/ TimeOut(Loop, p, k) \/ Refuse(Loop, p, k)
       PROVE  CurrentInv'
  <2>1. CASE k = "svc"
    BY <1>9, <1>10, <1>11, <1>12, <1>13, <1>15, <1>25, <2>1
  <2>2. CASE k = "health"
    BY <1>14, <1>15, <1>16, <1>25, <2>2
  <2> QED
    BY <2>1, <2>2 DEF Kinds
<1> QED
  BY <1>0, <1>5, <1>6, <1>7, <1>17, <1>18, <1>19, <1>20, <1>21, <1>22, <1>23, <1>24, <1>25
  DEF Next, Refresh, QueryStep, QueryFails, ApplyStep

\* While no POST /reload overlaps the loop, no Agent restarts and no health
\* request fails, an Agent that would answer 304 to the next request for its
\* services is one whose present list is the cached one, however often its
\* services change, its answers are lost or refused and Central restarts
\* (agent/server.go:683-684, collector.go:562-598).
THEOREM NotModifiedAlwaysCurrent ==
    LoopOnly /\ HealthNeverFails /\ Spec => []NotModifiedMeansCurrent
<1> SUFFICES ASSUME LoopOnly, HealthNeverFails PROVE Spec => []NotModifiedMeansCurrent
  OBVIOUS
<1>1. ASSUME TypeInv, CurrentInv PROVE NotModifiedMeansCurrent
  <2> SUFFICES ASSUME NEW p \in Peers, pc[Loop] \in {"idle", "start"}, WouldAnswer304(p)
               PROVE  WithoutHealth(serviceCache[p].services) = ListWithoutHealth(agents[p])
    BY DEF NotModifiedMeansCurrent, Refreshers
  <2>1. ~Pending(p)
    BY DEF Pending
  <2>2. p \in DOMAIN serviceCache /\ Noticed(p)
    BY <1>1, InstantTypes DEF WouldAnswer304, Noticed, CurrentInv, CurrentPeer
  <2> QED
    BY <1>1, <2>1, <2>2 DEF CurrentInv, CurrentPeer, Current
<1>2. TypeInv /\ UsableInv /\ [Next]_vars => UsableInv'
  BY UsableStep
<1>3. TypeInv /\ UsableInv /\ CurrentInv /\ [Next]_vars => CurrentInv'
  BY CurrentStep
<1>4. Init => CurrentInv
  BY CurrentInit
<1>5. TypeInv /\ CurrentInv => NotModifiedMeansCurrent
  BY <1>1
<1> QED
  BY TypeInit, TypeStep, UsableInit, <1>2, <1>3, <1>4, <1>5, PTL DEF Spec

-----------------------------------------------------------------------------
(* Services outlast an outage.                                             *)

Working == {"query", "apply", "merged", "forget", "publish"}

\* What was fetched of p at the instant d is still cached, or something later,
\* unless it is too old.
Backed(d, p) ==
    d # NoTime /\ clock - d <= TTL
        => p \in DOMAIN serviceCache /\ serviceCache[p].fetchedAt >= d

\* What p was last shown with is not too old.
Recent(p) ==
    /\ p \in DOMAIN peers /\ peers[p].updatedAt # NoTime
    /\ clock - peers[p].updatedAt <= TTL

\* The refresh will not touch what its list says of p any more.
Settled(p) ==
    /\ p \in DOMAIN list[Loop] /\ pc[Loop] \in Working
    /\ pc[Loop] = "query" => p \in Offline(Loop)
    /\ pc[Loop] \in {"apply", "merged"} => p \notin todo[Loop]

\* Nothing was fetched in the future, and nothing a refresh finds was fetched
\* after it began.
DatesInv ==
    /\ \A p \in DOMAIN serviceCache : serviceCache[p].fetchedAt <= clock
    /\ \A p \in DOMAIN file : file[p].fetchedAt <= clock
    /\ \A s \in Savers : \A p \in DOMAIN saver[s].snapshot :
        saver[s].snapshot[p].fetchedAt <= clock
    /\ \A p \in DOMAIN list[Loop] : list[Loop][p].updatedAt <= clock
    /\ \A p \in DOMAIN peers : peers[p].updatedAt <= clock
    /\ pc[Loop] \in Working =>
        /\ now[Loop] <= clock
        /\ \A p \in DOMAIN serviceCache : serviceCache[p].fetchedAt <= now[Loop]
        /\ \A p \in DOMAIN list[Loop] : list[Loop][p].updatedAt <= now[Loop]
        /\ \A p \in DOMAIN peers : peers[p].updatedAt <= now[Loop]

\* What is published or listed and not too old is still cached, and the
\* refresh under way settles for nothing older than what is published.
KeptInv ==
    \A p \in Peers :
        /\ p \in DOMAIN peers => Backed(peers[p].updatedAt, p)
        /\ p \in DOMAIN list[Loop] => Backed(list[Loop][p].updatedAt, p)
        /\ Recent(p) /\ Settled(p) => list[Loop][p].updatedAt >= peers[p].updatedAt

\* The instants are numbers.
LEMMA DateTypes ==
    ASSUME TypeInv
    PROVE  /\ clock \in Nat /\ now[Loop] \in Nat /\ TTL \in Nat
           /\ \A p \in DOMAIN serviceCache : p \in Peers /\ serviceCache[p].fetchedAt \in Nat
           /\ \A p \in DOMAIN file : p \in Peers /\ file[p].fetchedAt \in Nat
           /\ \A p \in DOMAIN peers : p \in Peers /\ peers[p].updatedAt \in Int
           /\ \A p \in DOMAIN list[Loop] :
                p \in Peers /\ list[Loop][p].updatedAt \in Int /\ list[Loop][p] \in PeerInfo
           /\ list[Loop] \in [DOMAIN list[Loop] -> PeerInfo]
<1>1. Loop \in Refreshers /\ TTL \in Nat /\ Times \subseteq Int
  BY CollectorAssumption DEF Refreshers, Times, NoTime
<1>2. \A c \in Cached : c.fetchedAt \in Nat
  BY DEF Cached
<1>3. \A i \in PeerInfo : i.updatedAt \in Int
  BY <1>1 DEF PeerInfo
<1> QED
  BY <1>1, <1>2, <1>3 DEF TypeInv, TypeOK, PartialMap

\* A peer's entry with what the cache has of it.
LEMMA WithCachedDate ==
    ASSUME TypeInv, KeptInv, NEW i \in PeerInfo, NEW p \in Peers, NEW t \in Nat,
           t <= clock, i.updatedAt <= t, Backed(i.updatedAt, p),
           \A x \in DOMAIN serviceCache : serviceCache[x].fetchedAt <= t
    PROVE  LET c == WithCached(i, p, t)
           IN  /\ c.health = i.health /\ c.updatedAt <= t /\ Backed(c.updatedAt, p)
               /\ Recent(p) => c.updatedAt >= peers[p].updatedAt
<1> DEFINE c == WithCached(i, p, t)
<1>1. c.health = i.health
  BY WithCachedType DEF TypeInv
<1>2. Recent(p) => /\ p \in DOMAIN serviceCache
                   /\ serviceCache[p].fetchedAt >= peers[p].updatedAt
  BY DEF KeptInv, Recent, Backed
<1>3. CASE Fresh(p, t)
  <2>1. c = [i EXCEPT !.services = serviceCache[p].services,
                      !.updatedAt = serviceCache[p].fetchedAt]
        /\ p \in DOMAIN serviceCache
    BY <1>3 DEF WithCached, Fresh
  <2>2. c.updatedAt = serviceCache[p].fetchedAt
    BY <2>1 DEF PeerInfo
  <2>3. Backed(c.updatedAt, p)
    BY <2>1, <2>2, DateTypes DEF Backed
  <2> QED
    BY <1>1, <1>2, <2>1, <2>2, <2>3
<1>4. CASE ~Fresh(p, t)
  <2>1. c = i
    BY <1>4 DEF WithCached
  <2>2. ASSUME Recent(p) PROVE FALSE
    <3>1. /\ p \in DOMAIN serviceCache /\ serviceCache[p].fetchedAt >= peers[p].updatedAt
          /\ p \in DOMAIN peers /\ clock - peers[p].updatedAt <= TTL
      BY <1>2, <2>2 DEF Recent
    <3>2. t - serviceCache[p].fetchedAt <= TTL
      BY <3>1, DateTypes
    <3> QED
      BY <1>4, <3>1, <3>2 DEF Fresh
  <2> QED
    BY <2>1, <2>2
<1> QED
  BY <1>1, <1>3, <1>4

\* Nothing is published, cached or dated at start-up.
LEMMA DatesInit == Init => DatesInv /\ KeptInv
<1> SUFFICES ASSUME Init PROVE DatesInv /\ KeptInv
  OBVIOUS
<1>1. /\ pc[Loop] = "start" /\ DOMAIN peers = {} /\ DOMAIN list[Loop] = {}
      /\ DOMAIN serviceCache = {} /\ DOMAIN file = {}
      /\ \A s \in Savers : DOMAIN saver[s].snapshot = {}
  BY DEF Init, EmptyCache, EmptyList, IdleSaver, Refreshers
<1> QED
  BY <1>1 DEF DatesInv, KeptInv, Recent, Working

\* What was backed stays so while the clock goes on and the cache only gets
\* fresher.
LEMMA BackedStill ==
    ASSUME TypeInv, TypeInv', clock' >= clock,
           \A p \in DOMAIN serviceCache :
                p \in DOMAIN serviceCache'
                /\ serviceCache'[p].fetchedAt >= serviceCache[p].fetchedAt
    PROVE  \A d \in Int, p \in Peers : Backed(d, p) => Backed(d, p)'
<1> SUFFICES ASSUME NEW d \in Int, NEW p \in Peers, Backed(d, p), d # NoTime,
                    clock' - d <= TTL
             PROVE  p \in DOMAIN serviceCache' /\ serviceCache'[p].fetchedAt >= d
  BY DEF Backed
<1>1. clock \in Nat /\ clock' \in Nat /\ TTL \in Nat
  BY DateTypes DEF TypeInv, TypeOK
<1>2. p \in DOMAIN serviceCache /\ serviceCache[p].fetchedAt >= d
  BY <1>1 DEF Backed
<1>3. p \in DOMAIN serviceCache' /\ serviceCache'[p].fetchedAt >= serviceCache[p].fetchedAt
  BY <1>2
<1>4. serviceCache[p].fetchedAt \in Nat /\ serviceCache'[p].fetchedAt \in Nat
  BY <1>2, <1>3, DateTypes, Zenon DEF TypeInv, TypeOK, PartialMap, Cached
<1> QED
  BY <1>2, <1>3, <1>4

\* What of the published and of the listed keeps its instant.
LEMMA StillBacked ==
    ASSUME TypeInv, KeptInv, \A d \in Int, p \in Peers : Backed(d, p) => Backed(d, p)'
    PROVE  /\ peers' = peers => \A p \in DOMAIN peers : Backed(peers[p].updatedAt, p)'
           /\ \A p \in DOMAIN list[Loop] :
                list'[Loop][p].updatedAt = list[Loop][p].updatedAt =>
                    Backed(list[Loop][p].updatedAt, p)'
<1>1. ASSUME peers' = peers, NEW p \in DOMAIN peers PROVE Backed(peers[p].updatedAt, p)'
  <2>1. PICK d \in Int : d = peers[p].updatedAt
    BY DateTypes
  <2>2. p \in Peers /\ Backed(d, p)
    BY <2>1, DateTypes DEF KeptInv
  <2>3. Backed(d, p)'
    BY <2>2
  <2> QED
    BY <1>1, <2>1, <2>3 DEF Backed
<1>2. ASSUME NEW p \in DOMAIN list[Loop], list'[Loop][p].updatedAt = list[Loop][p].updatedAt
      PROVE  Backed(list[Loop][p].updatedAt, p)'
  <2>1. PICK d \in Int : d = list[Loop][p].updatedAt
    BY DateTypes
  <2>2. p \in Peers /\ Backed(d, p)
    BY <2>1, DateTypes DEF KeptInv
  <2>3. Backed(d, p)'
    BY <2>2
  <2> QED
    BY <1>2, <2>1, <2>3 DEF Backed
<1> QED
  BY <1>1, <1>2

\* A step that leaves what is cached, saved, listed and published, and after
\* which the refresh has settled no more than before.
LEMMA DatesStill ==
    ASSUME TypeInv, TypeInv', DatesInv, KeptInv, UNCHANGED <<file, saver, list, peers>>,
           clock' >= clock, DOMAIN serviceCache' = DOMAIN serviceCache,
           \A p \in DOMAIN serviceCache : serviceCache'[p].fetchedAt = serviceCache[p].fetchedAt,
           pc'[Loop] \in Working => pc[Loop] \in Working /\ now'[Loop] = now[Loop],
           \A p \in Peers : Settled(p)' => Settled(p)
    PROVE  DatesInv' /\ KeptInv'
<1>1. clock \in Nat /\ clock' \in Nat
  BY DateTypes DEF TypeInv, TypeOK
<1>2. \A p \in Peers : Recent(p)' => Recent(p)
  BY <1>1, DateTypes DEF Recent
<1>3. \A d \in Int, p \in Peers : Backed(d, p) => Backed(d, p)'
  <2>1. \A p \in DOMAIN serviceCache : serviceCache[p].fetchedAt \in Nat
    BY DateTypes
  <2>2. \A p \in DOMAIN serviceCache :
            p \in DOMAIN serviceCache' /\ serviceCache'[p].fetchedAt >= serviceCache[p].fetchedAt
    BY <2>1
  <2> QED
    BY <2>2, BackedStill
<1>4. KeptInv'
  BY <1>2, <1>3, StillBacked DEF KeptInv
<1>5. DatesInv'
  <2>1. \A i \in Int : i <= clock => i <= clock'
    BY <1>1
  <2>2. \A s \in Savers : \A p \in DOMAIN saver[s].snapshot : saver[s].snapshot[p].fetchedAt \in Int
    BY DEF TypeInv, TypeOK, PartialMap, Cached
  <2> QED
    BY <2>1, <2>2, DateTypes DEF DatesInv
<1> QED
  BY <1>4, <1>5

\* Every step of a collector without overlapping refreshes keeps both.
LEMMA DatesStep ==
    LoopOnly /\ TypeInv /\ TypeInv' /\ DatesInv /\ KeptInv /\ [Next]_vars => DatesInv' /\ KeptInv'
<1> SUFFICES ASSUME LoopOnly, TypeInv, TypeInv', DatesInv, KeptInv, [Next]_vars
             PROVE  DatesInv' /\ KeptInv'
  OBVIOUS
<1> USE DEF world, shared, locals
<1>0. Refreshers = {Loop} /\ Loop \in Refreshers
  BY DEF LoopOnly, Refreshers
<1>1. ASSUME UNCHANGED <<file, saver, list, peers, serviceCache, pc, now, todo>>, clock' >= clock
      PROVE  DatesInv' /\ KeptInv'
  BY <1>1, DatesStill DEF Settled, Offline
<1>2. clock \in Nat /\ now[Loop] \in Nat
  BY DateTypes
<1>3. CASE World
  <2>1. UNCHANGED <<file, saver, list, peers, serviceCache, pc, now, todo>>
    BY <1>3 DEF World, AgentChanges, AgentChecks, AgentRestarts, Tick, NetmapChanges, TailscaleFlips
  <2>2. clock' \in {clock, clock + 1}
    BY <1>3 DEF World, AgentChanges, AgentChecks, AgentRestarts, Tick, NetmapChanges, TailscaleFlips
  <2> QED
    BY <1>1, <1>2, <2>1, <2>2
<1>4. CASE QueryStep(Loop) \/ QueryFails(Loop) \/ HandlerReturns(Loop) \/ UNCHANGED vars
  <2>1. UNCHANGED <<file, saver, list, peers, serviceCache, pc, now, todo, clock>>
    BY <1>4 DEF QueryStep, QueryFails, Send, Serve, List, Receive, Garble, TimeOut, Refuse, Answers,
                HandlerReturns, vars
  <2> QED
    BY <1>1, <1>2, <2>1
<1>5. CASE Start(Loop) \/ DiscoverFails(Loop)
  <2>1. UNCHANGED <<file, saver, list, peers, serviceCache, now, todo, clock>>
        /\ pc'[Loop] \in {"start", "idle"}
    BY <1>0, <1>5 DEF Start, DiscoverFails, TypeInv, TypeOK
  <2>2. pc'[Loop] \notin Working
    BY <2>1 DEF Working
  <2> QED
    BY <1>2, <2>1, <2>2, DatesStill DEF Settled
<1>6. CASE Discover(Loop)
  <2>1. /\ UNCHANGED <<file, saver, peers, serviceCache, clock>>
        /\ pc'[Loop] = "discovered" /\ list'[Loop] = Discovered(netmap)
    BY <1>0, <1>6 DEF Discover, TypeInv, TypeOK
  <2>2. \A p \in DOMAIN list'[Loop] : list'[Loop][p].updatedAt <= clock
    BY <1>2, <2>1 DEF Discovered, NoTime
  <2>3. pc'[Loop] \notin Working
    BY <2>1 DEF Working
  <2>4. \A p \in DOMAIN list'[Loop] : Backed(list[Loop][p].updatedAt, p)'
    BY <2>1 DEF Backed, Discovered
  <2> QED
    BY <2>1, <2>2, <2>3, <2>4 DEF DatesInv, KeptInv, Recent, Settled, Backed
<1>7. CASE RestoreOffline(Loop)
  <2> DEFINE l == list[Loop]
             m == list'[Loop]
  <2>1. /\ UNCHANGED <<file, saver, peers, serviceCache, clock>>
        /\ pc'[Loop] = "query" /\ now'[Loop] = clock
        /\ m = [p \in DOMAIN l |-> IF p \in Offline(Loop) THEN WithCached(l[p], p, clock) ELSE l[p]]
    BY <1>0, <1>7 DEF RestoreOffline, TypeInv, TypeOK
  <2>2. \A p \in DOMAIN l :
            /\ p \in Peers /\ l[p] \in PeerInfo /\ l[p].updatedAt <= clock
            /\ Backed(l[p].updatedAt, p)
    BY DateTypes DEF DatesInv, KeptInv
  <2>3. ASSUME NEW p \in DOMAIN l
        PROVE  /\ m[p].health = l[p].health /\ m[p].updatedAt <= clock
               /\ Backed(m[p].updatedAt, p)
               /\ p \in Offline(Loop) /\ Recent(p) => m[p].updatedAt >= peers[p].updatedAt
    <3>1. PICK i \in PeerInfo : i = l[p]
      BY <2>2
    <3>2. CASE p \in Offline(Loop)
      <4>1. /\ m[p] = WithCached(i, p, clock) /\ i.updatedAt <= clock /\ p \in Peers
            /\ Backed(i.updatedAt, p)
        BY <2>1, <2>2, <3>1, <3>2
      <4>2. clock <= clock /\ \A x \in DOMAIN serviceCache : serviceCache[x].fetchedAt <= clock
        BY <1>2 DEF DatesInv
      <4> HIDE DEF m, l
      <4> QED
        BY <1>2, <3>1, <4>1, <4>2, WithCachedDate
    <3>3. CASE p \notin Offline(Loop)
      BY <2>1, <2>2, <3>3
    <3> QED
      BY <3>2, <3>3
  <2>4. DOMAIN m = DOMAIN l
    BY <2>1
  <2>5. \A p : p \in DOMAIN m /\ p \in Offline(Loop)' => p \in Offline(Loop)
    BY <2>3, <2>4 DEF Offline
  <2>6. \A p \in DOMAIN peers : Backed(peers[p].updatedAt, p)'
    <3>1. \A d \in Int, p \in Peers : Backed(d, p) => Backed(d, p)'
      BY <2>1 DEF Backed
    <3> QED
      BY <2>1, <3>1, StillBacked
  <2>7. \A p \in DOMAIN m : Backed(list[Loop][p].updatedAt, p)'
    BY <2>1, <2>3, <2>4 DEF Backed
  <2> HIDE DEF l, m
  <2>8. DatesInv'
    BY <1>2, <2>1, <2>3, <2>4 DEF DatesInv, m
  <2>9. ASSUME NEW p \in Peers, Recent(p)', Settled(p)'
        PROVE  m[p].updatedAt >= peers[p].updatedAt
    <3>1. Recent(p)
      BY <2>1, <2>9 DEF Recent
    <3>2. p \in DOMAIN m /\ p \in Offline(Loop)'
      BY <2>1, <2>9 DEF Settled, m
    <3> QED
      BY <2>3, <2>4, <2>5, <3>1, <3>2
  <2> QED
    BY <2>1, <2>6, <2>7, <2>8, <2>9 DEF KeptInv, m
<1>8. CASE Join(Loop)
  <2>1. /\ UNCHANGED <<file, saver, list, peers, serviceCache, now, clock>>
        /\ pc[Loop] = "query" /\ pc'[Loop] = "apply" /\ todo'[Loop] = Asked(Loop)
    BY <1>0, <1>8 DEF Join, TypeInv, TypeOK
  <2>2. \A p \in Peers : Settled(p)' => Settled(p)
    BY <2>1 DEF Settled, Asked, Working
  <2> QED
    BY <1>2, <2>1, <2>2, DatesStill DEF Working
<1>9. ASSUME NEW p \in Peers, Merge(Loop, p) PROVE DatesInv' /\ KeptInv'
  <2>1. /\ UNCHANGED <<file, saver, list, peers, now, todo, clock>>
        /\ pc[Loop] = "apply" /\ pc'[Loop] = "merged"
    BY <1>0, <1>9 DEF Merge, TypeInv, TypeOK
  <2>2. /\ DOMAIN serviceCache' = DOMAIN serviceCache
        /\ \A x \in DOMAIN serviceCache : serviceCache'[x].fetchedAt = serviceCache[x].fetchedAt
    <3>1. serviceCache \in [DOMAIN serviceCache -> Cached]
      BY DEF TypeInv, TypeOK, PartialMap
    <3>2. \A c \in Cached : \A s : [c EXCEPT !.services = s].fetchedAt = c.fetchedAt
      BY DEF Cached
    <3> QED
      BY <1>9, <3>1, <3>2 DEF Merge
  <2>3. \A x \in Peers : Settled(x)' => Settled(x)
    BY <2>1 DEF Settled, Offline, Working
  <2> QED
    BY <1>2, <2>1, <2>2, <2>3, DatesStill DEF Working
<1>10. CASE Store(Loop)
  <2> DEFINE p == merged[Loop].peer
             m == list'[Loop]
  <2>1. /\ UNCHANGED <<file, saver, peers, now, clock>>
        /\ pc[Loop] = "merged" /\ pc'[Loop] = "apply" /\ todo'[Loop] = todo[Loop] \ {p}
    BY <1>0, <1>10 DEF Store, TypeInv, TypeOK
  <2>2. /\ DOMAIN serviceCache' = DOMAIN serviceCache \cup {p}
        /\ serviceCache'[p].fetchedAt = now[Loop]
        /\ \A x \in DOMAIN serviceCache : x # p => serviceCache'[x] = serviceCache[x]
    BY <1>10 DEF Store
  <2>3. /\ DOMAIN m = DOMAIN list[Loop]
        /\ p \in DOMAIN m => m[p].updatedAt = now[Loop]
        /\ \A x \in DOMAIN m : x # p => m[x] = list[Loop][x]
    BY <1>0, <1>10 DEF Store, TypeInv, TypeOK
  <2> HIDE DEF p, m
  <2>4. now[Loop] <= clock /\ \A x \in DOMAIN peers : peers[x].updatedAt <= now[Loop]
    BY <2>1 DEF DatesInv, Working
  <2>5. DatesInv'
    <3>1. \A x \in DOMAIN serviceCache' : serviceCache'[x].fetchedAt <= now[Loop]
      BY <1>2, <2>1, <2>2 DEF DatesInv, Working
    <3>2. \A x \in DOMAIN m : m[x].updatedAt <= now[Loop]
      BY <1>2, <2>1, <2>3 DEF DatesInv, Working
    <3>3. /\ \A x \in DOMAIN serviceCache' : serviceCache'[x].fetchedAt \in Int
          /\ \A x \in DOMAIN m : m[x].updatedAt \in Int
      <4>1. /\ serviceCache' \in [DOMAIN serviceCache' -> Cached]
            /\ list'[Loop] \in [DOMAIN list'[Loop] -> PeerInfo]
        BY <1>0 DEF TypeInv, TypeOK, PartialMap
      <4> QED
        BY <4>1 DEF Cached, PeerInfo, Times, NoTime, m
    <3> QED
      BY <1>2, <2>1, <2>4, <3>1, <3>2, <3>3 DEF DatesInv, m
  <2>6. \A d \in Int, x \in Peers : Backed(d, x) => Backed(d, x)'
    <3>1. \A x \in DOMAIN serviceCache : serviceCache[x].fetchedAt \in Nat
                                        /\ serviceCache[x].fetchedAt <= now[Loop]
      BY <2>1, DateTypes DEF DatesInv, Working
    <3>2. \A x \in DOMAIN serviceCache :
            x \in DOMAIN serviceCache' /\ serviceCache'[x].fetchedAt >= serviceCache[x].fetchedAt
      BY <1>2, <2>2, <3>1
    <3>3. clock' >= clock
      BY <1>2, <2>1
    <3> QED
      BY <3>2, <3>3, BackedStill
  <2>7. \A x \in DOMAIN peers : Backed(peers[x].updatedAt, x)'
    BY <2>1, <2>6, StillBacked
  <2>8. ASSUME NEW x \in DOMAIN m PROVE Backed(list[Loop][x].updatedAt, x)'
    <3>1. CASE x = p
      <4>1. m[x].updatedAt = now[Loop] /\ x \in DOMAIN serviceCache'
            /\ serviceCache'[x].fetchedAt = now[Loop]
        BY <2>2, <2>3, <2>8, <3>1
      <4> QED
        BY <1>2, <4>1 DEF Backed, m
    <3>2. CASE x # p
      BY <2>3, <2>6, <2>8, <3>2, StillBacked DEF m
    <3> QED
      BY <3>1, <3>2
  <2>9. ASSUME NEW x \in Peers, Recent(x)', Settled(x)'
        PROVE  m[x].updatedAt >= peers[x].updatedAt
    <3>1. Recent(x) /\ x \in DOMAIN peers /\ x \in DOMAIN m
      BY <2>1, <2>9 DEF Recent, Settled, m
    <3>2. CASE x = p
      BY <1>2, <2>3, <2>4, <3>1, <3>2, DateTypes
    <3>3. CASE x # p
      <4>1. Settled(x)
        BY <2>1, <2>3, <2>9, <3>3 DEF Settled, Working, m
      <4> QED
        BY <2>3, <3>1, <3>3, <4>1 DEF KeptInv
    <3> QED
      BY <3>2, <3>3
  <2> QED
    BY <2>1, <2>5, <2>7, <2>8, <2>9 DEF KeptInv, m
<1>11. ASSUME NEW p \in Peers, Restore(Loop, p) PROVE DatesInv' /\ KeptInv'
  <2> DEFINE m == list'[Loop]
             i == [list[Loop][p] EXCEPT !.health = Outcome(Loop, p)]
  <2>1. /\ UNCHANGED <<file, saver, peers, serviceCache, now, clock>>
        /\ pc[Loop] = "apply" /\ pc'[Loop] = "apply" /\ todo'[Loop] = todo[Loop] \ {p}
    BY <1>0, <1>11 DEF Restore, TypeInv, TypeOK
  <2>2. /\ DOMAIN m = DOMAIN list[Loop]
        /\ p \in DOMAIN m => m[p] = WithCached(i, p, now[Loop])
        /\ \A x \in DOMAIN m : x # p => m[x] = list[Loop][x]
    BY <1>0, <1>11 DEF Restore, TypeInv, TypeOK
  <2>3. now[Loop] <= clock
        /\ \A x \in DOMAIN serviceCache : serviceCache[x].fetchedAt <= now[Loop]
    BY <2>1 DEF DatesInv, Working
  <2>4. ASSUME p \in DOMAIN m
        PROVE  /\ m[p].updatedAt <= now[Loop] /\ Backed(m[p].updatedAt, p)
               /\ Recent(p) => m[p].updatedAt >= peers[p].updatedAt
    <3>1. /\ list[Loop][p] \in PeerInfo /\ list[Loop][p].updatedAt <= now[Loop]
          /\ Backed(list[Loop][p].updatedAt, p)
      BY <2>1, <2>2, <2>4, DateTypes DEF DatesInv, KeptInv, Working
    <3>2. Outcome(Loop, p) \in AgentHealth
      BY DEF Outcome, WorseHealth, AgentHealth, Healthy
    <3>3. i \in PeerInfo /\ i.updatedAt = list[Loop][p].updatedAt
      BY <3>1, <3>2 DEF PeerInfo
    <3>4. PICK j \in PeerInfo : j = i
      BY <3>3
    <3>5. j.updatedAt <= now[Loop] /\ Backed(j.updatedAt, p) /\ m[p] = WithCached(j, p, now[Loop])
      BY <2>2, <2>4, <3>1, <3>3, <3>4
    <3> HIDE DEF i, m
    <3> QED
      BY <1>2, <2>3, <3>5, WithCachedDate
  <2>5. m[p].updatedAt \in Int \/ p \notin DOMAIN m
    <3>1. list[Loop] \in [DOMAIN list[Loop] -> PeerInfo] /\ list'[Loop] \in [DOMAIN list'[Loop] -> PeerInfo]
      BY <1>0 DEF TypeInv, TypeOK, PartialMap
    <3> QED
      BY <3>1 DEF PeerInfo, Times, NoTime
  <2> HIDE DEF m, i
  <2>6. DatesInv'
    BY <1>2, <2>1, <2>2, <2>3, <2>4, <2>5 DEF DatesInv, Working, m
  <2>7. \A d \in Int, x \in Peers : Backed(d, x) => Backed(d, x)'
    BY <2>1 DEF Backed
  <2>8. \A x \in DOMAIN peers : Backed(peers[x].updatedAt, x)'
    BY <2>1, <2>7, StillBacked
  <2>9. ASSUME NEW x \in DOMAIN m PROVE Backed(list[Loop][x].updatedAt, x)'
    <3>1. CASE x = p
      BY <2>1, <2>4, <2>9, <3>1 DEF Backed, m
    <3>2. CASE x # p
      BY <2>2, <2>7, <2>9, <3>2, StillBacked DEF m
    <3> QED
      BY <3>1, <3>2
  <2>10. ASSUME NEW x \in Peers, Recent(x)', Settled(x)'
         PROVE  m[x].updatedAt >= peers[x].updatedAt
    <3>1. Recent(x)
      BY <2>1, <2>10 DEF Recent
    <3>2. x \in DOMAIN m /\ (x # p => Settled(x))
      BY <2>1, <2>2, <2>10 DEF Settled, Working, m
    <3> QED
      BY <2>2, <2>4, <3>1, <3>2 DEF KeptInv
  <2> QED
    BY <2>1, <2>6, <2>8, <2>9, <2>10 DEF KeptInv, m
<1>12. CASE EvictExpired(Loop)
  <2>1. /\ UNCHANGED <<file, saver, list, peers, now, clock>>
        /\ pc[Loop] = "apply" /\ pc'[Loop] = "forget" /\ todo[Loop] = {}
        /\ serviceCache' = [p \in {x \in DOMAIN serviceCache : Fresh(x, now[Loop])} |-> serviceCache[p]]
    BY <1>0, <1>12 DEF EvictExpired, TypeInv, TypeOK
  <2>2. DatesInv'
    BY <2>1 DEF DatesInv, Working
  <2>3. ASSUME NEW d \in Int, NEW x \in Peers, Backed(d, x) PROVE Backed(d, x)'
    <3> SUFFICES ASSUME d # NoTime, clock - d <= TTL
                 PROVE  x \in DOMAIN serviceCache' /\ serviceCache'[x].fetchedAt >= d
      BY <2>1 DEF Backed
    <3>1. x \in DOMAIN serviceCache /\ serviceCache[x].fetchedAt >= d /\ now[Loop] <= clock
      BY <2>1, <2>3 DEF Backed, DatesInv, Working
    <3>2. now[Loop] - serviceCache[x].fetchedAt <= TTL
      BY <3>1, DateTypes
    <3> QED
      BY <2>1, <3>1, <3>2 DEF Fresh
  <2>4. \A x \in DOMAIN peers : Backed(peers[x].updatedAt, x)'
    BY <2>1, <2>3, StillBacked
  <2>5. \A x \in DOMAIN list[Loop] : Backed(list[Loop][x].updatedAt, x)'
    BY <2>1, <2>3, StillBacked
  <2>6. \A x \in Peers : (Settled(x)' => Settled(x)) /\ (Recent(x)' => Recent(x))
    BY <2>1 DEF Settled, Working, Recent
  <2> QED
    BY <2>1, <2>2, <2>4, <2>5, <2>6 DEF KeptInv
<1>13. CASE Forget(Loop)
  <2>1. /\ UNCHANGED <<file, saver, list, peers, serviceCache, now, clock>>
        /\ pc[Loop] = "forget" /\ pc'[Loop] = "publish"
    BY <1>0, <1>13 DEF Forget, TypeInv, TypeOK
  <2>2. \A x \in Peers : Settled(x)' => Settled(x)
    BY <2>1 DEF Settled, Working
  <2> QED
    BY <1>2, <2>1, <2>2, DatesStill DEF Working
<1>14. CASE Publish(Loop)
  <2>1. /\ UNCHANGED <<file, serviceCache, clock>> /\ peers' = list[Loop]
        /\ pc[Loop] = "publish" /\ pc'[Loop] = "idle" /\ list'[Loop] = EmptyList
    BY <1>0, <1>14 DEF Publish, TypeInv, TypeOK
  <2>2. \A s \in Savers : saver'[s].snapshot = saver[s].snapshot
    <3>1. CASE UNCHANGED saver
      BY <3>1
    <3>2. CASE \E s \in Savers : saver' = [saver EXCEPT ![s].st = "spawned"]
      <4>1. PICK s \in Savers : saver' = [saver EXCEPT ![s].st = "spawned"]
        BY <3>2
      <4>2. DOMAIN saver = Savers
            /\ saver[s] = [st |-> saver[s].st, snapshot |-> saver[s].snapshot]
        BY DEF TypeInv, TypeOK
      <4>3. PICK e : e = saver[s].snapshot
        OBVIOUS
      <4>4. [saver[s] EXCEPT !.st = "spawned"] = [st |-> "spawned", snapshot |-> e]
        BY <4>2, <4>3
      <4>5. saver'[s] = [st |-> "spawned", snapshot |-> e]
            /\ \A x \in Savers \ {s} : saver'[x] = saver[x]
        BY <4>1, <4>2, <4>4
      <4> QED
        BY <4>3, <4>5
    <3> QED
      BY <1>14, <3>1, <3>2 DEF Publish
  <2>3. DatesInv'
    BY <2>1, <2>2 DEF DatesInv, Working, EmptyList
  <2>4. \A p \in DOMAIN list[Loop] : p \in Peers /\ Backed(list[Loop][p].updatedAt, p)
    BY DateTypes DEF KeptInv
  <2>5. \A p \in DOMAIN peers' : Backed(peers[p].updatedAt, p)'
    BY <2>1, <2>4 DEF Backed
  <2> QED
    BY <2>1, <2>3, <2>5 DEF KeptInv, Settled, Working, EmptyList
<1>15. ASSUME NEW s \in Savers, Save(s) PROVE DatesInv' /\ KeptInv'
  <2>1. UNCHANGED <<list, peers, serviceCache, pc, now, todo, clock>>
    BY <1>15 DEF Save, SaveSnapshot, SaveWrite
  <2>2. /\ file' \in {file, saver[s].snapshot}
        /\ \A x \in Savers \ {s} : saver'[x] = saver[x]
        /\ saver'[s].snapshot \in {serviceCache, EmptyCache}
    BY <1>15 DEF Save, SaveSnapshot, SaveWrite, IdleSaver, TypeInv, TypeOK
  <2>3. DatesInv'
    BY <2>1, <2>2 DEF DatesInv, EmptyCache
  <2> QED
    BY <2>1, <2>3 DEF KeptInv, Recent, Settled, Offline, Backed
<1>16. CASE CentralRestarts
  <2>1. /\ UNCHANGED <<file, clock>> /\ peers' = EmptyList /\ serviceCache' = Loaded(clock)
        /\ pc'[Loop] = "start" /\ list'[Loop] = EmptyList
        /\ \A s \in Savers : saver'[s] = IdleSaver
    BY <1>0, <1>16 DEF CentralRestarts, Fresh0
  <2> QED
    BY <2>1 DEF DatesInv, KeptInv, Recent, Loaded, Working, EmptyList, EmptyCache, IdleSaver
<1> QED
  BY <1>0, <1>3, <1>4, <1>5, <1>6, <1>7, <1>8, <1>9, <1>10, <1>11, <1>12, <1>13, <1>14, <1>15,
     <1>16
  DEF Next, Refresh, ApplyStep

\* While no POST /reload overlaps the loop, a peer that stops answering, goes
\* offline or loses Tailscale keeps the services it was last shown with for as
\* long as they are not older than serviceHistoryTTL (collector.go:31-33).
THEOREM OutageAlwaysKeepsServices == LoopOnly /\ Spec => OutageKeepsServices
<1> SUFFICES ASSUME LoopOnly PROVE Spec => OutageKeepsServices
  OBVIOUS
<1>1. ASSUME TypeInv, KeptInv, Next, peers' # peers, NEW p \in DOMAIN peers \cap DOMAIN peers',
             peers[p].updatedAt # NoTime, clock - peers[p].updatedAt <= TTL
      PROVE  peers'[p].updatedAt >= peers[p].updatedAt
  <2>1. CASE Publish(Loop)
    <3>1. peers' = list[Loop] /\ pc[Loop] = "publish"
      BY <2>1 DEF Publish
    <3>2. p \in Peers /\ Recent(p) /\ Settled(p)
      BY <1>1, <3>1, DateTypes DEF Recent, Settled, Working
    <3> QED
      BY <1>1, <3>1, <3>2 DEF KeptInv
  <2>2. CASE CentralRestarts
    BY <1>1, <2>2 DEF CentralRestarts, EmptyList
  <2>3. Publish(Loop) \/ CentralRestarts
    <3> USE DEF world, shared, locals
    <3>1. ~World /\ \A s \in Savers : ~Save(s)
      BY <1>1 DEF World, AgentChanges, AgentChecks, AgentRestarts, Tick, NetmapChanges,
                  TailscaleFlips, Save, SaveSnapshot, SaveWrite
    <3>2. ~QueryStep(Loop) /\ ~QueryFails(Loop) /\ ~HandlerReturns(Loop)
      BY <1>1 DEF QueryStep, Send, Serve, List, Receive, Answers, QueryFails, Garble, TimeOut,
                  Refuse, HandlerReturns
    <3>3. /\ ~Start(Loop) /\ ~Discover(Loop) /\ ~DiscoverFails(Loop)
          /\ ~RestoreOffline(Loop) /\ ~Join(Loop)
      BY <1>1 DEF Start, Discover, DiscoverFails, RestoreOffline, Join
    <3>4. /\ \A x \in Peers : ~Merge(Loop, x) /\ ~Restore(Loop, x)
          /\ ~Store(Loop) /\ ~EvictExpired(Loop) /\ ~Forget(Loop)
      BY <1>1 DEF Merge, Restore, Store, EvictExpired, Forget
    <3> QED
      BY <1>1, <3>1, <3>2, <3>3, <3>4 DEF Next, Refresh, ApplyStep, LoopOnly, Refreshers
  <2> QED
    BY <2>1, <2>2, <2>3
<1>2. TypeInv /\ KeptInv /\ [Next]_vars =>
        [peers' # peers =>
            \A p \in DOMAIN peers \cap DOMAIN peers' :
                /\ peers[p].updatedAt # NoTime
                /\ peers'[p].health # Healthy
                /\ clock - peers[p].updatedAt <= TTL
                => peers'[p].updatedAt >= peers[p].updatedAt]_vars
  BY <1>1
<1>3. TypeInv /\ TypeInv' /\ DatesInv /\ KeptInv /\ [Next]_vars => DatesInv' /\ KeptInv'
  BY DatesStep
<1> QED
  BY TypeInit, TypeStep, DatesInit, <1>2, <1>3, PTL DEF Spec, OutageKeepsServices
=============================================================================
