--------------------------- MODULE AgentListen ---------------------------
(***************************************************************************)
(* Where the Agent listens and what it says of itself: the start of the    *)
(* daemon (internal/agent/daemon.go), the node attributes of the tailnet   *)
(* policy and the rebinding of the HTTP server (internal/agent/server.go), *)
(* and a client that reads the service list conditionally.                 *)
(*                                                                         *)
(* Three goroutines change the configuration: main (RunDaemon, Start),     *)
(* watch (watchTailscale) and reload (POST /reload, one at a time).  A     *)
(* step is what one of them does under one lock, or one call to the        *)
(* network stack or to tailscaled.                                         *)
(***************************************************************************)
EXTENDS Integers, FiniteSets

CONSTANTS
    Addrs,          \* listen addresses
    Tags,           \* ACL tags Centrals may have
    NoPort, NoIP, NoServer, None,
    Files,          \* what agent.toml may say: [listen, nodeAttrs]
    CapMaps,        \* what the policy may say of this node
    OwnIPs,         \* what Tailscale addresses it may have: [v4, v6]
    HasServices,    \* whether the file configures services as well
    Overlap,        \* whether watch may work while main or reload does
    MaxChanges,     \* of the world outside the Agent
    MaxBindFailures, MaxReloads

Actors == {"main", "watch", "reload"}
FileConfig == [listen: Addrs, nodeAttrs: BOOLEAN]
CapMap == [agentTag: BOOLEAN, centralTags: SUBSET Tags, port: Addrs \cup {NoPort}]

ASSUME ListenAssumption ==
    /\ Files \subseteq FileConfig /\ CapMaps \subseteq CapMap
    /\ \A ips \in OwnIPs : DOMAIN ips = {"v4", "v6"}
    /\ {HasServices, Overlap} \subseteq BOOLEAN
    /\ {NoPort, NoServer} \cap Addrs = {}
    /\ {MaxChanges, MaxBindFailures, MaxReloads} \subseteq Nat

VARIABLES
    \* Outside the Agent.
    file, capMap, ips, tailscaleUp, bound, budget,
    \* Server: s.cfg, allowedCTags, httpSrv, tsIPv4 and tsIPv6, selfAddr, the
    \* registry's svcModifiedAt.
    cfg, allowedCTags, httpSrv, tsIPs, selfAddr, svcModifiedAt,
    \* Each goroutine: where it is and its locals.
    pc, next, nextTags, addr,
    \* watchTailscale: its nodeAttrs parameter, the IPN bus connection.
    watchesAttrs, notified, broken,
    \* A client's request under way and what it holds.
    request, client

world == <<file, capMap, ips, tailscaleUp, bound, budget>>
server == <<cfg, allowedCTags, httpSrv, tsIPs, selfAddr, svcModifiedAt>>
locals == <<pc, next, nextTags, addr>>
bus == <<watchesAttrs, notified, broken>>
reader == <<request, client>>
vars == <<world, server, locals, bus, reader>>

Goto(a, l) == pc' = [pc EXCEPT ![a] = l]

\* The locals of a function that has returned.
DropNext(a) == next' = [next EXCEPT ![a] = None] /\ nextTags' = [nextTags EXCEPT ![a] = {}]
DropAddr(a) == addr' = [addr EXCEPT ![a] = NoServer]

-----------------------------------------------------------------------------
(* The world.                                                              *)

Change == budget.change > 0 /\ budget' = [budget EXCEPT !.change = @ - 1]

Edit ==
    /\ Change
    /\ file' \in Files \ {file}
    /\ UNCHANGED <<capMap, ips, tailscaleUp, bound, server, locals, bus, reader>>

\* A new netmap, which the bus announces to a watcher that is connected.
Policy ==
    /\ Change
    /\ \/ capMap' \in CapMaps \ {capMap} /\ UNCHANGED ips
       \/ ips' \in OwnIPs \ {ips} /\ UNCHANGED capMap
    /\ notified' = (notified \/ (tailscaleUp /\ ~broken))
    /\ UNCHANGED <<file, tailscaleUp, bound, server, locals, watchesAttrs, broken, reader>>

TailscaledStops ==
    /\ tailscaleUp
    /\ Change
    /\ tailscaleUp' = FALSE
    /\ broken' = TRUE
    /\ UNCHANGED <<file, capMap, ips, bound, server, locals, watchesAttrs, notified, reader>>

TailscaledStarts ==
    /\ ~tailscaleUp
    /\ tailscaleUp' = TRUE
    /\ UNCHANGED <<file, capMap, ips, bound, budget, server, locals, bus, reader>>

-----------------------------------------------------------------------------
(* Node attributes.                                                        *)

NoAttrs == [centralTags |-> {}, port |-> NoPort]

\* What is taken from the policy: nothing without a port and some tag.
ParseCapMap(cm) ==
    IF cm.port # NoPort /\ (cm.agentTag \/ cm.centralTags # {})
    THEN [centralTags |-> cm.centralTags, port |-> cm.port]
    ELSE NoAttrs

WithAnyPort(c, port) == [c EXCEPT !.listen = port]     \* mutant: no test of the port
WithPort(c, port) == IF port = NoPort THEN c ELSE [c EXCEPT !.listen = port]

\* a's next configuration and tags, from configuration c.
ConfigWithNodeAttrs(a, c) ==
    LET attrs == ParseCapMap(capMap)
    IN  IF ~c.nodeAttrs
        THEN next' = [next EXCEPT ![a] = c] /\ nextTags' = [nextTags EXCEPT ![a] = {}]
        ELSE IF ~tailscaleUp
        THEN /\ next' = [next EXCEPT ![a] = [c EXCEPT !.listen = cfg.listen]]
             /\ nextTags' = [nextTags EXCEPT ![a] = allowedCTags]
        ELSE /\ next' = [next EXCEPT ![a] = WithPort(c, attrs.port)]
             /\ nextTags' = [nextTags EXCEPT ![a] = attrs.centralTags]

\* LoadNodeAttrs takes a copy of the configuration...
CopyConfig(a) ==
    /\ pc[a] = "load"
    /\ next' = [next EXCEPT ![a] = cfg]
    /\ Goto(a, "attrs")
    /\ UNCHANGED <<world, server, nextTags, addr, bus, reader>>

\* ...reads the attributes...
ReadAttrs(a) ==
    /\ pc[a] = "attrs"
    /\ ConfigWithNodeAttrs(a, next[a])
    /\ IF a = "reload"
       THEN Goto(a, "rebind") /\ addr' = [addr EXCEPT ![a] = next'[a].listen]
       ELSE Goto(a, "commit") /\ UNCHANGED addr
    /\ UNCHANGED <<world, server, bus, reader>>

AfterLoad(a) == IF a = "main" THEN "self" ELSE "detect"

\* ...and commits: the tags at once, the port by binding it, if the server
\* runs already.
CommitAttrs(a) ==
    /\ pc[a] = "commit"
    /\ allowedCTags' = nextTags[a]
    /\ IF cfg.listen = next[a].listen
       THEN Goto(a, AfterLoad(a)) /\ UNCHANGED <<cfg, addr>>
       ELSE IF httpSrv = NoServer
       THEN Goto(a, AfterLoad(a)) /\ cfg' = [cfg EXCEPT !.listen = next[a].listen]
            /\ UNCHANGED addr
       ELSE Goto(a, "rebind") /\ addr' = [addr EXCEPT ![a] = next[a].listen]
            /\ UNCHANGED cfg
    /\ DropNext(a)
    /\ UNCHANGED <<world, httpSrv, tsIPs, selfAddr, svcModifiedAt, bus, reader>>

-----------------------------------------------------------------------------
(* rebindHTTPServer, by watch or reload.                                   *)

AfterRebind(a) == IF a = "reload" THEN "apply" ELSE "detect"
AfterFailure(a) == IF a = "reload" THEN "idle" ELSE "detect"

\* The first look: nothing to move.  The lock is given up before cfg is
\* brought in line.
SameAddress(a) ==
    /\ pc[a] = "rebind"
    /\ httpSrv = addr[a]
    /\ Goto(a, "sync")
    /\ UNCHANGED <<world, server, next, nextTags, addr, bus, reader>>

SyncListen(a) ==
    /\ pc[a] = "sync"
    /\ cfg' = IF httpSrv = addr[a] THEN [cfg EXCEPT !.listen = addr[a]] ELSE cfg
    /\ Goto(a, AfterRebind(a))
    /\ DropAddr(a)
    /\ UNCHANGED <<world, allowedCTags, httpSrv, tsIPs, selfAddr, svcModifiedAt, next,
                   nextTags, bus, reader>>

Bind(a) ==
    /\ pc[a] = "rebind"
    /\ httpSrv # addr[a]
    /\ addr[a] \notin bound
    /\ bound' = bound \cup {addr[a]}
    /\ Goto(a, "swap")
    /\ UNCHANGED <<file, capMap, ips, tailscaleUp, budget, server, next, nextTags, addr,
                   bus, reader>>

\* The address is in use, by this process or by another.
BindFails(a) ==
    /\ pc[a] = "rebind"
    /\ httpSrv # addr[a]
    /\ \/ addr[a] \in bound /\ UNCHANGED budget
       \/ budget.bind > 0 /\ budget' = [budget EXCEPT !.bind = @ - 1]
    /\ Goto(a, AfterFailure(a))
    /\ DropNext(a) /\ DropAddr(a)
    /\ UNCHANGED <<file, capMap, ips, tailscaleUp, bound, server, bus, reader>>

SwapKeepsListen(a) ==      \* mutant: cfg.Server.Listen is not brought in line
    /\ pc[a] = "swap"
    /\ httpSrv' = addr[a]
    /\ addr' = [addr EXCEPT ![a] = httpSrv]
    /\ Goto(a, "touch")
    /\ UNCHANGED <<world, cfg, allowedCTags, tsIPs, selfAddr, svcModifiedAt, next, nextTags,
                   bus, reader>>

\* The new server takes over; addr[a] is now where the old one listens.
Swap(a) ==
    /\ pc[a] = "swap"
    /\ httpSrv' = addr[a]
    /\ cfg' = [cfg EXCEPT !.listen = addr[a]]
    /\ addr' = [addr EXCEPT ![a] = httpSrv]
    /\ Goto(a, "touch")
    /\ UNCHANGED <<world, allowedCTags, tsIPs, selfAddr, svcModifiedAt, next, nextTags,
                   bus, reader>>

TouchServicesNot(m) == m      \* mutant: no touchServices
TouchServices(m) == m + 1

TouchAfterRebind(a) ==
    /\ pc[a] = "touch"
    /\ svcModifiedAt' = TouchServices(svcModifiedAt)
    /\ Goto(a, "close")
    /\ UNCHANGED <<world, cfg, allowedCTags, httpSrv, tsIPs, selfAddr, next, nextTags, addr,
                   bus, reader>>

\* Shutdown closes the old listener.
CloseOld(a) ==
    /\ pc[a] = "close"
    /\ bound' = bound \ {addr[a]}
    /\ Goto(a, AfterRebind(a))
    /\ DropAddr(a)
    /\ UNCHANGED <<file, capMap, ips, tailscaleUp, budget, server, next, nextTags, bus, reader>>

-----------------------------------------------------------------------------
(* The self address.                                                       *)

\* IPv4 preferred.
SelfIP(own) == IF own.v4 # NoIP THEN own.v4 ELSE own.v6

\* RunDaemon, before it starts the watcher and the servers.
DetectFirst ==
    /\ pc["main"] = "self"
    /\ IF tailscaleUp /\ SelfIP(ips) # NoIP
       THEN tsIPs' = ips /\ selfAddr' = <<SelfIP(ips), cfg.listen>>
       ELSE UNCHANGED <<tsIPs, selfAddr>>
    /\ pc' = [pc EXCEPT !["main"] = "start", !["watch"] = "disconnected"]
    /\ UNCHANGED <<world, cfg, allowedCTags, httpSrv, svcModifiedAt, next, nextTags, addr,
                   bus, reader>>

ReadPort ==
    /\ pc["watch"] = "detect"
    /\ addr' = [addr EXCEPT !["watch"] = cfg.listen]
    /\ Goto("watch", "status")
    /\ UNCHANGED <<world, server, next, nextTags, bus, reader>>

\* Nobody else writes these, so the answer of tailscaled is stored as it
\* comes.
DetectAndSetSelfIP ==
    /\ pc["watch"] = "status"
    /\ LET new == <<SelfIP(ips), addr["watch"]>>
       IN  IF tailscaleUp /\ SelfIP(ips) # NoIP
           THEN /\ tsIPs' = ips
                /\ selfAddr' = new
                /\ Goto("watch", IF tsIPs # ips \/ selfAddr # new THEN "changed" ELSE "waiting")
           ELSE Goto("watch", "waiting") /\ UNCHANGED <<tsIPs, selfAddr>>
    /\ DropAddr("watch")
    /\ UNCHANGED <<world, cfg, allowedCTags, httpSrv, svcModifiedAt, next, nextTags, bus, reader>>

TouchAfterDetect ==
    /\ pc["watch"] = "changed"
    /\ svcModifiedAt' = TouchServices(svcModifiedAt)
    /\ Goto("watch", "waiting")
    /\ UNCHANGED <<world, cfg, allowedCTags, httpSrv, tsIPs, selfAddr, next, nextTags, addr,
                   bus, reader>>

-----------------------------------------------------------------------------
(* Start, the watcher's loop and the reload.                               *)

ReadListen ==
    /\ pc["main"] = "start"
    /\ addr' = [addr EXCEPT !["main"] = cfg.listen]
    /\ Goto("main", "listen")
    /\ UNCHANGED <<world, server, next, nextTags, bus, reader>>

Listen ==
    /\ pc["main"] = "listen"
    /\ bound' = bound \cup {addr["main"]}
    /\ Goto("main", "serve")
    /\ UNCHANGED <<file, capMap, ips, tailscaleUp, budget, server, next, nextTags, addr,
                   bus, reader>>

\* Start returns the error and the daemon exits.
ListenFails ==
    /\ pc["main"] = "listen"
    /\ budget.bind > 0
    /\ budget' = [budget EXCEPT !.bind = @ - 1]
    /\ pc' = [a \in Actors |-> "dead"]
    /\ UNCHANGED <<file, capMap, ips, tailscaleUp, bound, server, next, nextTags, addr,
                   bus, reader>>

Serve ==
    /\ pc["main"] = "serve"
    /\ httpSrv' = addr["main"]
    /\ Goto("main", "serving")
    /\ DropAddr("main")
    /\ UNCHANGED <<world, cfg, allowedCTags, tsIPs, selfAddr, svcModifiedAt, next, nextTags,
                   bus, reader>>

\* Nothing else is changing the configuration, unless it may overlap.
WatchMayWork == Overlap \/ (pc["main"] = "serving" /\ pc["reload"] = "idle")
ReloadMayWork == Overlap \/ pc["watch"] \in {"waiting", "disconnected"}

RoundDetects == "detect"      \* mutant: the attributes are read at start only
Round == IF watchesAttrs THEN "load" ELSE "detect"

\* WatchIPNBus succeeds, and will announce the present netmap.
Connect ==
    /\ pc["watch"] = "disconnected"
    /\ tailscaleUp
    /\ WatchMayWork
    /\ broken' = FALSE
    /\ notified' = TRUE
    /\ Goto("watch", Round)
    /\ UNCHANGED <<world, server, next, nextTags, addr, watchesAttrs, reader>>

\* The bus announces a netmap.
Wake ==
    /\ pc["watch"] = "waiting"
    /\ notified
    /\ WatchMayWork
    /\ notified' = FALSE
    /\ Goto("watch", Round)
    /\ UNCHANGED <<world, server, next, nextTags, addr, watchesAttrs, broken, reader>>

LoseBus ==
    /\ pc["watch"] = "waiting"
    /\ broken
    /\ Goto("watch", "disconnected")
    /\ UNCHANGED <<world, server, next, nextTags, addr, bus, reader>>

BeginReload ==
    /\ pc["main"] = "serving"
    /\ pc["reload"] = "idle"
    /\ ReloadMayWork
    /\ budget.reload > 0
    /\ budget' = [budget EXCEPT !.reload = @ - 1]
    /\ next' = [next EXCEPT !["reload"] = file]
    /\ Goto("reload", "attrs")
    /\ UNCHANGED <<file, capMap, ips, tailscaleUp, bound, server, nextTags, addr, bus, reader>>

ApplyConfigKeepsTags ==     \* mutant: only LoadNodeAttrs sets the tags
    /\ pc["reload"] = "apply"
    /\ cfg' = next["reload"]
    /\ Goto("reload", "services")
    /\ DropNext("reload")
    /\ UNCHANGED <<world, allowedCTags, httpSrv, tsIPs, selfAddr, svcModifiedAt, addr,
                   bus, reader>>

ApplyConfig ==
    /\ pc["reload"] = "apply"
    /\ cfg' = next["reload"]
    /\ allowedCTags' = nextTags["reload"]
    /\ Goto("reload", "services")
    /\ DropNext("reload")
    /\ UNCHANGED <<world, httpSrv, tsIPs, selfAddr, svcModifiedAt, addr, bus, reader>>

\* Registering the configured services again moves the instant.
ReloadServices ==
    /\ pc["reload"] = "services"
    /\ svcModifiedAt' = IF HasServices THEN TouchServices(svcModifiedAt) ELSE svcModifiedAt
    /\ Goto("reload", "idle")
    /\ UNCHANGED <<world, cfg, allowedCTags, httpSrv, tsIPs, selfAddr, next, nextTags, addr,
                   bus, reader>>

-----------------------------------------------------------------------------
(* A client of /api/v1/services that connects over IPv6 where it can.      *)

SelfAddrForRequest(own, port) ==
    IF own.v6 # NoIP THEN <<own.v6, port>>
    ELSE IF own.v4 # NoIP THEN <<own.v4, port>> ELSE None

\* Without news it is answered 304 and keeps what it holds.
Request ==
    /\ pc["main"] = "serving"
    /\ request = None
    /\ svcModifiedAt > client.at
    /\ request' = [at |-> svcModifiedAt]
    /\ UNCHANGED <<world, server, locals, bus, client>>

Respond ==
    /\ request # None
    /\ client' = [at |-> request.at, self |-> SelfAddrForRequest(tsIPs, cfg.listen)]
    /\ request' = None
    /\ UNCHANGED <<world, server, locals, bus>>

-----------------------------------------------------------------------------

NoIPs == [v4 |-> NoIP, v6 |-> NoIP]

\* RunDaemon has read the file.
Init ==
    /\ file \in Files /\ capMap \in CapMaps /\ ips \in OwnIPs
    /\ tailscaleUp \in BOOLEAN
    /\ bound = {}
    /\ budget = [change |-> MaxChanges, bind |-> MaxBindFailures, reload |-> MaxReloads]
    /\ cfg = file
    /\ allowedCTags = {} /\ httpSrv = NoServer
    /\ tsIPs = NoIPs /\ selfAddr = None /\ svcModifiedAt = 0
    /\ pc = [a \in Actors |->
                IF a = "main" THEN IF cfg.nodeAttrs THEN "load" ELSE "self"
                ELSE IF a = "watch" THEN "off" ELSE "idle"]
    /\ next = [a \in Actors |-> None]
    /\ nextTags = [a \in Actors |-> {}]
    /\ addr = [a \in Actors |-> NoServer]
    /\ watchesAttrs = cfg.nodeAttrs
    /\ notified = FALSE /\ broken = FALSE
    /\ request = None /\ client = [at |-> -1, self |-> None]

World == Edit \/ Policy \/ TailscaledStops \/ TailscaledStarts

Load(a) == CopyConfig(a) \/ ReadAttrs(a) \/ CommitAttrs(a)
Rebind(a) ==
    \/ SameAddress(a) \/ SyncListen(a) \/ Bind(a) \/ BindFails(a) \/ Swap(a)
    \/ TouchAfterRebind(a) \/ CloseOld(a)

Main == Load("main") \/ DetectFirst \/ ReadListen \/ Listen \/ ListenFails \/ Serve
Watch == Load("watch") \/ Rebind("watch") \/ ReadPort \/ DetectAndSetSelfIP
         \/ TouchAfterDetect \/ Connect \/ Wake \/ LoseBus
Reload == ReadAttrs("reload") \/ Rebind("reload") \/ ApplyConfig \/ ReloadServices

Next == World \/ Main \/ Watch \/ BeginReload \/ Reload \/ Request \/ Respond

Spec == Init /\ [][Next]_vars

\* Goroutines that wait for nothing but the network stack keep running;
\* nothing obliges an operator, the tailnet or tailscaled to act.
FairSpec == Spec /\ WF_vars(Main) /\ WF_vars(Watch) /\ WF_vars(Reload)

-----------------------------------------------------------------------------
(* Properties.                                                             *)

TypeOK ==
    /\ file \in Files /\ capMap \in CapMaps /\ ips \in OwnIPs /\ tailscaleUp \in BOOLEAN
    /\ bound \subseteq Addrs
    /\ cfg \in FileConfig /\ allowedCTags \subseteq Tags
    /\ httpSrv \in Addrs \cup {NoServer}
    /\ tsIPs \in OwnIPs \cup {NoIPs} /\ svcModifiedAt \in Nat
    /\ next \in [Actors -> FileConfig \cup {None}] /\ nextTags \in [Actors -> SUBSET Tags]
    /\ addr \in [Actors -> Addrs \cup {NoServer}]
    /\ {watchesAttrs, notified, broken} \subseteq BOOLEAN
    /\ client.at \in Nat \cup {-1}

\* The Agent serves and is changing nothing.
Quiet == pc["main"] = "serving" /\ pc["watch"] \in {"waiting", "disconnected"}
         /\ pc["reload"] = "idle"

\* The Agent listens at the address its configuration names, and only
\* there, whatever the file and the policy went through and whichever bind
\* failed: the configured port is the one it announces itself with
\* (agent/server.go:631).
ServedWhereConfigured == Quiet => httpSrv = cfg.listen /\ bound = {cfg.listen}

\* A client that would be answered 304 holds the address the Agent has now,
\* although it is not part of the registry whose instant is compared
\* (daemon.go:218, server.go:538).
AnnouncedIsCurrent ==
    Quiet /\ request = None /\ client.at = svcModifiedAt =>
        client.self = SelfAddrForRequest(tsIPs, cfg.listen)

\* "node_attrs = false" ignores the node attributes altogether
\* (docs/node-attrs.md:159): no tag stays authorized once it is reloaded.
OffMeansOff == Quiet /\ ~cfg.nodeAttrs => allowedCTags = {}

\* Once the policy and the file no longer change, an Agent started with
\* node_attrs on and connected to tailscaled authorizes exactly the tags
\* of the policy, which it follows without a restart
\* (docs/node-attrs.md:134).
FollowsPolicy ==
    <>[](tailscaleUp /\ watchesAttrs /\ cfg.nodeAttrs /\ pc["main"] = "serving" =>
            allowedCTags = ParseCapMap(capMap).centralTags)
=============================================================================
