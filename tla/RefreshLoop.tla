---------------------------- MODULE RefreshLoop -----------------------------
(***************************************************************************)
(* When Central's collector refreshes, and with which settings: the        *)
(* watcher of tailscaled's IPN bus, the refresh loop with its ticker and   *)
(* its trigger channel, and the reloads, which change the settings and     *)
(* refresh as well (central/collector.go 188-245, central/discovery.go,    *)
(* central/server.go 114-142).  What a refresh does with the peers is in   *)
(* Collector; here it is what it takes, what it reads and when it          *)
(* publishes.  A netmap is a number and the node attributes in it.         *)
(***************************************************************************)
EXTENDS Integers, FiniteSets

CONSTANTS
    Tags, Ports,
    Policies,       \* the capabilities the policy may grant: agent and central tags, a port
    Configs,        \* the tags and port a configuration file may give
    Reloads,        \* processes that serve POST /reload
    MaxChanges, MaxOutages, MaxReloads,     \* bounds
    Watcher, Loop   \* the two goroutines of Run

ASSUME Constants ==
    /\ Ports \subseteq Nat \ {0}
    /\ Policies \subseteq [agentTags : SUBSET Tags, centralTags : SUBSET Tags,
                           port : Ports \cup {0}]
    /\ Configs \subseteq [tags : SUBSET Tags, port : Ports]
    /\ MaxChanges \in Nat /\ MaxOutages \in Nat /\ MaxReloads \in Nat
    /\ Watcher # Loop /\ Watcher \notin Reloads /\ Loop \notin Reloads

VARIABLES
    netmap,         \* the present netmap
    up,             \* tailscaled answers
    bus,            \* the watcher's connection, and whether a notification waits in it
    budget,         \* outages and reloads to come
    watchesAttrs,   \* node_attrs as Run was given it
    cfg,            \* the discovery section of s.cfg
    conf,           \* tags and port of the discoverer
    selfAttrs,      \* its cached attributes
    trigger,        \* triggerCh holds its one element
    shown,          \* netmap, tags and port of the refresh published last
    seen,           \* number of the netmap the loop read last
    pc, got, view   \* of each process: where, the attributes it read, its refresh

world == <<netmap, up, budget>>
discoverer == <<conf, selfAttrs>>
vars == <<netmap, up, bus, budget, watchesAttrs, cfg, conf, selfAttrs, trigger,
          shown, seen, pc, got, view>>

Refreshers == {Loop} \cup Reloads
Processes == {Watcher} \cup Refreshers

NoAttrs == [tags |-> {}, port |-> 0]    \* a nil *TSDNodeAttrs
Attrs == [tags : SUBSET Tags, port : Ports] \cup {NoAttrs}
Settings == [tags : SUBSET Tags, port : Ports]
Views == [netmap : Nat, tags : SUBSET Tags, port : Ports \cup {0}]
NoView == [netmap |-> 0, tags |-> {}, port |-> 0]

ParseCapMapAsIs(policy) ==      \* mutant: no validity rule
    [tags |-> policy.agentTags, port |-> policy.port]

\* Central's rule needs a port and an agent tag, the Agent's a port and a
\* central tag; either makes the attributes valid.
ParseCapMap(policy) ==
    IF policy.port # 0 /\ policy.agentTags \cup policy.centralTags # {}
    THEN [tags |-> policy.agentTags, port |-> policy.port]
    ELSE NoAttrs

\* Attributes override the settings, each only where it says something.
Overridden(settings, attrs) ==
    [tags |-> IF attrs.tags # {} THEN attrs.tags ELSE settings.tags,
     port |-> IF attrs.port # 0 THEN attrs.port ELSE settings.port]

Goto(p, label) == pc' = [pc EXCEPT ![p] = label]

-----------------------------------------------------------------------------
(* tailscaled and the network.                                             *)

NetmapChanges ==
    /\ netmap.number <= MaxChanges
    /\ \E policy \in Policies :
        netmap' = [number |-> netmap.number + 1, policy |-> policy]
    /\ bus' = [bus EXCEPT !.notified = @ \/ bus.connected]
    /\ UNCHANGED <<up, budget, watchesAttrs, cfg, discoverer, trigger, shown,
                   seen, pc, got, view>>

TailscaledStops ==
    /\ up /\ budget.outage > 0
    /\ up' = FALSE
    /\ bus' = [bus EXCEPT !.connected = FALSE]
    /\ budget' = [budget EXCEPT !.outage = @ - 1]
    /\ UNCHANGED <<netmap, watchesAttrs, cfg, discoverer, trigger, shown, seen,
                   pc, got, view>>

TailscaledStarts ==
    /\ ~up
    /\ up' = TRUE
    /\ UNCHANGED <<netmap, bus, budget, watchesAttrs, cfg, discoverer, trigger,
                   shown, seen, pc, got, view>>

-----------------------------------------------------------------------------
(* RefreshSelfAttrs, by the watcher and by reloads: it asks tailscaled and *)
(* stores the answer under a lock; on an error the old value stays.        *)

\* What p does once it has refreshed the attributes.
After(label) ==
    CASE label \in {"read_on_connect", "store_on_connect"} -> "listen"
      [] label \in {"read_on_change", "store_on_change"} -> "trigger"
      [] label \in {"attrs", "store"} -> "snapshot"

ReadSelfAttrs(p, from, to) ==
    /\ pc[p] = from
    /\ IF up
       THEN got' = [got EXCEPT ![p] = ParseCapMap(netmap.policy)] /\ Goto(p, to)
       ELSE UNCHANGED got /\ Goto(p, After(from))
    /\ UNCHANGED <<world, bus, watchesAttrs, cfg, discoverer, trigger, shown,
                   seen, view>>

StoreSelfAttrs(p, from) ==
    /\ pc[p] = from
    /\ selfAttrs' = got[p]
    /\ got' = [got EXCEPT ![p] = NoAttrs]
    /\ Goto(p, After(from))
    /\ UNCHANGED <<world, bus, watchesAttrs, cfg, conf, trigger, shown, seen,
                   view>>

-----------------------------------------------------------------------------
(* The watcher.                                                            *)

ConnectUninformed ==    \* mutant: without NotifyInitialNetMap
    /\ pc[Watcher] = "connect"
    /\ up
    /\ bus' = [connected |-> TRUE, notified |-> FALSE]
    /\ Goto(Watcher, IF watchesAttrs THEN "read_on_connect" ELSE "listen")
    /\ UNCHANGED <<world, watchesAttrs, cfg, discoverer, trigger, shown, seen,
                   got, view>>

\* The watcher tries again and again, with a pause in between, and the bus
\* announces the present netmap to a new listener.
Connect ==
    /\ pc[Watcher] = "connect"
    /\ up
    /\ bus' = [connected |-> TRUE, notified |-> TRUE]
    /\ Goto(Watcher, IF watchesAttrs THEN "read_on_connect" ELSE "listen")
    /\ UNCHANGED <<world, watchesAttrs, cfg, discoverer, trigger, shown, seen,
                   got, view>>

NotifiedNotRead ==      \* mutant: the attributes are read on connect only
    /\ pc[Watcher] = "listen"
    /\ bus.notified
    /\ bus' = [bus EXCEPT !.notified = FALSE]
    /\ Goto(Watcher, "trigger")
    /\ UNCHANGED <<world, watchesAttrs, cfg, discoverer, trigger, shown, seen,
                   got, view>>

Notified ==
    /\ pc[Watcher] = "listen"
    /\ bus.notified
    /\ bus' = [bus EXCEPT !.notified = FALSE]
    /\ Goto(Watcher, IF watchesAttrs THEN "read_on_change" ELSE "trigger")
    /\ UNCHANGED <<world, watchesAttrs, cfg, discoverer, trigger, shown, seen,
                   got, view>>

BusLost ==
    /\ pc[Watcher] = "listen"
    /\ ~bus.connected
    /\ bus' = [bus EXCEPT !.notified = FALSE]
    /\ Goto(Watcher, "connect")
    /\ UNCHANGED <<world, watchesAttrs, cfg, discoverer, trigger, shown, seen,
                   got, view>>

TriggerUnbuffered ==    \* mutant: a channel without capacity
    /\ pc[Watcher] = "trigger"
    /\ trigger' = (pc[Loop] = "wait")
    /\ Goto(Watcher, "listen")
    /\ UNCHANGED <<world, bus, watchesAttrs, cfg, discoverer, shown, seen, got,
                   view>>

\* A send that finds the channel full is dropped.
Trigger ==
    /\ pc[Watcher] = "trigger"
    /\ trigger' = TRUE
    /\ Goto(Watcher, "listen")
    /\ UNCHANGED <<world, bus, watchesAttrs, cfg, discoverer, shown, seen, got,
                   view>>

-----------------------------------------------------------------------------
(* A refresh, by the loop or started by a reload.                          *)

Tick ==
    /\ pc[Loop] = "wait"
    /\ Goto(Loop, "snapshot")
    /\ UNCHANGED <<world, bus, watchesAttrs, cfg, discoverer, trigger, shown,
                   seen, got, view>>

Triggered ==
    /\ pc[Loop] = "wait"
    /\ trigger
    /\ trigger' = FALSE
    /\ Goto(Loop, "snapshot")
    /\ UNCHANGED <<world, bus, watchesAttrs, cfg, discoverer, shown, seen, got,
                   view>>

\* Discover copies tags and port under one lock, the attributes under another.
TakeConfig(r) ==
    /\ pc[r] = "snapshot"
    /\ view' = [view EXCEPT ![r] = [@ EXCEPT !.tags = conf.tags, !.port = conf.port]]
    /\ Goto(r, "override")
    /\ UNCHANGED <<world, bus, watchesAttrs, cfg, discoverer, trigger, shown,
                   seen, got>>

TakeAttrs(r) ==
    /\ pc[r] = "override"
    /\ LET settings == Overridden([tags |-> view[r].tags, port |-> view[r].port],
                                  selfAttrs)
       IN  view' = [view EXCEPT ![r] = [@ EXCEPT !.tags = settings.tags,
                                                 !.port = settings.port]]
    /\ Goto(r, "status")
    /\ UNCHANGED <<world, bus, watchesAttrs, cfg, discoverer, trigger, shown,
                   seen, got>>

Status(r) ==
    /\ pc[r] = "status"
    /\ up
    /\ view' = [view EXCEPT ![r].netmap = netmap.number]
    /\ seen' = IF r = Loop THEN netmap.number ELSE seen
    /\ Goto(r, "publish")
    /\ UNCHANGED <<world, bus, watchesAttrs, cfg, discoverer, trigger, shown, got>>

Rests(r) == Goto(r, IF r = Loop THEN "wait" ELSE "idle")

\* tailscaled is away, or the reload's request is over and its context with it.
StatusFails(r) ==
    /\ pc[r] = "status"
    /\ ~up \/ r \in Reloads
    /\ view' = [view EXCEPT ![r] = NoView]
    /\ Rests(r)
    /\ UNCHANGED <<world, bus, watchesAttrs, cfg, discoverer, trigger, shown,
                   seen, got>>

Publish(r) ==
    /\ pc[r] = "publish"
    /\ shown' = view[r]
    /\ view' = [view EXCEPT ![r] = NoView]
    /\ Rests(r)
    /\ UNCHANGED <<world, bus, watchesAttrs, cfg, discoverer, trigger, seen, got>>

-----------------------------------------------------------------------------
(* POST /reload.                                                           *)

InReload == {"configure", "attrs", "store"}

\* mgmtMu is free, and the file is read and adopted.
Reload(r) ==
    /\ pc[r] = "idle"
    /\ \A q \in Reloads : pc[q] \notin InReload
    /\ budget.reload > 0
    /\ budget' = [budget EXCEPT !.reload = @ - 1]
    /\ \E settings \in Configs, on \in BOOLEAN :
        cfg' = [settings |-> settings, nodeAttrs |-> on]
    /\ Goto(r, "configure")
    /\ UNCHANGED <<netmap, up, bus, watchesAttrs, discoverer, trigger, shown, seen,
                   got, view>>

\* The file does not parse: nothing is adopted, and the refresh comes anyway.
ReloadFails(r) ==
    /\ pc[r] = "idle"
    /\ \A q \in Reloads : pc[q] \notin InReload
    /\ budget.reload > 0
    /\ budget' = [budget EXCEPT !.reload = @ - 1]
    /\ Goto(r, "snapshot")
    /\ UNCHANGED <<netmap, up, bus, watchesAttrs, cfg, discoverer, trigger, shown,
                   seen, got, view>>

UpdateConfigNot(r) ==       \* mutant: only s.cfg is replaced
    /\ pc[r] = "configure"
    /\ Goto(r, "attrs")
    /\ UNCHANGED <<world, bus, watchesAttrs, cfg, discoverer, trigger, shown,
                   seen, got, view>>

UpdateConfig(r) ==
    /\ pc[r] = "configure"
    /\ conf' = cfg.settings
    /\ Goto(r, "attrs")
    /\ UNCHANGED <<world, bus, watchesAttrs, cfg, selfAttrs, trigger, shown, seen,
                   got, view>>

ClearSelfAttrs(r) ==
    /\ pc[r] = "attrs"
    /\ ~cfg.nodeAttrs
    /\ selfAttrs' = NoAttrs
    /\ Goto(r, "snapshot")
    /\ UNCHANGED <<world, bus, watchesAttrs, cfg, conf, trigger, shown, seen, got,
                   view>>

ReloadAttrs(r) == cfg.nodeAttrs /\ ReadSelfAttrs(r, "attrs", "store")

-----------------------------------------------------------------------------

\* RunDaemon has read the attributes, if it was to and tailscaled was there,
\* and has started Run with the configuration of that moment.
Init ==
    /\ netmap \in [number : {1}, policy : Policies]
    /\ up \in BOOLEAN
    /\ up \/ MaxOutages > 0     \* a start without tailscaled is an outage
    /\ bus = [connected |-> FALSE, notified |-> FALSE]
    /\ budget = [outage |-> IF up THEN MaxOutages ELSE MaxOutages - 1,
                 reload |-> MaxReloads]
    /\ cfg \in [settings : Configs, nodeAttrs : BOOLEAN]
    /\ watchesAttrs = cfg.nodeAttrs
    /\ conf = cfg.settings
    /\ selfAttrs = IF cfg.nodeAttrs /\ up THEN ParseCapMap(netmap.policy) ELSE NoAttrs
    /\ trigger = FALSE
    /\ shown = NoView
    /\ seen = 0
    /\ pc = [p \in Processes |-> CASE p = Watcher -> "connect"
                                   [] p = Loop -> "snapshot"
                                   [] OTHER -> "idle"]
    /\ got = [p \in Processes |-> NoAttrs]
    /\ view = [r \in Refreshers |-> NoView]

Environment == NetmapChanges \/ TailscaledStops

Watch ==
    \/ Connect \/ Notified \/ BusLost \/ Trigger
    \/ ReadSelfAttrs(Watcher, "read_on_connect", "store_on_connect")
    \/ ReadSelfAttrs(Watcher, "read_on_change", "store_on_change")
    \/ StoreSelfAttrs(Watcher, "store_on_connect")
    \/ StoreSelfAttrs(Watcher, "store_on_change")

Refresh(r) == TakeConfig(r) \/ TakeAttrs(r) \/ Status(r) \/ StatusFails(r) \/ Publish(r)

Apply(r) == UpdateConfig(r) \/ ClearSelfAttrs(r) \/ ReloadAttrs(r) \/ StoreSelfAttrs(r, "store")

Next ==
    \/ Environment \/ TailscaledStarts
    \/ Watch
    \/ Tick \/ Triggered \/ Refresh(Loop)
    \/ \E r \in Reloads : Reload(r) \/ ReloadFails(r) \/ Apply(r) \/ Refresh(r)

Spec == Init /\ [][Next]_vars

\* The goroutines go on, and tailscaled is started again after an outage.
\* The ticker is not among them: what the trigger promises must not depend
\* on it.  Nobody has to reload.
Fairness ==
    /\ WF_vars(TailscaledStarts)
    /\ WF_vars(Watch)
    /\ WF_vars(Triggered \/ Refresh(Loop))
    /\ \A r \in Reloads : WF_vars(Apply(r) \/ Refresh(r))

FairSpec == Spec /\ Fairness

-----------------------------------------------------------------------------
(* Properties.                                                             *)

WatcherAt == {"connect", "listen", "trigger", "read_on_connect", "store_on_connect",
              "read_on_change", "store_on_change"}
InRefresh == {"snapshot", "override", "status", "publish"}
LoopAt == {"wait"} \cup InRefresh
ReloadAt == {"idle"} \cup InReload \cup InRefresh

Places(p) == IF p = Watcher THEN WatcherAt ELSE IF p = Loop THEN LoopAt ELSE ReloadAt

\* Every variable holds a value of its kind.
TypeOK ==
    /\ netmap \in [number : Nat \ {0}, policy : Policies]
    /\ up \in BOOLEAN
    /\ bus \in [connected : BOOLEAN, notified : BOOLEAN]
    /\ budget \in [outage : Nat, reload : Nat]
    /\ watchesAttrs \in BOOLEAN
    /\ cfg \in [settings : Settings, nodeAttrs : BOOLEAN]
    /\ conf \in Settings
    /\ selfAttrs \in Attrs
    /\ trigger \in BOOLEAN
    /\ shown \in Views
    /\ seen \in Nat
    /\ pc \in [Processes -> WatcherAt \cup LoopAt \cup ReloadAt]
    /\ \A p \in Processes : pc[p] \in Places(p)
    /\ got \in [Processes -> Attrs]
    /\ view \in [Refreshers -> Views]

\* The loop is going to read the netmap.
WillLook == trigger \/ pc[Loop] \in {"snapshot", "override", "status"}

\* No netmap change is lost between the bus, the channel of capacity one and
\* a loop that is busy: when the watcher is listening and has nothing left to
\* deliver, the loop has read the present netmap or is going to
\* (collector.go:213-216, "refresh already queued").
NoLostChange ==
    pc[Watcher] = "listen" /\ bus.connected /\ ~bus.notified /\ ~WillLook
        => seen = netmap.number

\* The watcher, the channel and the loop implement the follower: a change
\* that is announced is looked at, without any help of the ticker, also when
\* the bus was lost in between.
Follower == INSTANCE NetmapFollower WITH world <- netmap.number, seen <- seen
FollowsNetmap == Follower!Spec

\* Nothing about the attributes is under way, and the watcher is informed.
Settled ==
    /\ pc[Watcher] = "listen" /\ bus.connected /\ ~bus.notified
    /\ \A r \in Reloads : pc[r] \notin InReload

\* The cached attributes are those of the policy when Central was started to
\* use them and has not been reloaded, and none when neither the start nor
\* the configuration wants them, whatever reloads came in between
\* (collector.go:190, server.go:120-125).
AttrsAsAsked ==
    Settled =>
        /\ watchesAttrs /\ budget.reload = MaxReloads
            => selfAttrs = ParseCapMap(netmap.policy)
        /\ ~watchesAttrs /\ ~cfg.nodeAttrs => selfAttrs = NoAttrs

\* With a ticker, what is published is, again and again, of the present
\* netmap under the settings in force, whatever refreshes of reloads overlap
\* the loop's or are cancelled.
EventuallyCurrent ==
    WF_vars(Tick) =>
        []<>(/\ shown.netmap = netmap.number
             /\ [tags |-> shown.tags, port |-> shown.port]
                    = Overridden(cfg.settings, selfAttrs))

-----------------------------------------------------------------------------
(* What the documentation says and the code does not do: TLC refutes it.   *)

\* With node_attrs = false the attributes are "ignored altogether"
\* (docs/node-attrs.md:159).
IgnoredWhenOff == Settled /\ ~cfg.nodeAttrs => selfAttrs = NoAttrs

\* With node_attrs on since the start, they are the policy's.  The code does
\* not promise it: a reload may store attributes it read before the watcher
\* stored newer ones (see the README).
FollowedWhenOn ==
    Settled /\ watchesAttrs /\ cfg.nodeAttrs => selfAttrs = ParseCapMap(netmap.policy)
=============================================================================
