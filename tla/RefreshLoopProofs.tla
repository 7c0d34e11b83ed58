------------------------- MODULE RefreshLoopProofs -------------------------
(***************************************************************************)
(* The watcher, the trigger channel and the refresh loop, for any policies *)
(* and configurations, any number of reloads, outages and changes.         *)
(***************************************************************************)
EXTENDS RefreshLoop, TLAPS

-----------------------------------------------------------------------------
(* Types.                                                                  *)

LEMMA ParsedIsAttrs ==
    ASSUME NEW policy \in Policies
    PROVE  ParseCapMap(policy) \in Attrs
BY Constants DEF ParseCapMap, Attrs, NoAttrs

LEMMA OverriddenIsSettings ==
    ASSUME NEW tags \in SUBSET Tags, NEW port \in Ports \cup {0}, NEW attrs \in Attrs
    PROVE  /\ Overridden([tags |-> tags, port |-> port], attrs).tags \in SUBSET Tags
           /\ Overridden([tags |-> tags, port |-> port], attrs).port \in Ports \cup {0}
BY DEF Overridden, Attrs, NoAttrs

LEMMA Initially == Init => TypeOK
<1> SUFFICES ASSUME Init PROVE TypeOK
    OBVIOUS
<1>1. /\ up \in BOOLEAN
      /\ bus \in [connected : BOOLEAN, notified : BOOLEAN]
      /\ watchesAttrs \in BOOLEAN
      /\ trigger \in BOOLEAN
      /\ seen \in Nat
    BY DEF Init
<1>7. netmap \in [number : Nat \ {0}, policy : Policies]
    <2>1. netmap \in [number : {1}, policy : Policies] /\ {1} \subseteq Nat \ {0}
        BY DEF Init
    <2> QED
        BY <2>1
<1>2. budget \in [outage : Nat, reload : Nat]
    BY Constants DEF Init
<1>3. cfg \in [settings : Settings, nodeAttrs : BOOLEAN] /\ conf \in Settings
    BY Constants DEF Init, Settings
<1>4. selfAttrs \in Attrs
    BY ParsedIsAttrs DEF Init, Attrs
<1>5. /\ shown \in Views /\ view \in [Refreshers -> Views]
      /\ got \in [Processes -> Attrs]
    BY DEF Init, Views, NoView, Attrs
<1>6. /\ pc \in [Processes -> WatcherAt \cup LoopAt \cup ReloadAt]
      /\ \A p \in Processes : pc[p] \in Places(p)
    <2> DEFINE start(p) == CASE p = Watcher -> "connect" [] p = Loop -> "snapshot"
                             [] OTHER -> "idle"
    <2>1. pc = [p \in Processes |-> start(p)]
        BY DEF Init
    <2>2. /\ start(Watcher) = "connect" /\ start(Loop) = "snapshot"
          /\ \A r \in Reloads : start(r) = "idle"
        BY Constants
    <2>3. ASSUME NEW p \in Processes
          PROVE  start(p) \in Places(p) /\ start(p) \in WatcherAt \cup LoopAt \cup ReloadAt
        <3>1. CASE p = Watcher
            BY <2>2, <3>1 DEF Places, WatcherAt
        <3>2. CASE p = Loop
            BY <2>2, <3>2, Constants DEF Places, LoopAt, InRefresh
        <3>3. CASE p \in Reloads
            BY <2>2, <3>3, Constants DEF Places, ReloadAt
        <3> QED
            BY <3>1, <3>2, <3>3 DEF Processes, Refreshers
    <2> HIDE DEF start
    <2> QED
        BY <2>1, <2>3
<1> QED
    BY <1>1, <1>2, <1>3, <1>4, <1>5, <1>6, <1>7 DEF TypeOK

\* A process that goes to one of its places leaves the others where they are.
LEMMA Going ==
    ASSUME TypeOK, NEW p \in Processes, NEW label, Goto(p, label)
    PROVE  /\ pc'[p] = label
           /\ \A q \in Processes : q # p => pc'[q] = pc[q]
           /\ label \in Places(p) =>
                /\ pc' \in [Processes -> WatcherAt \cup LoopAt \cup ReloadAt]
                /\ \A q \in Processes : pc'[q] \in Places(q)
<1>1. label \in Places(p) => label \in WatcherAt \cup LoopAt \cup ReloadAt
    BY DEF Places
<1> QED
    BY <1>1 DEF TypeOK, Goto

LEMMA Standing ==
    ASSUME TypeOK
    PROVE  /\ pc[Watcher] \in WatcherAt /\ pc[Loop] \in LoopAt
           /\ \A r \in Reloads : pc[r] \in ReloadAt
           /\ Watcher \in Processes /\ Loop \in Processes /\ Reloads \subseteq Processes
           /\ Loop \in Refreshers /\ Reloads \subseteq Refreshers
BY Constants DEF TypeOK, Places, Processes, Refreshers

Bus == [connected : BOOLEAN, notified : BOOLEAN]

\* A bus, one field at a time.
LEMMA BusFields ==
    ASSUME NEW b \in Bus, NEW x \in BOOLEAN
    PROVE  /\ [b EXCEPT !.notified = x] \in Bus
           /\ [b EXCEPT !.notified = x].notified = x
           /\ [b EXCEPT !.notified = x].connected = b.connected
           /\ [b EXCEPT !.connected = x] \in Bus
           /\ [b EXCEPT !.connected = x].connected = x
           /\ [b EXCEPT !.connected = x].notified = b.notified
<1>1. [b EXCEPT !.notified = x] \in Bus
    BY DEF Bus
<1>2. [b EXCEPT !.notified = x].notified = x
    BY DEF Bus
<1>3. [b EXCEPT !.notified = x].connected = b.connected
    BY DEF Bus
<1>4. [b EXCEPT !.connected = x] \in Bus
    BY DEF Bus
<1>5. [b EXCEPT !.connected = x].connected = x
    BY DEF Bus
<1>6. [b EXCEPT !.connected = x].notified = b.notified
    BY DEF Bus
<1> QED
    BY <1>1, <1>2, <1>3, <1>4, <1>5, <1>6

\* What becomes of the bus.
LEMMA BusChanges ==
    ASSUME TypeOK
    PROVE  /\ bus \in Bus
           /\ NetmapChanges => /\ bus' \in Bus /\ bus'.connected = bus.connected
                               /\ bus.connected => bus'.notified
           /\ TailscaledStops => bus' \in Bus /\ bus'.connected = FALSE
           /\ Connect => bus' \in Bus /\ bus'.connected = TRUE /\ bus'.notified = TRUE
           /\ Notified \/ BusLost => /\ bus' \in Bus /\ bus'.notified = FALSE
                                     /\ bus'.connected = bus.connected
<1>1. bus \in Bus
    BY DEF TypeOK, Bus
<1>2. ASSUME NetmapChanges
      PROVE  bus' \in Bus /\ bus'.connected = bus.connected /\ (bus.connected => bus'.notified)
    <2>1. PICK x \in BOOLEAN : x = (bus.notified \/ bus.connected)
        OBVIOUS
    <2>2. bus' = [bus EXCEPT !.notified = x]
        BY <1>2, <2>1 DEF NetmapChanges
    <2>3. /\ [bus EXCEPT !.notified = x] \in Bus
          /\ [bus EXCEPT !.notified = x].notified = x
          /\ [bus EXCEPT !.notified = x].connected = bus.connected
        BY <1>1, BusFields
    <2>4. bus' \in Bus /\ bus'.connected = bus.connected /\ bus'.notified = x
        BY <2>2, <2>3, Zenon
    <2> QED
        BY <2>1, <2>4
<1>3. ASSUME TailscaledStops PROVE bus' \in Bus /\ bus'.connected = FALSE
    <2>1. bus' = [bus EXCEPT !.connected = FALSE]
        BY <1>3 DEF TailscaledStops
    <2> QED
        BY <1>1, <2>1, BusFields
<1>4. ASSUME Connect PROVE bus' \in Bus /\ bus'.connected = TRUE /\ bus'.notified = TRUE
    BY <1>4 DEF Connect, Bus
<1>5. ASSUME Notified \/ BusLost
      PROVE  bus' \in Bus /\ bus'.notified = FALSE /\ bus'.connected = bus.connected
    <2>1. bus' = [bus EXCEPT !.notified = FALSE]
        BY <1>5 DEF Notified, BusLost
    <2> QED
        BY <1>1, <2>1, BusFields
<1> QED
    BY <1>1, <1>2, <1>3, <1>4, <1>5

LEMMA WorldKeepsType ==
    ASSUME TypeOK, NetmapChanges \/ TailscaledStops \/ TailscaledStarts
    PROVE  TypeOK'
<1>1. /\ netmap' \in [number : Nat \ {0}, policy : Policies]
      /\ up' \in BOOLEAN /\ bus' \in Bus
      /\ budget' \in [outage : Nat, reload : Nat]
    <2>1. CASE NetmapChanges
        <3>1. PICK policy \in Policies :
                netmap' = [number |-> netmap.number + 1, policy |-> policy]
            BY <2>1 DEF NetmapChanges
        <3>2. netmap.number + 1 \in Nat \ {0}
            BY DEF TypeOK
        <3>3. netmap' \in [number : Nat \ {0}, policy : Policies]
            BY <3>1, <3>2
        <3> QED
            BY <2>1, <3>3, BusChanges DEF NetmapChanges, TypeOK
    <2>2. CASE TailscaledStops
        <3>1. budget' \in [outage : Nat, reload : Nat]
            BY <2>2 DEF TailscaledStops, TypeOK
        <3> QED
            BY <2>2, <3>1, BusChanges DEF TailscaledStops, TypeOK
    <2>3. CASE TailscaledStarts
        BY <2>3, BusChanges DEF TailscaledStarts, TypeOK
    <2> QED
        BY <2>1, <2>2, <2>3
<1>2. UNCHANGED <<watchesAttrs, cfg, discoverer, trigger, shown, seen, pc, got, view>>
    BY DEF NetmapChanges, TailscaledStops, TailscaledStarts
<1> QED
    BY <1>1, <1>2 DEF TypeOK, discoverer, Bus

LEMMA WatchKeepsType ==
    ASSUME TypeOK, Connect \/ Notified \/ BusLost \/ Trigger
    PROVE  TypeOK'
<1>1. PICK label \in WatcherAt : Goto(Watcher, label)
    BY DEF Connect, Notified, BusLost, Trigger, WatcherAt
<1>2. Watcher \in Processes /\ label \in Places(Watcher)
    BY DEF Processes, Places
<1>3. /\ bus' \in Bus /\ trigger' \in BOOLEAN
      /\ UNCHANGED <<world, watchesAttrs, cfg, discoverer, shown, seen, got, view>>
    <2>1. trigger' \in BOOLEAN
        BY DEF Connect, Notified, BusLost, Trigger, TypeOK
    <2>2. UNCHANGED <<world, watchesAttrs, cfg, discoverer, shown, seen, got, view>>
        BY DEF Connect, Notified, BusLost, Trigger
    <2>3. bus' \in Bus
        BY BusChanges DEF Trigger
    <2> QED
        BY <2>1, <2>2, <2>3
<1> QED
    BY <1>1, <1>2, <1>3, Going DEF TypeOK, world, discoverer, Bus

LEMMA SelfAttrsKeepType ==
    ASSUME TypeOK, NEW p \in Processes, NEW from, NEW to, 
           After(from) \in Places(p), to \in Places(p),
           ReadSelfAttrs(p, from, to) \/ StoreSelfAttrs(p, from)
    PROVE  TypeOK'
<1>1. PICK label \in Places(p) : Goto(p, label)
    BY DEF ReadSelfAttrs, StoreSelfAttrs
<1>2. /\ got' \in [Processes -> Attrs] /\ selfAttrs' \in Attrs
      /\ UNCHANGED <<world, bus, watchesAttrs, cfg, conf, trigger, shown, seen, view>>
    BY ParsedIsAttrs DEF ReadSelfAttrs, StoreSelfAttrs, TypeOK, Attrs, discoverer
<1> QED
    BY <1>1, <1>2, Going DEF TypeOK, world

LEMMA RefreshKeepsType ==
    ASSUME TypeOK, NEW r \in Refreshers,
           Refresh(r) \/ (r = Loop /\ (Tick \/ Triggered))
    PROVE  TypeOK'
<1>1. PICK label \in Places(r) : Goto(r, label)
    BY Constants DEF Refresh, Tick, Triggered, TakeConfig, TakeAttrs, Status, StatusFails,
        Publish, Rests, Places, LoopAt, ReloadAt, InRefresh, Refreshers
<1>2. r \in Processes
    BY DEF Processes
<1>3. /\ UNCHANGED <<world, bus, watchesAttrs, cfg, discoverer, got>>
      /\ trigger' \in BOOLEAN /\ seen' \in Nat
    BY DEF Refresh, Tick, Triggered, TakeConfig, TakeAttrs, Status, StatusFails, Publish,
       TypeOK
<1>4. view' \in [Refreshers -> Views] /\ shown' \in Views
    <2>1. CASE TakeConfig(r)
        BY <2>1 DEF TakeConfig, TypeOK, Views, Settings
    <2>2. CASE TakeAttrs(r)
        <3>1. PICK s : /\ s = Overridden([tags |-> view[r].tags, port |-> view[r].port], selfAttrs)
                       /\ view' = [view EXCEPT ![r] = [@ EXCEPT !.tags = s.tags, !.port = s.port]]
            BY <2>2 DEF TakeAttrs
        <3>2. view[r].tags \in SUBSET Tags /\ view[r].port \in Ports \cup {0}
            BY DEF TypeOK, Views
        <3>3. s.tags \in SUBSET Tags /\ s.port \in Ports \cup {0}
            BY <3>1, <3>2, OverriddenIsSettings DEF TypeOK
        <3>4. [view[r] EXCEPT !.tags = s.tags, !.port = s.port] \in Views
            BY <3>3 DEF TypeOK, Views
        <3> QED
            BY <2>2, <3>1, <3>4 DEF TakeAttrs, TypeOK
    <2>3. CASE Status(r)
        BY <2>3 DEF Status, TypeOK, Views
    <2>4. CASE StatusFails(r) \/ Publish(r)
        BY <2>4 DEF StatusFails, Publish, TypeOK, Views, NoView
    <2>5. CASE Tick \/ Triggered
        BY <2>5 DEF Tick, Triggered, TypeOK
    <2> QED
        BY <2>1, <2>2, <2>3, <2>4, <2>5 DEF Refresh
<1> QED
    BY <1>1, <1>2, <1>3, <1>4, Going DEF TypeOK, world, discoverer

LEMMA ReloadKeepsType ==
    ASSUME TypeOK, NEW r \in Reloads,
           Reload(r) \/ ReloadFails(r) \/ UpdateConfig(r) \/ ClearSelfAttrs(r)
    PROVE  TypeOK'
<1>1. PICK label \in ReloadAt : Goto(r, label)
    BY DEF Reload, ReloadFails, UpdateConfig, ClearSelfAttrs, ReloadAt, InReload, InRefresh
<1>2. r \in Processes /\ label \in Places(r)
    BY Constants DEF Processes, Refreshers, Places
<1>3. UNCHANGED <<netmap, up, bus, watchesAttrs, trigger, shown, seen, got, view>>
    BY DEF Reload, ReloadFails, UpdateConfig, ClearSelfAttrs, world, discoverer
<1>4. /\ budget' \in [outage : Nat, reload : Nat]
      /\ cfg' \in [settings : Settings, nodeAttrs : BOOLEAN]
      /\ conf' \in Settings /\ selfAttrs' \in Attrs
    <2>1. CASE Reload(r)
        BY <2>1, Constants DEF Reload, TypeOK, discoverer, Settings
    <2>2. CASE ReloadFails(r)
        BY <2>2 DEF ReloadFails, TypeOK, discoverer
    <2>3. CASE UpdateConfig(r) \/ ClearSelfAttrs(r)
        BY <2>3 DEF UpdateConfig, ClearSelfAttrs, TypeOK, world, Attrs
    <2> QED
        BY <2>1, <2>2, <2>3
<1> QED
    BY <1>1, <1>2, <1>3, <1>4, Going DEF TypeOK

LEMMA TypeStep == TypeOK /\ [Next]_vars => TypeOK'
<1> SUFFICES ASSUME TypeOK, [Next]_vars PROVE TypeOK'
    OBVIOUS
<1>1. CASE Environment \/ TailscaledStarts
    BY <1>1, WorldKeepsType DEF Environment
<1>2. CASE Watch
    <2>1. \A label \in WatcherAt : label \in Places(Watcher)
        BY DEF Places
    <2>2. CASE Connect \/ Notified \/ BusLost \/ Trigger
        BY <2>2, WatchKeepsType
    <2>3. CASE ReadSelfAttrs(Watcher, "read_on_connect", "store_on_connect")
        BY <2>1, <2>3, Standing, SelfAttrsKeepType DEF After, WatcherAt
    <2>4. CASE ReadSelfAttrs(Watcher, "read_on_change", "store_on_change")
        BY <2>1, <2>4, Standing, SelfAttrsKeepType DEF After, WatcherAt
    <2>5. CASE StoreSelfAttrs(Watcher, "store_on_connect")
        BY <2>1, <2>5, Standing, SelfAttrsKeepType DEF After, WatcherAt
    <2>6. CASE StoreSelfAttrs(Watcher, "store_on_change")
        BY <2>1, <2>6, Standing, SelfAttrsKeepType DEF After, WatcherAt
    <2> QED
        BY <1>2, <2>2, <2>3, <2>4, <2>5, <2>6 DEF Watch
<1>3. CASE Tick \/ Triggered \/ Refresh(Loop)
    BY <1>3, Standing, RefreshKeepsType
<1>4. ASSUME NEW r \in Reloads, Reload(r) \/ ReloadFails(r) \/ Apply(r) \/ Refresh(r)
      PROVE  TypeOK'
    <2>1. \A label \in ReloadAt : label \in Places(r)
        BY Constants DEF Places
    <2>2. CASE Reload(r) \/ ReloadFails(r) \/ UpdateConfig(r) \/ ClearSelfAttrs(r)
        BY <2>2, ReloadKeepsType
    <2>3. CASE ReloadAttrs(r)
        BY <2>1, <2>3, Standing, SelfAttrsKeepType DEF ReloadAttrs, After, ReloadAt,
           InReload, InRefresh
    <2>4. CASE StoreSelfAttrs(r, "store")
        BY <2>1, <2>4, Standing, SelfAttrsKeepType DEF After, ReloadAt, InReload, InRefresh
    <2>5. CASE Refresh(r)
        BY <2>5, Standing, RefreshKeepsType
    <2> QED
        BY <1>4, <2>2, <2>3, <2>4, <2>5 DEF Apply
<1>5. CASE UNCHANGED vars
    BY <1>5 DEF vars, TypeOK
<1> QED
    BY <1>1, <1>2, <1>3, <1>4, <1>5 DEF Next

\* Every variable holds a value of its kind.
THEOREM TypeCorrect == Spec => []TypeOK
BY Initially, TypeStep, PTL DEF Spec

-----------------------------------------------------------------------------
(* No change of the netmap is lost.                                        *)

\* A change the bus has told of is on its way: in the bus, with the watcher,
\* in the channel, or with a loop that has yet to read the netmap.
LookInv ==
    /\ bus.connected => up
    /\ seen <= netmap.number
    /\ bus.connected =>
        \/ bus.notified
        \/ pc[Watcher] \in {"read_on_change", "store_on_change", "trigger"}
        \/ WillLook
        \/ seen = netmap.number

LEMMA LookInitially == Init => LookInv
<1> SUFFICES ASSUME Init PROVE LookInv
    OBVIOUS
<1>1. ~bus.connected
    BY DEF Init
<1>2. seen = 0 /\ netmap.number = 1
    BY DEF Init
<1> QED
    BY <1>1, <1>2 DEF LookInv

LEMMA LookKeptByWorld ==
    ASSUME TypeOK, LookInv, Environment \/ TailscaledStarts
    PROVE  LookInv'
<1>1. UNCHANGED <<trigger, seen, pc>>
    BY DEF Environment, NetmapChanges, TailscaledStops, TailscaledStarts
<1>2. CASE NetmapChanges
    <2>1. netmap'.number = netmap.number + 1 /\ up' = up
        BY <1>2 DEF NetmapChanges
    <2>2. seen \in Nat /\ netmap.number \in Nat
        BY DEF TypeOK
    <2>3. seen' <= netmap'.number
        BY <1>1, <2>1, <2>2 DEF LookInv
    <2>4. bus'.connected = bus.connected /\ (bus.connected => bus'.notified)
        BY <1>2, BusChanges
    <2> QED
        BY <2>1, <2>3, <2>4 DEF LookInv
<1>3. CASE TailscaledStops
    BY <1>1, <1>3, BusChanges DEF LookInv, TailscaledStops
<1>4. CASE TailscaledStarts
    BY <1>1, <1>4 DEF LookInv, TailscaledStarts, WillLook
<1> QED
    BY <1>2, <1>3, <1>4 DEF Environment

LEMMA LookKeptByWatch ==
    ASSUME TypeOK, LookInv, Watch
    PROVE  LookInv'
<1>1. UNCHANGED <<netmap, up, seen>>
    BY DEF Watch, Connect, Notified, BusLost, Trigger, ReadSelfAttrs, StoreSelfAttrs, world
<1>2. PICK label : Goto(Watcher, label)
    BY DEF Watch, Connect, Notified, BusLost, Trigger, ReadSelfAttrs, StoreSelfAttrs
<1>3. pc'[Watcher] = label /\ pc'[Loop] = pc[Loop]
    BY <1>2, Going, Standing, Constants
<1>4. CASE Connect
    BY <1>1, <1>4, BusChanges DEF LookInv, Connect
<1>5. CASE Notified
    <2>1. pc'[Watcher] \in {"read_on_change", "trigger"}
        BY <1>5, Standing DEF Notified, Goto, TypeOK
    <2> QED
        BY <1>1, <1>5, <2>1, BusChanges DEF LookInv
<1>6. CASE BusLost
    BY <1>1, <1>6, BusChanges DEF LookInv, BusLost
<1>7. CASE Trigger
    BY <1>1, <1>7 DEF LookInv, Trigger, WillLook
<1>8. CASE \/ ReadSelfAttrs(Watcher, "read_on_connect", "store_on_connect")
           \/ ReadSelfAttrs(Watcher, "read_on_change", "store_on_change")
           \/ StoreSelfAttrs(Watcher, "store_on_connect")
           \/ StoreSelfAttrs(Watcher, "store_on_change")
    <2>1. UNCHANGED <<bus, trigger>>
        BY <1>8 DEF ReadSelfAttrs, StoreSelfAttrs
    <2>2. pc[Watcher] \in {"read_on_change", "store_on_change"} =>
            pc'[Watcher] \in {"store_on_change", "trigger"}
        BY <1>8, Standing DEF ReadSelfAttrs, StoreSelfAttrs, Goto, After, TypeOK
    <2>3. pc[Watcher] # "trigger"
        BY <1>8 DEF ReadSelfAttrs, StoreSelfAttrs
    <2> QED
        BY <1>1, <1>3, <2>1, <2>2, <2>3 DEF LookInv, WillLook
<1> QED
    BY <1>4, <1>5, <1>6, <1>7, <1>8 DEF Watch

LEMMA LookKeptByLoop ==
    ASSUME TypeOK, LookInv, Tick \/ Triggered \/ Refresh(Loop)
    PROVE  LookInv'
<1>1. UNCHANGED <<netmap, up, bus>>
    BY DEF Tick, Triggered, Refresh, TakeConfig, TakeAttrs, Status, StatusFails, Publish,
       world
<1>2. PICK label : Goto(Loop, label)
    BY DEF Tick, Triggered, Refresh, TakeConfig, TakeAttrs, Status, StatusFails, Publish,
       Rests
<1>3. pc'[Loop] = label /\ pc'[Watcher] = pc[Watcher]
    BY <1>2, Going, Standing, Constants
<1>4. CASE Tick \/ Triggered
    <2>1. pc'[Loop] = "snapshot" /\ seen' = seen
        BY <1>4, Standing DEF Tick, Triggered, Goto, TypeOK
    <2> QED
        BY <1>1, <1>3, <2>1 DEF LookInv, WillLook
<1>5. CASE TakeConfig(Loop) \/ TakeAttrs(Loop)
    <2>1. pc'[Loop] \in {"override", "status"} /\ seen' = seen
        BY <1>5, Standing DEF TakeConfig, TakeAttrs, Goto, TypeOK
    <2> QED
        BY <1>1, <1>3, <2>1 DEF LookInv, WillLook
<1>6. CASE Status(Loop)
    <2>1. seen' = netmap.number
        BY <1>6 DEF Status
    <2> QED
        BY <1>1, <2>1 DEF LookInv, TypeOK
<1>7. CASE StatusFails(Loop)
    <2>1. ~up /\ seen' = seen
        BY <1>7, Constants DEF StatusFails
    <2> QED
        BY <1>1, <2>1 DEF LookInv
<1>8. CASE Publish(Loop)
    <2>1. pc[Loop] = "publish" /\ UNCHANGED <<seen, trigger>>
        BY <1>8 DEF Publish
    <2> QED
        BY <1>1, <1>3, <2>1 DEF LookInv, WillLook
<1> QED
    BY <1>4, <1>5, <1>6, <1>7, <1>8 DEF Refresh

\* What a reload and its refresh leave alone.
LEMMA ReloadLeaves ==
    ASSUME TypeOK, NEW r \in Reloads, Reload(r) \/ ReloadFails(r) \/ Apply(r) \/ Refresh(r)
    PROVE  /\ UNCHANGED <<netmap, up, bus, watchesAttrs, trigger, seen>>
           /\ pc'[Watcher] = pc[Watcher] /\ pc'[Loop] = pc[Loop]
           /\ \A q \in Reloads : q # r => pc'[q] = pc[q]
<1>1. UNCHANGED <<netmap, up, bus, watchesAttrs, trigger, seen>>
    BY Constants DEF Reload, ReloadFails, Apply, UpdateConfig, ClearSelfAttrs, ReloadAttrs,
        ReadSelfAttrs, StoreSelfAttrs, Refresh, TakeConfig, TakeAttrs, Status, StatusFails,
        Publish, world
<1>2. PICK label : Goto(r, label)
    BY DEF Reload, ReloadFails, Apply, UpdateConfig, ClearSelfAttrs, ReloadAttrs,
        ReadSelfAttrs, StoreSelfAttrs, Refresh, TakeConfig, TakeAttrs, Status, StatusFails,
        Publish, Rests
<1> QED
    BY <1>1, <1>2, Going, Standing, Constants

LEMMA LookKeptByReload ==
    ASSUME TypeOK, LookInv, NEW r \in Reloads,
           Reload(r) \/ ReloadFails(r) \/ Apply(r) \/ Refresh(r)
    PROVE  LookInv'
BY ReloadLeaves DEF LookInv, WillLook

LEMMA LookStep == TypeOK /\ LookInv /\ [Next]_vars => LookInv'
<1>1. ASSUME LookInv, UNCHANGED vars PROVE LookInv'
    BY <1>1 DEF vars, LookInv, WillLook
<1> QED
    BY <1>1, LookKeptByWorld, LookKeptByWatch, LookKeptByLoop, LookKeptByReload DEF Next

\* A change not looked at yet is on its way at each place it may be: the bus,
\* the watcher, the channel or the loop (collector.go:197-245).
THEOREM LookInvariant == Spec => []LookInv
BY LookInitially, LookStep, TypeCorrect, PTL DEF Spec

\* When the watcher rests and no look is due, the loop has read the present
\* netmap: neither a full channel nor a busy loop loses a change.
THEOREM NoChangeIsLost == Spec => []NoLostChange
<1>1. LookInv => NoLostChange
    BY DEF LookInv, NoLostChange
<1> QED
    BY <1>1, LookInvariant, PTL

\* Every step is a step of the follower or one it does not see.  (That a look
\* comes is liveness, and left to TLC.)
THEOREM StepsFollow == Spec => Follower!Init /\ [][Follower!Next]_(Follower!vars)
<1>1. Init => Follower!Init
    BY DEF Init, Follower!Init
<1>2. TypeOK /\ LookInv /\ [Next]_vars => [Follower!Next]_(Follower!vars)
    <2> SUFFICES ASSUME TypeOK, LookInv, [Next]_vars
                 PROVE  Follower!Next \/ UNCHANGED <<netmap.number, seen>>
        BY DEF Follower!vars
    <2>1. CASE NetmapChanges
        <3>1. netmap'.number = netmap.number + 1 /\ seen' = seen
            BY <2>1 DEF NetmapChanges
        <3> QED
            BY <3>1 DEF Follower!Next, Follower!Change
    <2>2. CASE TailscaledStops \/ TailscaledStarts
        BY <2>2 DEF TailscaledStops, TailscaledStarts
    <2>3. CASE Watch
        BY <2>3 DEF Watch, Connect, Notified, BusLost, Trigger, ReadSelfAttrs,
           StoreSelfAttrs, world
    <2>4. CASE Tick \/ Triggered \/ Refresh(Loop)
        <3>1. netmap' = netmap /\ seen' \in {seen, netmap.number}
            BY <2>4 DEF Tick, Triggered, Refresh, TakeConfig, TakeAttrs, Status,
               StatusFails,
                Publish, world
        <3>2. seen \in Nat /\ netmap.number \in Nat /\ seen <= netmap.number
            BY DEF TypeOK, LookInv
        <3> QED
            BY <3>1, <3>2 DEF Follower!Next, Follower!Look
    <2>5. CASE \E r \in Reloads : Reload(r) \/ ReloadFails(r) \/ Apply(r) \/ Refresh(r)
        BY <2>5, ReloadLeaves
    <2>6. CASE UNCHANGED vars
        BY <2>6 DEF vars
    <2> QED
        BY <2>1, <2>2, <2>3, <2>4, <2>5, <2>6 DEF Next, Environment
<1> QED
    BY <1>1, <1>2, TypeCorrect, LookInvariant, PTL DEF Spec

-----------------------------------------------------------------------------
(* The cached attributes.                                                  *)

Granted == ParseCapMap(netmap.policy)

\* Watched since the start and never reloaded: what the watcher holds or has
\* stored is the policy's, unless the bus or the watcher has yet to act.
WatchedInv ==
    watchesAttrs /\ budget.reload = MaxReloads =>
        /\ \A r \in Reloads : pc[r] = "idle"
        /\ bus.connected =>
            \/ bus.notified
            \/ pc[Watcher] \in {"read_on_connect", "read_on_change"}
            \/ /\ pc[Watcher] \in {"store_on_connect", "store_on_change"}
               /\ got[Watcher] = Granted
            \/ /\ pc[Watcher] \notin {"store_on_connect", "store_on_change"}
               /\ selfAttrs = Granted

\* Without the watcher's help only a reload stores attributes, one at a time,
\* and only while the configuration wants them.
UnwatchedInv ==
    /\ ~watchesAttrs => pc[Watcher] \in {"connect", "listen", "trigger"}
    /\ \A q, r \in Reloads : pc[q] \in InReload /\ pc[r] \in InReload => q = r
    /\ \A r \in Reloads : pc[r] = "store" => cfg.nodeAttrs
    /\ ~watchesAttrs /\ ~cfg.nodeAttrs =>
        selfAttrs = NoAttrs \/ \E r \in Reloads : pc[r] \in {"configure", "attrs"}

AttrsInv ==
    /\ budget.reload <= MaxReloads
    /\ WatchedInv
    /\ UnwatchedInv

LEMMA AttrsInitially == Init => AttrsInv
<1> SUFFICES ASSUME Init PROVE AttrsInv
    OBVIOUS
<1>1. TypeOK /\ pc[Watcher] = "connect" /\ \A r \in Reloads : pc[r] = "idle"
    <2> DEFINE start(p) == CASE p = Watcher -> "connect" [] p = Loop -> "snapshot"
                             [] OTHER -> "idle"
    <2>1. pc = [p \in Processes |-> start(p)]
        BY DEF Init
    <2>2. start(Watcher) = "connect" /\ \A r \in Reloads : start(r) = "idle"
        BY Constants
    <2> HIDE DEF start
    <2> QED
        BY <2>1, <2>2, Initially, Standing
<1>2. budget.reload = MaxReloads /\ ~bus.connected
    BY DEF Init
<1>3. watchesAttrs = cfg.nodeAttrs /\ (~watchesAttrs => selfAttrs = NoAttrs)
    BY DEF Init
<1> QED
    BY <1>1, <1>2, <1>3, Constants DEF AttrsInv, WatchedInv, UnwatchedInv, InReload

LEMMA AttrsKeptByWorld ==
    ASSUME TypeOK, AttrsInv, Environment \/ TailscaledStarts
    PROVE  AttrsInv'
<1>1. UNCHANGED <<watchesAttrs, cfg, selfAttrs, pc, got>> /\ budget'.reload = budget.reload
    BY DEF Environment, NetmapChanges, TailscaledStops, TailscaledStarts, discoverer, TypeOK
<1>2. CASE NetmapChanges
    BY <1>1, <1>2, BusChanges DEF AttrsInv, WatchedInv, UnwatchedInv
<1>3. CASE TailscaledStops
    BY <1>1, <1>3, BusChanges DEF AttrsInv, WatchedInv, UnwatchedInv
<1>4. CASE TailscaledStarts
    BY <1>1, <1>4 DEF TailscaledStarts, AttrsInv, WatchedInv, UnwatchedInv, Granted
<1> QED
    BY <1>2, <1>3, <1>4 DEF Environment

LEMMA AttrsKeptByWatch ==
    ASSUME TypeOK, LookInv, AttrsInv, Watch
    PROVE  AttrsInv'
<1>1. UNCHANGED <<netmap, up, budget, watchesAttrs, cfg>>
    BY DEF Watch, Connect, Notified, BusLost, Trigger, ReadSelfAttrs, StoreSelfAttrs, world
<1>2. PICK label : Goto(Watcher, label)
    BY DEF Watch, Connect, Notified, BusLost, Trigger, ReadSelfAttrs, StoreSelfAttrs
<1>3. pc'[Watcher] = label /\ \A r \in Reloads : pc'[r] = pc[r]
    BY <1>2, Going, Standing, Constants
<1>4. CASE Connect \/ Notified \/ BusLost \/ Trigger
    <2>1. UNCHANGED <<selfAttrs, got>>
        BY <1>4 DEF Connect, Notified, BusLost, Trigger, discoverer
    <2>2. UnwatchedInv'
        <3>1. ~watchesAttrs => pc'[Watcher] \in {"connect", "listen", "trigger"}
            BY <1>4, Standing DEF Connect, Notified, BusLost, Trigger, Goto, TypeOK
        <3> QED
            BY <1>1, <1>3, <2>1, <3>1 DEF AttrsInv, UnwatchedInv
    <2>3. WatchedInv'
        <3>1. CASE Connect
            BY <1>1, <1>3, <3>1, BusChanges DEF AttrsInv, WatchedInv
        <3>2. CASE Notified
            <4>1. watchesAttrs => pc'[Watcher] = "read_on_change"
                BY <3>2, Standing DEF Notified, Goto, TypeOK
            <4> QED
                BY <1>1, <1>3, <4>1 DEF AttrsInv, WatchedInv
        <3>3. CASE BusLost
            <4>1. ~bus'.connected
                BY <3>3, BusChanges DEF BusLost
            <4> QED
                BY <1>1, <1>3, <4>1 DEF AttrsInv, WatchedInv
        <3>4. CASE Trigger
            <4>1. pc[Watcher] = "trigger" /\ pc'[Watcher] = "listen" /\ bus' = bus
                BY <3>4, Standing DEF Trigger, Goto, TypeOK
            <4> QED
                BY <1>1, <1>3, <2>1, <4>1 DEF AttrsInv, WatchedInv, Granted
        <3> QED
            BY <1>4, <3>1, <3>2, <3>3, <3>4
    <2> QED
        BY <1>1, <2>2, <2>3 DEF AttrsInv
<1>5. CASE \/ ReadSelfAttrs(Watcher, "read_on_connect", "store_on_connect")
           \/ ReadSelfAttrs(Watcher, "read_on_change", "store_on_change")
    <2>1. /\ pc[Watcher] \in {"read_on_connect", "read_on_change"}
          /\ UNCHANGED <<bus, selfAttrs>>
          /\ up => /\ pc'[Watcher] \in {"store_on_connect", "store_on_change"}
                   /\ got'[Watcher] = Granted
        BY <1>5, Standing DEF ReadSelfAttrs, Goto, TypeOK, discoverer, Granted
    <2>2. watchesAttrs
        BY <2>1 DEF AttrsInv, UnwatchedInv
    <2>3. bus'.connected => up
        BY <2>1 DEF LookInv
    <2>4. WatchedInv'
        BY <1>1, <1>3, <2>1, <2>3 DEF AttrsInv, WatchedInv, Granted
    <2> QED
        BY <1>1, <1>3, <2>2, <2>4 DEF AttrsInv, UnwatchedInv
<1>6. CASE \/ StoreSelfAttrs(Watcher, "store_on_connect")
           \/ StoreSelfAttrs(Watcher, "store_on_change")
    <2>1. /\ pc[Watcher] \in {"store_on_connect", "store_on_change"}
          /\ pc'[Watcher] \in {"listen", "trigger"}
          /\ bus' = bus /\ selfAttrs' = got[Watcher]
        BY <1>6, Standing DEF StoreSelfAttrs, Goto, TypeOK, After
    <2>2. watchesAttrs
        BY <2>1 DEF AttrsInv, UnwatchedInv
    <2>3. WatchedInv'
        BY <1>1, <1>3, <2>1 DEF AttrsInv, WatchedInv, Granted
    <2> QED
        BY <1>1, <1>3, <2>2, <2>3 DEF AttrsInv, UnwatchedInv
<1> QED
    BY <1>4, <1>5, <1>6 DEF Watch

LEMMA AttrsKeptByLoop ==
    ASSUME TypeOK, AttrsInv, Tick \/ Triggered \/ Refresh(Loop)
    PROVE  AttrsInv'
<1>1. UNCHANGED <<netmap, budget, bus, watchesAttrs, cfg, selfAttrs, got>>
    BY DEF Tick, Triggered, Refresh, TakeConfig, TakeAttrs, Status, StatusFails, Publish,
        world, discoverer
<1>2. PICK label : Goto(Loop, label)
    BY DEF Tick, Triggered, Refresh, TakeConfig, TakeAttrs, Status, StatusFails, Publish,
       Rests
<1>3. pc'[Watcher] = pc[Watcher] /\ \A r \in Reloads : pc'[r] = pc[r]
    BY <1>2, Going, Standing, Constants
<1> QED
    BY <1>1, <1>3 DEF AttrsInv, WatchedInv, UnwatchedInv, Granted

\* Where a step takes a reload, and what it does to settings and attributes.
LEMMA ReloadSteps ==
    ASSUME TypeOK, NEW r \in Reloads
    PROVE  /\ Reload(r) => /\ pc[r] = "idle" /\ pc'[r] = "configure"
                           /\ \A q \in Reloads : pc[q] \notin InReload
                           /\ budget'.reload = budget.reload - 1 /\ selfAttrs' = selfAttrs
           /\ ReloadFails(r) => /\ pc[r] = "idle" /\ pc'[r] = "snapshot"
                                /\ budget'.reload = budget.reload - 1
                                /\ UNCHANGED <<cfg, selfAttrs>>
           /\ UpdateConfig(r) => /\ pc[r] = "configure" /\ pc'[r] = "attrs"
                                 /\ UNCHANGED <<budget, cfg, selfAttrs>>
           /\ ClearSelfAttrs(r) => /\ pc[r] = "attrs" /\ pc'[r] = "snapshot"
                                   /\ selfAttrs' = NoAttrs /\ UNCHANGED <<budget, cfg>>
           /\ ReloadAttrs(r) => /\ pc[r] = "attrs" /\ pc'[r] \in {"store", "snapshot"}
                                /\ cfg.nodeAttrs
                                /\ UNCHANGED <<budget, cfg, selfAttrs>>
           /\ StoreSelfAttrs(r, "store") => /\ pc[r] = "store" /\ pc'[r] = "snapshot"
                                            /\ UNCHANGED <<budget, cfg>>
           /\ Refresh(r) => /\ pc[r] \in InRefresh /\ pc'[r] \in InRefresh \cup {"idle"}
                            /\ UNCHANGED <<budget, cfg, selfAttrs>>
<1> r \in Processes
    BY Standing
<1>1. ASSUME Reload(r)
      PROVE  /\ pc[r] = "idle" /\ pc'[r] = "configure"
             /\ \A q \in Reloads : pc[q] \notin InReload
             /\ budget'.reload = budget.reload - 1 /\ selfAttrs' = selfAttrs
    BY <1>1 DEF Reload, Goto, TypeOK, discoverer
<1>2. ASSUME ReloadFails(r)
      PROVE  /\ pc[r] = "idle" /\ pc'[r] = "snapshot"
             /\ budget'.reload = budget.reload - 1 /\ UNCHANGED <<cfg, selfAttrs>>
    BY <1>2 DEF ReloadFails, Goto, TypeOK, discoverer
<1>3. ASSUME UpdateConfig(r)
      PROVE  /\ pc[r] = "configure" /\ pc'[r] = "attrs" /\ UNCHANGED <<budget, cfg, selfAttrs>>
    BY <1>3 DEF UpdateConfig, Goto, TypeOK, world
<1>4. ASSUME ClearSelfAttrs(r)
      PROVE  /\ pc[r] = "attrs" /\ pc'[r] = "snapshot"
             /\ selfAttrs' = NoAttrs /\ UNCHANGED <<budget, cfg>>
    BY <1>4 DEF ClearSelfAttrs, Goto, TypeOK, world
<1>5. ASSUME ReloadAttrs(r)
      PROVE  /\ pc[r] = "attrs" /\ pc'[r] \in {"store", "snapshot"}
             /\ cfg.nodeAttrs /\ UNCHANGED <<budget, cfg, selfAttrs>>
    BY <1>5 DEF ReloadAttrs, ReadSelfAttrs, After, Goto, TypeOK, world, discoverer
<1>6. ASSUME StoreSelfAttrs(r, "store")
      PROVE  pc[r] = "store" /\ pc'[r] = "snapshot" /\ UNCHANGED <<budget, cfg>>
    BY <1>6 DEF StoreSelfAttrs, After, Goto, TypeOK, world
<1>7. ASSUME Refresh(r)
      PROVE  /\ pc[r] \in InRefresh /\ pc'[r] \in InRefresh \cup {"idle"}
             /\ UNCHANGED <<budget, cfg, selfAttrs>>
    BY <1>7, Constants DEF Refresh, TakeConfig, TakeAttrs, Status, StatusFails, Publish,
       Rests,
        Goto, TypeOK, world, discoverer, InRefresh
<1> QED
    BY <1>1, <1>2, <1>3, <1>4, <1>5, <1>6, <1>7

LEMMA AttrsKeptByReload ==
    ASSUME TypeOK, AttrsInv, NEW r \in Reloads,
           Reload(r) \/ ReloadFails(r) \/ Apply(r) \/ Refresh(r)
    PROVE  AttrsInv'
<1>1. /\ UNCHANGED <<netmap, bus, watchesAttrs>>
      /\ pc'[Watcher] = pc[Watcher]
      /\ \A q \in Reloads : q # r => pc'[q] = pc[q]
    BY ReloadLeaves
<1>2. budget'.reload \in {budget.reload, budget.reload - 1}
    BY ReloadSteps DEF Apply
<1>3. budget.reload \in Nat /\ MaxReloads \in Nat
    BY Constants DEF TypeOK
<1>4. budget'.reload <= MaxReloads
    BY <1>2, <1>3 DEF AttrsInv
<1>5. watchesAttrs' /\ budget'.reload = MaxReloads => FALSE
    <2>1. pc[r] = "idle" => budget'.reload = budget.reload - 1
        BY ReloadSteps DEF Apply, InRefresh
    <2> QED
        BY <1>1, <1>2, <1>3, <2>1 DEF AttrsInv, WatchedInv
<1>6. UnwatchedInv'
    <2>1. CASE Reload(r)
        BY <1>1, <2>1, ReloadSteps DEF AttrsInv, UnwatchedInv, InReload
    <2>2. CASE ReloadFails(r)
        BY <1>1, <2>2, ReloadSteps DEF AttrsInv, UnwatchedInv, InReload
    <2>3. CASE UpdateConfig(r)
        BY <1>1, <2>3, ReloadSteps DEF AttrsInv, UnwatchedInv, InReload
    <2>4. CASE ClearSelfAttrs(r)
        BY <1>1, <2>4, ReloadSteps DEF AttrsInv, UnwatchedInv, InReload
    <2>5. CASE ReloadAttrs(r)
        BY <1>1, <2>5, ReloadSteps DEF AttrsInv, UnwatchedInv, InReload
    <2>6. CASE StoreSelfAttrs(r, "store")
        BY <1>1, <2>6, ReloadSteps DEF AttrsInv, UnwatchedInv, InReload
    <2>7. CASE Refresh(r)
        BY <1>1, <2>7, ReloadSteps DEF AttrsInv, UnwatchedInv, InReload, InRefresh
    <2> QED
        BY <2>1, <2>2, <2>3, <2>4, <2>5, <2>6, <2>7 DEF Apply
<1> QED
    BY <1>4, <1>5, <1>6 DEF AttrsInv, WatchedInv

\* Attributes are the policy's as long as they are watched and nothing was
\* reloaded, and none where neither the start nor the configuration wants any.
THEOREM AttrsAlwaysAsAsked == Spec => []AttrsAsAsked
<1>1. TypeOK /\ LookInv /\ AttrsInv /\ [Next]_vars => AttrsInv'
    <2>1. ASSUME AttrsInv, UNCHANGED vars PROVE AttrsInv'
        BY <2>1 DEF vars, AttrsInv, WatchedInv, UnwatchedInv, Granted
    <2> QED
        BY <2>1, AttrsKeptByWorld, AttrsKeptByWatch, AttrsKeptByLoop, AttrsKeptByReload DEF
           Next
<1>2. AttrsInv => AttrsAsAsked
    BY DEF AttrsInv, WatchedInv, UnwatchedInv, AttrsAsAsked, Settled, Granted, InReload
<1> QED
    BY <1>1, <1>2, AttrsInitially, TypeCorrect, LookInvariant, PTL DEF Spec
=============================================================================
