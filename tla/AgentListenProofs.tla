------------------------ MODULE AgentListenProofs ------------------------
(***************************************************************************)
(* Where the Agent listens, what it announces and whom it authorizes, for  *)
(* any addresses, policies, files, failing binds and reloads.  Beyond the  *)
(* types the theorems are about an Agent whose watcher does not work while *)
(* its main goroutine starts or a reload is under way (OneAtATime): TLC    *)
(* refutes each of them without that.                                      *)
(***************************************************************************)
EXTENDS AgentListen, TLAPS

OneAtATime == ~Overlap

-----------------------------------------------------------------------------
(* The inductive invariants.                                               *)

Loading == {"load", "attrs", "commit"}
Rebinding == {"rebind", "sync", "swap", "touch", "close"}
MainAt == Loading \cup {"self", "start", "listen", "serve", "serving", "dead"}
WatchAt == Loading \cup Rebinding
            \cup {"off", "disconnected", "detect", "status", "changed", "waiting", "dead"}
ReloadAt == {"attrs"} \cup Rebinding \cup {"apply", "services", "idle", "dead"}

\* A goroutine that is about to use a local of its own has it, and main is
\* alone until it starts the watcher.
LocalInv ==
    /\ pc \in [Actors -> MainAt \cup WatchAt \cup ReloadAt]
    /\ pc["main"] \in MainAt /\ pc["watch"] \in WatchAt /\ pc["reload"] \in ReloadAt
    /\ \A a \in Actors :
        /\ pc[a] \in {"attrs", "commit"} => next[a] \in FileConfig
        /\ pc[a] \in {"rebind", "sync", "swap", "listen", "serve", "status"} => addr[a] \in Addrs
    /\ pc["reload"] \in Rebinding \cup {"apply"} => next["reload"] \in FileConfig
    /\ pc["main"] \in Loading \cup {"self"} =>
        httpSrv = NoServer /\ pc["watch"] = "off" /\ pc["reload"] = "idle"
    /\ request # None => request.at \in Nat

TypeInv == TypeOK /\ LocalInv

\* main, watch and reload take turns.
TurnInv ==
    /\ pc["main"] # "serving" =>
        pc["watch"] \in {"off", "disconnected", "dead"} /\ pc["reload"] \in {"idle", "dead"}
    /\ pc["watch"] \in {"off", "disconnected", "waiting", "dead"} \/ pc["reload"] = "idle"

Moving(a) == pc[a] \in {"swap", "touch", "close"}

\* There is one server, where the configuration says, and while it is being
\* moved a second address, the next or the last one; what a reload is going
\* to adopt names the address it has moved to.
ServedInv ==
    /\ pc["main"] \in Loading \cup {"self", "start", "listen", "serve"} =>
        /\ httpSrv = NoServer
        /\ bound = IF pc["main"] = "serve" THEN {cfg.listen} ELSE {}
        /\ pc["main"] \in {"listen", "serve"} => addr["main"] = cfg.listen
    /\ pc["main"] = "serving" =>
        /\ httpSrv = cfg.listen
        /\ Moving("watch") \/ Moving("reload") \/ bound = {cfg.listen}
    /\ \A a \in {"watch", "reload"} :
        /\ Moving(a) => addr[a] # cfg.listen /\ bound = {cfg.listen, addr[a]}
        /\ pc[a] = "sync" => addr[a] = cfg.listen
    /\ pc["reload"] \in {"rebind", "sync", "swap"} => addr["reload"] = next["reload"].listen
    /\ pc["reload"] \in {"touch", "close", "apply"} => cfg.listen = next["reload"].listen

\* Whoever has node_attrs off authorizes no tag, nor is anybody about to.
TagsInv ==
    /\ ~cfg.nodeAttrs => allowedCTags = {}
    /\ \A a \in {"main", "watch"} :
        /\ pc[a] = "attrs" => next[a].nodeAttrs = cfg.nodeAttrs
        /\ pc[a] = "commit" /\ ~cfg.nodeAttrs => nextTags[a] = {}
    /\ pc["reload"] \in Rebinding \cup {"apply"} =>
        next["reload"].nodeAttrs \/ nextTags["reload"] = {}

\* What a client would be told has changed, and the instant has not yet.
Unannounced ==
    pc["watch"] \in {"touch", "changed"} \/ pc["reload"] = "touch"

\* A client that has the present instant has the present address, or the
\* instant is about to move.
AnnouncedInv ==
    /\ pc["main"] # "serving" => client.at = -1 /\ request = None
    /\ client.at <= svcModifiedAt
    /\ request # None => request.at <= svcModifiedAt
    /\ client.at = svcModifiedAt /\ ~Unannounced =>
        client.self = SelfAddrForRequest(tsIPs, cfg.listen)

Inv == TypeInv /\ TurnInv /\ ServedInv /\ TagsInv /\ AnnouncedInv

-----------------------------------------------------------------------------
(* Types.                                                                  *)

LEMMA Moved ==
    ASSUME NEW c \in FileConfig, NEW l \in Addrs
    PROVE  /\ [c EXCEPT !.listen = l] \in FileConfig
           /\ [c EXCEPT !.listen = l].listen = l
           /\ [c EXCEPT !.listen = l].nodeAttrs = c.nodeAttrs
BY DEF FileConfig

\* The policy decides port and tags, but not whether it is asked.
LEMMA NextConfig ==
    ASSUME TypeOK, NEW a \in Actors, NEW c \in FileConfig, ConfigWithNodeAttrs(a, c)
    PROVE  \E n \in FileConfig, t \in SUBSET Tags :
            /\ next' = [next EXCEPT ![a] = n]
            /\ nextTags' = [nextTags EXCEPT ![a] = t]
            /\ n.nodeAttrs = c.nodeAttrs
            /\ ~c.nodeAttrs => t = {}
<1>1. /\ ParseCapMap(capMap).port \in Addrs \cup {NoPort}
      /\ ParseCapMap(capMap).centralTags \in SUBSET Tags
    BY ListenAssumption DEF TypeOK, ParseCapMap, NoAttrs, CapMap
<1>2. cfg.listen \in Addrs /\ c.nodeAttrs \in BOOLEAN
    BY DEF TypeOK, FileConfig
<1>3. CASE ~c.nodeAttrs
    BY <1>3 DEF ConfigWithNodeAttrs
<1>4. CASE c.nodeAttrs /\ ~tailscaleUp
    BY <1>2, <1>4, Moved DEF ConfigWithNodeAttrs, TypeOK
<1>5. CASE c.nodeAttrs /\ tailscaleUp
    <2>1. /\ WithPort(c, ParseCapMap(capMap).port) \in FileConfig
          /\ WithPort(c, ParseCapMap(capMap).port).nodeAttrs = c.nodeAttrs
        BY <1>1, Moved DEF WithPort
    <2> QED
        BY <1>1, <1>5, <2>1 DEF ConfigWithNodeAttrs
<1> QED
    BY <1>3, <1>4, <1>5

LEMMA TypeInitially == Init => TypeInv
<1> SUFFICES ASSUME Init PROVE TypeInv
    OBVIOUS
<1>1. TypeOK
    <2>1. /\ file \in Files /\ cfg = file /\ cfg \in FileConfig
          /\ capMap \in CapMaps /\ ips \in OwnIPs /\ tailscaleUp \in BOOLEAN
          /\ bound = {} /\ allowedCTags = {} /\ httpSrv = NoServer
          /\ tsIPs = NoIPs /\ svcModifiedAt = 0
        BY ListenAssumption DEF Init
    <2>2. {watchesAttrs, notified, broken} \subseteq BOOLEAN
        BY <2>1 DEF Init, FileConfig
    <2>3. /\ next \in [Actors -> FileConfig \cup {None}]
          /\ nextTags \in [Actors -> SUBSET Tags]
          /\ addr \in [Actors -> Addrs \cup {NoServer}]
          /\ client.at = -1
        BY DEF Init
    <2> QED
        BY <2>1, <2>2, <2>3 DEF TypeOK
<1>2. LocalInv
    <2>1. /\ pc \in [Actors -> {"load", "self", "off", "idle"}]
          /\ pc["main"] \in {"load", "self"} /\ pc["watch"] = "off" /\ pc["reload"] = "idle"
          /\ request = None /\ httpSrv = NoServer
        BY DEF Init, Actors
    <2> QED
        BY <2>1 DEF LocalInv, Actors, MainAt, WatchAt, ReloadAt, Loading, Rebinding
<1> QED
    BY <1>1, <1>2 DEF TypeInv

LEMMA TypeWorld == TypeInv /\ World => TypeInv'
<1> SUFFICES ASSUME TypeInv, World PROVE TypeInv'
    OBVIOUS
<1>1. /\ UNCHANGED <<server, locals, reader>>
      /\ file' \in Files /\ capMap' \in CapMaps /\ ips' \in OwnIPs
      /\ tailscaleUp' \in BOOLEAN /\ bound' \subseteq Addrs
      /\ {watchesAttrs, notified, broken}' \subseteq BOOLEAN
    BY DEF World, Edit, Policy, TailscaledStops, TailscaledStarts, TypeInv, TypeOK,
           world, bus
<1> QED
    BY <1>1 DEF TypeInv, TypeOK, LocalInv, server, locals, reader

LEMMA TypeLoad ==
    ASSUME TypeInv, NEW a \in Actors, Load(a)
    PROVE  TypeInv'
<1>1. CASE CopyConfig(a)
    BY <1>1 DEF CopyConfig, Goto, TypeInv, TypeOK, LocalInv, Actors, MainAt, WatchAt,
       ReloadAt, Loading, Rebinding, world, server, locals, bus, reader
<1>2. CASE ReadAttrs(a)
    <2>0. next[a] \in FileConfig /\ ConfigWithNodeAttrs(a, next[a])
        BY <1>2 DEF ReadAttrs, TypeInv, LocalInv
    <2>1. PICK n \in FileConfig, t \in SUBSET Tags :
            /\ next' = [next EXCEPT ![a] = n]
            /\ nextTags' = [nextTags EXCEPT ![a] = t]
            /\ n.nodeAttrs = next[a].nodeAttrs
            /\ ~next[a].nodeAttrs => t = {}
        BY <2>0, NextConfig DEF TypeInv
    <2>2. /\ UNCHANGED <<world, server, bus, reader>>
          /\ pc[a] = "attrs"
          /\ \/ a = "reload" /\ pc' = [pc EXCEPT ![a] = "rebind"]
                /\ addr' = [addr EXCEPT ![a] = n.listen]
             \/ a # "reload" /\ pc' = [pc EXCEPT ![a] = "commit"] /\ UNCHANGED addr
        BY <1>2, <2>1 DEF ReadAttrs, Goto, TypeInv, TypeOK
    <2>3. n.listen \in Addrs
        BY DEF FileConfig
    <2> QED
        BY <2>1, <2>2, <2>3 DEF TypeInv, TypeOK, LocalInv, Actors, MainAt, WatchAt,
           ReloadAt, Loading, Rebinding, world, server, bus, reader
<1>3. CASE CommitAttrs(a)
    <2>1. next[a] \in FileConfig /\ next[a].listen \in Addrs
        BY <1>3 DEF CommitAttrs, TypeInv, LocalInv, FileConfig
    <2>2. cfg' \in FileConfig
        BY <1>3, <2>1, Moved DEF CommitAttrs, TypeInv, TypeOK
    <2>3. allowedCTags' \subseteq Tags
        BY <1>3 DEF CommitAttrs, TypeInv, TypeOK
    <2>4. pc[a] = "commit" /\ a \in {"main", "watch"}
        BY <1>3 DEF CommitAttrs, TypeInv, LocalInv, Actors, ReloadAt, Rebinding
    <2>5. /\ UNCHANGED <<world, httpSrv, tsIPs, selfAddr, svcModifiedAt, bus, reader>>
          /\ next' = [next EXCEPT ![a] = None] /\ nextTags' = [nextTags EXCEPT ![a] = {}]
          /\ \/ pc' = [pc EXCEPT ![a] = AfterLoad(a)] /\ UNCHANGED addr
             \/ pc' = [pc EXCEPT ![a] = "rebind"] /\ httpSrv # NoServer
                /\ addr' = [addr EXCEPT ![a] = next[a].listen]
        BY <1>3 DEF CommitAttrs, DropNext, Goto
    <2>6. a = "main" => httpSrv = NoServer
        BY <2>4 DEF TypeInv, LocalInv, Loading
    <2> QED
        BY <2>1, <2>2, <2>3, <2>4, <2>5, <2>6
        DEF AfterLoad, TypeInv, TypeOK, LocalInv, Actors, MainAt, WatchAt, ReloadAt,
            Loading, Rebinding, world, bus, reader
<1> QED
    BY <1>1, <1>2, <1>3 DEF Load

LEMMA TypeRebind ==
    ASSUME TypeInv, NEW a \in {"watch", "reload"}, Rebind(a)
    PROVE  TypeInv'
<1>0. cfg' \in FileConfig
    BY Moved DEF Rebind, SameAddress, SyncListen, Bind, BindFails, Swap, TouchAfterRebind,
        CloseOld, server, TypeInv, TypeOK, LocalInv, Actors
<1>1. CASE SameAddress(a)
    BY <1>1, <1>0 DEF SameAddress, Goto, TypeInv, TypeOK, LocalInv, Actors, MainAt, WatchAt,
       ReloadAt, Loading, Rebinding, world, server, locals, bus, reader
<1>2. CASE SyncListen(a)
    BY <1>2, <1>0 DEF SyncListen, AfterRebind, DropAddr, Goto, TypeInv, TypeOK, LocalInv,
       Actors, MainAt, WatchAt, ReloadAt, Loading, Rebinding, world, server, locals, bus,
       reader
<1>3. CASE Bind(a)
    BY <1>3, <1>0 DEF Bind, Goto, TypeInv, TypeOK, LocalInv, Actors, MainAt, WatchAt,
       ReloadAt, Loading, Rebinding, world, server, locals, bus, reader
<1>4. CASE BindFails(a)
    BY <1>4, <1>0 DEF BindFails, AfterFailure, DropNext, DropAddr, Goto, TypeInv, TypeOK,
       LocalInv, Actors, MainAt, WatchAt, ReloadAt, Loading, Rebinding, world, server,
       locals, bus, reader
<1>5. CASE Swap(a)
    BY <1>5, <1>0 DEF Swap, Goto, TypeInv, TypeOK, LocalInv, Actors, MainAt, WatchAt,
       ReloadAt, Loading, Rebinding, world, server, locals, bus, reader
<1>6. CASE TouchAfterRebind(a)
    BY <1>6, <1>0 DEF TouchAfterRebind, TouchServices, Goto, TypeInv, TypeOK, LocalInv,
       Actors, MainAt, WatchAt, ReloadAt, Loading, Rebinding, world, server, locals, bus,
       reader
<1>7. CASE CloseOld(a)
    BY <1>7, <1>0 DEF CloseOld, AfterRebind, DropAddr, Goto, TypeInv, TypeOK, LocalInv,
       Actors, MainAt, WatchAt, ReloadAt, Loading, Rebinding, world, server, locals, bus,
       reader
<1> QED
    BY <1>1, <1>2, <1>3, <1>4, <1>5, <1>6, <1>7 DEF Rebind

LEMMA TypeStart ==
    ASSUME TypeInv, DetectFirst \/ ReadListen \/ Listen \/ ListenFails \/ Serve
    PROVE  TypeInv'
<1>1. CASE DetectFirst
    BY <1>1 DEF DetectFirst,
        TypeInv, TypeOK, LocalInv, Actors, MainAt, WatchAt, ReloadAt,
        Loading, Rebinding, world, server, locals, bus, reader
<1>2. CASE ReadListen
    BY <1>2 DEF ReadListen, Goto, FileConfig,
        TypeInv, TypeOK, LocalInv, Actors, MainAt, WatchAt, ReloadAt,
        Loading, Rebinding, world, server, locals, bus, reader
<1>3. CASE Listen
    BY <1>3 DEF Listen, Goto,
        TypeInv, TypeOK, LocalInv, Actors, MainAt, WatchAt, ReloadAt,
        Loading, Rebinding, world, server, locals, bus, reader
<1>4. CASE ListenFails
    BY <1>4 DEF ListenFails,
        TypeInv, TypeOK, LocalInv, Actors, MainAt, WatchAt, ReloadAt,
        Loading, Rebinding, world, server, locals, bus, reader
<1>5. CASE Serve
    BY <1>5 DEF Serve, Goto, DropAddr,
        TypeInv, TypeOK, LocalInv, Actors, MainAt, WatchAt, ReloadAt,
        Loading, Rebinding, world, server, locals, bus, reader
<1> QED
    BY <1>1, <1>2, <1>3, <1>4, <1>5

LEMMA TypeDetect ==
    ASSUME TypeInv, ReadPort \/ DetectAndSetSelfIP \/ TouchAfterDetect \/ Connect \/ Wake \/ LoseBus
    PROVE  TypeInv'
<1>1. CASE ReadPort
    BY <1>1 DEF ReadPort, Goto, FileConfig,
        TypeInv, TypeOK, LocalInv, Actors, MainAt, WatchAt, ReloadAt,
        Loading, Rebinding, world, server, locals, bus, reader
<1>2. CASE DetectAndSetSelfIP
    BY <1>2 DEF DetectAndSetSelfIP, Goto, DropAddr,
        TypeInv, TypeOK, LocalInv, Actors, MainAt, WatchAt, ReloadAt,
        Loading, Rebinding, world, server, locals, bus, reader
<1>3. CASE TouchAfterDetect
    BY <1>3 DEF TouchAfterDetect, TouchServices, Goto,
        TypeInv, TypeOK, LocalInv, Actors, MainAt, WatchAt, ReloadAt,
        Loading, Rebinding, world, server, locals, bus, reader
<1>4. CASE Connect
    BY <1>4 DEF Connect, Round, Goto,
        TypeInv, TypeOK, LocalInv, Actors, MainAt, WatchAt, ReloadAt,
        Loading, Rebinding, world, server, locals, bus, reader
<1>5. CASE Wake
    <2>1. /\ pc["watch"] = "waiting"
          /\ pc' = [pc EXCEPT !["watch"] = Round] /\ Round \in {"load", "detect"}
          /\ UNCHANGED <<world, server, next, nextTags, addr, reader>>
        BY <1>5 DEF Wake, Goto, Round
    <2>2. {watchesAttrs, notified, broken}' \subseteq BOOLEAN
        BY <1>5 DEF Wake, TypeInv, TypeOK
    <2> QED
        BY <2>1, <2>2 DEF TypeInv, TypeOK, LocalInv, Actors, MainAt, WatchAt, ReloadAt,
            Loading, Rebinding, world, server, reader
<1>6. CASE LoseBus
    BY <1>6 DEF LoseBus, Goto,
        TypeInv, TypeOK, LocalInv, Actors, MainAt, WatchAt, ReloadAt,
        Loading, Rebinding, world, server, locals, bus, reader
<1> QED
    BY <1>1, <1>2, <1>3, <1>4, <1>5, <1>6

LEMMA TypeReload ==
    ASSUME TypeInv, BeginReload \/ ApplyConfig \/ ReloadServices
    PROVE  TypeInv'
<1>1. CASE BeginReload
    BY <1>1, ListenAssumption DEF BeginReload, Goto,
        TypeInv, TypeOK, LocalInv, Actors, MainAt, WatchAt, ReloadAt,
        Loading, Rebinding, world, server, locals, bus, reader
<1>2. CASE ApplyConfig
    BY <1>2 DEF ApplyConfig, DropNext, Goto,
        TypeInv, TypeOK, LocalInv, Actors, MainAt, WatchAt, ReloadAt,
        Loading, Rebinding, world, server, locals, bus, reader
<1>3. CASE ReloadServices
    BY <1>3 DEF ReloadServices, TouchServices, Goto,
        TypeInv, TypeOK, LocalInv, Actors, MainAt, WatchAt, ReloadAt,
        Loading, Rebinding, world, server, locals, bus, reader
<1> QED
    BY <1>1, <1>2, <1>3

LEMMA TypeClient ==
    ASSUME TypeInv, Request \/ Respond
    PROVE  TypeInv'
<1>1. CASE Request
    BY <1>1 DEF Request,
        TypeInv, TypeOK, LocalInv, Actors, MainAt, WatchAt, ReloadAt,
        Loading, Rebinding, world, server, locals, bus, reader
<1>2. CASE Respond
    BY <1>2 DEF Respond,
        TypeInv, TypeOK, LocalInv, Actors, MainAt, WatchAt, ReloadAt,
        Loading, Rebinding, world, server, locals, bus, reader
<1> QED
    BY <1>1, <1>2

LEMMA TypeStep == TypeInv /\ [Next]_vars => TypeInv'
<1> SUFFICES ASSUME TypeInv, [Next]_vars PROVE TypeInv'
    OBVIOUS
<1>1. CASE World
    BY <1>1, TypeWorld
<1>2. CASE Main
    BY <1>2, TypeLoad, TypeStart DEF Main, Actors
<1>3. CASE Watch
    BY <1>3, TypeLoad, TypeRebind, TypeDetect DEF Watch, Actors
<1>4. CASE BeginReload \/ Reload
    BY <1>4, TypeLoad, TypeRebind, TypeReload DEF Reload, Load, Actors
<1>5. CASE Request \/ Respond
    BY <1>5, TypeClient
<1>6. CASE UNCHANGED vars
    BY <1>6 DEF vars, TypeInv, TypeOK, LocalInv, world, server, locals, bus, reader
<1> QED
    BY <1>1, <1>2, <1>3, <1>4, <1>5, <1>6 DEF Next

\* In every reachable state a goroutine has the locals its next step uses,
\* whether or not the three of them overlap.
THEOREM TypeInvariant == Spec => []TypeInv
BY TypeInitially, TypeStep, PTL DEF Spec

\* Every variable holds a value of its kind, with or without overlap.
THEOREM TypeCorrect == Spec => []TypeOK
<1>1. TypeInv => TypeOK
    BY DEF TypeInv
<1> QED
    BY <1>1, TypeInvariant, PTL

-----------------------------------------------------------------------------
(* Turns.                                                                  *)

\* Whoever changes the configuration is the only one who does.
LEMMA WatchHasTurn ==
    ASSUME OneAtATime, TurnInv, Watch
    PROVE  LoseBus \/ (pc["main"] = "serving" /\ pc["reload"] = "idle")
<1>1. \/ pc["watch"] \notin {"off", "disconnected", "waiting", "dead"}
      \/ Connect \/ Wake \/ LoseBus
    BY DEF Watch, Load, Rebind, CopyConfig, ReadAttrs, CommitAttrs, SameAddress,
        SyncListen, Bind, BindFails, Swap, TouchAfterRebind, CloseOld, ReadPort,
        DetectAndSetSelfIP, TouchAfterDetect
<1>2. Connect \/ Wake => pc["main"] = "serving" /\ pc["reload"] = "idle"
    BY DEF Connect, Wake, WatchMayWork, OneAtATime
<1>3. pc["watch"] \notin {"off", "disconnected", "waiting", "dead"} =>
        pc["main"] = "serving" /\ pc["reload"] = "idle"
    BY DEF TurnInv
<1> QED
    BY <1>1, <1>2, <1>3

LEMMA ReloadHasTurn ==
    ASSUME OneAtATime, TurnInv, BeginReload \/ Reload
    PROVE  /\ pc["main"] = "serving"
           /\ pc["watch"] \in {"off", "disconnected", "waiting", "dead"}
<1>1. pc["reload"] \notin {"idle", "dead"} \/ BeginReload
    BY DEF Reload, Rebind, ReadAttrs, SameAddress, SyncListen, Bind, BindFails, Swap,
        TouchAfterRebind, CloseOld, ApplyConfig, ReloadServices
<1> QED
    BY <1>1 DEF BeginReload, ReloadMayWork, OneAtATime, TurnInv

LEMMA TurnWhileMain ==
    ASSUME TypeInv, OneAtATime, TurnInv, Main
    PROVE  TurnInv'
<1>1. /\ pc["main"] # "serving" /\ pc["main"] # "dead"
      /\ pc["watch"] \in {"off", "disconnected", "dead"} /\ pc["reload"] \in {"idle", "dead"}
    BY DEF Main, Load, CopyConfig, ReadAttrs, CommitAttrs, DetectFirst, ReadListen,
        Listen, ListenFails, Serve, TurnInv
<1>2. \/ pc'["watch"] = pc["watch"] /\ pc'["reload"] = pc["reload"]
      \/ pc'["watch"] = "disconnected" /\ pc'["reload"] = pc["reload"]
      \/ pc'["watch"] = "dead" /\ pc'["reload"] = "dead"
    BY DEF Main, Load, CopyConfig, ReadAttrs, CommitAttrs, DetectFirst, ReadListen,
        Listen, ListenFails, Serve, Goto, TypeInv, LocalInv, Actors
<1> QED
    BY <1>1, <1>2 DEF TurnInv

LEMMA TurnWhileWatch ==
    ASSUME TypeInv, OneAtATime, TurnInv, Watch
    PROVE  TurnInv'
<1>1. /\ pc'["main"] = pc["main"] /\ pc'["reload"] = pc["reload"]
      /\ LoseBus => pc'["watch"] = "disconnected"
    BY DEF Watch, Load, Rebind, CopyConfig, ReadAttrs, CommitAttrs, SameAddress,
        SyncListen, Bind, BindFails, Swap, TouchAfterRebind, CloseOld, ReadPort,
        DetectAndSetSelfIP, TouchAfterDetect, Connect, Wake, LoseBus, Goto, TypeInv,
        LocalInv, Actors
<1> QED
    BY <1>1, WatchHasTurn DEF TurnInv

LEMMA TurnWhileReload ==
    ASSUME TypeInv, OneAtATime, TurnInv, BeginReload \/ Reload
    PROVE  TurnInv'
<1>1. pc'["main"] = pc["main"] /\ pc'["watch"] = pc["watch"]
    BY DEF BeginReload, Reload, Rebind, ReadAttrs, SameAddress, SyncListen, Bind,
        BindFails, Swap, TouchAfterRebind, CloseOld, ApplyConfig, ReloadServices,
        Goto, TypeInv, LocalInv, Actors
<1> QED
    BY <1>1, ReloadHasTurn DEF TurnInv

LEMMA TurnStep ==
    ASSUME TypeInv, OneAtATime, TurnInv, [Next]_vars
    PROVE  TurnInv'
<1>1. CASE World \/ Request \/ Respond \/ UNCHANGED vars
    BY <1>1 DEF World, Edit, Policy, TailscaledStops, TailscaledStarts, Request, Respond,
        vars, locals, TurnInv
<1> QED
    BY <1>1, TurnWhileMain, TurnWhileWatch, TurnWhileReload DEF Next

-----------------------------------------------------------------------------
(* Where the Agent listens.                                                *)

LEMMA ListenIsAddress ==
    ASSUME TypeInv
    PROVE  /\ cfg.listen \in Addrs /\ NoServer \notin Addrs
           /\ \A a \in Actors : next[a] \in FileConfig => next[a].listen \in Addrs
BY ListenAssumption DEF TypeInv, TypeOK, FileConfig

LEMMA ServedWhileMain ==
    ASSUME TypeInv, OneAtATime, TurnInv, ServedInv, Main
    PROVE  ServedInv'
<1>0. /\ pc["main"] \in Loading \cup {"self", "start", "listen", "serve"}
      /\ pc["watch"] \in {"off", "disconnected", "dead"} /\ pc["reload"] \in {"idle", "dead"}
    BY DEF Main, Load, CopyConfig, ReadAttrs, CommitAttrs, DetectFirst, ReadListen,
        Listen, ListenFails, Serve, TurnInv, Loading
<1>1. httpSrv = NoServer /\ bound = IF pc["main"] = "serve" THEN {cfg.listen} ELSE {}
    BY <1>0 DEF ServedInv
<1>2. CASE CopyConfig("main")
    BY <1>2, <1>0, <1>1 DEF CopyConfig,
        Goto, ServedInv, Moving, Loading, TypeInv, LocalInv, Actors, world, server
<1>3. CASE ReadAttrs("main")
    BY <1>3, <1>0, <1>1 DEF ReadAttrs,
        Goto, ServedInv, Moving, Loading, TypeInv, LocalInv, Actors, world, server
<1>4. CASE CommitAttrs("main")
    BY <1>4, <1>0, <1>1 DEF CommitAttrs, AfterLoad,
        Goto, ServedInv, Moving, Loading, TypeInv, LocalInv, Actors, world, server
<1>5. CASE DetectFirst
    BY <1>5, <1>0, <1>1 DEF DetectFirst,
        Goto, ServedInv, Moving, Loading, TypeInv, LocalInv, Actors, world, server
<1>6. CASE ReadListen
    <2>1. /\ pc["main"] = "start"
          /\ addr' = [addr EXCEPT !["main"] = cfg.listen]
          /\ pc' = [pc EXCEPT !["main"] = "listen"]
          /\ UNCHANGED <<cfg, httpSrv, bound, next>>
        BY <1>6 DEF ReadListen, Goto, world, server
    <2>2. /\ addr'["main"] = cfg.listen /\ pc'["main"] = "listen"
          /\ \A a \in {"watch", "reload"} : pc'[a] = pc[a]
        BY <2>1 DEF TypeInv, TypeOK, LocalInv, Actors
    <2> QED
        BY <1>0, <1>1, <2>1, <2>2 DEF ServedInv, Moving, Loading
<1>7. CASE Listen
    BY <1>7, <1>0, <1>1 DEF Listen,
        Goto, ServedInv, Moving, Loading, TypeInv, LocalInv, Actors, world, server
<1>8. CASE ListenFails
    BY <1>8, <1>0, <1>1 DEF ListenFails,
        Goto, ServedInv, Moving, Loading, TypeInv, LocalInv, Actors, world, server
<1>9. CASE Serve
    BY <1>9, <1>0, <1>1 DEF Serve, DropAddr,
        Goto, ServedInv, Moving, Loading, TypeInv, LocalInv, Actors, world, server
<1> QED
    BY <1>2, <1>3, <1>4, <1>5, <1>6, <1>7, <1>8, <1>9 DEF Main, Load

\* A server that moves is first bound beside the old one, and takes over at
\* once with the configuration.
LEMMA ServedWhileRebind ==
    ASSUME TypeInv, ServedInv, NEW a \in {"watch", "reload"}, Rebind(a),
           pc["main"] = "serving",
           \A b \in {"watch", "reload"} \ {a} :
                pc[b] \in {"off", "disconnected", "waiting", "idle", "dead"}
    PROVE  ServedInv'
<1>0. /\ pc["main"] = "serving" /\ httpSrv = cfg.listen
      /\ Moving(a) \/ bound = {cfg.listen}
      /\ cfg \in FileConfig
    BY DEF ServedInv, Moving, TypeInv, TypeOK
<1>1. CASE SameAddress(a)
    BY <1>1, <1>0 DEF SameAddress,
        Goto, ServedInv, Moving, Loading, TypeInv, LocalInv, Actors, world, server
<1>2. CASE SyncListen(a)
    BY <1>2, <1>0, Moved DEF SyncListen, AfterRebind, DropAddr,
        Goto, ServedInv, Moving, Loading, TypeInv, LocalInv, Actors, world, server
<1>3. CASE Bind(a)
    BY <1>3, <1>0 DEF Bind,
        Goto, ServedInv, Moving, Loading, TypeInv, LocalInv, Actors, world, server
<1>4. CASE BindFails(a)
    BY <1>4, <1>0 DEF BindFails, AfterFailure, DropNext, DropAddr,
        Goto, ServedInv, Moving, Loading, TypeInv, LocalInv, Actors, world, server
<1>5. CASE Swap(a)
    <2>1. /\ addr[a] \in Addrs /\ addr[a] # cfg.listen
          /\ bound = {cfg.listen, addr[a]}
          /\ a = "reload" => addr[a] = next[a].listen
        BY <1>5 DEF Swap, ServedInv, Moving, TypeInv, LocalInv, Actors
    <2>2. /\ httpSrv' = addr[a] /\ cfg'.listen = addr[a]
          /\ addr' = [addr EXCEPT ![a] = httpSrv]
          /\ pc' = [pc EXCEPT ![a] = "touch"]
          /\ UNCHANGED <<bound, next>>
        BY <1>5, <1>0, <2>1, Moved DEF Swap, Goto, world
    <2>3. addr'[a] = cfg.listen /\ pc'[a] = "touch"
        BY <1>0, <2>2 DEF TypeInv, TypeOK, LocalInv, Actors
    <2>4. \A b \in Actors \ {a} : pc'[b] = pc[b] /\ addr'[b] = addr[b]
        BY <2>2 DEF TypeInv, TypeOK, LocalInv
    <2> QED
        BY <1>0, <2>1, <2>2, <2>3, <2>4 DEF ServedInv, Moving, Loading, Actors
<1>6. CASE TouchAfterRebind(a)
    BY <1>6, <1>0 DEF TouchAfterRebind,
        Goto, ServedInv, Moving, Loading, TypeInv, LocalInv, Actors, world, server
<1>7. CASE CloseOld(a)
    BY <1>7, <1>0 DEF CloseOld, AfterRebind, DropAddr,
        Goto, ServedInv, Moving, Loading, TypeInv, LocalInv, Actors, world, server
<1> QED
    BY <1>1, <1>2, <1>3, <1>4, <1>5, <1>6, <1>7 DEF Rebind

LEMMA ServedWhileWatch ==
    ASSUME TypeInv, OneAtATime, TurnInv, ServedInv, Watch
    PROVE  ServedInv'
<1>1. LoseBus \/ (pc["main"] = "serving" /\ pc["reload"] = "idle")
    BY WatchHasTurn
<1>2. CASE CopyConfig("watch")
    BY <1>2, <1>1 DEF CopyConfig,
        Goto, ServedInv, Moving, Loading, TypeInv, LocalInv, Actors, world, server
<1>3. CASE ReadAttrs("watch")
    <2>1. /\ pc' = [pc EXCEPT !["watch"] = "commit"]
          /\ UNCHANGED <<cfg, httpSrv, bound, addr>>
          /\ pc["watch"] = "attrs"
        BY <1>3 DEF ReadAttrs, Goto, world, server
    <2>2. /\ pc["main"] = "serving" /\ pc["reload"] = "idle"
          /\ pc'["main"] = "serving" /\ pc'["reload"] = "idle" /\ pc'["watch"] = "commit"
        BY <1>1, <2>1 DEF LoseBus, TypeInv, LocalInv, Actors
    <2> QED
        BY <2>1, <2>2 DEF ServedInv, Moving, Loading
<1>4. CASE CommitAttrs("watch")
    <2>1. /\ pc["main"] = "serving" /\ pc["reload"] = "idle" /\ pc["watch"] = "commit"
          /\ httpSrv = cfg.listen /\ httpSrv # NoServer
        BY <1>1, <1>4, ListenIsAddress DEF CommitAttrs, LoseBus, ServedInv
    <2>2. /\ UNCHANGED <<cfg, httpSrv, bound>>
          /\ pc' = [pc EXCEPT !["watch"] = "detect"] \/ pc' = [pc EXCEPT !["watch"] = "rebind"]
        BY <1>4, <2>1 DEF CommitAttrs, AfterLoad, Goto, world
    <2>3. /\ pc'["main"] = "serving" /\ pc'["reload"] = "idle"
          /\ pc'["watch"] \in {"detect", "rebind"}
        BY <2>1, <2>2 DEF TypeInv, LocalInv, Actors
    <2> QED
        BY <2>1, <2>2, <2>3 DEF ServedInv, Moving, Loading
<1>5. CASE ReadPort
    BY <1>5, <1>1 DEF ReadPort,
        Goto, ServedInv, Moving, Loading, TypeInv, LocalInv, Actors, world, server
<1>6. CASE DetectAndSetSelfIP
    BY <1>6, <1>1 DEF DetectAndSetSelfIP, DropAddr,
        Goto, ServedInv, Moving, Loading, TypeInv, LocalInv, Actors, world, server
<1>7. CASE TouchAfterDetect
    BY <1>7, <1>1 DEF TouchAfterDetect,
        Goto, ServedInv, Moving, Loading, TypeInv, LocalInv, Actors, world, server
<1>8. CASE Connect
    BY <1>8, <1>1 DEF Connect, Round,
        Goto, ServedInv, Moving, Loading, TypeInv, LocalInv, Actors, world, server
<1>9. CASE Wake
    BY <1>9, <1>1 DEF Wake, Round,
        Goto, ServedInv, Moving, Loading, TypeInv, LocalInv, Actors, world, server
<1>10. CASE LoseBus
    BY <1>10, <1>1 DEF LoseBus,
        Goto, ServedInv, Moving, Loading, TypeInv, LocalInv, Actors, world, server
<1>11. CASE Rebind("watch")
    <2>1. pc["main"] = "serving" /\ pc["reload"] = "idle"
        BY <1>1, <1>11 DEF LoseBus, Rebind, SameAddress, SyncListen, Bind, BindFails, Swap,
            TouchAfterRebind, CloseOld
    <2> QED
        BY <1>11, <2>1, ServedWhileRebind
<1> QED
    BY <1>2, <1>3, <1>4, <1>5, <1>6, <1>7, <1>8, <1>9, <1>10, <1>11 DEF Watch, Load

LEMMA ServedWhileReload ==
    ASSUME TypeInv, OneAtATime, TurnInv, ServedInv, BeginReload \/ Reload
    PROVE  ServedInv'
<1>1. /\ pc["main"] = "serving"
      /\ pc["watch"] \in {"off", "disconnected", "waiting", "dead"}
    BY ReloadHasTurn
<1>2. CASE BeginReload
    BY <1>2, <1>1 DEF BeginReload,
        Goto, ServedInv, Moving, Loading, TypeInv, LocalInv, Actors, world, server
<1>3. CASE ReadAttrs("reload")
    <2>1. /\ pc' = [pc EXCEPT !["reload"] = "rebind"]
          /\ addr' = [addr EXCEPT !["reload"] = next'["reload"].listen]
          /\ UNCHANGED <<cfg, httpSrv, bound>>
          /\ pc["reload"] = "attrs"
        BY <1>3 DEF ReadAttrs, Goto, world, server
    <2>2. /\ pc'["reload"] = "rebind" /\ addr'["reload"] = next'["reload"].listen
          /\ pc'["main"] = "serving" /\ pc'["watch"] = pc["watch"]
        BY <1>1, <2>1 DEF TypeInv, TypeOK, LocalInv, Actors
    <2> QED
        BY <1>1, <2>1, <2>2 DEF ServedInv, Moving, Loading
<1>4. CASE ApplyConfig
    BY <1>4, <1>1 DEF ApplyConfig, DropNext,
        Goto, ServedInv, Moving, Loading, TypeInv, LocalInv, Actors, world, server
<1>5. CASE ReloadServices
    BY <1>5, <1>1 DEF ReloadServices,
        Goto, ServedInv, Moving, Loading, TypeInv, LocalInv, Actors, world, server
<1>6. CASE Rebind("reload")
    BY <1>1, <1>6, ServedWhileRebind
<1> QED
    BY <1>2, <1>3, <1>4, <1>5, <1>6 DEF Reload

LEMMA ServedStep ==
    ASSUME TypeInv, OneAtATime, TurnInv, ServedInv, [Next]_vars
    PROVE  ServedInv'
<1>1. CASE World
    BY <1>1 DEF World, Edit, Policy, TailscaledStops, TailscaledStarts, ServedInv, Moving,
        server, locals
<1>2. CASE Request \/ Respond \/ UNCHANGED vars
    BY <1>2 DEF Request, Respond, vars, ServedInv, Moving, world, server, locals
<1> QED
    BY <1>1, <1>2, ServedWhileMain, ServedWhileWatch, ServedWhileReload DEF Next

-----------------------------------------------------------------------------
(* Whom the Agent authorizes.                                              *)

LEMMA StillAsked ==
    ASSUME NEW c \in FileConfig, NEW d, NEW l \in Addrs,
           d = c \/ d = [c EXCEPT !.listen = l]
    PROVE  d.nodeAttrs = c.nodeAttrs
<1> DEFINE m == [c EXCEPT !.listen = l]
<1>1. m.nodeAttrs = c.nodeAttrs
    BY Moved
<1> HIDE DEF m
<1>2. d = c \/ d = m
    BY DEF m
<1> QED
    BY <1>1, <1>2, Zenon

\* main and watch load the attributes when nobody else changes the
\* configuration, so what they read is for the node_attrs in force.
LEMMA TagsWhileLoad ==
    ASSUME TypeInv, TagsInv, NEW a \in {"main", "watch"}, Load(a),
           \A b \in Actors \ {a} : pc[b] \notin {"attrs", "commit", "apply"} \cup Rebinding
    PROVE  TagsInv'
<1>0. /\ a \in Actors /\ cfg \in FileConfig
      /\ pc'[a] # "apply"
      /\ \A b \in Actors \ {a} : pc'[b] = pc[b] /\ next'[b] = next[b] /\ nextTags'[b] = nextTags[b]
    BY DEF Load, CopyConfig, ReadAttrs, CommitAttrs, ConfigWithNodeAttrs, AfterLoad,
       DropNext,
        Goto, TypeInv, TypeOK, LocalInv, Actors
<1>1. CASE CopyConfig(a)
    <2>1. /\ next'[a] = cfg /\ pc'[a] = "attrs" /\ UNCHANGED <<cfg, allowedCTags>>
        BY <1>0, <1>1 DEF CopyConfig, Goto, server, TypeInv, TypeOK, LocalInv
    <2> QED
        BY <1>0, <2>1 DEF TagsInv, Actors
<1>2. CASE ReadAttrs(a)
    <2>1. next[a] \in FileConfig /\ ConfigWithNodeAttrs(a, next[a]) /\ pc[a] = "attrs"
        BY <1>0, <1>2 DEF ReadAttrs, TypeInv, LocalInv
    <2>2. PICK n \in FileConfig, t \in SUBSET Tags :
            /\ next' = [next EXCEPT ![a] = n]
            /\ nextTags' = [nextTags EXCEPT ![a] = t]
            /\ n.nodeAttrs = next[a].nodeAttrs
            /\ ~next[a].nodeAttrs => t = {}
        BY <1>0, <2>1, NextConfig DEF TypeInv
    <2>3. nextTags'[a] = t
        BY <1>0, <2>2 DEF TypeInv, TypeOK
    <2>4. pc'[a] = "commit" /\ UNCHANGED <<cfg, allowedCTags>>
        BY <1>0, <1>2 DEF ReadAttrs, Goto, server, TypeInv, LocalInv
    <2> QED
        BY <1>0, <2>1, <2>2, <2>3, <2>4 DEF TagsInv, Actors
<1>3. CASE CommitAttrs(a)
    <2>1. next[a].listen \in Addrs
        BY <1>0, <1>3 DEF CommitAttrs, TypeInv, LocalInv, FileConfig
    <2>2. cfg'.nodeAttrs = cfg.nodeAttrs
        <3>1. cfg' = cfg \/ cfg' = [cfg EXCEPT !.listen = next[a].listen]
            BY <1>3 DEF CommitAttrs
        <3> QED
            BY <1>0, <2>1, <3>1, StillAsked
    <2>3. allowedCTags' = nextTags[a] /\ pc[a] = "commit" /\ pc'[a] \in {"self", "detect", "rebind"}
        BY <1>0, <1>3 DEF CommitAttrs, AfterLoad, Goto, TypeInv, LocalInv
    <2> QED
        BY <1>0, <2>2, <2>3 DEF TagsInv, Actors
<1> QED
    BY <1>1, <1>2, <1>3 DEF Load

\* A move changes the address in the configuration and nothing else.
LEMMA TagsWhileRebind ==
    ASSUME TypeInv, TagsInv, NEW a \in {"watch", "reload"}, Rebind(a)
    PROVE  TagsInv'
<1>1. cfg \in FileConfig /\ a \in Actors
    BY DEF TypeInv, TypeOK, Actors
<1>2. cfg'.nodeAttrs = cfg.nodeAttrs /\ UNCHANGED allowedCTags
    <2>1. /\ cfg' = cfg \/ (addr[a] \in Addrs /\ cfg' = [cfg EXCEPT !.listen = addr[a]])
          /\ UNCHANGED allowedCTags
        BY <1>1 DEF Rebind, SameAddress, SyncListen, Bind, BindFails, Swap,
            TouchAfterRebind, CloseOld, server, TypeInv, LocalInv
    <2> QED
        BY <1>1, <2>1, StillAsked
<1>3. /\ pc[a] \in Rebinding
      /\ pc'[a] \notin {"attrs", "commit"}
      /\ \A b \in Actors \ {a} : pc'[b] = pc[b] /\ next'[b] = next[b] /\ nextTags'[b] = nextTags[b]
      /\ \/ pc'[a] \in {"idle", "detect"}
         \/ next'[a] = next[a] /\ nextTags'[a] = nextTags[a]
    BY <1>1 DEF Rebind, SameAddress, SyncListen, Bind, BindFails, Swap, TouchAfterRebind,
        CloseOld, AfterRebind, AfterFailure, DropNext, Goto, Rebinding, TypeInv, TypeOK,
        LocalInv
<1> QED
    BY <1>1, <1>2, <1>3 DEF TagsInv, Actors, Rebinding

LEMMA TagsWhileMain ==
    ASSUME TypeInv, OneAtATime, TurnInv, TagsInv, Main
    PROVE  TagsInv'
<1>1. /\ pc["watch"] \in {"off", "disconnected", "dead"}
      /\ pc["reload"] \in {"idle", "dead"}
    BY DEF Main, Load, CopyConfig, ReadAttrs, CommitAttrs, DetectFirst, ReadListen,
        Listen, ListenFails, Serve, TurnInv
<1>2. CASE Load("main")
    BY <1>1, <1>2, TagsWhileLoad DEF Actors, Rebinding
<1>3. CASE DetectFirst \/ ReadListen \/ Listen \/ ListenFails \/ Serve
    <2>1. /\ UNCHANGED <<cfg, allowedCTags, next, nextTags>>
          /\ pc'["main"] \in {"start", "listen", "serve", "serving", "dead"}
          /\ pc'["watch"] \in {"off", "disconnected", "dead"}
          /\ pc'["reload"] \in {"idle", "dead"}
        BY <1>1, <1>3 DEF DetectFirst, ReadListen, Listen, ListenFails, Serve, Goto, server,
            TypeInv, LocalInv, Actors
    <2> QED
        BY <2>1 DEF TagsInv, Rebinding
<1> QED
    BY <1>2, <1>3 DEF Main

LEMMA TagsWhileWatch ==
    ASSUME TypeInv, OneAtATime, TurnInv, TagsInv, Watch
    PROVE  TagsInv'
<1>1. LoseBus \/ (pc["main"] = "serving" /\ pc["reload"] = "idle")
    BY WatchHasTurn
<1>2. CASE Load("watch")
    <2>1. pc["main"] = "serving" /\ pc["reload"] = "idle"
        BY <1>1, <1>2 DEF LoseBus, Load, CopyConfig, ReadAttrs, CommitAttrs
    <2> QED
        BY <1>2, <2>1, TagsWhileLoad DEF Actors, Rebinding
<1>3. CASE Rebind("watch")
    BY <1>3, TagsWhileRebind
<1>4. CASE ReadPort \/ DetectAndSetSelfIP \/ TouchAfterDetect \/ Connect \/ Wake \/ LoseBus
    <2>1. /\ UNCHANGED <<cfg, allowedCTags, next, nextTags>>
          /\ pc'["main"] = pc["main"] /\ pc'["reload"] = pc["reload"]
          /\ pc'["watch"] \notin {"attrs", "commit"}
        BY <1>4 DEF ReadPort, DetectAndSetSelfIP, TouchAfterDetect, Connect, Wake, LoseBus,
            Round, Goto, server, TypeInv, LocalInv, Actors
    <2> QED
        BY <2>1 DEF TagsInv
<1> QED
    BY <1>2, <1>3, <1>4 DEF Watch

LEMMA TagsWhileReload ==
    ASSUME TypeInv, OneAtATime, TurnInv, TagsInv, BeginReload \/ Reload
    PROVE  TagsInv'
<1>1. /\ pc["main"] = "serving"
      /\ pc["watch"] \in {"off", "disconnected", "waiting", "dead"}
    BY ReloadHasTurn
<1>2. CASE BeginReload \/ ReloadServices
    <2>1. /\ UNCHANGED <<cfg, allowedCTags>>
          /\ pc'["main"] = "serving" /\ pc'["watch"] = pc["watch"]
          /\ pc'["reload"] \in {"attrs", "idle"}
        BY <1>1, <1>2 DEF BeginReload, ReloadServices, Goto, server, TypeInv, LocalInv,
           Actors
    <2> QED
        BY <1>1, <2>1 DEF TagsInv, Rebinding
<1>3. CASE ReadAttrs("reload")
    <2>1. /\ next["reload"] \in FileConfig
          /\ ConfigWithNodeAttrs("reload", next["reload"])
        BY <1>3 DEF ReadAttrs, TypeInv, LocalInv, Actors
    <2>2. PICK n \in FileConfig, t \in SUBSET Tags :
            /\ next' = [next EXCEPT !["reload"] = n]
            /\ nextTags' = [nextTags EXCEPT !["reload"] = t]
            /\ n.nodeAttrs = next["reload"].nodeAttrs
            /\ ~next["reload"].nodeAttrs => t = {}
        BY <2>1, NextConfig DEF TypeInv, Actors
    <2>3. next'["reload"] = n /\ nextTags'["reload"] = t
        BY <2>2 DEF TypeInv, TypeOK, Actors
    <2>4. /\ UNCHANGED <<cfg, allowedCTags>>
          /\ pc'["main"] = "serving" /\ pc'["watch"] = pc["watch"]
        BY <1>1, <1>3 DEF ReadAttrs, Goto, server, TypeInv, LocalInv, Actors
    <2> QED
        BY <1>1, <2>2, <2>3, <2>4 DEF TagsInv
<1>4. CASE Rebind("reload")
    BY <1>4, TagsWhileRebind
<1>5. CASE ApplyConfig
    <2>1. /\ cfg' = next["reload"] /\ allowedCTags' = nextTags["reload"]
          /\ pc["reload"] = "apply" /\ pc'["reload"] = "services"
          /\ pc'["main"] = "serving" /\ pc'["watch"] = pc["watch"]
        BY <1>1, <1>5 DEF ApplyConfig, Goto, TypeInv, LocalInv, Actors
    <2> QED
        BY <1>1, <2>1 DEF TagsInv, Rebinding
<1> QED
    BY <1>2, <1>3, <1>4, <1>5 DEF Reload

LEMMA TagsStep ==
    ASSUME TypeInv, OneAtATime, TurnInv, TagsInv, [Next]_vars
    PROVE  TagsInv'
<1>1. CASE World \/ Request \/ Respond \/ UNCHANGED vars
    BY <1>1 DEF World, Edit, Policy, TailscaledStops, TailscaledStarts, Request, Respond,
        vars, server, locals, TagsInv
<1> QED
    BY <1>1, TagsWhileMain, TagsWhileWatch, TagsWhileReload DEF Next

-----------------------------------------------------------------------------
(* What clients are told.                                                  *)

\* A step that leaves the answers as they are, or is followed by a new
\* instant, or makes one.
LEMMA AnnouncedKept ==
    ASSUME TypeInv, AnnouncedInv, pc["main"] = "serving", pc'["main"] = "serving",
           UNCHANGED reader,
           \/ /\ svcModifiedAt' = svcModifiedAt
              /\ \/ Unannounced'
                 \/ ~Unannounced /\ UNCHANGED tsIPs /\ cfg'.listen = cfg.listen
           \/ svcModifiedAt' = svcModifiedAt + 1
    PROVE  AnnouncedInv'
<1>1. /\ svcModifiedAt \in Nat /\ client.at \in Int
      /\ client' = client /\ request' = request
      /\ request # None => request.at \in Nat
    BY DEF TypeInv, TypeOK, LocalInv, reader
<1>2. CASE svcModifiedAt' = svcModifiedAt + 1
    BY <1>1, <1>2 DEF AnnouncedInv
<1>3. CASE svcModifiedAt' = svcModifiedAt /\ Unannounced'
    BY <1>1, <1>3 DEF AnnouncedInv
<1>4. CASE /\ svcModifiedAt' = svcModifiedAt
           /\ ~Unannounced /\ UNCHANGED tsIPs /\ cfg'.listen = cfg.listen
    BY <1>1, <1>4 DEF AnnouncedInv, SelfAddrForRequest
<1> QED
    BY <1>2, <1>3, <1>4

LEMMA AnnouncedWhileMain ==
    ASSUME TypeInv, OneAtATime, TurnInv, AnnouncedInv, Main
    PROVE  AnnouncedInv'
<1>1. /\ pc["main"] # "serving" /\ UNCHANGED <<svcModifiedAt, client, request>>
    BY DEF Main, Load, CopyConfig, ReadAttrs, CommitAttrs, DetectFirst, ReadListen,
        Listen, ListenFails, Serve, server, reader
<1>2. svcModifiedAt \in Nat
    BY DEF TypeInv, TypeOK
<1> QED
    BY <1>1, <1>2 DEF AnnouncedInv

\* The move is announced once the new server has taken over; up to then, and
\* when the address is the same, nothing has changed.
LEMMA AnnouncedWhileRebind ==
    ASSUME TypeInv, ServedInv, AnnouncedInv, NEW a \in {"watch", "reload"}, Rebind(a),
           pc["main"] = "serving",
           \A b \in {"watch", "reload"} \ {a} :
                pc[b] \in {"off", "disconnected", "waiting", "idle", "dead"}
    PROVE  AnnouncedInv'
<1>0. /\ pc'["main"] = "serving" /\ UNCHANGED reader
      /\ a \in Actors /\ cfg \in FileConfig
    BY DEF Rebind, SameAddress, SyncListen, Bind, BindFails, Swap, TouchAfterRebind,
        CloseOld, Goto, TypeInv, TypeOK, LocalInv, Actors
<1>1. CASE SameAddress(a) \/ Bind(a) \/ BindFails(a) \/ CloseOld(a)
    <2>1. ~Unannounced
        BY <1>1 DEF SameAddress, Bind, BindFails, CloseOld, Unannounced
    <2>2. UNCHANGED <<svcModifiedAt, tsIPs, cfg>>
        BY <1>1 DEF SameAddress, Bind, BindFails, CloseOld, server
    <2> QED
        BY <1>0, <2>1, <2>2, AnnouncedKept
<1>2. CASE SyncListen(a)
    <2>1. ~Unannounced
        BY <1>2 DEF SyncListen, Unannounced
    <2>2. addr[a] = cfg.listen /\ cfg.listen \in Addrs
        BY <1>0, <1>2 DEF SyncListen, ServedInv, FileConfig
    <2>3. cfg'.listen = cfg.listen /\ UNCHANGED <<svcModifiedAt, tsIPs>>
        BY <1>0, <1>2, <2>2, Moved DEF SyncListen
    <2> QED
        BY <1>0, <2>1, <2>3, AnnouncedKept
<1>3. CASE Swap(a)
    <2>1. pc'[a] = "touch"
        BY <1>0, <1>3 DEF Swap, Goto, TypeInv, LocalInv
    <2> QED
        BY <1>0, <1>3, <2>1, AnnouncedKept DEF Swap, Unannounced
<1>4. CASE TouchAfterRebind(a)
    BY <1>0, <1>4, AnnouncedKept DEF TouchAfterRebind, TouchServices
<1> QED
    BY <1>1, <1>2, <1>3, <1>4 DEF Rebind

LEMMA AnnouncedWhileWatch ==
    ASSUME TypeInv, OneAtATime, TurnInv, ServedInv, AnnouncedInv, Watch
    PROVE  AnnouncedInv'
<1>1. LoseBus \/ (pc["main"] = "serving" /\ pc["reload"] = "idle")
    BY WatchHasTurn
<1>2. CASE Rebind("watch")
    <2>1. pc["main"] = "serving" /\ pc["reload"] = "idle"
        BY <1>1, <1>2 DEF LoseBus, Rebind, SameAddress, SyncListen, Bind, BindFails, Swap,
            TouchAfterRebind, CloseOld
    <2> QED
        BY <1>2, <2>1, AnnouncedWhileRebind
<1>3. CASE LoseBus
    <2>1. /\ UNCHANGED <<svcModifiedAt, tsIPs, cfg, reader>>
          /\ pc'["main"] = pc["main"] /\ pc'["reload"] = pc["reload"]
          /\ pc["watch"] = "waiting" /\ pc'["watch"] = "disconnected"
        BY <1>3 DEF LoseBus, Goto, server, TypeInv, LocalInv, Actors
    <2> QED
        BY <2>1 DEF AnnouncedInv, Unannounced, reader
<1>4. ASSUME pc["main"] = "serving", pc["reload"] = "idle",
             \/ Load("watch") \/ ReadPort \/ DetectAndSetSelfIP \/ TouchAfterDetect
             \/ Connect \/ Wake
      PROVE  AnnouncedInv'
    <2>0. pc'["main"] = "serving" /\ UNCHANGED reader
        BY <1>4 DEF Load, CopyConfig, ReadAttrs, CommitAttrs, ReadPort, DetectAndSetSelfIP,
            TouchAfterDetect, Connect, Wake, Goto, TypeInv, LocalInv, Actors
    <2>1. CASE CopyConfig("watch") \/ ReadAttrs("watch") \/ ReadPort \/ Connect \/ Wake
        <3>1. ~Unannounced /\ UNCHANGED <<svcModifiedAt, tsIPs, cfg>>
            BY <1>4, <2>1 DEF CopyConfig, ReadAttrs, ReadPort, Connect, Wake, server,
               Unannounced
        <3> QED
            BY <1>4, <2>0, <3>1, AnnouncedKept
    <2>2. CASE CommitAttrs("watch")
        <3>1. httpSrv # NoServer
            BY <1>4, ListenIsAddress DEF ServedInv
        <3>2. ~Unannounced /\ UNCHANGED <<svcModifiedAt, tsIPs, cfg>>
            BY <1>4, <2>2, <3>1 DEF CommitAttrs, Unannounced
        <3> QED
            BY <1>4, <2>0, <3>2, AnnouncedKept
    <2>3. CASE DetectAndSetSelfIP
        <3>1. ~Unannounced /\ UNCHANGED <<svcModifiedAt, cfg>>
            BY <1>4, <2>3 DEF DetectAndSetSelfIP, Unannounced
        <3>2. UNCHANGED tsIPs \/ pc'["watch"] = "changed"
            BY <2>3 DEF DetectAndSetSelfIP, Goto, TypeInv, LocalInv, Actors
        <3> QED
            BY <1>4, <2>0, <3>1, <3>2, AnnouncedKept DEF Unannounced
    <2>4. CASE TouchAfterDetect
        BY <1>4, <2>0, <2>4, AnnouncedKept DEF TouchAfterDetect, TouchServices
    <2> QED
        BY <1>4, <2>1, <2>2, <2>3, <2>4 DEF Load
<1> QED
    BY <1>1, <1>2, <1>3, <1>4 DEF Watch

LEMMA AnnouncedWhileReload ==
    ASSUME TypeInv, OneAtATime, TurnInv, ServedInv, AnnouncedInv, BeginReload \/ Reload
    PROVE  AnnouncedInv'
<1>1. /\ pc["main"] = "serving"
      /\ pc["watch"] \in {"off", "disconnected", "waiting", "dead"}
    BY ReloadHasTurn
<1>2. CASE Rebind("reload")
    BY <1>1, <1>2, AnnouncedWhileRebind
<1>3. ASSUME BeginReload \/ ReadAttrs("reload") \/ ApplyConfig \/ ReloadServices
      PROVE  AnnouncedInv'
    <2>0. /\ pc'["main"] = "serving" /\ UNCHANGED <<reader, tsIPs>>
          /\ ~Unannounced
        BY <1>1, <1>3 DEF BeginReload, ReadAttrs, ApplyConfig, ReloadServices, Goto, server,
            Unannounced, TypeInv, LocalInv, Actors
    <2>1. CASE BeginReload \/ ReadAttrs("reload")
        BY <1>1, <2>0, <2>1, AnnouncedKept DEF BeginReload, ReadAttrs, server
    <2>2. CASE ApplyConfig
        <3>1. cfg'.listen = cfg.listen
            BY <2>2 DEF ApplyConfig, ServedInv
        <3> QED
            BY <1>1, <2>0, <2>2, <3>1, AnnouncedKept DEF ApplyConfig
    <2>3. CASE ReloadServices
        BY <1>1, <2>0, <2>3, AnnouncedKept DEF ReloadServices, TouchServices
    <2> QED
        BY <1>3, <2>1, <2>2, <2>3
<1> QED
    BY <1>2, <1>3 DEF Reload

\* A client stores what it was told beside the instant read before.
LEMMA AnnouncedToClient ==
    ASSUME TypeInv, AnnouncedInv, Request \/ Respond
    PROVE  AnnouncedInv'
<1>1. /\ svcModifiedAt \in Nat /\ client.at \in Int
      /\ request # None => request.at \in Nat
    BY DEF TypeInv, TypeOK, LocalInv
<1>2. CASE Request
    BY <1>1, <1>2 DEF Request, AnnouncedInv, Unannounced, server, locals
<1>3. CASE Respond
    BY <1>1, <1>3 DEF Respond, AnnouncedInv, Unannounced, server, locals
<1> QED
    BY <1>2, <1>3

LEMMA AnnouncedStep ==
    ASSUME TypeInv, OneAtATime, TurnInv, ServedInv, AnnouncedInv, [Next]_vars
    PROVE  AnnouncedInv'
<1>1. CASE World \/ UNCHANGED vars
    BY <1>1 DEF World, Edit, Policy, TailscaledStops, TailscaledStarts, vars, server,
       locals,
        reader, AnnouncedInv, Unannounced
<1> QED
    BY <1>1, AnnouncedWhileMain, AnnouncedWhileWatch, AnnouncedWhileReload,
       AnnouncedToClient
    DEF Next

-----------------------------------------------------------------------------
(* Theorems.                                                               *)

LEMMA Initially == Init => TurnInv /\ ServedInv /\ TagsInv /\ AnnouncedInv
<1> SUFFICES ASSUME Init PROVE TurnInv /\ ServedInv /\ TagsInv /\ AnnouncedInv
    OBVIOUS
<1>1. /\ pc["main"] \in {"load", "self"} /\ pc["watch"] = "off" /\ pc["reload"] = "idle"
      /\ httpSrv = NoServer /\ bound = {} /\ allowedCTags = {} /\ svcModifiedAt = 0
      /\ request = None /\ client.at = -1
    BY DEF Init, Actors
<1> QED
    BY <1>1 DEF TurnInv, ServedInv, TagsInv, AnnouncedInv, Moving, Rebinding, Loading

\* The goroutines take turns, the listener, the configuration and the tags
\* agree at each of their steps, and clients are behind by the instant alone.
THEOREM Invariant == OneAtATime /\ Spec => []Inv
<1> SUFFICES ASSUME OneAtATime PROVE Spec => []Inv
    OBVIOUS
<1>1. TypeInv /\ TurnInv /\ ServedInv /\ TagsInv /\ AnnouncedInv /\ [Next]_vars
        => TurnInv' /\ ServedInv' /\ TagsInv' /\ AnnouncedInv'
    BY TurnStep, ServedStep, TagsStep, AnnouncedStep
<1> QED
    BY <1>1, Initially, TypeInvariant, PTL DEF Spec, Inv

\* Outside a move the Agent listens where its configuration says, and nowhere
\* else, however often policy and file change and binds fail
\* (server.go:512-540).
THEOREM AlwaysServedWhereConfigured == OneAtATime /\ Spec => []ServedWhereConfigured
<1>1. Inv => ServedWhereConfigured
    BY DEF Inv, ServedInv, ServedWhereConfigured, Quiet, Moving
<1> QED
    BY <1>1, Invariant, PTL

\* A client with the present instant has the present address, however often
\* the port and the addresses change under its request (server.go:538,
\* daemon.go:218).
THEOREM AlwaysAnnouncedCurrent == OneAtATime /\ Spec => []AnnouncedIsCurrent
<1>1. Inv => AnnouncedIsCurrent
    BY DEF Inv, AnnouncedInv, AnnouncedIsCurrent, Quiet, Unannounced
<1> QED
    BY <1>1, Invariant, PTL

\* With node_attrs off no tag of the policy is authorized, whatever was
\* before (server.go:304-330).
THEOREM OffAlwaysMeansOff == OneAtATime /\ Spec => []OffMeansOff
<1>1. Inv => OffMeansOff
    BY DEF Inv, TagsInv, OffMeansOff
<1> QED
    BY <1>1, Invariant, PTL
=============================================================================
