-------------------------- MODULE AgentServices --------------------------
(***************************************************************************)
(* The Agent's service management: the handlers of internal/agent/mgmt.go  *)
(* that add and remove a service, the reload and the start-up of           *)
(* internal/agent/server.go, and what they keep: the configuration file,   *)
(* the running configuration (s.cfg), the registry, the bucket and proxy   *)
(* stores and the set of health checks.                                    *)
(*                                                                         *)
(* One operation runs at a time (mgmtMu; start-up precedes the management  *)
(* socket), so a single operation record and a single call record hold     *)
(* where it is.  Each step takes one lock or writes the file once, so a    *)
(* crash, or a reader, can come between any two.                           *)
(***************************************************************************)
EXTENDS Naturals, Sequences, Functions, Lists

CONSTANTS
    Names, Labels,  \* names and label sets a service may be given
    Corrupt,        \* a configuration file that does not parse
    FirstConfigs,   \* what the file may hold when the Agent is first started
    Edits,          \* what an operator may write into the file by hand
    MayClash,       \* whether a request may add a name that is in use
    MayMistype,     \* whether a request may remove a name of another type
    MaxServices,    \* bound of the services configured through the API
    MaxEdits, MaxCrashes, MaxSaveFailures, MaxRebindFailures

Types == {"static", "bucket", "proxy"}
Def == [name: Names, label: Labels, check: BOOLEAN]
Config == [Types -> Seq(Def)]

ASSUME ServicesAssumption ==
    /\ FirstConfigs \subseteq Config
    /\ Edits \subseteq Config \cup {Corrupt}
    /\ Corrupt \notin Config
    /\ {MayClash, MayMistype} \subseteq BOOLEAN
    /\ {MaxServices, MaxEdits, MaxCrashes, MaxSaveFailures, MaxRebindFailures} \subseteq Nat

VARIABLES
    file,       \* agent.toml
    budget,     \* how often each accident may still happen
    phase,      \* the process: down, starting, up, or dead (Start failed)
    cfg,        \* s.cfg
    registry,   \* registered services by name: their type and labels
    buckets,    \* names in the bucket store
    proxies,    \* names in the proxy store
    checks,     \* names with a running health check
    op,         \* the operation under way
    call        \* the runtime change it is making

disk == <<file, budget>>
runtime == <<registry, buckets, proxies, checks>>
vars == <<disk, phase, cfg, runtime, op, call>>

Empty == [t \in Types |-> <<>>]
Services(c) == UNION {Range(c[t]) : t \in Types}
NamesOf(defs) == {d.name : d \in Range(defs)}
AllNames(c) == UNION {NamesOf(c[t]) : t \in Types}
Size(c) == Len(c["static"]) + Len(c["bucket"]) + Len(c["proxy"])

NoCall == [fn |-> "none"]
NoOp == [kind |-> "none"]

\* Every service of c, typed, in the order start-up and reload add them.
Typed(t, defs) == [i \in DOMAIN defs |-> [type |-> t, def |-> defs[i]]]
InOrder(c, bucketDefs) ==
    Typed("static", c["static"]) \o Typed("bucket", bucketDefs) \o Typed("proxy", c["proxy"])

\* A duplicate bucket in the file is ignored by a reload.
FirstOfEachName(defs) ==
    Kept(defs, {i \in DOMAIN defs : \A j \in 1..(i - 1) : defs[j].name # defs[i].name})

Without(defs, name) == Kept(defs, {i \in DOMAIN defs : defs[i].name # name})

-----------------------------------------------------------------------------
(* Runtime changes: add{Static,Bucket,Proxy}, remove..., updateBucket.     *)

Call(fn, type, def, at) == [fn |-> fn, type |-> type, def |-> def, at |-> at]
At(fn, at) == call.fn = fn /\ call.at = at
Goto(at) == call' = [call EXCEPT !.at = at]

StoreOf(type) == CASE type = "bucket" -> buckets
                   [] type = "proxy"  -> proxies
                   [] type = "static" -> {}

SetStore(type, names) ==
    /\ buckets' = IF type = "bucket" THEN names ELSE buckets
    /\ proxies' = IF type = "proxy" THEN names ELSE proxies

AddToStore ==
    /\ At("add", "store")
    /\ IF call.def.name \in StoreOf(call.type)
       THEN Goto("err") /\ UNCHANGED <<buckets, proxies>>
       ELSE /\ SetStore(call.type, StoreOf(call.type) \cup {call.def.name})
            /\ Goto("reg")
    /\ UNCHANGED <<disk, phase, cfg, registry, checks, op>>

AddToRegistry ==
    /\ At("add", "reg")
    /\ IF call.def.name \in DOMAIN registry
       THEN Goto("undo") /\ UNCHANGED registry
       ELSE /\ registry' = [n \in DOMAIN registry \cup {call.def.name} |->
                IF n = call.def.name
                THEN [type |-> call.type, label |-> call.def.label] ELSE registry[n]]
            /\ Goto("check")
    /\ UNCHANGED <<disk, phase, cfg, buckets, proxies, checks, op>>

UndoSkipped ==      \* mutant: the store entry stays
    /\ At("add", "undo")
    /\ Goto("err")
    /\ UNCHANGED <<disk, phase, cfg, runtime, op>>

UndoAdd ==
    /\ At("add", "undo")
    /\ SetStore(call.type, StoreOf(call.type) \ {call.def.name})
    /\ Goto("err")
    /\ UNCHANGED <<disk, phase, cfg, registry, checks, op>>

\* hc.Register: nothing to do without a health check.
RegisterCheck ==
    /\ call.fn \in {"add", "update"}
    /\ call.at = "check"
    /\ checks' = IF call.def.check THEN checks \cup {call.def.name} ELSE checks
    /\ Goto("ok")
    /\ UNCHANGED <<disk, phase, cfg, registry, buckets, proxies, op>>

\* hc.Unregister comes first, before anything tells that the service exists
\* or is of this type.
UnregisterSkipped ==    \* mutant: the health check keeps running
    /\ At("remove", "uncheck") \/ At("update", "uncheck")
    /\ Goto(IF call.fn = "remove" THEN "store" ELSE "check")
    /\ UNCHANGED <<disk, phase, cfg, runtime, op>>

UnregisterCheck ==
    /\ At("remove", "uncheck") \/ At("update", "uncheck")
    /\ checks' = checks \ {call.def.name}
    /\ Goto(IF call.fn = "remove" THEN "store" ELSE "check")
    /\ UNCHANGED <<disk, phase, cfg, registry, buckets, proxies, op>>

RemoveFromStore ==
    /\ At("remove", "store")
    /\ IF call.type = "static" \/ call.def.name \in StoreOf(call.type)
       THEN SetStore(call.type, StoreOf(call.type) \ {call.def.name}) /\ Goto("reg")
       ELSE Goto("err") /\ UNCHANGED <<buckets, proxies>>
    /\ UNCHANGED <<disk, phase, cfg, registry, checks, op>>

RemoveFromRegistry ==
    /\ At("remove", "reg")
    /\ IF call.def.name \in DOMAIN registry
       THEN /\ registry' = [n \in DOMAIN registry \ {call.def.name} |-> registry[n]]
            /\ Goto("ok")
       ELSE Goto("err") /\ UNCHANGED registry
    /\ UNCHANGED <<disk, phase, cfg, buckets, proxies, checks, op>>

\* updateBucket keeps the bucket and its metrics.
UpdateRegistry ==
    /\ At("update", "reg")
    /\ IF call.def.name \in DOMAIN registry
       THEN /\ registry' = [registry EXCEPT ![call.def.name] =
                                [type |-> "bucket", label |-> call.def.label]]
            /\ Goto("uncheck")
       ELSE Goto("err") /\ UNCHANGED registry
    /\ UNCHANGED <<disk, phase, cfg, buckets, proxies, checks, op>>

CallStep == \/ AddToStore \/ AddToRegistry \/ UndoAdd \/ RegisterCheck
            \/ UnregisterCheck \/ RemoveFromStore \/ RemoveFromRegistry \/ UpdateRegistry

Returned == call.fn # "none" /\ call.at \in {"ok", "err"}

-----------------------------------------------------------------------------
(* POST /mgmt/<type>/add and /mgmt/<type>/remove.                          *)

Idle == phase = "up" /\ op.kind = "none"

\* What a request starts from and would leave, and what there was before.
Request(kind, next, c) ==
    [kind |-> kind, st |-> "save", old |-> cfg, next |-> next, call |-> c,
     before |-> runtime]

BeginAdd(type, def) ==
    /\ Idle
    /\ Size(cfg) < MaxServices
    /\ MayClash \/ def.name \notin AllNames(cfg)
    /\ op' = Request("add", [cfg EXCEPT ![type] = Append(@, def)],
                     Call("add", type, def, "store"))
    /\ UNCHANGED <<disk, phase, cfg, runtime, call>>

BeginRemove(type, def) ==
    /\ Idle
    /\ MayMistype \/ def.name \in NamesOf(cfg[type]) \cup (Names \ AllNames(cfg))
    /\ op' = Request("remove",
                     [cfg EXCEPT ![type] = Without(@, def.name)],
                     Call("remove", type, def, "uncheck"))
    /\ UNCHANGED <<disk, phase, cfg, runtime, call>>

SaveNext ==
    /\ op.kind \in {"add", "remove"}
    /\ op.st = "save"
    /\ file' = op.next
    /\ op' = [op EXCEPT !.st = "call"]
    /\ call' = op.call
    /\ UNCHANGED <<budget, phase, cfg, runtime>>

SaveFailsTorn ==        \* mutant: written in place, not renamed
    /\ op.kind \in {"add", "remove"}
    /\ op.st \in {"save", "rollback"}
    /\ budget.save > 0
    /\ budget' = [budget EXCEPT !.save = @ - 1]
    /\ file' = Corrupt
    /\ op' = NoOp
    /\ UNCHANGED <<phase, cfg, runtime, call>>

\* A failed save leaves the file alone.
SaveFails ==
    /\ op.kind \in {"add", "remove"}
    /\ op.st \in {"save", "rollback"}
    /\ budget.save > 0
    /\ budget' = [budget EXCEPT !.save = @ - 1]
    /\ op' = NoOp
    /\ UNCHANGED <<file, phase, cfg, runtime, call>>

CommitForgotten ==      \* mutant: s.cfg is not replaced
    /\ op.kind \in {"add", "remove"}
    /\ op.st = "call"
    /\ Returned /\ call.at = "ok"
    /\ op' = NoOp
    /\ call' = NoCall
    /\ UNCHANGED <<disk, phase, cfg, runtime>>

Commit ==
    /\ op.kind \in {"add", "remove"}
    /\ op.st = "call"
    /\ Returned /\ call.at = "ok"
    /\ cfg' = op.next
    /\ op' = NoOp
    /\ call' = NoCall
    /\ UNCHANGED <<disk, phase, runtime>>

CallFails ==
    /\ op.kind \in {"add", "remove"}
    /\ op.st = "call"
    /\ Returned /\ call.at = "err"
    /\ op' = [op EXCEPT !.st = "rollback"]
    /\ call' = NoCall
    /\ UNCHANGED <<disk, phase, cfg, runtime>>

RollbackSkipped ==      \* mutant: the file keeps the refused change
    /\ op.kind \in {"add", "remove"}
    /\ op.st = "rollback"
    /\ op' = NoOp
    /\ UNCHANGED <<disk, phase, cfg, runtime, call>>

Rollback ==
    /\ op.kind \in {"add", "remove"}
    /\ op.st = "rollback"
    /\ file' = op.old
    /\ op' = NoOp
    /\ UNCHANGED <<budget, phase, cfg, runtime, call>>

RequestStep == SaveNext \/ SaveFails \/ Commit \/ CallFails \/ Rollback

-----------------------------------------------------------------------------
(* POST /reload.                                                           *)

Reloading == [kind |-> "reload", st |-> "rebind", next |-> file, drop |-> {}, load |-> <<>>]

BeginReloadUnparsed ==  \* mutant: the parse error is ignored
    /\ Idle
    /\ op' = Reloading
    /\ UNCHANGED <<disk, phase, cfg, runtime, call>>

\* A file that does not parse is only warned about.
BeginReload ==
    /\ Idle
    /\ file # Corrupt
    /\ op' = Reloading
    /\ UNCHANGED <<disk, phase, cfg, runtime, call>>

\* The listener cannot be moved: the reload ends before it changed anything.
RebindFails ==
    /\ op.kind = "reload"
    /\ op.st = "rebind"
    /\ budget.rebind > 0
    /\ budget' = [budget EXCEPT !.rebind = @ - 1]
    /\ op' = NoOp
    /\ UNCHANGED <<file, phase, cfg, runtime, call>>

Adopt ==
    /\ op.kind = "reload"
    /\ op.st = "rebind"
    /\ cfg' = op.next
    /\ op' = [op EXCEPT !.st = "list"]
    /\ UNCHANGED <<disk, phase, runtime, call>>

StaysNever(n, c) == FALSE       \* mutant: buckets are re-created too

Stays(n, c) == registry[n].type = "bucket" /\ n \in NamesOf(c["bucket"])

\* The registry is listed once; what it lists is then removed by name.
ListRegistry ==
    /\ op.kind = "reload"
    /\ op.st = "list"
    /\ op' = [op EXCEPT
                !.st = "apply",
                !.drop = {[type |-> registry[n].type, name |-> n] :
                            n \in {m \in DOMAIN registry : ~Stays(m, op.next)}},
                !.load = InOrder(op.next, FirstOfEachName(op.next["bucket"]))]
    /\ UNCHANGED <<disk, phase, cfg, runtime, call>>

DropOne ==
    /\ op.kind = "reload"
    /\ op.st = "apply"
    /\ call = NoCall
    /\ \E e \in op.drop :
        /\ op' = [op EXCEPT !.drop = @ \ {e}]
        /\ call' = Call("remove", e.type,
                        [name |-> e.name, label |-> registry[e.name].label, check |-> FALSE],
                        "uncheck")
    /\ UNCHANGED <<disk, phase, cfg, runtime>>

LoadOne ==
    /\ op.kind = "reload"
    /\ op.st = "apply"
    /\ call = NoCall
    /\ op.drop = {}
    /\ op.load # <<>>
    /\ LET e == Head(op.load)
       IN  call' = IF e.type = "bucket" /\ e.def.name \in buckets
                   THEN Call("update", "bucket", e.def, "reg")
                   ELSE Call("add", e.type, e.def, "store")
    /\ op' = [op EXCEPT !.load = Tail(@)]
    /\ UNCHANGED <<disk, phase, cfg, runtime>>

\* Errors of single services are only logged.
ReloadReturns ==
    /\ op.kind = "reload"
    /\ Returned
    /\ call' = NoCall
    /\ UNCHANGED <<disk, phase, cfg, runtime, op>>

EndReload ==
    /\ op.kind = "reload"
    /\ op.st = "apply"
    /\ call = NoCall
    /\ op.drop = {}
    /\ op.load = <<>>
    /\ op' = NoOp
    /\ UNCHANGED <<disk, phase, cfg, runtime, call>>

ReloadStep == \/ RebindFails \/ Adopt \/ ListRegistry
              \/ DropOne \/ LoadOne \/ ReloadReturns \/ EndReload

-----------------------------------------------------------------------------
(* The process.                                                            *)

Boot ==
    /\ phase = "down"
    /\ IF file = Corrupt
       THEN phase' = "dead" /\ UNCHANGED <<cfg, op>>
       ELSE /\ phase' = "starting"
            /\ cfg' = file
            /\ op' = [kind |-> "start", load |-> InOrder(file, file["bucket"])]
    /\ UNCHANGED <<disk, runtime, call>>

StartOne ==
    /\ phase = "starting"
    /\ call = NoCall
    /\ op.load # <<>>
    /\ call' = Call("add", Head(op.load).type, Head(op.load).def, "store")
    /\ op' = [op EXCEPT !.load = Tail(@)]
    /\ UNCHANGED <<disk, phase, cfg, runtime>>

\* Any error while loading the configured services ends Start.
StartReturns ==
    /\ phase = "starting"
    /\ Returned
    /\ phase' = IF call.at = "ok" THEN phase ELSE "dead"
    /\ call' = NoCall
    /\ UNCHANGED <<disk, cfg, runtime, op>>

Started ==
    /\ phase = "starting"
    /\ call = NoCall
    /\ op.load = <<>>
    /\ phase' = "up"
    /\ op' = NoOp
    /\ UNCHANGED <<disk, cfg, runtime, call>>

Nothing == [n \in {} |-> NoOp]

ClearRuntime ==
    /\ phase' = "down"
    /\ cfg' = Empty
    /\ registry' = Nothing
    /\ buckets' = {}
    /\ proxies' = {}
    /\ checks' = {}
    /\ op' = NoOp
    /\ call' = NoCall

Crash ==
    /\ phase \in {"starting", "up"}
    /\ budget.crash > 0
    /\ budget' = [budget EXCEPT !.crash = @ - 1]
    /\ ClearRuntime
    /\ UNCHANGED file

\* The service manager starts a process that ended again.
Respawn ==
    /\ phase = "dead"
    /\ ClearRuntime
    /\ UNCHANGED disk

EditFile(c) ==
    /\ op.kind = "none"
    /\ budget.edit > 0
    /\ budget' = [budget EXCEPT !.edit = @ - 1]
    /\ file' = c
    /\ UNCHANGED <<phase, cfg, runtime, op, call>>

Init ==
    /\ file \in FirstConfigs
    /\ budget = [edit |-> MaxEdits, crash |-> MaxCrashes, save |-> MaxSaveFailures,
                 rebind |-> MaxRebindFailures]
    /\ phase = "down"
    /\ cfg = Empty
    /\ registry = Nothing
    /\ buckets = {}
    /\ proxies = {}
    /\ checks = {}
    /\ op = NoOp
    /\ call = NoCall

Process == Boot \/ StartOne \/ StartReturns \/ Started \/ Respawn

Next ==
    \/ CallStep \/ RequestStep \/ ReloadStep \/ Process \/ Crash \/ BeginReload
    \/ \E type \in Types, def \in Def : BeginAdd(type, def)
    \/ \E type \in Types, name \in Names, label \in Labels :
        BeginRemove(type, [name |-> name, label |-> label, check |-> FALSE])
    \/ \E c \in Edits : EditFile(c)

Spec == Init /\ [][Next]_vars

-----------------------------------------------------------------------------
(* Properties.                                                             *)

\* Every variable holds a value of its kind.
TypeOK ==
    /\ file \in Config \cup {Corrupt}
    /\ budget \in [edit: Nat, crash: Nat, save: Nat, rebind: Nat]
    /\ phase \in {"down", "starting", "up", "dead"}
    /\ cfg \in Config
    /\ DOMAIN registry \subseteq Names
    /\ \A n \in DOMAIN registry : registry[n] \in [type: Types, label: Labels]
    /\ buckets \subseteq Names
    /\ proxies \subseteq Names
    /\ checks \subseteq Names
    /\ op.kind \in {"none", "add", "remove", "reload", "start"}
    /\ call.fn \in {"none", "add", "remove", "update"}

\* Whether the runtime is what c describes: its services and no others,
\* each of its type and labels, with its store entry and its health check.
Realises(c) ==
    /\ DOMAIN registry = AllNames(c)
    /\ \A t \in Types : \A d \in Range(c[t]) :
        registry[d.name] = [type |-> t, label |-> d.label]
    /\ buckets = NamesOf(c["bucket"])
    /\ proxies = NamesOf(c["proxy"])
    /\ checks = {d.name : d \in {x \in Services(c) : x.check}}

\* "cfg is the single source of truth" (agent/server.go:338): between two
\* operations the registry, the stores and the health checks are those the
\* running configuration describes.
RuntimeRealisesConfig == Idle => Realises(cfg)

\* Requests "first write the configuration file, then change the runtime
\* state" (docs/agent.md:279): between two operations, and unless an
\* operator edited it, the file is the running configuration, so a restart
\* brings back exactly what was acknowledged.
FileHoldsConfig == Idle /\ budget.edit = MaxEdits => file = cfg

\* A request that is refused and rolled back has changed nothing.
RefusedChangesNothing ==
    [][op.kind \in {"add", "remove"} /\ op.st = "rollback"
        /\ op'.kind = "none" /\ phase' = "up"
        => op.before = runtime']_vars

\* What the Agent itself wrote never keeps it from starting.  It holds as
\* long as no request clashes with a name in use: a crash between the write
\* of a clashing add and its rollback leaves a file with the name twice.
StartsFromItsOwnFile == budget.edit = MaxEdits => phase # "dead"

\* A reload never takes away a bucket, with the metrics pushed to it, that
\* the new configuration still has.
BucketsSurviveReload ==
    [][op.kind = "reload" /\ op'.kind = "reload" =>
        \A n \in buckets : n \in NamesOf(op.next["bucket"]) => n \in buckets']_vars
=============================================================================
