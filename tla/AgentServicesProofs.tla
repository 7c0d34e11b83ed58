------------------------ MODULE AgentServicesProofs ------------------------
(***************************************************************************)
(* The Agent's service management, for any names, labels, files and        *)
(* numbers of edits, crashes and failures: between operations the runtime  *)
(* is what the configuration describes, a refused request has changed      *)
(* nothing, a reload keeps its buckets, and the Agent starts from the file *)
(* it wrote.  What each needs of requests and edits is said at its         *)
(* hypothesis, and TLC refutes it without.                                 *)
(***************************************************************************)
EXTENDS AgentServices, ListsProofs, SequenceTheorems

-----------------------------------------------------------------------------
(* Types of the operation and the call.                                    *)

Entry == [type : Types, def : Def]
Registered == [type : Types, label : Labels]
Registries == UNION {[D -> Registered] : D \in SUBSET Names}
Runtimes == Registries \X (SUBSET Names) \X (SUBSET Names) \X (SUBSET Names)

Calls == [fn : {"add", "remove", "update"}, type : Types, def : Def,
          at : {"store", "reg", "undo", "check", "uncheck", "ok", "err"}]
Requests == [kind : {"add", "remove"}, st : {"save", "call", "rollback"},
             old : Config, next : Config, call : Calls, before : Runtimes]
Reloads == [kind : {"reload"}, st : {"rebind", "list", "apply"}, next : Config,
            drop : SUBSET [type : Types, name : Names], load : Seq(Entry)]
Starts == [kind : {"start"}, load : Seq(Entry)]

\* What a reload still has to drop is registered, and nothing is added yet.
DropInv ==
    op \in Reloads =>
        /\ \A e \in op.drop :
            /\ e.name \in DOMAIN registry
            /\ registry[e.name].type = e.type
            /\ call = NoCall \/ call.def.name # e.name
        /\ op.drop # {} => call = NoCall \/ call.fn = "remove"

\* There is a call only where the code makes one.
CallInv ==
    /\ op = NoOp => call = NoCall
    /\ op \in Requests /\ op.st \in {"save", "rollback"} => call = NoCall
    /\ op \in Reloads /\ op.st \in {"rebind", "list"} => call = NoCall

PhaseInv ==
    /\ phase = "down" => op = NoOp
    /\ phase = "starting" => op \in Starts
    /\ phase = "up" => op \notin Starts
    /\ op \in Requests \cup Reloads => phase = "up"
    /\ phase = "dead" => call = NoCall

TypeInv ==
    /\ TypeOK
    /\ registry \in [DOMAIN registry -> Registered]
    /\ op \in {NoOp} \cup Requests \cup Reloads \cup Starts
    /\ call \in {NoCall} \cup Calls
    /\ DropInv /\ CallInv /\ PhaseInv

-----------------------------------------------------------------------------
(* One service in the runtime.                                             *)

InStores(n, t) == (n \in buckets <=> t = "bucket") /\ (n \in proxies <=> t = "proxy")

Absent(n) == n \notin DOMAIN registry /\ n \notin buckets \cup proxies \cup checks

\* Registered, and in the store of its type alone.
Coherent(n) == n \in DOMAIN registry /\ InStores(n, registry[n].type)

RegisteredAs(t, d) ==
    /\ d.name \in DOMAIN registry
    /\ registry[d.name] = [type |-> t, label |-> d.label]
    /\ InStores(d.name, t)

Shows(t, d) == RegisteredAs(t, d) /\ (d.name \in checks <=> d.check)

\* The runtime has of the name n what the configuration c has.
AsIn(c, n) ==
    /\ n \notin AllNames(c) => Absent(n)
    /\ \A t \in Types : \A d \in Range(c[t]) : d.name = n => Shows(t, d)

\* No two services of c have one name.
Distinct(c) ==
    \A t, u \in Types : \A i \in DOMAIN c[t], j \in DOMAIN c[u] :
        c[t][i].name = c[u][j].name => t = u /\ i = j

-----------------------------------------------------------------------------
(* A call that is under way and does not fail.                             *)

InCall(n) == call # NoCall /\ call.def.name = n

\* An add of a name the runtime did not have.
Adding(t, d, at) ==
    /\ at \in {"store", "reg", "check", "ok"}
    /\ at = "store" => Absent(d.name)
    /\ at = "reg" => d.name \notin DOMAIN registry /\ InStores(d.name, t)
    /\ at = "check" => RegisteredAs(t, d)
    /\ at \in {"reg", "check"} => d.name \notin checks
    /\ at = "ok" => Shows(t, d)

\* A removal of a name the runtime had under the type t.
Removing(t, n, at) ==
    /\ at \in {"uncheck", "store", "reg", "ok"}
    /\ at \in {"uncheck", "store"} => Coherent(n) /\ registry[n].type = t
    /\ at = "reg" => n \in DOMAIN registry /\ n \notin buckets \cup proxies
    /\ at \in {"store", "reg"} => n \notin checks
    /\ at = "ok" => Absent(n)

\* An update of a bucket that stays.
Updating(d, at) ==
    /\ at \in {"reg", "uncheck", "check", "ok"}
    /\ at = "reg" => Coherent(d.name) /\ registry[d.name].type = "bucket"
    /\ at \in {"uncheck", "check"} => RegisteredAs("bucket", d)
    /\ at = "check" => d.name \notin checks
    /\ at = "ok" => Shows("bucket", d)

-----------------------------------------------------------------------------
(* The start.                                                              *)

Full(c) == InOrder(c, c["bucket"])
NameAt(i) == Full(cfg)[i].def.name

\* How many services of the file have been started.
Done == Len(Full(cfg)) - Len(op.load) - (IF call = NoCall THEN 0 ELSE 1)

\* Those started have different names and are there, and nothing else is; the
\* next one is added, which fails if its name is taken.
StartingInv ==
    /\ Done \in Nat
    /\ \A i \in 1..Len(op.load) :
        op.load[i] = Full(cfg)[Len(Full(cfg)) - Len(op.load) + i]
    /\ \A i, j \in 1..Done : NameAt(i) = NameAt(j) => i = j
    /\ \A i \in 1..Done :
        ~InCall(NameAt(i)) => Shows(Full(cfg)[i].type, Full(cfg)[i].def)
    /\ \A n \in Names : ~InCall(n) /\ (\A i \in 1..Done : NameAt(i) # n) => Absent(n)
    /\ call # NoCall =>
        /\ call.fn = "add"
        /\ [type |-> call.type, def |-> call.def] = Full(cfg)[Done + 1]
        /\ IF \E i \in 1..Done : InCall(NameAt(i))
           THEN call.at \in {"store", "reg", "undo", "err"} /\ call.def.name \in DOMAIN registry
           ELSE Adding(call.type, call.def, call.at)

StartInv ==
    /\ phase = "down" => \A n \in Names : Absent(n)
    /\ phase = "starting" => file = cfg /\ StartingInv

-----------------------------------------------------------------------------
(* Requests and reloads, under the hypothesis that requests remove what    *)
(* they name under its own type, that edits do not use a name twice, and   *)
(* that the rollback of an add that clashes is saved.                      *)

Ordinary ==
    /\ ~MayMistype
    /\ MayClash => MaxSaveFailures = 0
    /\ \A c \in Edits : c # Corrupt => Distinct(c)

Unedited == budget.edit = MaxEdits

\* An add of a name in use, until its undo: registry and checks are as before.
Clashing(t, n, at) ==
    /\ at \in {"store", "reg", "undo", "err"}
    /\ \A u \in Types : \A x \in Range(cfg[u]) : x.name = n =>
        /\ n \in DOMAIN registry
        /\ registry[n] = [type |-> u, label |-> x.label]
        /\ n \in checks <=> x.check
        /\ at \in {"store", "err"} => InStores(n, u)
        /\ at \in {"reg", "undo"} =>
            /\ u = t => t = "static"
            /\ n \in buckets <=> u = "bucket" \/ t = "bucket"
            /\ n \in proxies <=> u = "proxy" \/ t = "proxy"
    /\ op.before =
        IF at \in {"reg", "undo"}
        THEN <<registry, IF t = "bucket" THEN buckets \ {n} ELSE buckets,
               IF t = "proxy" THEN proxies \ {n} ELSE proxies, checks>>
        ELSE runtime

\* The call of a request: it fails on a name in use, or one nobody has.
RequestCall(t, d) ==
    /\ call # NoCall
    /\ call.fn = op.kind /\ call.type = t /\ call.def = d
    /\ \A m \in Names \ {d.name} : AsIn(cfg, m)
    /\ op.kind = "add" /\ d.name \notin AllNames(cfg) => Adding(t, d, call.at)
    /\ op.kind = "add" /\ d.name \in AllNames(cfg) => Clashing(t, d.name, call.at)
    /\ op.kind = "remove" /\ d.name \in AllNames(cfg) => Removing(t, d.name, call.at)
    /\ op.kind = "remove" /\ d.name \notin AllNames(cfg) =>
        /\ call.at \in {"uncheck", "store", "reg", "err"}
        /\ Absent(d.name)
        /\ op.before = runtime

Asked(t, d) ==
    /\ op.call = Call(op.kind, t, d, IF op.kind = "add" THEN "store" ELSE "uncheck")
    /\ op.kind = "add" =>
        /\ op.next = [cfg EXCEPT ![t] = Append(@, d)]
        /\ d.name \in AllNames(cfg) => MayClash
    /\ op.kind = "remove" =>
        /\ op.next = [cfg EXCEPT ![t] = Without(@, d.name)]
        /\ d.name \in AllNames(cfg) => d.name \in NamesOf(cfg[t])

RequestInv ==
    /\ op.old = cfg
    /\ Asked(op.call.type, op.call.def)
    /\ op.st \in {"save", "rollback"} =>
        /\ op.before = runtime
        /\ \A n \in Names : AsIn(cfg, n)
    /\ op.st = "save" => (Unedited => file = cfg) /\ (file = Corrupt \/ Distinct(file))
    /\ op.st \in {"call", "rollback"} => file = op.next
    /\ op.st = "rollback" => MayClash \/ op.next = cfg
    /\ op.st = "call" => RequestCall(op.call.type, op.call.def)

\* Names a reload has yet to drop, and to load.
ToDrop == {e.name : e \in op.drop}
ToLoad == {e.def.name : e \in Range(op.load)}
Kept_(n) == n \in NamesOf(cfg["bucket"])

LoadInv ==
    /\ \A i, j \in DOMAIN op.load : op.load[i].def.name = op.load[j].def.name => i = j
    /\ \A e \in Range(op.load) : e.def \in Range(cfg[e.type])
    /\ op.drop # {} \/ (call # NoCall /\ call.fn = "remove") => AllNames(cfg) \subseteq ToLoad

ReloadCall ==
    /\ call.def.name \notin ToDrop
    /\ call.fn = "remove" =>
        /\ call.type = "bucket" => ~Kept_(call.def.name)
        /\ Removing(call.type, call.def.name, call.at)
    /\ call.fn \in {"add", "update"} =>
        /\ call.def.name \notin ToLoad
        /\ call.def \in Range(cfg[call.type])
    /\ call.fn = "add" => Adding(call.type, call.def, call.at)
    /\ call.fn = "update" => call.type = "bucket" /\ Updating(call.def, call.at)

\* A name that is not in hand is as it was, if it is to be dropped, or gone,
\* or a bucket that stays, if it is to be loaded, or else as configured.
ApplyInv ==
    /\ LoadInv
    /\ \A n \in Names : ~InCall(n) =>
        IF n \in ToDrop
        THEN Coherent(n) /\ ~(registry[n].type = "bucket" /\ Kept_(n))
        ELSE IF n \in ToLoad
        THEN Absent(n) \/ (Coherent(n) /\ registry[n].type = "bucket" /\ Kept_(n))
        ELSE AsIn(cfg, n)
    /\ call # NoCall => ReloadCall

ReloadInv ==
    /\ file = op.next /\ Distinct(op.next)
    /\ op.st = "rebind" => (\A n \in Names : AsIn(cfg, n)) /\ (Unedited => file = cfg)
    /\ op.st \in {"list", "apply"} => cfg = op.next
    /\ op.st = "list" => \A n \in Names : Coherent(n) \/ Absent(n)
    /\ op.st = "apply" => ApplyInv

IdleInv ==
    /\ \A n \in Names : AsIn(cfg, n)
    /\ Unedited => file = cfg
    /\ file = Corrupt \/ Distinct(file)

ServicesInv ==
    phase = "up" =>
        /\ Distinct(cfg)
        /\ op = NoOp => IdleInv
        /\ op \in Requests => RequestInv
        /\ op \in Reloads => ReloadInv

BudgetInv == budget.save <= MaxSaveFailures /\ budget.edit <= MaxEdits

-----------------------------------------------------------------------------
(* The file against the running configuration, as long as nobody edits it *)
(* and every save succeeds: whatever is asked for, and however often the   *)
(* process is killed.                                                      *)

WrittenInv ==
    Unedited =>
        /\ phase = "up" /\ op \notin Requests => file = cfg
        /\ op \in Reloads => op.next = cfg
        /\ op \in Requests =>
            /\ op.old = cfg
            /\ op.st = "save" => file = cfg
            /\ op.st # "save" => file = op.next

-----------------------------------------------------------------------------
(* The file the Agent wrote itself.                                        *)

OwnFile == ~MayClash /\ \A c \in FirstConfigs : Distinct(c)

OwnFileInv ==
    Unedited =>
        /\ phase # "dead"
        /\ file \in Config /\ Distinct(file)
        /\ phase \in {"starting", "up"} => Distinct(cfg)
        /\ op \in Requests => Distinct(op.next) /\ Distinct(op.old)
        /\ op \in Reloads => Distinct(op.next)

-----------------------------------------------------------------------------
(* Types.                                                                  *)

\* The kind of an operation, and the function of a call, tell its record.
LEMMA KindsOf ==
    ASSUME NEW o \in {NoOp} \cup Requests \cup Reloads \cup Starts
    PROVE  /\ o.kind \in {"none", "add", "remove", "reload", "start"}
           /\ o.kind = "none" <=> o = NoOp
           /\ o.kind \in {"add", "remove"} <=> o \in Requests
           /\ o.kind = "reload" <=> o \in Reloads
           /\ o.kind = "start" <=> o \in Starts
<1>1. NoOp.kind = "none"
    BY DEF NoOp
<1>2. \A r \in Requests : r.kind \in {"add", "remove"}
    BY DEF Requests
<1>3. \A r \in Reloads : r.kind = "reload"
    BY DEF Reloads
<1>4. \A r \in Starts : r.kind = "start"
    BY DEF Starts
<1> QED
    BY <1>1, <1>2, <1>3, <1>4

LEMMA CallKinds ==
    ASSUME NEW c \in {NoCall} \cup Calls
    PROVE  /\ c.fn \in {"none", "add", "remove", "update"}
           /\ c.fn = "none" <=> c = NoCall
           /\ c # NoCall <=> c \in Calls
<1>1. NoCall.fn = "none"
    BY DEF NoCall
<1>2. \A r \in Calls : r.fn \in {"add", "remove", "update"}
    BY DEF Calls
<1> QED
    BY <1>1, <1>2

LEMMA Kinds ==
    ASSUME TypeInv
    PROVE  /\ op.kind = "none" <=> op = NoOp
           /\ op.kind \in {"add", "remove"} <=> op \in Requests
           /\ op.kind = "reload" <=> op \in Reloads
           /\ op.kind = "start" <=> op \in Starts
           /\ call.fn = "none" <=> call = NoCall
           /\ call # NoCall <=> call \in Calls
BY KindsOf, CallKinds DEF TypeInv

LEMMA CallFields ==
    ASSUME NEW c \in Calls
    PROVE  /\ c.fn \in {"add", "remove", "update"} /\ c.type \in Types
           /\ c.def \in Def /\ c.def.name \in Names /\ c.def.label \in Labels
           /\ c.def.check \in BOOLEAN
           /\ c.at \in {"store", "reg", "undo", "check", "uncheck", "ok", "err"}
BY DEF Calls, Def

LEMMA CallMoves ==
    ASSUME NEW c \in Calls,
           NEW at \in {"store", "reg", "undo", "check", "uncheck", "ok", "err"}
    PROVE  LET m == [c EXCEPT !.at = at]
           IN  m \in Calls /\ m.fn = c.fn /\ m.type = c.type /\ m.def = c.def /\ m.at = at
BY DEF Calls

LEMMA MadeCall ==
    ASSUME NEW fn \in {"add", "remove", "update"}, NEW t \in Types, NEW d \in Def,
           NEW at \in {"store", "reg", "undo", "check", "uncheck", "ok", "err"}
    PROVE  LET c == Call(fn, t, d, at)
           IN  c \in Calls /\ c.fn = fn /\ c.type = t /\ c.def = d /\ c.at = at
BY DEF Call, Calls

-----------------------------------------------------------------------------
(* A step of a call.                                                       *)

\* The runtime has of n what it had.
Same(n) ==
    /\ n \in DOMAIN registry' <=> n \in DOMAIN registry
    /\ n \in DOMAIN registry => registry'[n] = registry[n]
    /\ n \in buckets' <=> n \in buckets
    /\ n \in proxies' <=> n \in proxies
    /\ n \in checks' <=> n \in checks

\* It is one of its function's, goes where the code goes, and touches nothing
\* but the name it is about.
LEMMA CallStepMoves ==
    ASSUME TypeInv, CallStep
    PROVE  /\ UNCHANGED <<disk, phase, cfg, op>>
           /\ call \in Calls /\ call' \in Calls
           /\ call'.fn = call.fn /\ call'.type = call.type /\ call'.def = call.def
<1>1. call.fn # "none"
    BY DEF CallStep, AddToStore, AddToRegistry, UndoAdd, RegisterCheck, UnregisterCheck,
           RemoveFromStore, RemoveFromRegistry, UpdateRegistry, At
<1>2. call \in Calls
    BY <1>1, Kinds
<1>3. PICK at \in {"store", "reg", "undo", "check", "uncheck", "ok", "err"} :
        call' = [call EXCEPT !.at = at]
    BY DEF CallStep, AddToStore, AddToRegistry, UndoAdd, RegisterCheck, UnregisterCheck,
           RemoveFromStore, RemoveFromRegistry, UpdateRegistry, Goto
<1>4. UNCHANGED <<disk, phase, cfg, op>>
    BY DEF CallStep, AddToStore, AddToRegistry, UndoAdd, RegisterCheck, UnregisterCheck,
           RemoveFromStore, RemoveFromRegistry, UpdateRegistry
<1> QED
    BY <1>2, <1>3, <1>4, CallMoves

LEMMA CallStepFrame ==
    ASSUME TypeInv, CallStep, NEW n, n # call.def.name
    PROVE  Same(n)
<1> USE DEF Same, StoreOf, SetStore
<1>1. CASE AddToStore
    BY <1>1 DEF AddToStore
<1>2. CASE AddToRegistry
    BY <1>2 DEF AddToRegistry
<1>3. CASE UndoAdd
    BY <1>3 DEF UndoAdd
<1>4. CASE RegisterCheck
    BY <1>4 DEF RegisterCheck
<1>5. CASE UnregisterCheck
    BY <1>5 DEF UnregisterCheck
<1>6. CASE RemoveFromStore
    BY <1>6 DEF RemoveFromStore
<1>7. CASE RemoveFromRegistry
    BY <1>7 DEF RemoveFromRegistry
<1>8. CASE UpdateRegistry
    BY <1>8 DEF UpdateRegistry, TypeInv
<1> QED
    BY <1>1, <1>2, <1>3, <1>4, <1>5, <1>6, <1>7, <1>8 DEF CallStep

LEMMA CallStepTypes ==
    ASSUME TypeInv, CallStep
    PROVE  /\ registry' \in [DOMAIN registry' -> Registered] /\ DOMAIN registry' \subseteq Names
           /\ buckets' \subseteq Names /\ proxies' \subseteq Names /\ checks' \subseteq Names
<1>1. call \in Calls
    BY CallStepMoves
<1>2. call.type \in Types /\ call.def.name \in Names /\ call.def.label \in Labels
    BY <1>1, CallFields
<1>3. /\ registry \in [DOMAIN registry -> Registered] /\ DOMAIN registry \subseteq Names
      /\ buckets \subseteq Names /\ proxies \subseteq Names /\ checks \subseteq Names
    BY DEF TypeInv, TypeOK
<1> USE <1>2, <1>3 DEF StoreOf, SetStore, Types
<1>4. CASE AddToStore
    BY <1>4 DEF AddToStore
<1>5. CASE AddToRegistry
    BY <1>5 DEF AddToRegistry, Registered
<1>6. CASE UndoAdd
    BY <1>6 DEF UndoAdd
<1>7. CASE RegisterCheck
    BY <1>7 DEF RegisterCheck
<1>8. CASE UnregisterCheck
    BY <1>8 DEF UnregisterCheck
<1>9. CASE RemoveFromStore
    BY <1>9 DEF RemoveFromStore
<1>10. CASE RemoveFromRegistry
    BY <1>10 DEF RemoveFromRegistry
<1>11. CASE UpdateRegistry
    BY <1>11 DEF UpdateRegistry, Registered
<1> QED
    BY <1>4, <1>5, <1>6, <1>7, <1>8, <1>9, <1>10, <1>11 DEF CallStep

\* What is the same of a name looks the same.
LEMMA SameLooks ==
    ASSUME NEW n, Same(n)
    PROVE  /\ Absent(n)' <=> Absent(n)
           /\ Coherent(n)' <=> Coherent(n)
           /\ \A t \in Types, d \in Def : d.name = n => (Shows(t, d)' <=> Shows(t, d))
           /\ \A t \in Types, d \in Def :
                d.name = n => (RegisteredAs(t, d)' <=> RegisteredAs(t, d))
<1>1. Absent(n)' <=> Absent(n)
    BY DEF Same, Absent
<1>2. Coherent(n)' <=> Coherent(n)
    BY DEF Same, Coherent, InStores
<1>3. ASSUME NEW t \in Types, NEW d \in Def, d.name = n
      PROVE (RegisteredAs(t, d)' <=> RegisteredAs(t, d)) /\ (Shows(t, d)' <=> Shows(t, d))
    BY <1>3 DEF Same, RegisteredAs, Shows, InStores
<1> QED
    BY <1>1, <1>2, <1>3

LEMMA SameAsIn ==
    ASSUME NEW n, Same(n), NEW c \in Config
    PROVE  AsIn(c, n)' <=> AsIn(c, n)
<1>1. \A t \in Types : \A d \in Range(c[t]) : d \in Def
    BY DEF Config, Range
<1> QED
    BY <1>1, SameLooks DEF AsIn

LEMMA AddingStep ==
    ASSUME TypeInv, CallStep, NEW t, NEW d,
           call.fn = "add", call.type = t, call.def = d, Adding(t, d, call.at)
    PROVE  Adding(t, d, call.at)'
<1>1. call \in Calls /\ call' \in Calls
    BY CallStepMoves
<1>2. t \in Types /\ d \in Def /\ d.check \in BOOLEAN
    BY <1>1, CallFields
<1>3. \A at : Goto(at) => call'.at = at
    BY <1>1 DEF Goto, Calls
<1> USE DEF At
<1>4. CASE AddToStore
    <2>1. call.at = "store" /\ Absent(d.name) /\ d.name \notin StoreOf(t)
        BY <1>2, <1>4 DEF AddToStore, Adding, Absent, StoreOf, Types
    <2>2. SetStore(t, StoreOf(t) \cup {d.name}) /\ Goto("reg") /\ UNCHANGED <<registry, checks>>
        BY <1>4, <2>1 DEF AddToStore
    <2>3. call'.at = "reg"
        BY <1>3, <2>2
    <2>4. (d.name \notin DOMAIN registry)' /\ InStores(d.name, t)' /\ (d.name \notin checks)'
        BY <1>2, <2>1, <2>2 DEF Absent, SetStore, StoreOf, InStores, Types
    <2> QED
        BY <2>3, <2>4 DEF Adding
<1>5. CASE AddToRegistry
    <2>1. call.at = "reg" /\ d.name \notin DOMAIN registry /\ InStores(d.name, t)
          /\ d.name \notin checks
        BY <1>5 DEF AddToRegistry, Adding
    <2>2. Goto("check") /\ UNCHANGED <<buckets, proxies, checks>>
        BY <1>5, <2>1 DEF AddToRegistry
    <2>3. registry' = [n \in DOMAIN registry \cup {d.name} |->
                IF n = d.name THEN [type |-> t, label |-> d.label] ELSE registry[n]]
        BY <1>5, <2>1 DEF AddToRegistry
    <2>4. call'.at = "check"
        BY <1>3, <2>2
    <2>5. RegisteredAs(t, d)' /\ (d.name \notin checks)'
        BY <2>1, <2>2, <2>3 DEF RegisteredAs, InStores
    <2> QED
        BY <2>4, <2>5 DEF Adding
<1>6. CASE UndoAdd
    BY <1>6 DEF UndoAdd, Adding
<1>7. CASE RegisterCheck
    <2>1. call.at = "check" /\ RegisteredAs(t, d) /\ d.name \notin checks
        BY <1>7 DEF RegisterCheck, Adding
    <2>2. checks' = (IF d.check THEN checks \cup {d.name} ELSE checks) /\ Goto("ok")
          /\ UNCHANGED <<registry, buckets, proxies>>
        BY <1>7 DEF RegisterCheck
    <2>3. call'.at = "ok"
        BY <1>3, <2>2
    <2>4. RegisteredAs(t, d)'
        BY <2>1, <2>2 DEF RegisteredAs, InStores
    <2>5. (d.name \in checks <=> d.check)'
        BY <1>2, <2>1, <2>2
    <2> QED
        BY <2>3, <2>4, <2>5 DEF Adding, Shows
<1>8. ~UnregisterCheck /\ ~RemoveFromStore /\ ~RemoveFromRegistry /\ ~UpdateRegistry
    BY DEF UnregisterCheck, RemoveFromStore, RemoveFromRegistry, UpdateRegistry
<1> QED
    BY <1>4, <1>5, <1>6, <1>7, <1>8 DEF CallStep

LEMMA RemovingStep ==
    ASSUME TypeInv, CallStep, NEW t, NEW n,
           call.fn = "remove", call.type = t, call.def.name = n, Removing(t, n, call.at)
    PROVE  Removing(t, n, call.at)'
<1>1. call \in Calls /\ call' \in Calls
    BY CallStepMoves
<1>2. t \in Types
    BY <1>1, CallFields
<1>3. \A at : Goto(at) => call'.at = at
    BY <1>1 DEF Goto, Calls
<1> USE DEF At
<1>4. CASE UnregisterCheck
    <2>1. call.at = "uncheck" /\ Coherent(n) /\ registry[n].type = t
        BY <1>4 DEF UnregisterCheck, Removing
    <2>2. checks' = checks \ {n} /\ Goto("store") /\ UNCHANGED <<registry, buckets, proxies>>
        BY <1>4 DEF UnregisterCheck
    <2>3. call'.at = "store"
        BY <1>3, <2>2
    <2> QED
        BY <2>1, <2>2, <2>3 DEF Removing, Coherent, InStores
<1>5. CASE RemoveFromStore
    <2>1. call.at = "store" /\ Coherent(n) /\ registry[n].type = t /\ n \notin checks
        BY <1>5 DEF RemoveFromStore, Removing
    <2>2. t = "static" \/ n \in StoreOf(t)
        BY <1>2, <2>1 DEF Coherent, InStores, StoreOf, Types
    <2>3. SetStore(t, StoreOf(t) \ {n}) /\ Goto("reg") /\ UNCHANGED <<registry, checks>>
        BY <1>5, <2>2 DEF RemoveFromStore
    <2>4. call'.at = "reg"
        BY <1>3, <2>3
    <2> QED
        BY <1>2, <2>1, <2>3, <2>4 DEF Removing, Coherent, InStores, SetStore, StoreOf, Types
<1>6. CASE RemoveFromRegistry
    <2>1. call.at = "reg" /\ n \in DOMAIN registry /\ n \notin buckets \cup proxies
          /\ n \notin checks
        BY <1>6 DEF RemoveFromRegistry, Removing
    <2>2. registry' = [m \in DOMAIN registry \ {n} |-> registry[m]] /\ Goto("ok")
          /\ UNCHANGED <<buckets, proxies, checks>>
        BY <1>6, <2>1 DEF RemoveFromRegistry
    <2>3. call'.at = "ok"
        BY <1>3, <2>2
    <2> QED
        BY <2>1, <2>2, <2>3 DEF Removing, Absent
<1>7. ~AddToStore /\ ~AddToRegistry /\ ~UndoAdd /\ ~RegisterCheck /\ ~UpdateRegistry
    BY DEF AddToStore, AddToRegistry, UndoAdd, RegisterCheck, UpdateRegistry
<1> QED
    BY <1>4, <1>5, <1>6, <1>7 DEF CallStep

LEMMA UpdatingStep ==
    ASSUME TypeInv, CallStep, NEW d,
           call.fn = "update", call.type = "bucket", call.def = d, Updating(d, call.at)
    PROVE  Updating(d, call.at)'
<1>1. call \in Calls /\ call' \in Calls
    BY CallStepMoves
<1>2. d \in Def /\ d.check \in BOOLEAN
    BY <1>1, CallFields
<1>3. \A at : Goto(at) => call'.at = at
    BY <1>1 DEF Goto, Calls
<1> USE DEF At
<1>4. CASE UpdateRegistry
    <2>1. call.at = "reg" /\ Coherent(d.name) /\ registry[d.name].type = "bucket"
        BY <1>4 DEF UpdateRegistry, Updating
    <2>2. registry' = [registry EXCEPT ![d.name] = [type |-> "bucket", label |-> d.label]]
          /\ Goto("uncheck") /\ UNCHANGED <<buckets, proxies, checks>>
        BY <1>4, <2>1 DEF UpdateRegistry, Coherent
    <2>3. call'.at = "uncheck"
        BY <1>3, <2>2
    <2>4. RegisteredAs("bucket", d)'
        BY <2>1, <2>2 DEF RegisteredAs, Coherent, InStores
    <2> QED
        BY <2>3, <2>4 DEF Updating
<1>5. CASE UnregisterCheck
    <2>1. call.at = "uncheck" /\ RegisteredAs("bucket", d)
        BY <1>5 DEF UnregisterCheck, Updating
    <2>2. checks' = checks \ {d.name} /\ Goto("check") /\ UNCHANGED <<registry, buckets, proxies>>
        BY <1>5 DEF UnregisterCheck
    <2>3. call'.at = "check"
        BY <1>3, <2>2
    <2> QED
        BY <2>1, <2>2, <2>3 DEF Updating, RegisteredAs, InStores
<1>6. CASE RegisterCheck
    <2>1. call.at = "check" /\ RegisteredAs("bucket", d) /\ d.name \notin checks
        BY <1>6 DEF RegisterCheck, Updating
    <2>2. checks' = (IF d.check THEN checks \cup {d.name} ELSE checks) /\ Goto("ok")
          /\ UNCHANGED <<registry, buckets, proxies>>
        BY <1>6 DEF RegisterCheck
    <2>3. call'.at = "ok"
        BY <1>3, <2>2
    <2>4. RegisteredAs("bucket", d)'
        BY <2>1, <2>2 DEF RegisteredAs, InStores
    <2>5. (d.name \in checks <=> d.check)'
        BY <1>2, <2>1, <2>2
    <2> QED
        BY <2>3, <2>4, <2>5 DEF Updating, Shows
<1>7. ~AddToStore /\ ~AddToRegistry /\ ~UndoAdd /\ ~RemoveFromStore /\ ~RemoveFromRegistry
    BY DEF AddToStore, AddToRegistry, UndoAdd, RemoveFromStore, RemoveFromRegistry
<1> QED
    BY <1>4, <1>5, <1>6, <1>7 DEF CallStep

LEMMA ClashingStep ==
    ASSUME TypeInv, CallStep, NEW t, NEW n, n \in AllNames(cfg),
           call.fn = "add", call.type = t, call.def.name = n, Clashing(t, n, call.at)
    PROVE  Clashing(t, n, call.at)'
<1>1. call \in Calls /\ call' \in Calls /\ UNCHANGED <<cfg, op>>
    BY CallStepMoves
<1>2. t \in Types
    BY <1>1, CallFields
<1>3. \A at : Goto(at) => call'.at = at
    BY <1>1 DEF Goto, Calls
<1>4. PICK u \in Types : \E x \in Range(cfg[u]) : x.name = n
    BY DEF AllNames, NamesOf
<1>5. PICK x \in Range(cfg[u]) : x.name = n
    BY <1>4
<1> USE DEF At
<1>6. CASE AddToStore
    <2>1. call.at = "store" /\ op.before = runtime
        BY <1>6 DEF AddToStore, Clashing
    <2>2. UNCHANGED <<registry, checks>>
        BY <1>6 DEF AddToStore
    <2>3. CASE n \in StoreOf(t)
        <3>1. call'.at = "err" /\ UNCHANGED <<buckets, proxies>>
            BY <1>3, <1>6, <2>3 DEF AddToStore
        <3> QED
            BY <1>1, <2>1, <2>2, <3>1 DEF Clashing, InStores, runtime
    <2>4. CASE n \notin StoreOf(t)
        <3>1. SetStore(t, StoreOf(t) \cup {n}) /\ call'.at = "reg"
            BY <1>3, <1>6, <2>4 DEF AddToStore
        <3>2. ASSUME NEW v \in Types, NEW y \in Range(cfg[v]), y.name = n
              PROVE  /\ n \in DOMAIN registry'
                     /\ registry'[n] = [type |-> v, label |-> y.label]
                     /\ n \in checks' <=> y.check
                     /\ v = t => t = "static"
                     /\ n \in buckets' <=> v = "bucket" \/ t = "bucket"
                     /\ n \in proxies' <=> v = "proxy" \/ t = "proxy"
            <4>1. InStores(n, v) /\ n \in DOMAIN registry
                  /\ registry[n] = [type |-> v, label |-> y.label]
                  /\ (n \in checks <=> y.check)
                BY <2>1, <3>2 DEF Clashing
            <4> QED
                BY <1>2, <2>2, <2>4, <3>1, <4>1 DEF InStores, StoreOf, SetStore, Types
        <3>3. op'.before = <<registry', IF t = "bucket" THEN buckets' \ {n} ELSE buckets',
                             IF t = "proxy" THEN proxies' \ {n} ELSE proxies', checks'>>
            <4>1. /\ buckets = IF t = "bucket" THEN buckets' \ {n} ELSE buckets'
                  /\ proxies = IF t = "proxy" THEN proxies' \ {n} ELSE proxies'
                BY <1>2, <2>4, <3>1 DEF StoreOf, SetStore, Types
            <4> QED
                BY <1>1, <2>1, <2>2, <4>1 DEF runtime
        <3> QED
            BY <1>1, <3>1, <3>2, <3>3 DEF Clashing
    <2> QED
        BY <2>3, <2>4
<1>7. CASE AddToRegistry
    <2>1. call.at = "reg" /\ n \in DOMAIN registry
        BY <1>4, <1>5, <1>7 DEF AddToRegistry, Clashing
    <2>2. call'.at = "undo" /\ UNCHANGED <<registry, buckets, proxies, checks>>
        BY <1>3, <1>7, <2>1 DEF AddToRegistry
    <2> QED
        BY <1>1, <2>1, <2>2 DEF Clashing
<1>8. CASE UndoAdd
    <2>1. call.at = "undo" /\ call'.at = "err" /\ UNCHANGED <<registry, checks>>
          /\ SetStore(t, StoreOf(t) \ {n})
        BY <1>3, <1>8 DEF UndoAdd
    <2>2. ASSUME NEW v \in Types, NEW y \in Range(cfg[v]), y.name = n
          PROVE  /\ n \in DOMAIN registry'
                 /\ registry'[n] = [type |-> v, label |-> y.label]
                 /\ n \in checks' <=> y.check
                 /\ InStores(n, v)'
        <3>1. /\ n \in DOMAIN registry
              /\ registry[n] = [type |-> v, label |-> y.label]
              /\ n \in checks <=> y.check
              /\ v = t => t = "static"
              /\ n \in buckets <=> v = "bucket" \/ t = "bucket"
              /\ n \in proxies <=> v = "proxy" \/ t = "proxy"
            BY <2>1, <2>2 DEF Clashing
        <3> QED
            BY <1>2, <2>1, <3>1 DEF InStores, StoreOf, SetStore, Types
    <2>3. op'.before = runtime'
        <3>1. op.before = <<registry, IF t = "bucket" THEN buckets \ {n} ELSE buckets,
                            IF t = "proxy" THEN proxies \ {n} ELSE proxies, checks>>
            BY <2>1 DEF Clashing
        <3>2. /\ buckets' = IF t = "bucket" THEN buckets \ {n} ELSE buckets
              /\ proxies' = IF t = "proxy" THEN proxies \ {n} ELSE proxies
            BY <1>2, <2>1 DEF StoreOf, SetStore, Types
        <3> QED
            BY <1>1, <2>1, <3>1, <3>2 DEF runtime
    <2> QED
        BY <1>1, <2>1, <2>2, <2>3 DEF Clashing
<1>9. ~RegisterCheck
    BY DEF RegisterCheck, Clashing
<1>10. ~UnregisterCheck /\ ~RemoveFromStore /\ ~RemoveFromRegistry /\ ~UpdateRegistry
    BY DEF UnregisterCheck, RemoveFromStore, RemoveFromRegistry, UpdateRegistry
<1> QED
    BY <1>6, <1>7, <1>8, <1>9, <1>10 DEF CallStep

\* A removal of a name nobody has changes nothing and fails.
LEMMA UnknownStep ==
    ASSUME TypeInv, CallStep, call.fn = "remove", Absent(call.def.name),
           call.at \in {"uncheck", "store", "reg", "err"}
    PROVE  /\ UNCHANGED runtime
           /\ call'.at \in {"uncheck", "store", "reg", "err"}
<1>1. call \in Calls /\ call' \in Calls
    BY CallStepMoves
<1>2. call.type \in Types
    BY <1>1, CallFields
<1>3. \A at : Goto(at) => call'.at = at
    BY <1>1 DEF Goto, Calls
<1> USE DEF At, runtime, Absent
<1>4. CASE UnregisterCheck
    <2>1. checks' = checks \ {call.def.name} /\ Goto("store")
          /\ UNCHANGED <<registry, buckets, proxies>>
        BY <1>4 DEF UnregisterCheck
    <2>2. checks' = checks
        BY <2>1
    <2> QED
        BY <1>3, <2>1, <2>2
<1>5. CASE RemoveFromStore
    <2>1. CASE call.type = "static"
        <3>1. UNCHANGED <<buckets, proxies, registry, checks>> /\ Goto("reg")
            BY <1>5, <2>1 DEF RemoveFromStore, SetStore
        <3> QED
            BY <1>3, <3>1
    <2>2. CASE call.type # "static"
        <3>1. call.def.name \notin StoreOf(call.type)
            BY <1>2, <2>2 DEF StoreOf, Types
        <3>2. UNCHANGED <<buckets, proxies, registry, checks>> /\ Goto("err")
            BY <1>5, <2>2, <3>1 DEF RemoveFromStore
        <3> QED
            BY <1>3, <3>2
    <2> QED
        BY <2>1, <2>2
<1>6. CASE RemoveFromRegistry
    <2>1. UNCHANGED <<buckets, proxies, registry, checks>> /\ Goto("err")
        BY <1>6 DEF RemoveFromRegistry
    <2> QED
        BY <1>3, <2>1
<1>7. ~AddToStore /\ ~AddToRegistry /\ ~UndoAdd /\ ~RegisterCheck /\ ~UpdateRegistry
    BY DEF AddToStore, AddToRegistry, UndoAdd, RegisterCheck, UpdateRegistry
<1> QED
    BY <1>4, <1>5, <1>6, <1>7 DEF CallStep

-----------------------------------------------------------------------------
(* The order in which services are added.                                  *)

\* Where the k-th service of the type t is.
Pos(c, t, k) == CASE t = "static" -> k
                  [] t = "bucket" -> Len(c["static"]) + k
                  [] t = "proxy" -> Len(c["static"]) + Len(c["bucket"]) + k

LEMMA ConfigLists ==
    ASSUME NEW c \in Config, NEW t \in Types
    PROVE  /\ c[t] \in Seq(Def) /\ Len(c[t]) \in Nat /\ DOMAIN c[t] = 1..Len(c[t])
           /\ \A k \in DOMAIN c[t] : c[t][k] \in Def
           /\ Range(c[t]) \subseteq Def
BY DEF Config, Range

LEMMA TypedList ==
    ASSUME NEW t \in Types, NEW defs \in Seq(Def)
    PROVE  /\ Typed(t, defs) \in Seq(Entry)
           /\ Len(Typed(t, defs)) = Len(defs)
           /\ \A k \in 1..Len(defs) : Typed(t, defs)[k] = [type |-> t, def |-> defs[k]]
<1>1. Len(defs) \in Nat /\ DOMAIN defs = 1..Len(defs) /\ \A k \in 1..Len(defs) : defs[k] \in Def
    OBVIOUS
<1>2. Typed(t, defs) \in [1..Len(defs) -> Entry]
    BY <1>1 DEF Typed, Entry
<1> QED
    BY <1>1, <1>2 DEF Typed

LEMMA InOrderIsList ==
    ASSUME NEW c \in Config, NEW defs \in Seq(Def)
    PROVE  InOrder(c, defs) \in Seq(Entry)
<1>1. c["static"] \in Seq(Def) /\ c["proxy"] \in Seq(Def)
    BY ConfigLists DEF Types
<1> QED
    BY <1>1, TypedList DEF InOrder, Types

LEMMA FullPositions ==
    ASSUME NEW c \in Config
    PROVE  /\ Full(c) \in Seq(Entry)
           /\ Len(Full(c)) = Size(c)
           /\ \A t \in Types : \A k \in DOMAIN c[t] :
                /\ Pos(c, t, k) \in 1..Len(Full(c))
                /\ Full(c)[Pos(c, t, k)] = [type |-> t, def |-> c[t][k]]
           /\ \A t, u \in Types : \A j \in DOMAIN c[t], k \in DOMAIN c[u] :
                Pos(c, t, j) = Pos(c, u, k) => t = u /\ j = k
           /\ \A i \in 1..Len(Full(c)) :
                \E t \in Types : \E k \in DOMAIN c[t] : i = Pos(c, t, k)
<1> DEFINE s == c["static"]
           b == c["bucket"]
           p == c["proxy"]
<1>1. /\ s \in Seq(Def) /\ Len(s) \in Nat /\ DOMAIN s = 1..Len(s)
      /\ b \in Seq(Def) /\ Len(b) \in Nat /\ DOMAIN b = 1..Len(b)
      /\ p \in Seq(Def) /\ Len(p) \in Nat /\ DOMAIN p = 1..Len(p)
    BY ConfigLists DEF Types
<1> HIDE DEF s, b, p
<1>2. /\ Typed("static", s) \in Seq(Entry) /\ Len(Typed("static", s)) = Len(s)
      /\ \A k \in 1..Len(s) : Typed("static", s)[k] = [type |-> "static", def |-> s[k]]
    BY <1>1, TypedList DEF Types
<1>3. /\ Typed("bucket", b) \in Seq(Entry) /\ Len(Typed("bucket", b)) = Len(b)
      /\ \A k \in 1..Len(b) : Typed("bucket", b)[k] = [type |-> "bucket", def |-> b[k]]
    BY <1>1, TypedList DEF Types
<1>4. /\ Typed("proxy", p) \in Seq(Entry) /\ Len(Typed("proxy", p)) = Len(p)
      /\ \A k \in 1..Len(p) : Typed("proxy", p)[k] = [type |-> "proxy", def |-> p[k]]
    BY <1>1, TypedList DEF Types
<1>5. Full(c) = Typed("static", s) \o Typed("bucket", b) \o Typed("proxy", p)
    BY DEF Full, InOrder, s, b, p
<1>6. /\ Full(c) \in Seq(Entry)
      /\ Len(Full(c)) = Len(s) + Len(b) + Len(p)
    <2>1. /\ Typed("static", s) \in Seq(Entry) /\ Len(Typed("static", s)) = Len(s)
          /\ Typed("bucket", b) \in Seq(Entry) /\ Len(Typed("bucket", b)) = Len(b)
          /\ Typed("proxy", p) \in Seq(Entry) /\ Len(Typed("proxy", p)) = Len(p)
        BY <1>2, <1>3, <1>4
    <2>2. /\ Typed("static", s) \o Typed("bucket", b) \in Seq(Entry)
          /\ Len(Typed("static", s) \o Typed("bucket", b))
                = Len(Typed("static", s)) + Len(Typed("bucket", b))
        BY <2>1, ConcatProperties, Zenon
    <2>3. /\ Full(c) \in Seq(Entry)
          /\ Len(Full(c)) = Len(Typed("static", s) \o Typed("bucket", b)) + Len(Typed("proxy", p))
        BY <1>5, <2>1, <2>2, ConcatProperties, Zenon
    <2> QED
        BY <2>1, <2>2, <2>3
<1>7. \A k \in 1..Len(s) : Full(c)[k] = [type |-> "static", def |-> s[k]]
    BY <1>1, <1>2, <1>3, <1>4, <1>5
<1>8. \A k \in 1..Len(b) : Full(c)[Len(s) + k] = [type |-> "bucket", def |-> b[k]]
    BY <1>1, <1>2, <1>3, <1>4, <1>5
<1>9. \A k \in 1..Len(p) : Full(c)[Len(s) + Len(b) + k] = [type |-> "proxy", def |-> p[k]]
    BY <1>1, <1>2, <1>3, <1>4, <1>5
<1>10. /\ \A k : Pos(c, "static", k) = k
       /\ \A k : Pos(c, "bucket", k) = Len(s) + k
       /\ \A k : Pos(c, "proxy", k) = Len(s) + Len(b) + k
    BY DEF Pos, s, b
<1>11. Types = {"static", "bucket", "proxy"}
    BY DEF Types
<1>12. Len(Full(c)) = Size(c)
    BY <1>6 DEF Size, s, b, p
<1>13. ASSUME NEW t \in Types, NEW k \in DOMAIN c[t]
       PROVE Pos(c, t, k) \in 1..Len(Full(c)) /\ Full(c)[Pos(c, t, k)] = [type |-> t, def |-> c[t][k]]
    <2>1. CASE t = "static"
        BY <2>1, <1>1, <1>6, <1>7, <1>10, <1>13 DEF s
    <2>2. CASE t = "bucket"
        BY <2>2, <1>1, <1>6, <1>8, <1>10, <1>13 DEF b
    <2>3. CASE t = "proxy"
        <3>1. k \in 1..Len(p)
            BY <1>1, <1>13, <2>3 DEF p
        <3>2. Full(c)[Pos(c, t, k)] = [type |-> t, def |-> p[k]]
            BY <1>9, <1>10, <2>3, <3>1
        <3>3. Pos(c, t, k) \in 1..Len(Full(c))
            BY <1>1, <1>6, <1>10, <2>3, <3>1
        <3> QED
            BY <2>3, <3>2, <3>3 DEF p
    <2> QED
        BY <1>11, <2>1, <2>2, <2>3
<1>14. ASSUME NEW t \in Types, NEW u \in Types, NEW j \in DOMAIN c[t], NEW k \in DOMAIN c[u],
              Pos(c, t, j) = Pos(c, u, k)
       PROVE t = u /\ j = k
    <2>1. t = u
        <3>1. [type |-> t, def |-> c[t][j]] = [type |-> u, def |-> c[u][k]]
            BY <1>13, <1>14
        <3> QED
            BY <3>1
    <2>2. j \in Nat /\ k \in Nat
        BY ConfigLists
    <2> QED
        BY <1>1, <1>10, <1>11, <1>14, <2>1, <2>2
<1>15. ASSUME NEW i \in 1..Len(Full(c))
       PROVE \E t \in Types : \E k \in DOMAIN c[t] : i = Pos(c, t, k)
    <2>1. CASE i <= Len(s)
        <3>1. i \in DOMAIN c["static"] /\ i = Pos(c, "static", i)
            BY <1>1, <1>10, <2>1 DEF s
        <3> QED
            BY <1>11, <3>1
    <2>2. CASE Len(s) < i /\ i <= Len(s) + Len(b)
        <3>1. (i - Len(s)) \in DOMAIN c["bucket"] /\ i = Pos(c, "bucket", i - Len(s))
            <4>1. (i - Len(s)) \in 1..Len(b) /\ i = Len(s) + (i - Len(s))
                BY <1>1, <2>2
            <4> QED
                BY <1>1, <1>10, <4>1 DEF b
        <3> QED
            BY <1>11, <3>1
    <2>3. CASE Len(s) + Len(b) < i
        <3>1. (i - (Len(s) + Len(b))) \in DOMAIN c["proxy"]
              /\ i = Pos(c, "proxy", i - (Len(s) + Len(b)))
            <4>1. (i - (Len(s) + Len(b))) \in 1..Len(p)
                  /\ i = Len(s) + Len(b) + (i - (Len(s) + Len(b)))
                BY <1>1, <1>6, <2>3
            <4> QED
                BY <1>1, <1>10, <4>1 DEF p
        <3> QED
            BY <1>11, <3>1
    <2> QED
        BY <1>1, <1>6, <2>1, <2>2, <2>3
<1> QED
    BY <1>6, <1>12, <1>13, <1>14, <1>15

LEMMA FullAt ==
    ASSUME NEW c \in Config, NEW t \in Types, NEW k \in DOMAIN c[t]
    PROVE  /\ Pos(c, t, k) \in 1..Len(Full(c))
           /\ Full(c)[Pos(c, t, k)].type = t
           /\ Full(c)[Pos(c, t, k)].def = c[t][k]
<1>1. Full(c)[Pos(c, t, k)] = [type |-> t, def |-> c[t][k]]
    BY FullPositions
<1>2. Pos(c, t, k) \in 1..Len(Full(c))
    BY FullPositions
<1> QED
    BY <1>1, <1>2

\* What start-up and reload add is what is configured.
LEMMA FullEntries ==
    ASSUME NEW c \in Config
    PROVE  /\ \A i \in 1..Len(Full(c)) :
                /\ Full(c)[i].type \in Types /\ Full(c)[i].def \in Def
                /\ Full(c)[i].def \in Range(c[Full(c)[i].type])
                /\ Full(c)[i].def.name \in AllNames(c)
           /\ \A t \in Types : \A d \in Range(c[t]) :
                \E i \in 1..Len(Full(c)) : Full(c)[i] = [type |-> t, def |-> d]
           /\ \A n \in AllNames(c) : \E i \in 1..Len(Full(c)) : Full(c)[i].def.name = n
<1>1. ASSUME NEW i \in 1..Len(Full(c))
      PROVE /\ Full(c)[i].type \in Types /\ Full(c)[i].def \in Def
            /\ Full(c)[i].def \in Range(c[Full(c)[i].type])
            /\ Full(c)[i].def.name \in AllNames(c)
    <2>1. PICK t \in Types : \E k \in DOMAIN c[t] : i = Pos(c, t, k)
        BY FullPositions
    <2>2. PICK k \in DOMAIN c[t] : i = Pos(c, t, k)
        BY <2>1
    <2>3. Full(c)[i] = [type |-> t, def |-> c[t][k]]
        BY <2>2, FullPositions
    <2>4. c[t][k] \in Def /\ c[t][k] \in Range(c[t])
        BY ConfigLists DEF Range
    <2>5. Full(c)[i].type = t /\ Full(c)[i].def = c[t][k]
        BY <2>3
    <2>6. Full(c)[i].def.name \in AllNames(c)
        BY <2>4, <2>5 DEF AllNames, NamesOf
    <2> QED
        BY <2>4, <2>5, <2>6
<1>2. ASSUME NEW t \in Types, NEW d \in Range(c[t])
      PROVE \E i \in 1..Len(Full(c)) : Full(c)[i] = [type |-> t, def |-> d]
    <2>1. PICK k \in DOMAIN c[t] : d = c[t][k]
        BY DEF Range
    <2> QED
        BY <2>1, FullPositions
<1>3. ASSUME NEW n \in AllNames(c) PROVE \E i \in 1..Len(Full(c)) : Full(c)[i].def.name = n
    <2>1. PICK t \in Types : \E d \in Range(c[t]) : n = d.name
        BY DEF AllNames, NamesOf
    <2>2. PICK k \in DOMAIN c[t] : n = c[t][k].name
        BY <2>1 DEF Range
    <2> QED
        BY <2>2, FullAt
<1> QED
    BY <1>1, <1>2, <1>3

LEMMA FullDistinct ==
    ASSUME NEW c \in Config
    PROVE  Distinct(c) <=>
            \A i, j \in 1..Len(Full(c)) : Full(c)[i].def.name = Full(c)[j].def.name => i = j
<1>1. ASSUME Distinct(c), NEW i \in 1..Len(Full(c)), NEW j \in 1..Len(Full(c)),
             Full(c)[i].def.name = Full(c)[j].def.name
      PROVE i = j
    <2>1. PICK t \in Types : \E k \in DOMAIN c[t] : i = Pos(c, t, k)
        BY FullPositions
    <2>2. PICK k \in DOMAIN c[t] : i = Pos(c, t, k)
        BY <2>1
    <2>3. PICK u \in Types : \E l \in DOMAIN c[u] : j = Pos(c, u, l)
        BY FullPositions
    <2>4. PICK l \in DOMAIN c[u] : j = Pos(c, u, l)
        BY <2>3
    <2>5. c[t][k].name = c[u][l].name
        BY <1>1, <2>2, <2>4, FullAt
    <2>6. t = u /\ k = l
        BY <1>1, <2>5 DEF Distinct
    <2> QED
        BY <2>2, <2>4, <2>6
<1>2. ASSUME \A i, j \in 1..Len(Full(c)) : Full(c)[i].def.name = Full(c)[j].def.name => i = j
      PROVE Distinct(c)
    <2> SUFFICES ASSUME NEW t \in Types, NEW u \in Types,
                        NEW i \in DOMAIN c[t], NEW j \in DOMAIN c[u], c[t][i].name = c[u][j].name
                 PROVE  t = u /\ i = j
        BY DEF Distinct
    <2>1. /\ Full(c)[Pos(c, t, i)].def = c[t][i] /\ Pos(c, t, i) \in 1..Len(Full(c))
          /\ Full(c)[Pos(c, u, j)].def = c[u][j] /\ Pos(c, u, j) \in 1..Len(Full(c))
        BY FullAt
    <2>2. Pos(c, t, i) = Pos(c, u, j)
        BY <1>2, <2>1
    <2> QED
        BY <2>2, FullPositions
<1> QED
    BY <1>1, <1>2

\* Of two services of one name in a configuration without duplicates there is one.
LEMMA DistinctNames ==
    ASSUME NEW c \in Config, Distinct(c), NEW t \in Types, NEW u \in Types,
           NEW d \in Range(c[t]), NEW e \in Range(c[u]), d.name = e.name
    PROVE  t = u /\ d = e
<1>1. PICK i \in DOMAIN c[t] : d = c[t][i]
    BY DEF Range
<1>2. PICK j \in DOMAIN c[u] : e = c[u][j]
    BY DEF Range
<1> QED
    BY <1>1, <1>2 DEF Distinct

LEMMA ConfigNames ==
    ASSUME NEW c \in Config
    PROVE  /\ AllNames(c) \subseteq Names
           /\ \A t \in Types : \A d \in Range(c[t]) :
                d \in Def /\ d.name \in Names /\ d.name \in AllNames(c) /\ d.name \in NamesOf(c[t])
           /\ \A n : n \in AllNames(c) <=> \E t \in Types : \E d \in Range(c[t]) : d.name = n
           /\ \A n : \A t \in Types : n \in NamesOf(c[t]) <=> \E d \in Range(c[t]) : d.name = n
<1>1. \A t \in Types : Range(c[t]) \subseteq Def
    BY ConfigLists
<1>2. \A d \in Def : d.name \in Names
    BY DEF Def
<1> QED
    BY <1>1, <1>2 DEF AllNames, NamesOf

-----------------------------------------------------------------------------
(* What a request makes of a configuration.                                *)

\* One list of c is replaced.
LEMMA Replaced ==
    ASSUME NEW c \in Config, NEW t \in Types, NEW defs \in Seq(Def)
    PROVE  /\ [c EXCEPT ![t] = defs] \in Config
           /\ [c EXCEPT ![t] = defs][t] = defs
           /\ \A u \in Types : u # t => [c EXCEPT ![t] = defs][u] = c[u]
BY DEF Config

LEMMA Appended ==
    ASSUME NEW c \in Config, NEW t \in Types, NEW d \in Def, NEW n \in Config,
           n[t] = Append(c[t], d), \A u \in Types : u # t => n[u] = c[u]
    PROVE  /\ \A x : x \in Range(n[t]) <=> x \in Range(c[t]) \/ x = d
           /\ Distinct(c) /\ d.name \notin AllNames(c) => Distinct(n)
<1>1. c \in [Types -> Seq(Def)] /\ c[t] \in Seq(Def) /\ Len(c[t]) \in Nat
      /\ DOMAIN c[t] = 1..Len(c[t])
    BY ConfigLists DEF Config
<1>2. /\ Append(c[t], d) \in Seq(Def)
      /\ DOMAIN Append(c[t], d) = 1..(Len(c[t]) + 1)
      /\ \A i \in 1..Len(c[t]) : Append(c[t], d)[i] = c[t][i]
      /\ Append(c[t], d)[Len(c[t]) + 1] = d
    BY <1>1
<1>3. n \in Config /\ n[t] = Append(c[t], d) /\ \A u \in Types : u # t => n[u] = c[u]
    OBVIOUS
<1>4. \A x : x \in Range(n[t]) <=> x \in Range(c[t]) \/ x = d
    <2>1. \A x \in Range(n[t]) : x \in Range(c[t]) \cup {d}
        BY <1>1, <1>2, <1>3 DEF Range
    <2>2. \A x \in Range(c[t]) \cup {d} : x \in Range(n[t])
        <3>1. d \in Range(n[t])
            <4>1. (Len(c[t]) + 1) \in DOMAIN n[t] /\ n[t][Len(c[t]) + 1] = d
                BY <1>1, <1>2, <1>3
            <4> QED
                BY <4>1 DEF Range
        <3>2. \A i \in DOMAIN c[t] : c[t][i] \in Range(n[t])
            BY <1>1, <1>2, <1>3 DEF Range
        <3> QED
            BY <3>1, <3>2 DEF Range
    <2> QED
        BY <2>1, <2>2
<1>5. ASSUME Distinct(c), d.name \notin AllNames(c) PROVE Distinct(n)
    <2> SUFFICES ASSUME NEW v \in Types, NEW u \in Types, NEW i \in DOMAIN n[v],
                        NEW j \in DOMAIN n[u], n[v][i].name = n[u][j].name
                 PROVE  v = u /\ i = j
        BY DEF Distinct
    <2>1. ASSUME NEW w \in Types, NEW k \in DOMAIN n[w]
          PROVE (k \in DOMAIN c[w] /\ n[w][k] = c[w][k] /\ c[w][k].name # d.name)
                \/ (w = t /\ k = Len(c[t]) + 1 /\ n[w][k] = d)
        <3>1. ASSUME NEW l \in DOMAIN c[w] PROVE c[w][l].name # d.name
            BY <1>5, ConfigNames DEF Range
        <3>2. CASE w # t
            BY <1>3, <3>1, <3>2
        <3>3. CASE w = t
            <4>1. k \in 1..(Len(c[t]) + 1)
                BY <1>2, <1>3, <3>3
            <4> QED
                BY <1>1, <1>2, <1>3, <3>1, <3>3, <4>1
        <3> QED
            BY <3>2, <3>3
    <2> QED
        BY <1>5, <2>1 DEF Distinct
<1> QED
    BY <1>4, <1>5

LEMMA WithoutName ==
    ASSUME NEW defs \in Seq(Def), NEW name
    PROVE  /\ Without(defs, name) \in Seq(Def)
           /\ Range(Without(defs, name)) = {d \in Range(defs) : d.name # name}
           /\ name \notin NamesOf(defs) => Without(defs, name) = defs
           /\ \A i, j \in DOMAIN Without(defs, name) :
                /\ Without(defs, name)[i] \in Range(defs)
                /\ (\A k, l \in DOMAIN defs : defs[k].name = defs[l].name => k = l)
                        /\ Without(defs, name)[i].name = Without(defs, name)[j].name
                    => i = j
<1> DEFINE kept == {i \in DOMAIN defs : defs[i].name # name}
           C == Cardinality(kept)
<1>1. kept \in SUBSET DOMAIN defs /\ Len(defs) \in Nat /\ DOMAIN defs = 1..Len(defs)
    OBVIOUS
<1>2. Without(defs, name) = Kept(defs, kept)
    BY DEF Without
<1>3. C \in Nat
    BY <1>1, KeptPositions
<1>4. Without(defs, name) \in Seq(Def)
      /\ Range(Without(defs, name)) = {defs[k] : k \in kept}
    BY <1>1, <1>2, KeptEntries
<1>5. {defs[k] : k \in kept} = {d \in Range(defs) : d.name # name}
    BY DEF Range
<1>6. ASSUME name \notin NamesOf(defs) PROVE Without(defs, name) = defs
    <2>1. kept = DOMAIN defs
        BY <1>6 DEF NamesOf, Range
    <2> QED
        BY <1>2, <2>1, KeptAll
<1> HIDE DEF kept
<1>7. PICK at \in [1..C -> kept] :
        /\ Kept(defs, kept) = [i \in 1..C |-> defs[at[i]]]
        /\ \A i, j \in 1..C : i < j => at[i] < at[j]
    BY <1>1, KeptInOrder
<1>8. ASSUME NEW i \in DOMAIN Without(defs, name), NEW j \in DOMAIN Without(defs, name)
      PROVE  /\ Without(defs, name)[i] \in Range(defs)
             /\ (\A k, l \in DOMAIN defs : defs[k].name = defs[l].name => k = l)
                        /\ Without(defs, name)[i].name = Without(defs, name)[j].name
                    => i = j
    <2>1. i \in 1..C /\ j \in 1..C
        BY <1>2, <1>7
    <2>2. at[i] \in DOMAIN defs /\ at[j] \in DOMAIN defs
          /\ Without(defs, name)[i] = defs[at[i]] /\ Without(defs, name)[j] = defs[at[j]]
        BY <1>1, <1>2, <1>7, <2>1
    <2>3. at[i] = at[j] => i = j
        <3>1. at[i] \in Nat /\ at[j] \in Nat /\ i \in Nat /\ j \in Nat
            BY <1>1, <1>3, <2>1, <2>2
        <3>2. ~(i < j /\ at[i] = at[j]) /\ ~(j < i /\ at[i] = at[j])
            BY <1>7, <2>1, <3>1
        <3> QED
            BY <3>1, <3>2
    <2> QED
        BY <2>2, <2>3 DEF Range
<1> QED
    BY <1>4, <1>5, <1>6, <1>8

LEMMA Shortened ==
    ASSUME NEW c \in Config, NEW t \in Types, NEW name, NEW n \in Config,
           n[t] = Without(c[t], name), \A u \in Types : u # t => n[u] = c[u]
    PROVE  /\ \A d : d \in Range(n[t]) <=> d \in Range(c[t]) /\ d.name # name
           /\ name \notin NamesOf(c[t]) => n = c
           /\ Distinct(c) => Distinct(n)
<1>1. c \in [Types -> Seq(Def)] /\ c[t] \in Seq(Def)
    BY ConfigLists DEF Config
<1>2. n \in [Types -> Seq(Def)]
    BY DEF Config
<1>3. n[t] = Without(c[t], name) /\ \A u \in Types : u # t => n[u] = c[u]
    OBVIOUS
<1>4. \A d : d \in Range(n[t]) <=> d \in Range(c[t]) /\ d.name # name
    BY <1>1, <1>3, WithoutName
<1>5. name \notin NamesOf(c[t]) => n = c
    <2>1. ASSUME name \notin NamesOf(c[t]) PROVE \A u \in Types : n[u] = c[u]
        BY <1>1, <1>3, <2>1, WithoutName
    <2> QED
        BY <1>1, <1>2, <2>1
<1>6. ASSUME Distinct(c) PROVE Distinct(n)
    <2> SUFFICES ASSUME NEW v \in Types, NEW u \in Types, NEW i \in DOMAIN n[v],
                        NEW j \in DOMAIN n[u], n[v][i].name = n[u][j].name
                 PROVE  v = u /\ i = j
        BY DEF Distinct
    <2>1. ASSUME NEW w \in Types, NEW k \in DOMAIN n[w] PROVE n[w][k] \in Range(c[w])
        <3>1. CASE w = t
            BY <1>1, <1>3, <2>1, <3>1, WithoutName
        <3>2. CASE w # t
            BY <1>3, <2>1, <3>2 DEF Range
        <3> QED
            BY <3>1, <3>2
    <2>2. v = u
        BY <1>6, <2>1, DistinctNames
    <2>3. i = j
        <3>1. CASE v = t
            <4>1. \A k, l \in DOMAIN c[t] : c[t][k].name = c[t][l].name => k = l
                BY <1>6 DEF Distinct
            <4> QED
                BY <1>1, <1>3, <2>2, <3>1, <4>1, WithoutName
        <3>2. CASE v # t
            BY <1>3, <1>6, <2>2, <3>2 DEF Distinct
        <3> QED
            BY <3>1, <3>2
    <2> QED
        BY <2>2, <2>3
<1> QED
    BY <1>4, <1>5, <1>6

LEMMA FirstOfEach ==
    ASSUME NEW defs \in Seq(Def)
    PROVE  /\ FirstOfEachName(defs) \in Seq(Def)
           /\ (\A i, j \in DOMAIN defs : defs[i].name = defs[j].name => i = j)
                => FirstOfEachName(defs) = defs
<1> DEFINE kept == {i \in DOMAIN defs : \A j \in 1..(i - 1) : defs[j].name # defs[i].name}
<1>1. kept \in SUBSET DOMAIN defs /\ Len(defs) \in Nat /\ DOMAIN defs = 1..Len(defs)
    OBVIOUS
<1>2. FirstOfEachName(defs) = Kept(defs, kept)
    BY DEF FirstOfEachName
<1>3. FirstOfEachName(defs) \in Seq(Def)
    BY <1>1, <1>2, KeptEntries
<1>4. ASSUME \A i, j \in DOMAIN defs : defs[i].name = defs[j].name => i = j
      PROVE  FirstOfEachName(defs) = defs
    <2>1. ASSUME NEW i \in DOMAIN defs, NEW j \in 1..(i - 1) PROVE defs[j].name # defs[i].name
        <3>1. j \in DOMAIN defs /\ j # i
            BY <1>1
        <3> QED
            BY <1>4, <3>1
    <2>2. kept = DOMAIN defs
        BY <2>1
    <2> QED
        BY <1>2, <2>2, KeptAll
<1> QED
    BY <1>3, <1>4

-----------------------------------------------------------------------------
(* Every reachable state is typed.                                         *)

LEMMA RequestFields ==
    ASSUME NEW r \in Requests
    PROVE  /\ r.kind \in {"add", "remove"} /\ r.st \in {"save", "call", "rollback"}
           /\ r.old \in Config /\ r.next \in Config /\ r.call \in Calls
           /\ \A st \in {"save", "call", "rollback"} :
                LET q == [r EXCEPT !.st = st]
                IN  /\ q \in Requests /\ q.st = st /\ q.kind = r.kind /\ q.old = r.old
                    /\ q.next = r.next /\ q.call = r.call /\ q.before = r.before
BY DEF Requests

LEMMA ReloadFields ==
    ASSUME NEW r \in Reloads
    PROVE  /\ r.st \in {"rebind", "list", "apply"} /\ r.next \in Config
           /\ r.drop \in SUBSET [type : Types, name : Names] /\ r.load \in Seq(Entry)
BY DEF Reloads

LEMMA TypeFacts ==
    ASSUME TypeInv
    PROVE  /\ file \in Config \cup {Corrupt} /\ cfg \in Config
           /\ registry \in [DOMAIN registry -> Registered] /\ DOMAIN registry \subseteq Names
           /\ buckets \subseteq Names /\ proxies \subseteq Names /\ checks \subseteq Names
           /\ phase \in {"down", "starting", "up", "dead"}
           /\ budget \in [edit: Nat, crash: Nat, save: Nat, rebind: Nat]
           /\ runtime \in Runtimes
<1>1. registry \in Registries
    BY DEF TypeInv, TypeOK, Registries
<1> QED
    BY <1>1 DEF TypeInv, TypeOK, Runtimes, runtime

LEMMA TypesInit == Init => TypeInv
<1> SUFFICES ASSUME Init PROVE TypeInv
    OBVIOUS
<1> USE DEF Init
<1>1. op = NoOp /\ call = NoCall /\ phase = "down"
    OBVIOUS
<1>2. op.kind = "none" /\ call.fn = "none"
    BY KindsOf, CallKinds
<1>3. Empty \in Config
    <2>1. <<>> \in Seq(Def)
        OBVIOUS
    <2> QED
        BY <2>1 DEF Empty, Config
<1>4. registry \in [DOMAIN registry -> Registered] /\ DOMAIN registry = {}
    BY DEF Nothing
<1>5. TypeOK
    <2>1. budget \in [edit: Nat, crash: Nat, save: Nat, rebind: Nat]
        BY ServicesAssumption
    <2>2. file \in Config
        BY ServicesAssumption
    <2> QED
        BY <1>1, <1>2, <1>3, <1>4, <2>1, <2>2 DEF TypeOK
<1>6. op \notin Reloads /\ op \notin Requests
    BY <1>2, KindsOf
<1>7. DropInv /\ CallInv /\ PhaseInv
    BY <1>1, <1>6 DEF DropInv, CallInv, PhaseInv
<1> QED
    BY <1>1, <1>4, <1>5, <1>7 DEF TypeInv

\* What has to be shown of a step.
LEMMA TypesFrom ==
    ASSUME (file \in Config \cup {Corrupt})', (cfg \in Config)',
           (budget \in [edit: Nat, crash: Nat, save: Nat, rebind: Nat])',
           (phase \in {"down", "starting", "up", "dead"})',
           (registry \in [DOMAIN registry -> Registered])', (DOMAIN registry \subseteq Names)',
           (buckets \subseteq Names)', (proxies \subseteq Names)', (checks \subseteq Names)',
           (op \in {NoOp} \cup Requests \cup Reloads \cup Starts)',
           (call \in {NoCall} \cup Calls)',
           DropInv', CallInv', PhaseInv'
    PROVE  TypeInv'
<1>1. op'.kind \in {"none", "add", "remove", "reload", "start"}
    BY KindsOf
<1>2. call'.fn \in {"none", "add", "remove", "update"}
    BY CallKinds
<1>3. \A n \in DOMAIN registry' : registry'[n] \in [type: Types, label: Labels]
    BY DEF Registered
<1>4. TypeOK'
    BY <1>1, <1>2, <1>3 DEF TypeOK
<1> QED
    BY <1>4 DEF TypeInv

LEMMA TypesCall ==
    ASSUME TypeInv, CallStep
    PROVE  TypeInv'
<1>1. /\ UNCHANGED <<disk, phase, cfg, op>> /\ call \in Calls /\ call' \in Calls
      /\ call'.fn = call.fn /\ call'.def = call.def
    BY CallStepMoves
<1>2. call # NoCall /\ call' # NoCall
    BY <1>1, CallKinds
<1>3. UNCHANGED <<file, budget>>
    BY <1>1 DEF disk
<1>4. CallInv' /\ PhaseInv'
    BY <1>1, <1>2 DEF TypeInv, CallInv, PhaseInv
<1>5. DropInv'
    <2>1. ASSUME op \in Reloads, NEW e \in op.drop
          PROVE /\ e.name \in DOMAIN registry' /\ registry'[e.name].type = e.type
                /\ call'.def.name # e.name
        <3>1. e.name \in DOMAIN registry /\ registry[e.name].type = e.type
              /\ call.def.name # e.name
            BY <1>2, <2>1 DEF TypeInv, DropInv
        <3>2. Same(e.name)
            BY <3>1, CallStepFrame
        <3> QED
            BY <1>1, <3>1, <3>2 DEF Same
    <2> QED
        BY <1>1, <1>2, <2>1 DEF TypeInv, DropInv
<1>6. op' \in {NoOp} \cup Requests \cup Reloads \cup Starts
    BY <1>1 DEF TypeInv
<1> QED
    BY <1>1, <1>3, <1>4, <1>5, <1>6, TypeFacts, CallStepTypes, TypesFrom

LEMMA TypesRequest ==
    ASSUME TypeInv, RequestStep
    PROVE  TypeInv'
<1>1. op.kind \in {"add", "remove"} /\ op \in Requests /\ phase = "up"
    <2>1. op.kind \in {"add", "remove"}
        BY DEF RequestStep, SaveNext, SaveFails, Commit, CallFails, Rollback
    <2> QED
        BY <2>1, Kinds DEF TypeInv, PhaseInv
<1>2. op.st \in {"save", "rollback"} => call = NoCall
    BY <1>1 DEF TypeInv, CallInv
<1>3. op.old \in Config /\ op.next \in Config /\ op.call \in Calls /\ op.call # NoCall
    BY <1>1, RequestFields, CallKinds
<1>4. /\ UNCHANGED <<phase, registry, buckets, proxies, checks>>
      /\ (op' = NoOp /\ call' = NoCall) \/ (op' = [op EXCEPT !.st = "call"] /\ call' = op.call)
            \/ (op' = [op EXCEPT !.st = "rollback"] /\ call' = NoCall)
    BY <1>2 DEF RequestStep, SaveNext, SaveFails, Commit, CallFails, Rollback, runtime
<1>5. /\ file' \in Config \cup {Corrupt} /\ cfg' \in Config
      /\ budget' \in [edit: Nat, crash: Nat, save: Nat, rebind: Nat]
    <2>1. /\ file' \in {file, op.next, op.old} /\ cfg' \in {cfg, op.next}
          /\ (budget' = budget \/ (budget.save > 0 /\ budget' = [budget EXCEPT !.save = @ - 1]))
        BY DEF RequestStep, SaveNext, SaveFails, Commit, CallFails, Rollback, disk
    <2>2. budget \in [edit: Nat, crash: Nat, save: Nat, rebind: Nat]
        BY TypeFacts
    <2>3. budget.save > 0 => [budget EXCEPT !.save = @ - 1]
                                \in [edit: Nat, crash: Nat, save: Nat, rebind: Nat]
        BY <2>2
    <2> QED
        BY <1>3, <2>1, <2>2, <2>3, TypeFacts
<1>6. /\ op' = NoOp \/ (op' \in Requests /\ (op'.st \in {"save", "rollback"} => call' = NoCall))
      /\ call' \in {NoCall} \cup Calls
      /\ op' = NoOp => call' = NoCall
    <2>1. CASE op' = NoOp /\ call' = NoCall
        BY <2>1
    <2>2. CASE op' = [op EXCEPT !.st = "call"] /\ call' = op.call
        <3>1. op' \in Requests /\ op'.st = "call"
            BY <1>1, <2>2, RequestFields
        <3>2. op' # NoOp
            BY <3>1, KindsOf
        <3> QED
            BY <1>3, <2>2, <3>1, <3>2
    <2>3. CASE op' = [op EXCEPT !.st = "rollback"] /\ call' = NoCall
        <3>1. op' \in Requests
            BY <1>1, <2>3, RequestFields
        <3> QED
            BY <2>3, <3>1
    <2> QED
        BY <1>4, <2>1, <2>2, <2>3
<1>7. op' \in {NoOp} \cup Requests \cup Reloads \cup Starts
    BY <1>6
<1>8. op' \notin Reloads /\ op' \notin Starts
    BY <1>6, <1>7, KindsOf
<1>9. DropInv' /\ CallInv' /\ PhaseInv'
    BY <1>1, <1>4, <1>6, <1>8 DEF DropInv, CallInv, PhaseInv
<1> QED
    BY <1>4, <1>5, <1>6, <1>7, <1>9, TypeFacts, TypesFrom

LEMMA TypesReload ==
    ASSUME TypeInv, ReloadStep
    PROVE  TypeInv'
<1>1. op \in Reloads /\ phase = "up" /\ op # NoOp /\ op \notin Requests /\ op \notin Starts
    <2>1. op.kind = "reload"
        BY DEF ReloadStep, RebindFails, Adopt, ListRegistry, DropOne, LoadOne, ReloadReturns,
               EndReload
    <2> QED
        BY <2>1, Kinds DEF TypeInv, PhaseInv
<1>2. /\ op.st \in {"rebind", "list", "apply"} /\ op.next \in Config
      /\ op.drop \in SUBSET [type : Types, name : Names] /\ op.load \in Seq(Entry)
    BY <1>1, ReloadFields
<1>3. /\ op.st \in {"rebind", "list"} => call = NoCall
      /\ \A e \in op.drop : e.name \in DOMAIN registry /\ registry[e.name].type = e.type
      /\ \A e \in op.drop : call = NoCall \/ call.def.name # e.name
      /\ op.drop # {} => call = NoCall \/ call.fn = "remove"
      /\ call \in {NoCall} \cup Calls
    BY <1>1 DEF TypeInv, CallInv, DropInv
<1>4. /\ UNCHANGED <<file, phase, registry, buckets, proxies, checks>>
      /\ cfg' \in {cfg, op.next}
      /\ budget' = budget \/ (budget.rebind > 0 /\ budget' = [budget EXCEPT !.rebind = @ - 1])
    BY DEF ReloadStep, RebindFails, Adopt, ListRegistry, DropOne, LoadOne, ReloadReturns,
           EndReload, runtime, disk
<1>5. budget' \in [edit: Nat, crash: Nat, save: Nat, rebind: Nat]
    <2>1. budget \in [edit: Nat, crash: Nat, save: Nat, rebind: Nat]
        BY TypeFacts
    <2> QED
        BY <1>4, <2>1
\* What remains to be shown, of each step.
<1> DEFINE Ends == op' = NoOp /\ call' = NoCall
           Goes ==
                /\ op' \in Reloads /\ call' \in {NoCall} \cup Calls
                /\ op'.st \in {"rebind", "list"} => call' = NoCall
                /\ \A e \in op'.drop : e.name \in DOMAIN registry /\ registry[e.name].type = e.type
                /\ \A e \in op'.drop : call' = NoCall \/ call'.def.name # e.name
                /\ op'.drop # {} => call' = NoCall \/ call'.fn = "remove"
<1>6. ASSUME Ends \/ Goes PROVE TypeInv'
    <2>1. op' \in {NoOp} \cup Requests \cup Reloads \cup Starts
        BY <1>6
    <2>2. op' \notin Requests /\ op' \notin Starts /\ (op' \in Reloads => op' # NoOp)
        BY <1>6, <2>1, KindsOf
    <2>3. call' \in {NoCall} \cup Calls
        BY <1>6
    <2>4. DropInv'
        BY <1>4, <1>6, <2>2 DEF DropInv
    <2>5. CallInv' /\ PhaseInv'
        BY <1>1, <1>4, <1>6, <2>2 DEF CallInv, PhaseInv
    <2> QED
        BY <1>2, <1>4, <1>5, <2>1, <2>3, <2>4, <2>5, TypeFacts, TypesFrom
<1>7. CASE RebindFails
    <2>1. Ends
        BY <1>3, <1>7 DEF RebindFails
    <2> QED
        BY <1>6, <2>1
<1>8. CASE Adopt
    <2>1. op' = [op EXCEPT !.st = "list"] /\ call' = call /\ call = NoCall
        BY <1>3, <1>8 DEF Adopt
    <2>2. op' \in Reloads /\ op'.drop = op.drop
        BY <1>1, <2>1 DEF Reloads
    <2>3. Goes
        BY <1>3, <2>1, <2>2
    <2> QED
        BY <1>6, <2>3
<1>9. CASE ListRegistry
    <2> DEFINE drop == {[type |-> registry[n].type, name |-> n] :
                            n \in {m \in DOMAIN registry : ~Stays(m, op.next)}}
               load == InOrder(op.next, FirstOfEachName(op.next["bucket"]))
    <2>1. drop \in SUBSET [type : Types, name : Names]
        BY TypeFacts DEF Registered
    <2>2. load \in Seq(Entry)
        BY <1>2, ConfigLists, FirstOfEach, InOrderIsList DEF Types
    <2>3. op' = [op EXCEPT !.st = "apply", !.drop = drop, !.load = load]
          /\ call' = call /\ call = NoCall
        BY <1>3, <1>9 DEF ListRegistry
    <2>4. \A e \in drop : e.name \in DOMAIN registry /\ registry[e.name].type = e.type
        OBVIOUS
    <2> HIDE DEF drop, load
    <2>5. op' \in Reloads /\ op'.drop = drop
        BY <1>1, <2>1, <2>2, <2>3 DEF Reloads
    <2>6. Goes
        BY <2>3, <2>4, <2>5
    <2> QED
        BY <1>6, <2>6
<1>10. CASE DropOne
    <2>1. PICK e \in op.drop :
            /\ op' = [op EXCEPT !.drop = @ \ {e}]
            /\ call' = Call("remove", e.type,
                        [name |-> e.name, label |-> registry[e.name].label, check |-> FALSE],
                        "uncheck")
        BY <1>10 DEF DropOne
    <2>2. op' \in Reloads /\ op'.drop = op.drop \ {e} /\ op'.st = op.st
        BY <1>1, <2>1 DEF Reloads
    <2> DEFINE d == [name |-> e.name, label |-> registry[e.name].label, check |-> FALSE]
    <2>3. e \in [type : Types, name : Names] /\ e.name \in DOMAIN registry
          /\ registry[e.name].type = e.type
        BY <1>2, <1>3
    <2>4. registry[e.name] \in Registered
        BY <2>3, TypeFacts
    <2>5. e.type \in Types /\ d \in Def /\ d.name = e.name
        BY <2>3, <2>4 DEF Registered, Def
    <2>6. call' \in Calls /\ call'.fn = "remove" /\ call'.def = d
        BY <2>1, <2>5, MadeCall
    <2>7. ASSUME NEW f \in op'.drop PROVE f.name # e.name
        <3>1. f \in op.drop /\ f # e /\ f \in [type : Types, name : Names]
            BY <1>2, <2>2
        <3>2. f.type = registry[f.name].type
            BY <1>3, <3>1
        <3> QED
            BY <2>3, <3>1, <3>2
    <2>8. op.st = "apply"
        BY <1>10 DEF DropOne
    <2>9. Goes
        BY <1>3, <2>2, <2>5, <2>6, <2>7, <2>8
    <2> QED
        BY <1>6, <2>9
<1>11. CASE LoadOne
    <2>1. op.load # <<>> /\ op.drop = {} /\ op.st = "apply" /\ op' = [op EXCEPT !.load = Tail(@)]
        BY <1>11 DEF LoadOne
    <2>2. Head(op.load) \in Entry /\ Tail(op.load) \in Seq(Entry)
        BY <1>2, <2>1
    <2>3. op' \in Reloads /\ op'.drop = {} /\ op'.st = op.st
        BY <1>1, <2>1, <2>2 DEF Reloads
    <2> DEFINE e == Head(op.load)
    <2>4. e.type \in Types /\ e.def \in Def
        BY <2>2 DEF Entry
    <2>5. call' = Call("update", "bucket", e.def, "reg") \/ call' = Call("add", e.type, e.def, "store")
        BY <1>11 DEF LoadOne
    <2> HIDE DEF e
    <2>6. call' \in Calls
        BY <2>4, <2>5, MadeCall DEF Types
    <2>7. Goes
        BY <2>1, <2>3, <2>6
    <2> QED
        BY <1>6, <2>7
<1>12. CASE ReloadReturns
    <2>1. call' = NoCall /\ op' = op
        BY <1>12 DEF ReloadReturns
    <2>2. Goes
        BY <1>1, <1>3, <2>1
    <2> QED
        BY <1>6, <2>2
<1>13. CASE EndReload
    <2>1. Ends
        BY <1>13 DEF EndReload
    <2> QED
        BY <1>6, <2>1
<1> QED
    BY <1>7, <1>8, <1>9, <1>10, <1>11, <1>12, <1>13 DEF ReloadStep

LEMMA StartFields ==
    ASSUME NEW r \in Starts
    PROVE  r.kind = "start" /\ r.load \in Seq(Entry)
BY DEF Starts

LEMMA Cleared ==
    ASSUME ClearRuntime
    PROVE  /\ phase' = "down" /\ cfg' = Empty /\ cfg' \in Config /\ op' = NoOp /\ call' = NoCall
           /\ registry' \in [DOMAIN registry' -> Registered] /\ DOMAIN registry' = {}
           /\ buckets' = {} /\ proxies' = {} /\ checks' = {}
           /\ DropInv' /\ CallInv' /\ PhaseInv'
<1>1. /\ phase' = "down" /\ cfg' = Empty /\ op' = NoOp /\ call' = NoCall
      /\ registry' = Nothing /\ buckets' = {} /\ proxies' = {} /\ checks' = {}
    BY DEF ClearRuntime
<1>2. registry' \in [DOMAIN registry' -> Registered] /\ DOMAIN registry' = {}
    BY <1>1 DEF Nothing
<1>3. Empty \in Config
    <2>1. <<>> \in Seq(Def)
        OBVIOUS
    <2> QED
        BY <2>1 DEF Empty, Config
<1>4. op'.kind = "none"
    BY <1>1, KindsOf
<1>5. op' \notin Requests /\ op' \notin Reloads
    BY <1>4, KindsOf
<1>6. DropInv' /\ CallInv' /\ PhaseInv'
    BY <1>1, <1>5 DEF DropInv, CallInv, PhaseInv
<1> QED
    BY <1>1, <1>2, <1>3, <1>6

\* Nothing is under way while the process is down or starts.
LEMMA StartingOp ==
    ASSUME TypeInv, phase = "starting"
    PROVE  op \in Starts /\ op \notin Requests /\ op \notin Reloads /\ op # NoOp
<1>1. op \in Starts
    BY DEF TypeInv, PhaseInv
<1> QED
    BY <1>1, KindsOf

LEMMA TypesProcess ==
    ASSUME TypeInv, Process \/ Crash
    PROVE  TypeInv'
<1>1. CASE Boot /\ file = Corrupt
    <2>1. phase = "down" /\ phase' = "dead" /\ UNCHANGED <<disk, cfg, op, runtime, call>>
        BY <1>1 DEF Boot
    <2>2. op = NoOp /\ call = NoCall
        BY <2>1 DEF TypeInv, PhaseInv, CallInv
    <2>3. op \notin Requests /\ op \notin Reloads
        BY <2>2, KindsOf
    <2>4. DropInv' /\ CallInv' /\ PhaseInv'
        BY <2>1, <2>2, <2>3 DEF DropInv, CallInv, PhaseInv
    <2> QED
        BY <2>1, <2>2, <2>4, TypeFacts, TypesFrom DEF disk, runtime
<1>2. CASE Boot /\ file # Corrupt
    <2>1. phase = "down" /\ phase' = "starting" /\ UNCHANGED <<disk, runtime, call>>
          /\ cfg' = file /\ op' = [kind |-> "start", load |-> InOrder(file, file["bucket"])]
        BY <1>2 DEF Boot
    <2>2. file \in Config
        BY <1>2, TypeFacts
    <2>3. file["bucket"] \in Seq(Def)
        BY <2>2, ConfigLists DEF Types
    <2>4. op' \in Starts
        BY <2>1, <2>2, <2>3, InOrderIsList DEF Starts
    <2>5. op' \notin Requests /\ op' \notin Reloads /\ op' # NoOp
        BY <2>4, KindsOf
    <2>6. call = NoCall
        BY <2>1 DEF TypeInv, PhaseInv, CallInv
    <2>7. DropInv' /\ CallInv' /\ PhaseInv'
        BY <2>1, <2>4, <2>5, <2>6 DEF DropInv, CallInv, PhaseInv
    <2> QED
        BY <2>1, <2>2, <2>4, <2>6, <2>7, TypeFacts, TypesFrom DEF disk, runtime
<1>3. CASE StartOne
    <2>1. phase = "starting" /\ op.load # <<>> /\ op' = [op EXCEPT !.load = Tail(@)]
          /\ call' = Call("add", Head(op.load).type, Head(op.load).def, "store")
          /\ UNCHANGED <<disk, phase, cfg, runtime>>
        BY <1>3 DEF StartOne
    <2>2. op \in Starts
        BY <2>1, StartingOp
    <2>3. Head(op.load) \in Entry /\ Tail(op.load) \in Seq(Entry)
        BY <2>1, <2>2, StartFields
    <2>4. Head(op.load).type \in Types /\ Head(op.load).def \in Def
        BY <2>3 DEF Entry
    <2>5. call' \in Calls
        BY <2>1, <2>4, MadeCall
    <2>6. op' \in Starts
        BY <2>1, <2>2, <2>3 DEF Starts
    <2>7. op' \notin Requests /\ op' \notin Reloads /\ op' # NoOp
        BY <2>6, KindsOf
    <2>8. DropInv' /\ CallInv' /\ PhaseInv'
        BY <2>1, <2>6, <2>7 DEF DropInv, CallInv, PhaseInv
    <2> QED
        BY <2>1, <2>5, <2>6, <2>8, TypeFacts, TypesFrom DEF disk, runtime
<1>4. CASE StartReturns
    <2>1. phase = "starting" /\ phase' \in {"starting", "dead"} /\ call' = NoCall
          /\ UNCHANGED <<disk, cfg, runtime, op>>
        BY <1>4 DEF StartReturns
    <2>2. op \in Starts /\ op \notin Requests /\ op \notin Reloads /\ op # NoOp
        BY <2>1, StartingOp
    <2>3. DropInv' /\ CallInv' /\ PhaseInv'
        BY <2>1, <2>2 DEF DropInv, CallInv, PhaseInv
    <2> QED
        BY <2>1, <2>2, <2>3, TypeFacts, TypesFrom DEF disk, runtime
<1>5. CASE Started
    <2>1. phase' = "up" /\ op' = NoOp /\ call' = NoCall /\ UNCHANGED <<disk, cfg, runtime>>
        BY <1>5 DEF Started
    <2>2. op' \notin Requests /\ op' \notin Reloads /\ op' \notin Starts
        BY <2>1, KindsOf
    <2>3. DropInv' /\ CallInv' /\ PhaseInv'
        BY <2>1, <2>2 DEF DropInv, CallInv, PhaseInv
    <2> QED
        BY <2>1, <2>3, TypeFacts, TypesFrom DEF disk, runtime
<1>6. CASE Respawn
    <2>1. ClearRuntime /\ UNCHANGED <<file, budget>>
        BY <1>6 DEF Respawn, disk
    <2> QED
        BY <2>1, Cleared, TypeFacts, TypesFrom
<1>7. CASE Crash
    <2>1. ClearRuntime /\ UNCHANGED file /\ budget.crash > 0
          /\ budget' = [budget EXCEPT !.crash = @ - 1]
        BY <1>7 DEF Crash
    <2>2. budget' \in [edit: Nat, crash: Nat, save: Nat, rebind: Nat]
        BY <2>1, TypeFacts
    <2> QED
        BY <2>1, <2>2, Cleared, TypeFacts, TypesFrom
<1> QED
    BY <1>1, <1>2, <1>3, <1>4, <1>5, <1>6, <1>7 DEF Process

\* A request that is begun.
LEMMA MadeRequest ==
    ASSUME TypeInv, NEW kind \in {"add", "remove"}, NEW next \in Config, NEW c \in Calls
    PROVE  LET r == Request(kind, next, c)
           IN  /\ r \in Requests /\ r.kind = kind /\ r.st = "save" /\ r.old = cfg
               /\ r.next = next /\ r.call = c /\ r.before = runtime
BY TypeFacts DEF Request, Requests

LEMMA BeginAddMakes ==
    ASSUME TypeInv, NEW t \in Types, NEW d \in Def, BeginAdd(t, d)
    PROVE  /\ op' \in Requests /\ op'.kind = "add" /\ op'.st = "save" /\ op'.old = cfg
           /\ op'.next = [cfg EXCEPT ![t] = Append(@, d)]
           /\ op'.call = Call("add", t, d, "store") /\ op'.before = runtime
           /\ MayClash \/ d.name \notin AllNames(cfg)
           /\ phase = "up" /\ op = NoOp
           /\ UNCHANGED <<disk, phase, cfg, runtime, call>>
<1>1. op' = Request("add", [cfg EXCEPT ![t] = Append(@, d)], Call("add", t, d, "store"))
      /\ phase = "up" /\ op.kind = "none" /\ (MayClash \/ d.name \notin AllNames(cfg))
      /\ UNCHANGED <<disk, phase, cfg, runtime, call>>
    BY DEF BeginAdd, Idle
<1>2. [cfg EXCEPT ![t] = Append(@, d)] \in Config
    <2>1. Append(cfg[t], d) \in Seq(Def)
        BY TypeFacts, ConfigLists
    <2> QED
        BY <2>1, TypeFacts, Replaced
<1>3. Call("add", t, d, "store") \in Calls
    BY MadeCall
<1>4. op = NoOp
    BY <1>1, Kinds
<1> QED
    BY <1>1, <1>2, <1>3, <1>4, MadeRequest

LEMMA BeginRemoveMakes ==
    ASSUME TypeInv, NEW t \in Types, NEW d \in Def, BeginRemove(t, d)
    PROVE  /\ op' \in Requests /\ op'.kind = "remove" /\ op'.st = "save" /\ op'.old = cfg
           /\ op'.next = [cfg EXCEPT ![t] = Without(@, d.name)]
           /\ op'.call = Call("remove", t, d, "uncheck") /\ op'.before = runtime
           /\ MayMistype \/ d.name \in NamesOf(cfg[t]) \/ d.name \notin AllNames(cfg)
           /\ phase = "up" /\ op = NoOp
           /\ UNCHANGED <<disk, phase, cfg, runtime, call>>
<1>1. op' = Request("remove", [cfg EXCEPT ![t] = Without(@, d.name)],
                    Call("remove", t, d, "uncheck"))
      /\ phase = "up" /\ op.kind = "none"
      /\ (MayMistype \/ d.name \in NamesOf(cfg[t]) \/ d.name \notin AllNames(cfg))
      /\ UNCHANGED <<disk, phase, cfg, runtime, call>>
    BY DEF BeginRemove, Idle
<1>2. [cfg EXCEPT ![t] = Without(@, d.name)] \in Config
    <2>1. Without(cfg[t], d.name) \in Seq(Def)
        BY TypeFacts, ConfigLists, WithoutName
    <2> QED
        BY <2>1, TypeFacts, Replaced
<1>3. Call("remove", t, d, "uncheck") \in Calls
    BY MadeCall
<1>4. op = NoOp
    BY <1>1, Kinds
<1> QED
    BY <1>1, <1>2, <1>3, <1>4, MadeRequest

LEMMA BeginReloadMakes ==
    ASSUME TypeInv, BeginReload
    PROVE  /\ op' \in Reloads /\ op'.st = "rebind" /\ op'.next = file /\ file \in Config
           /\ op'.drop = {}
           /\ phase = "up" /\ op = NoOp
           /\ UNCHANGED <<disk, phase, cfg, runtime, call>>
<1>1. op' = Reloading /\ phase = "up" /\ op.kind = "none" /\ file # Corrupt
      /\ UNCHANGED <<disk, phase, cfg, runtime, call>>
    BY DEF BeginReload, Idle
<1>2. file \in Config
    BY <1>1, TypeFacts
<1>3. <<>> \in Seq(Entry)
    OBVIOUS
<1> QED
    BY <1>1, <1>2, <1>3, Kinds DEF Reloading, Reloads

LEMMA TypesBegin ==
    ASSUME TypeInv,
           \/ BeginReload
           \/ \E type \in Types, def \in Def : BeginAdd(type, def)
           \/ \E type \in Types, name \in Names, label \in Labels :
                BeginRemove(type, [name |-> name, label |-> label, check |-> FALSE])
    PROVE  TypeInv'
<1>1. /\ op' \in Requests \cup Reloads /\ op'.st \in {"save", "rebind"}
      /\ op' \in Reloads => op'.drop = {}
      /\ phase = "up" /\ op = NoOp /\ UNCHANGED <<disk, phase, cfg, runtime, call>>
    <2>1. CASE BeginReload
        BY <2>1, BeginReloadMakes
    <2>2. CASE \E type \in Types, def \in Def : BeginAdd(type, def)
        <3>1. PICK t \in Types, d \in Def : BeginAdd(t, d)
            BY <2>2
        <3>2. op' \in Requests
            BY <3>1, BeginAddMakes
        <3>3. op' \notin Reloads
            BY <3>2, KindsOf
        <3> QED
            BY <3>1, <3>3, BeginAddMakes
    <2>3. CASE \E type \in Types, name \in Names, label \in Labels :
                BeginRemove(type, [name |-> name, label |-> label, check |-> FALSE])
        <3>1. PICK t \in Types, n \in Names, l \in Labels :
                BeginRemove(t, [name |-> n, label |-> l, check |-> FALSE])
            BY <2>3
        <3>2. [name |-> n, label |-> l, check |-> FALSE] \in Def
            BY DEF Def
        <3>3. op' \in Requests
            BY <3>1, <3>2, BeginRemoveMakes
        <3>4. op' \notin Reloads
            BY <3>3, KindsOf
        <3> QED
            BY <3>1, <3>2, <3>4, BeginRemoveMakes
    <2> QED
        BY <2>1, <2>2, <2>3
<1>2. call = NoCall
    BY <1>1 DEF TypeInv, CallInv
<1>3. op' \notin Starts /\ op' # NoOp
    BY <1>1, KindsOf
<1>4. DropInv' /\ CallInv' /\ PhaseInv'
    BY <1>1, <1>2, <1>3 DEF DropInv, CallInv, PhaseInv
<1> QED
    BY <1>1, <1>2, <1>4, TypeFacts, TypesFrom DEF disk, runtime

LEMMA TypesEdit ==
    ASSUME TypeInv, NEW c \in Edits, EditFile(c)
    PROVE  TypeInv'
<1>1. /\ budget.edit > 0 /\ budget' = [budget EXCEPT !.edit = @ - 1] /\ file' = c
      /\ UNCHANGED <<phase, cfg, runtime, op, call>>
    BY DEF EditFile
<1>2. c \in Config \cup {Corrupt}
    BY ServicesAssumption
<1>3. budget' \in [edit: Nat, crash: Nat, save: Nat, rebind: Nat]
    BY <1>1, TypeFacts
<1>4. DropInv' /\ CallInv' /\ PhaseInv'
    BY <1>1 DEF TypeInv, DropInv, CallInv, PhaseInv, runtime
<1>5. op' \in {NoOp} \cup Requests \cup Reloads \cup Starts /\ call' \in {NoCall} \cup Calls
    BY <1>1 DEF TypeInv
<1> QED
    BY <1>1, <1>2, <1>3, <1>4, <1>5, TypeFacts, TypesFrom DEF runtime

LEMMA TypesStutter ==
    ASSUME TypeInv, UNCHANGED vars
    PROVE  TypeInv'
BY DEF vars, disk, runtime, TypeInv, TypeOK, DropInv, CallInv, PhaseInv

LEMMA TypesStep ==
    ASSUME TypeInv, [Next]_vars
    PROVE  TypeInv'
BY TypesCall, TypesRequest, TypesReload, TypesProcess, TypesBegin, TypesEdit, TypesStutter
   DEF Next

\* Every variable holds a value of its kind, whatever is asked for, edited,
\* or fails.
THEOREM TypeCorrect == Spec => []TypeOK
<1>1. Spec => []TypeInv
    BY TypesInit, TypesStep, PTL DEF Spec
<1>2. TypeInv => TypeOK
    BY DEF TypeInv
<1> QED
    BY <1>1, <1>2, PTL

-----------------------------------------------------------------------------
(* The start.                                                              *)

\* An add of a name in use leaves the registry alone.
LEMMA TakenStep ==
    ASSUME TypeInv, CallStep, call.fn = "add", call.def.name \in DOMAIN registry,
           call.at \in {"store", "reg", "undo", "err"}
    PROVE  /\ UNCHANGED registry
           /\ call'.at \in {"store", "reg", "undo", "err"}
<1>1. call \in Calls
    BY CallStepMoves
<1>2. \A at : Goto(at) => call'.at = at
    BY <1>1 DEF Goto, Calls
<1> USE DEF At
<1>3. CASE AddToStore
    BY <1>2, <1>3 DEF AddToStore
<1>4. CASE AddToRegistry
    BY <1>2, <1>4 DEF AddToRegistry
<1>5. CASE UndoAdd
    BY <1>2, <1>5 DEF UndoAdd
<1>6. ~RegisterCheck
    BY DEF RegisterCheck
<1>7. ~UnregisterCheck /\ ~RemoveFromStore /\ ~RemoveFromRegistry /\ ~UpdateRegistry
    BY DEF UnregisterCheck, RemoveFromStore, RemoveFromRegistry, UpdateRegistry
<1> QED
    BY <1>3, <1>4, <1>5, <1>6, <1>7 DEF CallStep

LEMMA DoneFacts ==
    ASSUME TypeInv, phase = "starting", StartingInv
    PROVE  /\ Len(Full(cfg)) \in Nat /\ Len(op.load) \in Nat /\ Done \in Nat
           /\ Done <= Len(Full(cfg))
           /\ call = NoCall => Len(Full(cfg)) = Done + Len(op.load)
           /\ call # NoCall => Len(Full(cfg)) = Done + Len(op.load) + 1
           /\ \A i \in 1..Done : i \in 1..Len(Full(cfg))
<1>1. op.load \in Seq(Entry) /\ cfg \in Config
    BY StartingOp, StartFields, TypeFacts
<1>2. Full(cfg) \in Seq(Entry)
    BY <1>1, FullPositions
<1>3. Len(Full(cfg)) \in Nat /\ Len(op.load) \in Nat /\ Done \in Nat
    BY <1>1, <1>2 DEF StartingInv
<1> DEFINE L == Len(Full(cfg))
           l == Len(op.load)
<1>4. /\ call = NoCall => Done = L - l - 0
      /\ call # NoCall => Done = L - l - 1
    BY DEF Done
<1>5. L \in Nat /\ l \in Nat /\ Done \in Nat
    BY <1>3
<1> HIDE DEF L, l
<1>6. /\ Done <= L
      /\ call = NoCall => L = Done + l
      /\ call # NoCall => L = Done + l + 1
    <2>1. CASE call = NoCall
        BY <1>4, <1>5, <2>1
    <2>2. CASE call # NoCall
        BY <1>4, <1>5, <2>2
    <2> QED
        BY <2>1, <2>2
<1>7. \A i \in 1..Done : i \in 1..L
    BY <1>5, <1>6
<1> QED
    BY <1>5, <1>6, <1>7 DEF L, l

\* The parts of StartingInv, when the file's services stay what they are.
LEMMA StartingCall ==
    ASSUME TypeInv, phase = "starting", StartingInv, CallStep
    PROVE  StartingInv'
<1>1. /\ UNCHANGED <<disk, phase, cfg, op>> /\ call \in Calls /\ call' \in Calls
      /\ call'.fn = call.fn /\ call'.def = call.def /\ call'.type = call.type
    BY CallStepMoves
<1>2. call # NoCall /\ call' # NoCall
    BY <1>1, CallKinds
<1>3. Done' = Done
    BY <1>1, <1>2 DEF Done
<1>4. \A n : InCall(n)' <=> InCall(n)
    BY <1>1, <1>2 DEF InCall
<1>5. \A i : NameAt(i)' = NameAt(i)
    BY <1>1 DEF NameAt
<1>6. ASSUME NEW n, ~InCall(n) PROVE Same(n)
    BY <1>2, <1>6, CallStepFrame DEF InCall
<1>7. ASSUME NEW i \in 1..Done, ~InCall(NameAt(i))
      PROVE  Shows(Full(cfg)[i].type, Full(cfg)[i].def)'
    <2>1. Full(cfg)[i].type \in Types /\ Full(cfg)[i].def \in Def
        BY DoneFacts, FullEntries, TypeFacts
    <2>2. Shows(Full(cfg)[i].type, Full(cfg)[i].def)
        BY <1>7 DEF StartingInv
    <2> DEFINE t == Full(cfg)[i].type
               d == Full(cfg)[i].def
    <2>3. d.name = NameAt(i)
        BY DEF NameAt
    <2>4. Same(d.name)
        BY <1>6, <1>7, <2>3
    <2>5. Full(cfg)[i].type' = Full(cfg)[i].type /\ Full(cfg)[i].def' = Full(cfg)[i].def
        BY <1>1
    <2>6. \A u \in Types, e \in Def : e = d => (Shows(u, e)' <=> Shows(u, e))
        BY <2>4, SameLooks
    <2> QED
        BY <2>1, <2>2, <2>5, <2>6
<1>8. ASSUME NEW n \in Names, ~InCall(n), \A i \in 1..Done : NameAt(i) # n
      PROVE  Absent(n)'
    BY <1>6, <1>8, SameLooks DEF StartingInv
<1>9. /\ call.fn = "add"
      /\ [type |-> call.type, def |-> call.def] = Full(cfg)[Done + 1]
    BY <1>2 DEF StartingInv
<1>10. CASE \E i \in 1..Done : InCall(NameAt(i))
    <2>1. call.at \in {"store", "reg", "undo", "err"} /\ call.def.name \in DOMAIN registry
        BY <1>2, <1>10 DEF StartingInv
    <2>2. call'.at \in {"store", "reg", "undo", "err"} /\ call'.def.name \in DOMAIN registry'
        BY <1>1, <1>9, <2>1, TakenStep
    <2> QED
        BY <1>1, <1>3, <1>4, <1>5, <1>7, <1>8, <1>9, <1>10, <2>2 DEF StartingInv
<1>11. CASE ~\E i \in 1..Done : InCall(NameAt(i))
    <2>1. Adding(call.type, call.def, call.at)
        BY <1>2, <1>11 DEF StartingInv
    <2>2. \A t, d : t = call.type /\ d = call.def => Adding(t, d, call.at)'
        BY <1>9, <2>1, AddingStep
    <2>3. Adding(call.type, call.def, call.at)'
        BY <1>1, <2>2
    <2> QED
        BY <1>1, <1>3, <1>4, <1>5, <1>7, <1>8, <1>9, <1>11, <2>3 DEF StartingInv
<1> QED
    BY <1>10, <1>11

LEMMA StartingBoot ==
    ASSUME TypeInv, StartInv, Boot, file # Corrupt
    PROVE  (file = cfg)' /\ StartingInv'
<1>1. phase = "down" /\ UNCHANGED <<file, registry, buckets, proxies, checks, call>>
      /\ cfg' = file /\ op' = [kind |-> "start", load |-> Full(file)]
    BY DEF Boot, Full, disk, runtime
<1>2. call = NoCall /\ call' = NoCall
    BY <1>1 DEF TypeInv, PhaseInv, CallInv
<1>3. file \in Config /\ op'.load = Full(cfg')
    BY <1>1, TypeFacts
<1>4. Full(cfg') \in Seq(Entry)
    BY <1>1, <1>3, FullPositions
<1>5. Len(Full(cfg')) \in Nat
    BY <1>4
<1>6. Done' = 0
    BY <1>2, <1>3, <1>5 DEF Done
<1>7. \A n \in Names : Absent(n)'
    BY <1>1 DEF StartInv, Absent
<1>8. \A i \in 1..Len(op'.load) : op'.load[i] = Full(cfg')[Len(Full(cfg')) - Len(op'.load) + i]
    BY <1>3, <1>5
<1> QED
    BY <1>1, <1>2, <1>6, <1>7, <1>8 DEF StartingInv

LEMMA StartingOne ==
    ASSUME TypeInv, phase = "starting", StartingInv, StartOne
    PROVE  StartingInv'
<1>1. /\ call = NoCall /\ op.load # <<>> /\ op' = [op EXCEPT !.load = Tail(@)]
      /\ call' = Call("add", Head(op.load).type, Head(op.load).def, "store")
      /\ UNCHANGED <<cfg, registry, buckets, proxies, checks>>
    BY DEF StartOne, runtime
<1>2. op \in Starts /\ op.load \in Seq(Entry) /\ cfg \in Config
    BY StartingOp, StartFields, TypeFacts
<1>3. /\ Head(op.load) = op.load[1] /\ Head(op.load) \in Entry
      /\ Tail(op.load) \in Seq(Entry) /\ Len(Tail(op.load)) = Len(op.load) - 1
      /\ Len(op.load) \in Nat \ {0}
      /\ \A i \in 1..Len(Tail(op.load)) : Tail(op.load)[i] = op.load[i + 1]
    BY <1>1, <1>2, HeadTailProperties
<1>4. op'.load = Tail(op.load)
    BY <1>1, <1>2 DEF Starts
<1> DEFINE e == Head(op.load)
           L == Len(Full(cfg))
           l == Len(op.load)
           m == Len(op'.load)
<1>5. e.type \in Types /\ e.def \in Def /\ e = [type |-> e.type, def |-> e.def]
    BY <1>3 DEF Entry
<1>6. call' \in Calls /\ call'.fn = "add" /\ call'.type = e.type /\ call'.def = e.def
      /\ call'.at = "store"
    BY <1>1, <1>5, MadeCall
<1>7. call' # NoCall
    BY <1>6, CallKinds
<1>8. L \in Nat /\ Done \in Nat /\ L = Done + l /\ l \in Nat \ {0} /\ m = l - 1
    BY <1>1, <1>3, <1>4, DoneFacts
<1>9. Done' = Done
    <2>1. Done' = L - m - 1
        BY <1>1, <1>7 DEF Done
    <2> HIDE DEF L, l, m
    <2> QED
        BY <1>8, <2>1
<1>10. \A i : NameAt(i)' = NameAt(i)
    BY <1>1 DEF NameAt
<1>11. \A i \in 1..Len(op'.load) : op'.load[i] = Full(cfg')[Len(Full(cfg')) - Len(op'.load) + i]
    <2> SUFFICES ASSUME NEW i \in 1..m PROVE op'.load[i] = Full(cfg)[L - m + i]
        BY <1>1
    <2>1. op'.load[i] = op.load[i + 1] /\ (i + 1) \in 1..l
        BY <1>3, <1>4
    <2>2. op.load[i + 1] = Full(cfg)[L - l + (i + 1)]
        <3>1. \A j \in 1..l : op.load[j] = Full(cfg)[L - l + j]
            BY DEF StartingInv
        <3> QED
            BY <2>1, <3>1, Zenon
    <2> HIDE DEF L, l, m
    <2>3. L - l + (i + 1) = L - m + i
        BY <1>8
    <2> QED
        BY <2>1, <2>2, <2>3
<1>12. e = Full(cfg)[Done + 1]
    <2>1. op.load[1] = Full(cfg)[L - l + 1]
        <3>1. 1 \in 1..l
            BY <1>8
        <3>2. \A j \in 1..l : op.load[j] = Full(cfg)[L - l + j]
            BY DEF StartingInv
        <3> QED
            BY <3>1, <3>2, Zenon
    <2> HIDE DEF L, l, m
    <2>2. L - l + 1 = Done + 1
        BY <1>8
    <2> QED
        BY <1>3, <2>1, <2>2
<1> HIDE DEF L, l, m
<1>13. \A n : ~InCall(n)
    BY <1>1 DEF InCall
<1>14. ASSUME NEW i \in 1..Done
       PROVE  /\ Shows(Full(cfg)[i].type, Full(cfg)[i].def)
              /\ Shows(Full(cfg)[i].type, Full(cfg)[i].def)'
              /\ NameAt(i) \in DOMAIN registry
    <2>1. Shows(Full(cfg)[i].type, Full(cfg)[i].def)
        BY <1>13 DEF StartingInv
    <2>2. Shows(Full(cfg)[i].type, Full(cfg)[i].def)'
        BY <1>1, <2>1 DEF Shows, RegisteredAs, InStores
    <2> QED
        BY <2>1, <2>2 DEF Shows, RegisteredAs, NameAt
<1>15. \A n \in Names : (\A i \in 1..Done : NameAt(i) # n) => Absent(n) /\ Absent(n)'
    BY <1>1, <1>13 DEF StartingInv, Absent
<1>16. IF \E i \in 1..Done : InCall(NameAt(i))'
       THEN call'.at \in {"store", "reg", "undo", "err"} /\ call'.def.name \in DOMAIN registry'
       ELSE Adding(call.type, call.def, call.at)'
    <2>1. CASE \E i \in 1..Done : InCall(NameAt(i))'
        <3>1. call'.def.name \in DOMAIN registry
            BY <1>10, <1>14, <2>1 DEF InCall
        <3> QED
            BY <1>1, <1>6, <2>1, <3>1
    <2>2. CASE ~\E i \in 1..Done : InCall(NameAt(i))'
        <3>1. e.def.name \in Names
            BY <1>5 DEF Def
        <3>2. \A i \in 1..Done : NameAt(i) # e.def.name
            BY <1>6, <1>7, <1>10, <2>2 DEF InCall
        <3>3. Absent(call.def.name)'
            <4>1. Absent(e.def.name)
                BY <1>15, <3>1, <3>2
            <4> HIDE DEF e
            <4> QED
                BY <1>1, <1>6, <4>1 DEF Absent
        <3>4. Adding(call.type, call.def, call.at)'
            BY <1>6, <3>3 DEF Adding
        <3> QED
            BY <2>2, <3>4
    <2> QED
        BY <2>1, <2>2
<1>17. \A i, j \in 1..Done : NameAt(i) = NameAt(j) => i = j
    BY DEF StartingInv
<1> HIDE DEF e
<1>18. [type |-> call'.type, def |-> call'.def] = Full(cfg')[Done + 1]
    BY <1>1, <1>5, <1>6, <1>12
<1>19. Done' \in Nat
    BY <1>8, <1>9
<1>20. \A i \in 1..Done : Shows(Full(cfg)[i].type, Full(cfg)[i].def)'
    BY <1>14
<1> QED
    BY <1>6, <1>9, <1>10, <1>11, <1>15, <1>16, <1>17, <1>18, <1>19, <1>20 DEF StartingInv

LEMMA StartingReturns ==
    ASSUME TypeInv, phase = "starting", StartingInv, StartReturns, phase' = "starting"
    PROVE  StartingInv'
<1>1. call # NoCall /\ call.at = "ok" /\ call' = NoCall
      /\ UNCHANGED <<cfg, registry, buckets, proxies, checks, op>>
    BY DEF StartReturns, Returned, NoCall, runtime
<1>2. call \in Calls /\ cfg \in Config /\ op \in Starts /\ op.load \in Seq(Entry)
    BY <1>1, Kinds, StartingOp, StartFields, TypeFacts
<1>3. Len(Full(cfg)) = Done + Len(op.load) + 1 /\ Done \in Nat /\ Len(op.load) \in Nat
    BY <1>1, DoneFacts
<1>4. Done' = Done + 1
    <2> DEFINE L == Len(Full(cfg))
               l == Len(op.load)
    <2>1. Done' = L - l - 0
        BY <1>1 DEF Done
    <2>2. L = Done + l + 1 /\ Done \in Nat /\ l \in Nat
        BY <1>3
    <2> HIDE DEF L, l
    <2> QED
        BY <2>1, <2>2
<1>5. \A i : NameAt(i)' = NameAt(i)
    BY <1>1 DEF NameAt
<1>6. ~\E i \in 1..Done : InCall(NameAt(i))
    BY <1>1 DEF StartingInv
<1>7. Adding(call.type, call.def, call.at)
      /\ [type |-> call.type, def |-> call.def] = Full(cfg)[Done + 1]
    BY <1>1, <1>6 DEF StartingInv
<1>8. Full(cfg)[Done + 1].type = call.type /\ Full(cfg)[Done + 1].def = call.def
      /\ NameAt(Done + 1) = call.def.name
    BY <1>7 DEF NameAt
<1>9. ASSUME NEW i \in 1..(Done + 1) PROVE Shows(Full(cfg)[i].type, Full(cfg)[i].def)
    <2>1. CASE i = Done + 1
        BY <1>1, <1>7, <1>8, <2>1 DEF Adding
    <2>2. CASE i # Done + 1
        <3>1. i \in 1..Done
            BY <1>3, <2>2
        <3> QED
            BY <1>6, <3>1 DEF StartingInv
    <2> QED
        BY <2>1, <2>2
<1>10. ASSUME NEW i \in 1..(Done + 1) PROVE Shows(Full(cfg)[i].type, Full(cfg)[i].def)'
    BY <1>1, <1>9 DEF Shows, RegisteredAs, InStores
<1>11. \A i \in 1..Done : NameAt(i) # NameAt(Done + 1)
    BY <1>1, <1>6, <1>8 DEF InCall
<1>12. ASSUME NEW i \in 1..(Done + 1), NEW j \in 1..(Done + 1), NameAt(i) = NameAt(j) PROVE i = j
    <2>1. CASE i \in 1..Done /\ j \in 1..Done
        BY <1>12, <2>1 DEF StartingInv
    <2>2. CASE i = Done + 1 \/ j = Done + 1
        <3>1. (i \in 1..Done \/ i = Done + 1) /\ (j \in 1..Done \/ j = Done + 1)
            BY <1>3
        <3> QED
            BY <1>11, <1>12, <2>2, <3>1
    <2> QED
        BY <1>3, <2>1, <2>2
<1>13. ASSUME NEW n \in Names, \A i \in 1..(Done + 1) : NameAt(i) # n PROVE Absent(n)'
    <2>1. \A i \in 1..Done : i \in 1..(Done + 1)
        BY <1>3
    <2>2. (Done + 1) \in 1..(Done + 1)
        BY <1>3
    <2>3. ~InCall(n)
        BY <1>8, <1>13, <2>2 DEF InCall
    <2>4. Absent(n)
        BY <1>13, <2>1, <2>3 DEF StartingInv
    <2> QED
        BY <1>1, <2>4 DEF Absent
<1>14. \A i \in 1..Len(op'.load) : op'.load[i] = Full(cfg')[Len(Full(cfg')) - Len(op'.load) + i]
    BY <1>1 DEF StartingInv
<1>15. Done' \in Nat
    BY <1>3, <1>4
<1> QED
    BY <1>1, <1>4, <1>5, <1>10, <1>12, <1>13, <1>14, <1>15 DEF StartingInv

LEMMA StartInit == Init => StartInv
BY DEF Init, StartInv, Absent, Nothing

LEMMA StartStep ==
    ASSUME TypeInv, StartInv, [Next]_vars
    PROVE  StartInv'
<1>1. CASE CallStep
    <2>1. UNCHANGED <<file, budget, phase, cfg, op>> /\ call \in Calls
        BY <1>1, CallStepMoves DEF disk
    <2>2. phase # "down"
        BY <2>1, CallKinds DEF TypeInv, PhaseInv, CallInv
    <2> QED
        BY <1>1, <2>1, <2>2, StartingCall DEF StartInv
<1>2. CASE RequestStep \/ ReloadStep \/ BeginReload
           \/ (\E type \in Types, def \in Def : BeginAdd(type, def))
           \/ (\E type \in Types, name \in Names, label \in Labels :
                BeginRemove(type, [name |-> name, label |-> label, check |-> FALSE]))
    <2>1. phase = "up" /\ phase' = phase
        <3>1. CASE RequestStep
            <4>1. op.kind \in {"add", "remove"} /\ phase' = phase
                BY <3>1 DEF RequestStep, SaveNext, SaveFails, Commit, CallFails, Rollback
            <4> QED
                BY <4>1, Kinds DEF TypeInv, PhaseInv
        <3>2. CASE ReloadStep
            <4>1. op.kind = "reload" /\ phase' = phase
                BY <3>2 DEF ReloadStep, RebindFails, Adopt, ListRegistry, DropOne, LoadOne,
                            ReloadReturns, EndReload
            <4> QED
                BY <4>1, Kinds DEF TypeInv, PhaseInv
        <3> QED
            BY <1>2, <3>1, <3>2 DEF BeginReload, BeginAdd, BeginRemove, Idle
    <2> QED
        BY <2>1 DEF StartInv
<1>3. CASE Boot
    <2>1. CASE file = Corrupt
        BY <1>3, <2>1 DEF Boot, StartInv
    <2>2. CASE file # Corrupt
        BY <1>3, <2>2, StartingBoot DEF Boot, StartInv
    <2> QED
        BY <2>1, <2>2
<1>4. CASE StartOne
    <2>1. phase = "starting" /\ phase' = phase /\ UNCHANGED <<file, cfg>>
        BY <1>4 DEF StartOne, disk
    <2> QED
        BY <1>4, <2>1, StartingOne DEF StartInv
<1>5. CASE StartReturns
    <2>1. phase = "starting" /\ phase' \in {"starting", "dead"} /\ UNCHANGED <<file, cfg>>
        BY <1>5 DEF StartReturns, disk
    <2> QED
        BY <1>5, <2>1, StartingReturns DEF StartInv
<1>6. CASE Started
    BY <1>6 DEF Started, StartInv
<1>7. CASE Respawn \/ Crash
    <2>1. ClearRuntime
        BY <1>7 DEF Respawn, Crash
    <2> QED
        BY <2>1, Cleared DEF StartInv, Absent
<1>8. CASE \E c \in Edits : EditFile(c)
    <2>1. op.kind = "none" /\ UNCHANGED <<phase, cfg, registry, buckets, proxies, checks, op, call>>
        BY <1>8 DEF EditFile, runtime
    <2>2. phase # "starting"
        BY <2>1, Kinds, StartingOp
    <2> QED
        BY <2>1, <2>2 DEF StartInv, Absent
<1>9. CASE UNCHANGED vars
    <2>1. UNCHANGED <<file, phase, cfg, registry, buckets, proxies, checks, op, call>>
        BY <1>9 DEF vars, disk, runtime
    <2>2. \A n : (Absent(n)' <=> Absent(n)) /\ (InCall(n)' <=> InCall(n))
        BY <2>1 DEF Absent, InCall
    <2>3. Done' = Done /\ (\A i : NameAt(i)' = NameAt(i))
        BY <2>1 DEF Done, NameAt
    <2>4. \A t, d : Shows(t, d)' <=> Shows(t, d)
        BY <2>1 DEF Shows, RegisteredAs, InStores
    <2>5. Adding(call.type, call.def, call.at)' <=> Adding(call.type, call.def, call.at)
        BY <2>1 DEF Adding, Shows, RegisteredAs, InStores, Absent
    <2>6. StartingInv' <=> StartingInv
        BY <2>1, <2>2, <2>3, <2>4, <2>5 DEF StartingInv
    <2> QED
        BY <2>1, <2>2, <2>6 DEF StartInv
<1> QED
    BY <1>1, <1>2, <1>3, <1>4, <1>5, <1>6, <1>7, <1>8, <1>9 DEF Next, Process

-----------------------------------------------------------------------------
(* What the runtime has of one name, and what a configuration says of it.  *)

LEMMA Still ==
    ASSUME UNCHANGED runtime
    PROVE  \A n : Same(n)
BY DEF runtime, Same

LEMMA ShowsIsCoherent ==
    ASSUME NEW t \in Types, NEW d \in Def, RegisteredAs(t, d)
    PROVE  Coherent(d.name) /\ registry[d.name].type = t /\ ~Absent(d.name)
BY DEF RegisteredAs, Coherent, Absent

LEMMA ShowsAsIn ==
    ASSUME NEW c \in Config, Distinct(c), NEW t \in Types, NEW d \in Range(c[t]), Shows(t, d)
    PROVE  AsIn(c, d.name)
<1>1. \A u \in Types : \A e \in Range(c[u]) : e.name = d.name => u = t /\ e = d
    BY DistinctNames
<1>2. d.name \in AllNames(c)
    BY ConfigNames
<1> QED
    BY <1>1, <1>2 DEF AsIn

LEMMA AsInIs ==
    ASSUME NEW c \in Config, NEW n, AsIn(c, n)
    PROVE  /\ n \notin AllNames(c) => Absent(n)
           /\ n \in AllNames(c) => Coherent(n) /\ ~Absent(n)
           /\ \A t \in Types : n \in NamesOf(c[t]) => Coherent(n) /\ registry[n].type = t
<1>1. n \notin AllNames(c) => Absent(n)
    BY DEF AsIn
<1>2. ASSUME NEW t \in Types, NEW d \in Range(c[t]), d.name = n
      PROVE Coherent(n) /\ registry[n].type = t /\ ~Absent(n)
    <2>1. RegisteredAs(t, d) /\ d \in Def
        BY <1>2, ConfigNames DEF AsIn, Shows
    <2> QED
        BY <1>2, <2>1, ShowsIsCoherent
<1>3. n \in AllNames(c) => Coherent(n) /\ ~Absent(n)
    BY <1>2, ConfigNames
<1> QED
    BY <1>1, <1>2, <1>3, ConfigNames

\* A change of the configuration that leaves the services of a name alone.
LEMMA AsInOther ==
    ASSUME NEW c \in Config, NEW e \in Config, NEW n,
           \A t \in Types : \A d : d.name = n => (d \in Range(e[t]) <=> d \in Range(c[t])),
           AsIn(c, n)
    PROVE  AsIn(e, n)
<1>1. n \in AllNames(e) <=> n \in AllNames(c)
    BY ConfigNames
<1> QED
    BY <1>1 DEF AsIn

\* With one name found in a single type, the registry lists it under that type.
LEMMA TypeOfName ==
    ASSUME NEW c \in Config, Distinct(c), NEW t \in Types, NEW n \in NamesOf(c[t])
    PROVE  \E d \in Range(c[t]) :
            /\ d.name = n /\ d \in Def
            /\ \A u \in Types : \A e \in Range(c[u]) : e.name = n => u = t /\ e = d
<1>1. PICK d \in Range(c[t]) : d.name = n
    BY ConfigNames
<1> QED
    BY <1>1, ConfigNames, DistinctNames

-----------------------------------------------------------------------------
(* Between operations.                                                     *)

LEMMA IdleServices ==
    ASSUME TypeInv, ServicesInv, phase = "up", op = NoOp
    PROVE  Distinct(cfg) /\ IdleInv /\ call = NoCall
BY DEF TypeInv, CallInv, ServicesInv

\* An operation that ends in a state as idle ones are.
LEMMA ServicesIdle ==
    ASSUME (op = NoOp)', Distinct(cfg)', IdleInv'
    PROVE  ServicesInv'
<1>1. op' \notin Requests /\ op' \notin Reloads
    BY KindsOf
<1> QED
    BY <1>1 DEF ServicesInv

\* Start-up ends with the services of the file.
LEMMA ServicesStarted ==
    ASSUME TypeInv, StartInv, Started
    PROVE  ServicesInv'
<1>1. phase = "starting" /\ call = NoCall /\ op.load = <<>> /\ op' = NoOp
      /\ UNCHANGED <<file, budget, cfg, registry, buckets, proxies, checks>>
    BY DEF Started, disk, runtime
<1>2. StartingInv /\ file = cfg /\ cfg \in Config
    BY <1>1, TypeFacts DEF StartInv
<1> DEFINE L == Len(Full(cfg))
<1>3. Done = L
    <2>1. L = Done + Len(op.load) /\ Done \in Nat /\ L \in Nat
        BY <1>1, <1>2, DoneFacts
    <2>2. Len(op.load) = 0
        BY <1>1
    <2> HIDE DEF L
    <2> QED
        BY <2>1, <2>2
<1>4. \A i \in 1..L : Shows(Full(cfg)[i].type, Full(cfg)[i].def)
    BY <1>1, <1>2, <1>3 DEF StartingInv, InCall
<1>5. \A i, j \in 1..L : Full(cfg)[i].def.name = Full(cfg)[j].def.name => i = j
    BY <1>2, <1>3 DEF StartingInv, NameAt
<1>6. Distinct(cfg)
    BY <1>2, <1>5, FullDistinct
<1>7. ASSUME NEW n \in Names PROVE AsIn(cfg, n)
    <2>1. ASSUME n \notin AllNames(cfg) PROVE Absent(n)
        <3>1. \A i \in 1..Done : NameAt(i) # n
            BY <1>2, <1>3, <2>1, FullEntries DEF NameAt
        <3> QED
            BY <1>1, <1>2, <3>1 DEF StartingInv, InCall
    <2>2. ASSUME NEW t \in Types, NEW d \in Range(cfg[t]) PROVE Shows(t, d)
        <3>1. PICK i \in 1..L : Full(cfg)[i] = [type |-> t, def |-> d]
            BY <1>2, FullEntries
        <3>2. Full(cfg)[i].type = t /\ Full(cfg)[i].def = d
            BY <3>1
        <3> QED
            BY <1>4, <3>2
    <2> QED
        BY <2>1, <2>2 DEF AsIn
<1>8. \A n \in Names : AsIn(cfg, n)'
    <2>1. \A n : Same(n)
        BY <1>1, Still DEF runtime
    <2> QED
        BY <1>1, <1>2, <1>7, <2>1, SameAsIn
<1>9. IdleInv' /\ Distinct(cfg)'
    BY <1>1, <1>2, <1>6, <1>8 DEF IdleInv
<1> QED
    BY <1>1, <1>9, ServicesIdle

LEMMA ServicesEdit ==
    ASSUME Ordinary, TypeInv, BudgetInv, ServicesInv, NEW c \in Edits, EditFile(c)
    PROVE  ServicesInv'
<1>1. op.kind = "none" /\ file' = c /\ budget' = [budget EXCEPT !.edit = @ - 1]
      /\ UNCHANGED <<phase, cfg, runtime, op, call>>
    BY DEF EditFile
<1>2. op = NoOp
    BY <1>1, Kinds
<1>3. CASE phase = "up"
    <2>1. Distinct(cfg) /\ IdleInv
        BY <1>2, <1>3, IdleServices
    <2>2. \A n \in Names : AsIn(cfg, n)'
        BY <1>1, <2>1, Still, SameAsIn, TypeFacts DEF IdleInv
    <2>3. ~Unedited'
        <3>1. budget.edit \in Nat /\ MaxEdits \in Nat /\ budget.edit <= MaxEdits
            BY TypeFacts, ServicesAssumption DEF BudgetInv
        <3>2. budget'.edit = budget.edit - 1
            BY <1>1, TypeFacts
        <3> QED
            BY <3>1, <3>2 DEF Unedited
    <2>4. file' = Corrupt \/ Distinct(file)'
        BY <1>1 DEF Ordinary
    <2>5. IdleInv' /\ Distinct(cfg)'
        BY <1>1, <2>1, <2>2, <2>3, <2>4 DEF IdleInv
    <2> QED
        BY <1>1, <1>2, <2>5, ServicesIdle
<1>4. CASE phase # "up"
    BY <1>1, <1>4 DEF ServicesInv
<1> QED
    BY <1>3, <1>4

LEMMA ServicesBegin ==
    ASSUME Ordinary, TypeInv, ServicesInv,
           \/ \E type \in Types, def \in Def : BeginAdd(type, def)
           \/ \E type \in Types, name \in Names, label \in Labels :
                BeginRemove(type, [name |-> name, label |-> label, check |-> FALSE])
    PROVE  ServicesInv'
<1>1. PICK t \in Types, d \in Def : BeginAdd(t, d) \/ BeginRemove(t, d)
    BY DEF Def
<1>2. /\ op' \in Requests /\ op'.st = "save" /\ op'.old = cfg /\ op'.before = runtime
      /\ phase = "up" /\ op = NoOp /\ UNCHANGED <<disk, phase, cfg, runtime, call>>
    BY <1>1, BeginAddMakes, BeginRemoveMakes
<1>3. Distinct(cfg) /\ IdleInv /\ call = NoCall
    BY <1>2, IdleServices
<1>4. op' \notin Reloads /\ op' # NoOp
    BY <1>2, KindsOf
<1>5. op'.call.type = t /\ op'.call.def = d
    <2>1. op'.call = Call("add", t, d, "store") \/ op'.call = Call("remove", t, d, "uncheck")
        BY <1>1, BeginAddMakes, BeginRemoveMakes
    <2> QED
        BY <2>1, MadeCall
<1>6. Asked(t, d)'
    <2>1. CASE BeginAdd(t, d)
        BY <1>2, <2>1, BeginAddMakes DEF Asked
    <2>2. CASE BeginRemove(t, d)
        BY <1>2, <2>2, BeginRemoveMakes DEF Asked, Ordinary
    <2> QED
        BY <1>1, <2>1, <2>2
<1>7. Asked(op.call.type, op.call.def)'
    BY <1>5, <1>6
<1>8. \A n \in Names : AsIn(cfg, n)'
    BY <1>2, <1>3, Still, SameAsIn, TypeFacts DEF IdleInv
<1>9. op'.before = runtime'
    BY <1>2
<1>10. /\ (Unedited => file = cfg)' /\ (file = Corrupt \/ Distinct(file))' /\ Distinct(cfg)'
    BY <1>2, <1>3 DEF IdleInv, Unedited, disk
<1>11. RequestInv'
    BY <1>2, <1>7, <1>8, <1>9, <1>10 DEF RequestInv
<1> QED
    BY <1>2, <1>4, <1>10, <1>11 DEF ServicesInv

LEMMA ServicesBeginReload ==
    ASSUME TypeInv, ServicesInv, BeginReload
    PROVE  ServicesInv'
<1>1. /\ op' \in Reloads /\ op'.st = "rebind" /\ op'.next = file /\ file \in Config
      /\ phase = "up" /\ op = NoOp /\ UNCHANGED <<disk, phase, cfg, runtime, call>>
    BY BeginReloadMakes
<1>2. Distinct(cfg) /\ IdleInv
    BY <1>1, IdleServices
<1>3. op' \notin Requests /\ op' # NoOp
    BY <1>1, KindsOf
<1>4. \A n \in Names : AsIn(cfg, n)'
    BY <1>1, <1>2, Still, SameAsIn, TypeFacts DEF IdleInv
<1>5. Distinct(file)
    BY <1>1, <1>2, ServicesAssumption DEF IdleInv
<1>6. ReloadInv'
    BY <1>1, <1>2, <1>4, <1>5 DEF ReloadInv, IdleInv, Unedited, disk
<1> QED
    BY <1>1, <1>2, <1>3, <1>6 DEF ServicesInv

-----------------------------------------------------------------------------
(* Requests.                                                               *)

\* What a request asked for: only the name it is about has other services.
LEMMA AskedFor ==
    ASSUME TypeInv, op \in Requests, Distinct(cfg), NEW t \in Types, NEW d \in Def, Asked(t, d)
    PROVE  /\ d.name \in Names /\ op.kind \in {"add", "remove"} /\ op.next \in Config
           /\ \A n : n # d.name =>
                \A u \in Types : \A x : x.name = n =>
                    (x \in Range(op.next[u]) <=> x \in Range(cfg[u]))
           /\ op.kind = "add" /\ d.name \notin AllNames(cfg) =>
                Distinct(op.next) /\ d \in Range(op.next[t])
           /\ op.kind = "remove" => Distinct(op.next)
           /\ op.kind = "remove" /\ d.name \notin AllNames(cfg) => op.next = cfg
           /\ op.kind = "remove" /\ d.name \in AllNames(cfg) => d.name \notin AllNames(op.next)
<1>1. d.name \in Names /\ op.next \in Config /\ op.kind \in {"add", "remove"} /\ cfg \in Config
    BY RequestFields, TypeFacts DEF Def
<1>2. CASE op.kind = "add"
    <2>1. op.next = [cfg EXCEPT ![t] = Append(@, d)]
        BY <1>2 DEF Asked
    <2>2. /\ \A x : x \in Range(op.next[t]) <=> x \in Range(cfg[t]) \/ x = d
          /\ \A u \in Types : u # t => op.next[u] = cfg[u]
          /\ d.name \notin AllNames(cfg) => Distinct(op.next)
        <3>1. op.next[t] = Append(cfg[t], d)
            BY <1>1, <2>1 DEF Config
        <3>2. \A u \in Types : u # t => op.next[u] = cfg[u]
            BY <1>1, <2>1 DEF Config
        <3>3. PICK n \in Config : n = op.next
            BY <1>1
        <3>4. n[t] = Append(cfg[t], d)
            BY <3>1, <3>3
        <3>5. \A u \in Types : u # t => n[u] = cfg[u]
            BY <3>2, <3>3
        <3>6. \A x : x \in Range(n[t]) <=> x \in Range(cfg[t]) \/ x = d
            BY <1>1, <3>4, <3>5, Appended
        <3>7. d.name \notin AllNames(cfg) => Distinct(n)
            BY <1>1, <3>4, <3>5, Appended
        <3> QED
            BY <3>2, <3>3, <3>6, <3>7
    <2>3. ASSUME NEW u \in Types, NEW x, x.name # d.name
          PROVE  x \in Range(op.next[u]) <=> x \in Range(cfg[u])
        BY <1>1, <2>2, <2>3
    <2> QED
        BY <1>1, <1>2, <2>2, <2>3
<1>3. CASE op.kind = "remove"
    <2>1. op.next = [cfg EXCEPT ![t] = Without(@, d.name)]
        BY <1>3 DEF Asked
    <2>2. /\ \A x : x \in Range(op.next[t]) <=> x \in Range(cfg[t]) /\ x.name # d.name
          /\ \A u \in Types : u # t => op.next[u] = cfg[u]
          /\ d.name \notin NamesOf(cfg[t]) => op.next = cfg
          /\ Distinct(op.next)
        <3>1. op.next[t] = Without(cfg[t], d.name)
            BY <1>1, <2>1 DEF Config
        <3>2. \A u \in Types : u # t => op.next[u] = cfg[u]
            BY <1>1, <2>1 DEF Config
        <3>3. PICK n \in Config : n = op.next
            BY <1>1
        <3>4. n[t] = Without(cfg[t], d.name)
            BY <3>1, <3>3
        <3>5. \A u \in Types : u # t => n[u] = cfg[u]
            BY <3>2, <3>3
        <3>6. \A x : x \in Range(n[t]) <=> x \in Range(cfg[t]) /\ x.name # d.name
            BY <1>1, <3>4, <3>5, Shortened
        <3>7. d.name \notin NamesOf(cfg[t]) => n = cfg
            BY <1>1, <3>4, <3>5, Shortened
        <3>8. Distinct(n)
            BY <1>1, <3>4, <3>5, Shortened
        <3> QED
            BY <3>2, <3>3, <3>6, <3>7, <3>8
    <2>3. ASSUME NEW u \in Types, NEW x, x.name # d.name
          PROVE  x \in Range(op.next[u]) <=> x \in Range(cfg[u])
        BY <1>1, <2>2, <2>3
    <2>4. d.name \notin AllNames(cfg) => d.name \notin NamesOf(cfg[t])
        BY <1>1 DEF AllNames
    <2>5. ASSUME d.name \in AllNames(cfg) PROVE d.name \notin AllNames(op.next)
        <3>1. d.name \in NamesOf(cfg[t])
            BY <1>3, <2>5 DEF Asked
        <3>2. \A u \in Types : \A e \in Range(cfg[u]) : e.name = d.name => u = t
            BY <1>1, <3>1, TypeOfName
        <3>3. \A u \in Types : \A e \in Range(op.next[u]) : e.name # d.name
            BY <1>1, <2>2, <3>2
        <3> QED
            BY <1>1, <3>3, ConfigNames
    <2> QED
        BY <1>1, <1>3, <2>2, <2>3, <2>4, <2>5
<1> QED
    BY <1>1, <1>2, <1>3

\* A request under way in a state as they are.
LEMMA InRequest ==
    ASSUME TypeInv, ServicesInv, op.kind \in {"add", "remove"}
    PROVE  /\ op \in Requests /\ phase = "up" /\ Distinct(cfg) /\ RequestInv
           /\ cfg \in Config /\ op.old = cfg /\ op.call \in Calls
           /\ op.st \in {"save", "call", "rollback"}
<1>1. op \in Requests
    BY Kinds
<1>2. phase = "up"
    BY <1>1 DEF TypeInv, PhaseInv
<1> QED
    BY <1>1, <1>2, TypeFacts, RequestFields DEF ServicesInv, RequestInv

LEMMA RequestGoes ==
    ASSUME (op \in Requests)', Distinct(cfg)', RequestInv'
    PROVE  ServicesInv'
<1>1. op' \notin Reloads /\ op' # NoOp
    BY KindsOf
<1> QED
    BY <1>1 DEF ServicesInv

LEMMA ServicesSaveNext ==
    ASSUME TypeInv, ServicesInv, SaveNext
    PROVE  ServicesInv'
<1>1. op.kind \in {"add", "remove"} /\ op.st = "save" /\ file' = op.next /\ call' = op.call
      /\ op' = [op EXCEPT !.st = "call"] /\ UNCHANGED <<budget, phase, cfg, runtime>>
    BY DEF SaveNext
<1>2. /\ op \in Requests /\ Distinct(cfg) /\ RequestInv /\ op.old = cfg /\ op.call \in Calls
      /\ cfg \in Config
    BY <1>1, InRequest
<1>3. op' \in Requests /\ op'.st = "call" /\ op'.kind = op.kind /\ op'.old = op.old
      /\ op'.next = op.next /\ op'.call = op.call /\ op'.before = op.before
    BY <1>1, <1>2, RequestFields
<1>4. PICK t \in Types, d \in Def : t = op.call.type /\ d = op.call.def
    BY <1>2, CallFields
<1>5. Asked(t, d)
    BY <1>2, <1>4 DEF RequestInv
<1>6. d.name \in Names
    BY DEF Def
<1>7. Asked(t, d)'
    BY <1>1, <1>3, <1>5 DEF Asked
<1>8. op.before = runtime /\ \A n \in Names : AsIn(cfg, n)
    BY <1>1, <1>2 DEF RequestInv
<1>9. /\ call' # NoCall /\ call'.fn = op.kind /\ call'.type = t /\ call'.def = d
      /\ call'.at = IF op.kind = "add" THEN "store" ELSE "uncheck"
    <2>1. op.call = Call(op.kind, t, d, IF op.kind = "add" THEN "store" ELSE "uncheck")
        BY <1>5 DEF Asked
    <2>2. call'.at = IF op.kind = "add" THEN "store" ELSE "uncheck"
        BY <1>1, <2>1 DEF Call
    <2>3. call'.fn = op.kind
        BY <1>1, <2>1 DEF Call
    <2> QED
        BY <1>1, <1>2, <1>4, <2>2, <2>3, CallKinds
<1>10. /\ \A n \in Names : AsIn(cfg, n)'
       /\ \A n : (Absent(n)' <=> Absent(n)) /\ (Coherent(n)' <=> Coherent(n))
       /\ UNCHANGED <<registry, buckets, proxies, checks>>
    BY <1>1, <1>2, <1>8, Still, SameAsIn, SameLooks DEF runtime
<1>11. ASSUME op.kind = "add", d.name \notin AllNames(cfg) PROVE Adding(t, d, call.at)'
    <2>1. Absent(d.name)'
        BY <1>2, <1>6, <1>8, <1>10, <1>11, AsInIs
    <2> QED
        BY <1>9, <1>11, <2>1 DEF Adding
<1>12. ASSUME op.kind = "add", d.name \in AllNames(cfg) PROVE Clashing(t, d.name, call.at)'
    <2>1. ASSUME NEW u \in Types, NEW x \in Range(cfg[u]), x.name = d.name
          PROVE  /\ d.name \in DOMAIN registry
                 /\ registry[d.name] = [type |-> u, label |-> x.label]
                 /\ d.name \in checks <=> x.check
                 /\ InStores(d.name, u)
        <3>1. Shows(u, x)
            BY <1>6, <1>8, <2>1 DEF AsIn
        <3> QED
            BY <2>1, <3>1 DEF Shows, RegisteredAs
    <2>2. op'.before = runtime'
        BY <1>1, <1>3, <1>8
    <2>3. call'.at = "store"
        BY <1>9, <1>12
    <2> QED
        BY <1>1, <1>10, <2>1, <2>2, <2>3 DEF Clashing, InStores
<1>13. ASSUME op.kind = "remove", d.name \in AllNames(cfg) PROVE Removing(t, d.name, call.at)'
    <2>1. d.name \in NamesOf(cfg[t])
        BY <1>5, <1>13 DEF Asked
    <2>2. Coherent(d.name) /\ registry[d.name].type = t
        BY <1>2, <1>6, <1>8, <2>1, AsInIs
    <2>3. call'.at = "uncheck"
        BY <1>9, <1>13
    <2> QED
        BY <1>10, <2>2, <2>3 DEF Removing
<1>14. ASSUME op.kind = "remove", d.name \notin AllNames(cfg)
       PROVE call'.at \in {"uncheck", "store", "reg", "err"} /\ Absent(d.name)'
             /\ op'.before = runtime'
    <2>1. Absent(d.name)
        BY <1>2, <1>6, <1>8, <1>14, AsInIs
    <2> QED
        BY <1>1, <1>3, <1>8, <1>9, <1>10, <1>14, <2>1
<1>15. \A m \in Names \ {d.name} : AsIn(cfg, m)'
    BY <1>10
<1>16. RequestCall(t, d)'
    BY <1>1, <1>3, <1>9, <1>11, <1>12, <1>13, <1>14, <1>15 DEF RequestCall
<1>17. RequestInv'
    BY <1>1, <1>2, <1>3, <1>4, <1>7, <1>16 DEF RequestInv
<1> QED
    BY <1>1, <1>2, <1>3, <1>17, RequestGoes

LEMMA ServicesSaveFails ==
    ASSUME Ordinary, TypeInv, BudgetInv, ServicesInv, SaveFails
    PROVE  ServicesInv'
<1>1. op.kind \in {"add", "remove"} /\ op.st \in {"save", "rollback"} /\ budget.save > 0
      /\ op' = NoOp /\ budget' = [budget EXCEPT !.save = @ - 1]
      /\ UNCHANGED <<file, phase, cfg, runtime, call>>
    BY DEF SaveFails
<1>2. op \in Requests /\ Distinct(cfg) /\ RequestInv /\ cfg \in Config
    BY <1>1, InRequest
<1>3. \A n \in Names : AsIn(cfg, n)'
    BY <1>1, <1>2, Still, SameAsIn DEF RequestInv
<1>4. Unedited' <=> Unedited
    BY <1>1, TypeFacts DEF Unedited
<1>5. ~MayClash
    <2>1. budget.save \in Nat /\ MaxSaveFailures \in Nat /\ budget.save <= MaxSaveFailures
        BY TypeFacts, ServicesAssumption DEF BudgetInv
    <2>2. MaxSaveFailures # 0
        BY <1>1, <2>1
    <2> QED
        BY <2>2 DEF Ordinary
<1>6. (Unedited => file = cfg) /\ (file = Corrupt \/ Distinct(file))
    BY <1>1, <1>2, <1>5 DEF RequestInv
<1>7. IdleInv'
    BY <1>1, <1>3, <1>4, <1>6 DEF IdleInv
<1> QED
    BY <1>1, <1>2, <1>7, ServicesIdle

LEMMA ServicesCommit ==
    ASSUME TypeInv, ServicesInv, Commit
    PROVE  ServicesInv'
<1>1. op.kind \in {"add", "remove"} /\ op.st = "call" /\ call.at = "ok"
      /\ cfg' = op.next /\ op' = NoOp
      /\ UNCHANGED <<file, budget, phase, runtime>>
    BY DEF Commit, disk
<1>2. op \in Requests /\ Distinct(cfg) /\ RequestInv /\ cfg \in Config /\ op.call \in Calls
    BY <1>1, InRequest
<1>3. PICK t \in Types, d \in Def : t = op.call.type /\ d = op.call.def
    BY <1>2, CallFields
<1>4. Asked(t, d) /\ RequestCall(t, d) /\ file = op.next
    BY <1>1, <1>2, <1>3 DEF RequestInv
<1>5. d.name \in Names /\ op.next \in Config
    BY <1>2, <1>4, AskedFor
<1>6. ASSUME NEW n \in Names, n # d.name PROVE AsIn(op.next, n)
    <2>1. AsIn(cfg, n)
        BY <1>4, <1>6 DEF RequestCall
    <2>2. \A u \in Types : \A x : x.name = n => (x \in Range(op.next[u]) <=> x \in Range(cfg[u]))
        BY <1>2, <1>3, <1>4, <1>6, AskedFor
    <2> QED
        BY <1>2, <1>5, <2>1, <2>2, AsInOther
<1>7. AsIn(op.next, d.name) /\ Distinct(op.next)
    <2>1. CASE op.kind = "add" /\ d.name \notin AllNames(cfg)
        <3>1. Distinct(op.next) /\ d \in Range(op.next[t])
            BY <1>2, <1>3, <1>4, <2>1, AskedFor
        <3>2. Shows(t, d)
            BY <1>1, <1>4, <2>1 DEF RequestCall, Adding
        <3> QED
            BY <1>5, <3>1, <3>2, ShowsAsIn
    <2>2. CASE op.kind = "add" /\ d.name \in AllNames(cfg)
        BY <1>1, <1>4, <2>2 DEF RequestCall, Clashing
    <2>3. CASE op.kind = "remove" /\ d.name \in AllNames(cfg)
        <3>1. Distinct(op.next) /\ d.name \notin AllNames(op.next)
            BY <1>2, <1>3, <1>4, <2>3, AskedFor
        <3>2. Absent(d.name)
            BY <1>1, <1>4, <2>3 DEF RequestCall, Removing
        <3>3. \A u \in Types : \A x \in Range(op.next[u]) : x.name # d.name
            BY <1>5, <3>1, ConfigNames
        <3> QED
            BY <3>1, <3>2, <3>3 DEF AsIn
    <2>4. CASE op.kind = "remove" /\ d.name \notin AllNames(cfg)
        BY <1>1, <1>4, <2>4 DEF RequestCall
    <2> QED
        BY <1>1, <2>1, <2>2, <2>3, <2>4
<1>8. \A n \in Names : AsIn(op.next, n)
    BY <1>6, <1>7
<1>9. \A n \in Names : AsIn(cfg, n)'
    <2>1. \A n : Same(n)
        BY <1>1, Still
    <2> QED
        BY <1>1, <1>5, <1>8, <2>1, SameAsIn
<1>10. IdleInv' /\ Distinct(cfg)'
    BY <1>1, <1>4, <1>7, <1>9 DEF IdleInv
<1> QED
    BY <1>1, <1>10, ServicesIdle

LEMMA ServicesCallFails ==
    ASSUME TypeInv, ServicesInv, CallFails
    PROVE  ServicesInv'
<1>1. op.kind \in {"add", "remove"} /\ op.st = "call" /\ call.at = "err"
      /\ op' = [op EXCEPT !.st = "rollback"] /\ UNCHANGED <<file, budget, phase, cfg, runtime>>
    BY DEF CallFails, disk
<1>2. op \in Requests /\ Distinct(cfg) /\ RequestInv /\ cfg \in Config /\ op.call \in Calls
      /\ op.old = cfg
    BY <1>1, InRequest
<1>3. op' \in Requests /\ op'.st = "rollback" /\ op'.kind = op.kind /\ op'.old = op.old
      /\ op'.next = op.next /\ op'.call = op.call /\ op'.before = op.before
    BY <1>1, <1>2, RequestFields
<1>4. PICK t \in Types, d \in Def : t = op.call.type /\ d = op.call.def
    BY <1>2, CallFields
<1>5. Asked(t, d) /\ RequestCall(t, d) /\ file = op.next
    BY <1>1, <1>2, <1>4 DEF RequestInv
<1>6. d.name \in Names /\ op.kind \in {"add", "remove"}
    BY <1>2, <1>5, AskedFor
<1>7. AsIn(cfg, d.name) /\ op.before = runtime /\ (MayClash \/ op.next = cfg)
    <2>1. CASE op.kind = "add" /\ d.name \notin AllNames(cfg)
        BY <1>1, <1>5, <2>1 DEF RequestCall, Adding
    <2>2. CASE op.kind = "add" /\ d.name \in AllNames(cfg)
        <3>1. Clashing(t, d.name, "err")
            BY <1>1, <1>5, <2>2 DEF RequestCall
        <3>2. ASSUME NEW u \in Types, NEW x \in Range(cfg[u]), x.name = d.name PROVE Shows(u, x)
            BY <3>1, <3>2 DEF Clashing, Shows, RegisteredAs
        <3>3. op.before = runtime
            BY <3>1 DEF Clashing
        <3>4. MayClash
            BY <1>5, <2>2 DEF Asked
        <3> QED
            BY <2>2, <3>2, <3>3, <3>4 DEF AsIn
    <2>3. CASE op.kind = "remove" /\ d.name \in AllNames(cfg)
        BY <1>1, <1>5, <2>3 DEF RequestCall, Removing
    <2>4. CASE op.kind = "remove" /\ d.name \notin AllNames(cfg)
        <3>1. Absent(d.name) /\ op.before = runtime
            BY <1>5, <2>4 DEF RequestCall
        <3>2. op.next = cfg
            BY <1>2, <1>4, <1>5, <2>4, AskedFor
        <3>3. \A u \in Types : \A x \in Range(cfg[u]) : x.name # d.name
            BY <1>2, <2>4, ConfigNames
        <3> QED
            BY <3>1, <3>2, <3>3 DEF AsIn
    <2> QED
        BY <1>6, <2>1, <2>2, <2>3, <2>4
<1>8. \A n \in Names : AsIn(cfg, n)
    BY <1>5, <1>7 DEF RequestCall
<1>9. \A n \in Names : AsIn(cfg, n)'
    <2>1. \A n : Same(n)
        BY <1>1, Still
    <2> QED
        BY <1>1, <1>2, <1>8, <2>1, SameAsIn
<1>10. Asked(t, d)'
    BY <1>1, <1>3, <1>5 DEF Asked
<1>11. op'.before = runtime'
    BY <1>1, <1>3, <1>7
<1>12. RequestInv'
    BY <1>1, <1>2, <1>3, <1>4, <1>5, <1>7, <1>9, <1>10, <1>11 DEF RequestInv
<1> QED
    BY <1>1, <1>2, <1>3, <1>12, RequestGoes

LEMMA ServicesRollback ==
    ASSUME TypeInv, ServicesInv, Rollback
    PROVE  ServicesInv'
<1>1. op.kind \in {"add", "remove"} /\ op.st = "rollback" /\ file' = op.old /\ op' = NoOp
      /\ UNCHANGED <<budget, phase, cfg, runtime>>
    BY DEF Rollback
<1>2. op \in Requests /\ Distinct(cfg) /\ RequestInv /\ cfg \in Config /\ op.old = cfg
    BY <1>1, InRequest
<1>3. \A n \in Names : AsIn(cfg, n)'
    BY <1>1, <1>2, Still, SameAsIn DEF RequestInv
<1>4. IdleInv' /\ Distinct(cfg)'
    BY <1>1, <1>2, <1>3 DEF IdleInv
<1> QED
    BY <1>1, <1>4, ServicesIdle

\* The call of a request goes on.
LEMMA ServicesRequestCall ==
    ASSUME TypeInv, ServicesInv, CallStep, op \in Requests
    PROVE  ServicesInv'
<1>1. /\ UNCHANGED <<file, budget, phase, cfg, op>> /\ call \in Calls /\ call' \in Calls
      /\ call'.fn = call.fn /\ call'.def = call.def /\ call'.type = call.type
    BY CallStepMoves DEF disk
<1>2. call # NoCall /\ call' # NoCall
    BY <1>1, CallKinds
<1>3. op.kind \in {"add", "remove"}
    BY Kinds
<1>4. Distinct(cfg) /\ RequestInv /\ cfg \in Config /\ op.st = "call" /\ op.call \in Calls
    BY <1>2, <1>3, InRequest DEF TypeInv, CallInv
<1>5. PICK t \in Types, d \in Def : t = op.call.type /\ d = op.call.def
    BY <1>4, CallFields
<1>6. Asked(t, d) /\ RequestCall(t, d) /\ file = op.next
    BY <1>4, <1>5 DEF RequestInv
<1>7. call.fn = op.kind /\ call.type = t /\ call.def = d
    BY <1>6 DEF RequestCall
<1>8. ASSUME NEW m \in Names \ {d.name} PROVE AsIn(cfg, m)'
    <2>1. AsIn(cfg, m) /\ Same(m)
        BY <1>6, <1>7, CallStepFrame DEF RequestCall
    <2> QED
        BY <1>1, <1>4, <2>1, SameAsIn
<1>9. ASSUME op.kind = "add", d.name \notin AllNames(cfg) PROVE Adding(t, d, call.at)'
    BY <1>6, <1>7, <1>9, AddingStep DEF RequestCall
<1>10. ASSUME op.kind = "add", d.name \in AllNames(cfg) PROVE Clashing(t, d.name, call.at)'
    BY <1>6, <1>7, <1>10, ClashingStep DEF RequestCall
<1>11. ASSUME op.kind = "remove", d.name \in AllNames(cfg) PROVE Removing(t, d.name, call.at)'
    BY <1>6, <1>7, <1>11, RemovingStep DEF RequestCall
<1>12. ASSUME op.kind = "remove", d.name \notin AllNames(cfg)
       PROVE call'.at \in {"uncheck", "store", "reg", "err"} /\ Absent(d.name)'
             /\ op'.before = runtime'
    <2>1. /\ call.at \in {"uncheck", "store", "reg", "err"} /\ Absent(d.name)
          /\ op.before = runtime
        BY <1>6, <1>12 DEF RequestCall
    <2>2. UNCHANGED runtime /\ call'.at \in {"uncheck", "store", "reg", "err"}
        BY <1>7, <1>12, <2>1, UnknownStep
    <2> QED
        BY <1>1, <2>1, <2>2, Still, SameLooks
<1>13. RequestCall(t, d)'
    BY <1>1, <1>2, <1>7, <1>8, <1>9, <1>10, <1>11, <1>12 DEF RequestCall
<1>14. Asked(t, d)'
    BY <1>1, <1>6 DEF Asked
<1>15. RequestInv'
    BY <1>1, <1>4, <1>5, <1>6, <1>13, <1>14 DEF RequestInv
<1> QED
    BY <1>1, <1>4, <1>15, RequestGoes

-----------------------------------------------------------------------------
(* Reloads.                                                                *)

\* A reload under way in a state as they are.
LEMMA InReload ==
    ASSUME TypeInv, ServicesInv, op.kind = "reload"
    PROVE  /\ op \in Reloads /\ phase = "up" /\ ReloadInv
           /\ cfg \in Config /\ op.next \in Config /\ Distinct(cfg) /\ Distinct(op.next)
           /\ file = op.next /\ op.load \in Seq(Entry)
           /\ \A e \in op.drop : e.name \in Names /\ e.type \in Types
           /\ op.drop \in SUBSET [type : Types, name : Names]
<1>1. op \in Reloads
    BY Kinds
<1>2. phase = "up"
    BY <1>1 DEF TypeInv, PhaseInv
<1>3. op.drop \in SUBSET [type : Types, name : Names] /\ op.load \in Seq(Entry)
      /\ op.next \in Config
    BY <1>1, ReloadFields
<1> QED
    BY <1>1, <1>2, <1>3, TypeFacts DEF ServicesInv, ReloadInv

LEMMA ReloadGoes ==
    ASSUME (op \in Reloads)', Distinct(cfg)', ReloadInv'
    PROVE  ServicesInv'
<1>1. op' \notin Requests /\ op' # NoOp
    BY KindsOf
<1> QED
    BY <1>1 DEF ServicesInv

LEMMA ServicesRebindFails ==
    ASSUME TypeInv, ServicesInv, RebindFails
    PROVE  ServicesInv'
<1>1. op.kind = "reload" /\ op.st = "rebind" /\ op' = NoOp
      /\ budget' = [budget EXCEPT !.rebind = @ - 1] /\ UNCHANGED <<file, phase, cfg, runtime, call>>
    BY DEF RebindFails
<1>2. /\ ReloadInv /\ cfg \in Config /\ Distinct(cfg) /\ Distinct(op.next) /\ file = op.next
      /\ (Unedited => file = cfg) /\ \A n \in Names : AsIn(cfg, n)
    BY <1>1, InReload DEF ReloadInv
<1>3. Unedited' <=> Unedited
    BY <1>1, TypeFacts DEF Unedited
<1>4. \A n \in Names : AsIn(cfg, n)'
    BY <1>1, <1>2, Still, SameAsIn
<1>5. IdleInv' /\ Distinct(cfg)'
    BY <1>1, <1>2, <1>3, <1>4 DEF IdleInv
<1> QED
    BY <1>1, <1>5, ServicesIdle

LEMMA ServicesAdopt ==
    ASSUME TypeInv, ServicesInv, Adopt
    PROVE  ServicesInv'
<1>1. op.kind = "reload" /\ op.st = "rebind" /\ op' = [op EXCEPT !.st = "list"]
      /\ cfg' = op.next /\ UNCHANGED <<file, budget, phase, runtime, call>>
    BY DEF Adopt, disk
<1>2. /\ op \in Reloads /\ cfg \in Config /\ Distinct(op.next) /\ file = op.next
      /\ \A n \in Names : AsIn(cfg, n)
    BY <1>1, InReload DEF ReloadInv
<1>3. op' \in Reloads /\ op'.next = op.next /\ op'.st = "list"
    BY <1>1, <1>2 DEF Reloads
<1>4. \A n \in Names : Coherent(n) \/ Absent(n)
    BY <1>2, AsInIs
<1>5. \A n \in Names : Coherent(n)' \/ Absent(n)'
    BY <1>1, <1>4, Still, SameLooks
<1>6. ReloadInv'
    BY <1>1, <1>2, <1>3, <1>5 DEF ReloadInv
<1> QED
    BY <1>1, <1>2, <1>3, <1>6, ReloadGoes

LEMMA ServicesListRegistry ==
    ASSUME TypeInv, ServicesInv, ListRegistry
    PROVE  ServicesInv'
<1> DEFINE drop == {[type |-> registry[n].type, name |-> n] :
                        n \in {m \in DOMAIN registry : ~Stays(m, op.next)}}
           load == InOrder(op.next, FirstOfEachName(op.next["bucket"]))
<1>1. op.kind = "reload" /\ op.st = "list"
      /\ op' = [op EXCEPT !.st = "apply", !.drop = drop, !.load = load]
      /\ UNCHANGED <<file, budget, phase, cfg, runtime, call>>
    BY DEF ListRegistry, disk
<1>2. /\ op \in Reloads /\ cfg \in Config /\ Distinct(cfg) /\ file = op.next /\ cfg = op.next
      /\ \A n \in Names : Coherent(n) \/ Absent(n)
    BY <1>1, InReload DEF ReloadInv
<1>3. call = NoCall
    BY <1>1, <1>2 DEF TypeInv, CallInv
<1>4. load = Full(cfg)
    <2>1. cfg["bucket"] \in Seq(Def) /\ "bucket" \in Types
        BY <1>2, ConfigLists DEF Types
    <2>2. \A i, j \in DOMAIN cfg["bucket"] : cfg["bucket"][i].name = cfg["bucket"][j].name => i = j
        BY <1>2, <2>1 DEF Distinct
    <2>3. FirstOfEachName(cfg["bucket"]) = cfg["bucket"]
        BY <2>1, <2>2, FirstOfEach
    <2> QED
        BY <1>2, <2>3 DEF Full
<1>5. \A n : n \in {e.name : e \in drop} <=> n \in DOMAIN registry /\ ~Stays(n, cfg)
    <2>1. ASSUME NEW n, n \in {e.name : e \in drop} PROVE n \in DOMAIN registry /\ ~Stays(n, cfg)
        <3>1. PICK e \in drop : n = e.name
            BY <2>1
        <3>2. PICK m \in DOMAIN registry :
                ~Stays(m, op.next) /\ e = [type |-> registry[m].type, name |-> m]
            BY <3>1
        <3> QED
            BY <1>2, <3>1, <3>2
    <2>2. ASSUME NEW n \in DOMAIN registry, ~Stays(n, cfg) PROVE n \in {e.name : e \in drop}
        <3>1. [type |-> registry[n].type, name |-> n] \in drop
            BY <1>2, <2>2
        <3>2. [type |-> registry[n].type, name |-> n].name = n
            OBVIOUS
        <3> QED
            BY <3>1, <3>2
    <2> QED
        BY <2>1, <2>2
<1> HIDE DEF drop, load
<1>6. Full(cfg) \in Seq(Entry) /\ DOMAIN Full(cfg) = 1..Len(Full(cfg))
    BY <1>2, FullPositions
<1>7. op' \in Reloads /\ op'.st = "apply" /\ op'.next = op.next /\ op'.drop = drop
      /\ op'.load = Full(cfg)
    <2>1. op'.st = "apply" /\ op'.next = op.next /\ op'.drop = drop /\ op'.load = Full(cfg)
        BY <1>1, <1>2, <1>4 DEF Reloads
    <2>2. op' \in Reloads
        <3>1. TypeInv'
            BY <1>1, TypesReload DEF ReloadStep
        <3>2. op'.kind = "reload"
            BY <1>1, <1>2 DEF Reloads
        <3> QED
            BY <3>1, <3>2, KindsOf DEF TypeInv
    <2> QED
        BY <2>1, <2>2
<1>8. \A n : n \in ToDrop' <=> n \in DOMAIN registry /\ ~Stays(n, cfg)
    BY <1>5, <1>7 DEF ToDrop
<1>9. \A n : n \in ToLoad' <=> n \in AllNames(cfg)
    <2>1. ASSUME NEW n, n \in ToLoad' PROVE n \in AllNames(cfg)
        <3>1. PICK i \in 1..Len(Full(cfg)) : n = Full(cfg)[i].def.name
            BY <1>6, <1>7, <2>1 DEF ToLoad, Range
        <3> QED
            BY <1>2, <3>1, FullEntries
    <2>2. ASSUME NEW n, n \in AllNames(cfg) PROVE n \in ToLoad'
        <3>1. PICK i \in 1..Len(Full(cfg)) : Full(cfg)[i].def.name = n
            BY <1>2, <2>2, FullEntries
        <3> QED
            BY <1>6, <1>7, <3>1 DEF ToLoad, Range
    <2> QED
        BY <2>1, <2>2
<1>10. LoadInv'
    <2>1. \A i, j \in DOMAIN Full(cfg) :
            Full(cfg)[i].def.name = Full(cfg)[j].def.name => i = j
        BY <1>2, <1>6, FullDistinct
    <2>2. ASSUME NEW e \in Range(Full(cfg)) PROVE e.def \in Range(cfg[e.type])
        <3>1. PICK i \in 1..Len(Full(cfg)) : e = Full(cfg)[i]
            BY <1>6 DEF Range
        <3> QED
            BY <1>2, <3>1, FullEntries
    <2>3. AllNames(cfg) \subseteq ToLoad'
        BY <1>9
    <2> QED
        BY <1>1, <1>7, <2>1, <2>2, <2>3 DEF LoadInv
<1>11. /\ registry' = registry /\ cfg' = cfg
       /\ \A n : (Coherent(n)' <=> Coherent(n)) /\ (Absent(n)' <=> Absent(n))
    BY <1>1, Still, SameLooks DEF runtime
<1>12. \A n : Stays(n, cfg) <=> registry[n].type = "bucket" /\ Kept_(n)
    BY DEF Stays, Kept_
<1>13. \A n : Kept_(n)' <=> Kept_(n)
    BY <1>11 DEF Kept_
<1>14. ASSUME NEW n \in Names
       PROVE IF n \in ToDrop'
             THEN Coherent(n)' /\ ~(registry'[n].type = "bucket" /\ Kept_(n)')
             ELSE IF n \in ToLoad'
             THEN Absent(n)' \/ (Coherent(n)' /\ registry'[n].type = "bucket" /\ Kept_(n)')
             ELSE AsIn(cfg, n)'
    <2>1. CASE n \in ToDrop'
        <3>1. n \in DOMAIN registry /\ ~Stays(n, cfg)
            BY <1>8, <2>1
        <3>2. Coherent(n)
            BY <1>2, <3>1 DEF Absent
        <3> QED
            BY <1>11, <1>12, <1>13, <2>1, <3>1, <3>2
    <2>2. CASE n \notin ToDrop' /\ n \in ToLoad'
        <3>1. Absent(n) \/ (Coherent(n) /\ Stays(n, cfg))
            BY <1>2, <1>8, <2>2 DEF Coherent
        <3> QED
            BY <1>11, <1>12, <1>13, <2>2, <3>1
    <2>3. CASE n \notin ToDrop' /\ n \notin ToLoad'
        <3>1. n \notin AllNames(cfg)
            BY <1>9, <2>3
        <3>2. ~Stays(n, cfg)
            BY <3>1 DEF Stays, AllNames, Types
        <3>3. Absent(n)
            BY <1>2, <1>8, <2>3, <3>2 DEF Coherent
        <3>4. AsIn(cfg, n)
            BY <1>2, <3>1, <3>3, ConfigNames DEF AsIn
        <3>5. AsIn(cfg, n)'
            BY <1>1, <1>2, <3>4, Still, SameAsIn
        <3> QED
            BY <2>3, <3>5
    <2> QED
        BY <2>1, <2>2, <2>3
<1>15. ApplyInv'
    BY <1>1, <1>3, <1>10, <1>14 DEF ApplyInv
<1>16. ReloadInv'
    BY <1>1, <1>2, <1>7, <1>15 DEF ReloadInv
<1> QED
    BY <1>1, <1>2, <1>7, <1>16, ReloadGoes

\* The registry and the rest of the runtime as they were, and the same
\* configuration: every name is as it was.
LEMMA StillLooks ==
    ASSUME TypeInv, UNCHANGED <<cfg, runtime>>
    PROVE  /\ UNCHANGED <<registry, buckets, proxies, checks>>
           /\ \A n : /\ Coherent(n)' <=> Coherent(n)
                     /\ Absent(n)' <=> Absent(n)
                     /\ Kept_(n)' <=> Kept_(n)
                     /\ AsIn(cfg, n)' <=> AsIn(cfg, n)
<1>1. UNCHANGED <<registry, buckets, proxies, checks>> /\ \A n : Same(n)
    BY Still DEF runtime
<1>2. \A n : (Coherent(n)' <=> Coherent(n)) /\ (Absent(n)' <=> Absent(n))
    BY <1>1, SameLooks
<1>3. \A n : Kept_(n)' <=> Kept_(n)
    BY DEF Kept_
<1>4. \A n : AsIn(cfg, n)' <=> AsIn(cfg, n)
    BY <1>1, TypeFacts, SameAsIn
<1> QED
    BY <1>1, <1>2, <1>3, <1>4

\* A reload that is applying the configuration.
LEMMA InApply ==
    ASSUME TypeInv, ServicesInv, op.kind = "reload", op.st = "apply" \/ call # NoCall
    PROVE  /\ op \in Reloads /\ phase = "up" /\ op.st = "apply"
           /\ cfg \in Config /\ Distinct(cfg) /\ cfg = op.next /\ file = cfg
           /\ op.load \in Seq(Entry) /\ op.drop \in SUBSET [type : Types, name : Names]
           /\ ApplyInv /\ LoadInv
<1>1. op \in Reloads /\ ReloadInv /\ phase = "up" /\ cfg \in Config /\ Distinct(cfg)
      /\ file = op.next /\ op.load \in Seq(Entry) /\ op.drop \in SUBSET [type : Types, name : Names]
    BY InReload
<1>2. op.st = "apply"
    BY <1>1, ReloadFields DEF TypeInv, CallInv
<1> QED
    BY <1>1, <1>2 DEF ReloadInv, ApplyInv

\* What a step of the reload has to keep, the configuration staying.
LEMMA ApplyGoes ==
    ASSUME TypeInv, ServicesInv, op.kind = "reload", op.st = "apply" \/ call # NoCall,
           UNCHANGED <<file, cfg>>, (op \in Reloads)',
           op'.st = "apply", op'.next = op.next, ApplyInv'
    PROVE  ServicesInv'
<1>1. cfg = op.next /\ file = cfg /\ Distinct(cfg) /\ op.st = "apply"
    BY InApply
<1>2. ReloadInv'
    BY <1>1 DEF ReloadInv
<1> QED
    BY <1>1, <1>2, ReloadGoes

LEMMA ServicesDropOne ==
    ASSUME TypeInv, ServicesInv, DropOne
    PROVE  ServicesInv'
<1>1. PICK e \in op.drop :
        /\ op' = [op EXCEPT !.drop = @ \ {e}]
        /\ call' = Call("remove", e.type,
                    [name |-> e.name, label |-> registry[e.name].label, check |-> FALSE],
                    "uncheck")
    BY DEF DropOne
<1>2. op.kind = "reload" /\ op.st = "apply" /\ call = NoCall
      /\ UNCHANGED <<file, budget, phase, cfg, runtime>>
    BY DEF DropOne, disk
<1>3. /\ op \in Reloads /\ ApplyInv /\ LoadInv /\ cfg \in Config
      /\ op.drop \in SUBSET [type : Types, name : Names]
    BY <1>2, InApply
<1>4. \A f \in op.drop : f.name \in DOMAIN registry /\ registry[f.name].type = f.type
    BY <1>3 DEF TypeInv, DropInv
<1>5. e \in [type : Types, name : Names] /\ e.name \in Names /\ e.name \in ToDrop
    BY <1>3 DEF ToDrop
<1>6. op' \in Reloads
    <2>1. TypeInv'
        BY TypesReload DEF ReloadStep
    <2>2. op'.kind = "reload"
        BY <1>1, <1>3 DEF Reloads
    <2> QED
        BY <2>1, <2>2, KindsOf DEF TypeInv
<1>7. op'.st = "apply" /\ op'.next = op.next /\ op'.drop = op.drop \ {e} /\ op'.load = op.load
    BY <1>1, <1>2, <1>3 DEF Reloads
<1>8. \A n : n \in ToDrop' <=> n \in ToDrop /\ n # e.name
    <2>1. ASSUME NEW n, n \in ToDrop' PROVE n \in ToDrop /\ n # e.name
        <3>1. PICK f \in op.drop : f # e /\ f.name = n
            BY <1>7, <2>1 DEF ToDrop
        <3>2. f \in [type : Types, name : Names] /\ f.type = registry[f.name].type
              /\ e.type = registry[e.name].type
            BY <1>3, <1>4, <3>1
        <3>3. f.name # e.name
            BY <1>5, <3>1, <3>2
        <3> QED
            BY <3>1, <3>3 DEF ToDrop
    <2>2. ASSUME NEW n, n \in ToDrop, n # e.name PROVE n \in ToDrop'
        BY <1>7, <2>2 DEF ToDrop
    <2> QED
        BY <2>1, <2>2
<1>9. ToLoad' = ToLoad
    BY <1>7 DEF ToLoad
<1>10. call' # NoCall /\ call'.fn = "remove" /\ call'.type = e.type /\ call'.def.name = e.name
       /\ call'.at = "uncheck"
    BY <1>1 DEF Call, NoCall
<1>11. Coherent(e.name) /\ ~(registry[e.name].type = "bucket" /\ Kept_(e.name))
       /\ registry[e.name].type = e.type
    BY <1>2, <1>3, <1>4, <1>5 DEF ApplyInv, InCall
<1>12. ReloadCall'
    <2>1. e.name \notin ToDrop'
        BY <1>8
    <2>2. e.type = "bucket" => ~Kept_(e.name)'
        BY <1>2, <1>11, StillLooks
    <2>3. Coherent(e.name)' /\ registry'[e.name].type = e.type
        BY <1>2, <1>11, StillLooks
    <2>4. Removing(call.type, call.def.name, call.at)'
        BY <1>10, <2>3 DEF Removing
    <2> QED
        BY <1>10, <2>1, <2>2, <2>4 DEF ReloadCall
<1>13. LoadInv'
    <2>1. AllNames(cfg) \subseteq ToLoad
        BY <1>3 DEF LoadInv
    <2> QED
        BY <1>2, <1>3, <1>7, <1>9, <2>1 DEF LoadInv
<1>14. ASSUME NEW n \in Names, ~InCall(n)'
       PROVE IF n \in ToDrop'
             THEN Coherent(n)' /\ ~(registry'[n].type = "bucket" /\ Kept_(n)')
             ELSE IF n \in ToLoad'
             THEN Absent(n)' \/ (Coherent(n)' /\ registry'[n].type = "bucket" /\ Kept_(n)')
             ELSE AsIn(cfg, n)'
    <2>1. n # e.name
        BY <1>10, <1>14 DEF InCall
    <2>2. IF n \in ToDrop
          THEN Coherent(n) /\ ~(registry[n].type = "bucket" /\ Kept_(n))
          ELSE IF n \in ToLoad
          THEN Absent(n) \/ (Coherent(n) /\ registry[n].type = "bucket" /\ Kept_(n))
          ELSE AsIn(cfg, n)
        BY <1>2, <1>3 DEF ApplyInv, InCall
    <2>3. n \in ToDrop' <=> n \in ToDrop
        BY <1>8, <2>1
    <2> QED
        BY <1>2, <1>9, <2>2, <2>3, StillLooks
<1>15. ApplyInv'
    BY <1>12, <1>13, <1>14 DEF ApplyInv
<1> QED
    BY <1>2, <1>6, <1>7, <1>15, ApplyGoes

LEMMA ServicesLoadOne ==
    ASSUME TypeInv, ServicesInv, LoadOne
    PROVE  ServicesInv'
<1>0. PICK e : e = Head(op.load)
    OBVIOUS
<1>1. op.kind = "reload" /\ op.st = "apply" /\ call = NoCall /\ op.drop = {} /\ op.load # <<>>
      /\ op' = [op EXCEPT !.load = Tail(@)]
      /\ UNCHANGED <<file, budget, phase, cfg, runtime>>
    BY DEF LoadOne, disk
<1>2. call' = IF e.type = "bucket" /\ e.def.name \in buckets
              THEN Call("update", "bucket", e.def, "reg")
              ELSE Call("add", e.type, e.def, "store")
    BY <1>0 DEF LoadOne
<1>3. /\ op \in Reloads /\ ApplyInv /\ LoadInv /\ cfg \in Config /\ Distinct(cfg)
      /\ op.load \in Seq(Entry)
    BY <1>1, InApply
<1>4. op' \in Reloads
    <2>1. TypeInv'
        BY TypesReload DEF ReloadStep
    <2>2. op'.kind = "reload"
        BY <1>1, <1>3 DEF Reloads
    <2> QED
        BY <2>1, <2>2, KindsOf DEF TypeInv
<1>5. op'.st = "apply" /\ op'.next = op.next /\ op'.drop = {} /\ op'.load = Tail(op.load)
    BY <1>1, <1>3 DEF Reloads
<1>6. /\ e = op.load[1] /\ 1 \in DOMAIN op.load /\ e \in Entry
      /\ DOMAIN op.load = 1..Len(op.load) /\ Len(op.load) \in Nat
      /\ DOMAIN op'.load = 1..(Len(op.load) - 1)
      /\ \A i \in DOMAIN op'.load : op'.load[i] = op.load[i + 1] /\ i + 1 \in DOMAIN op.load
    BY <1>0, <1>1, <1>3, <1>5
<1>7. e.type \in Types /\ e.def \in Def /\ e.def.name \in Names
    BY <1>6 DEF Entry, Def
<1>8. \A i, j \in DOMAIN op.load : op.load[i].def.name = op.load[j].def.name => i = j
    BY <1>3 DEF LoadInv
<1>9. e \in Range(op.load) /\ e.def \in Range(cfg[e.type]) /\ e.def.name \in ToLoad
    <2>1. e \in Range(op.load)
        BY <1>6 DEF Range
    <2> QED
        BY <1>3, <2>1 DEF LoadInv, ToLoad
<1>10. \A n : n \in ToLoad' <=> n \in ToLoad /\ n # e.def.name
    <2>1. ASSUME NEW n, n \in ToLoad' PROVE n \in ToLoad /\ n # e.def.name
        <3>1. PICK i \in DOMAIN op'.load : n = op'.load[i].def.name
            BY <2>1 DEF ToLoad, Range
        <3>2. n = op.load[i + 1].def.name /\ i + 1 \in DOMAIN op.load /\ i + 1 # 1
            BY <1>6, <3>1
        <3>3. n # e.def.name
            BY <1>6, <1>8, <3>2
        <3> QED
            BY <3>2, <3>3 DEF ToLoad, Range
    <2>2. ASSUME NEW n, n \in ToLoad, n # e.def.name PROVE n \in ToLoad'
        <3>1. PICK i \in DOMAIN op.load : n = op.load[i].def.name
            BY <2>2 DEF ToLoad, Range
        <3>2. i # 1 /\ i \in 1..Len(op.load)
            BY <1>6, <2>2, <3>1
        <3>3. i - 1 \in DOMAIN op'.load /\ (i - 1) + 1 = i
            BY <1>6, <3>2
        <3>4. op'.load[i - 1] = op.load[i]
            BY <1>6, <3>3
        <3> QED
            BY <3>1, <3>3, <3>4 DEF ToLoad, Range
    <2> QED
        BY <2>1, <2>2
<1>11. ToDrop = {} /\ ToDrop' = {}
    BY <1>1, <1>5 DEF ToDrop
<1>12. Absent(e.def.name)
       \/ (Coherent(e.def.name) /\ registry[e.def.name].type = "bucket" /\ Kept_(e.def.name))
    BY <1>1, <1>3, <1>7, <1>9, <1>11 DEF ApplyInv, InCall
<1>13. call' # NoCall /\ call'.fn \in {"add", "update"} /\ call'.def = e.def /\ call'.type = e.type
    BY <1>2 DEF Call, NoCall
<1>14. ASSUME call'.fn = "add" PROVE Adding(call.type, call.def, call.at)'
    <2>1. ~(e.type = "bucket" /\ e.def.name \in buckets) /\ call'.at = "store"
        BY <1>2, <1>14 DEF Call
    <2>2. ASSUME Coherent(e.def.name), registry[e.def.name].type = "bucket", Kept_(e.def.name)
          PROVE  FALSE
        <3>1. e.def.name \in buckets
            BY <2>2 DEF Coherent, InStores
        <3>2. "bucket" \in Types /\ e.def.name \in NamesOf(cfg["bucket"])
            BY <2>2 DEF Kept_, Types
        <3>3. e.type = "bucket"
            BY <1>3, <1>7, <1>9, <3>2, TypeOfName
        <3> QED
            BY <2>1, <3>1, <3>3
    <2>3. Absent(e.def.name)'
        BY <1>1, <1>12, <2>2, StillLooks
    <2> QED
        BY <1>13, <2>1, <2>3 DEF Adding
<1>15. ASSUME call'.fn = "update"
       PROVE  call'.type = "bucket" /\ Updating(call.def, call.at)'
    <2>1. e.type = "bucket" /\ e.def.name \in buckets /\ call'.at = "reg"
        BY <1>2, <1>15 DEF Call
    <2>2. Coherent(e.def.name) /\ registry[e.def.name].type = "bucket"
        BY <1>12, <2>1 DEF Absent
    <2>3. Coherent(e.def.name)' /\ registry'[e.def.name].type = "bucket"
        BY <1>1, <2>2, StillLooks
    <2> QED
        BY <1>13, <2>1, <2>3 DEF Updating
<1>16. ReloadCall'
    BY <1>1, <1>9, <1>10, <1>11, <1>13, <1>14, <1>15 DEF ReloadCall
<1>17. LoadInv'
    <2>1. ASSUME NEW i \in DOMAIN op'.load, NEW j \in DOMAIN op'.load,
                 op'.load[i].def.name = op'.load[j].def.name
          PROVE  i = j
        <3>1. i \in Nat /\ j \in Nat
            BY <1>6
        <3>2. /\ i + 1 \in DOMAIN op.load /\ j + 1 \in DOMAIN op.load
              /\ op'.load[i] = op.load[i + 1] /\ op'.load[j] = op.load[j + 1]
            BY <1>6
        <3>3. i + 1 = j + 1
            BY <1>8, <2>1, <3>2
        <3> QED
            BY <3>1, <3>3
    <2>2. ASSUME NEW f \in Range(op'.load) PROVE f.def \in Range(cfg[f.type])
        <3>1. f \in Range(op.load)
            BY <1>6, <2>2 DEF Range
        <3> QED
            BY <1>3, <3>1 DEF LoadInv
    <2>3. op'.drop = {} /\ call'.fn # "remove"
        BY <1>5, <1>13
    <2> QED
        BY <1>1, <2>1, <2>2, <2>3 DEF LoadInv
<1>18. ASSUME NEW n \in Names, ~InCall(n)'
       PROVE IF n \in ToDrop'
             THEN Coherent(n)' /\ ~(registry'[n].type = "bucket" /\ Kept_(n)')
             ELSE IF n \in ToLoad'
             THEN Absent(n)' \/ (Coherent(n)' /\ registry'[n].type = "bucket" /\ Kept_(n)')
             ELSE AsIn(cfg, n)'
    <2>1. n # e.def.name
        BY <1>13, <1>18 DEF InCall
    <2>2. IF n \in ToLoad
          THEN Absent(n) \/ (Coherent(n) /\ registry[n].type = "bucket" /\ Kept_(n))
          ELSE AsIn(cfg, n)
        BY <1>1, <1>3, <1>11 DEF ApplyInv, InCall
    <2> QED
        BY <1>1, <1>10, <1>11, <2>1, <2>2, StillLooks
<1>19. ApplyInv'
    BY <1>16, <1>17, <1>18 DEF ApplyInv
<1> QED
    BY <1>1, <1>4, <1>5, <1>19, ApplyGoes

\* A call of a reload never fails: when it returns its name is in place.
LEMMA ServicesReloadReturns ==
    ASSUME TypeInv, ServicesInv, ReloadReturns
    PROVE  ServicesInv'
<1>1. op.kind = "reload" /\ call # NoCall /\ call.at \in {"ok", "err"} /\ call' = NoCall
      /\ UNCHANGED <<file, budget, phase, cfg, runtime, op>>
    BY Kinds DEF ReloadReturns, Returned, disk
<1>2. /\ op \in Reloads /\ op.st = "apply" /\ ApplyInv /\ LoadInv /\ cfg \in Config /\ Distinct(cfg)
      /\ call \in Calls
    BY <1>1, InApply, Kinds
<1>3. ReloadCall /\ call.type \in Types /\ call.def.name \in Names
      /\ call.fn \in {"add", "remove", "update"}
    BY <1>1, <1>2, CallFields DEF ApplyInv
<1>4. ToDrop' = ToDrop /\ ToLoad' = ToLoad
    BY <1>1 DEF ToDrop, ToLoad
<1>5. LoadInv'
    BY <1>1, <1>2 DEF LoadInv, ToLoad
<1>6. call.def.name \notin ToDrop
      /\ IF call.def.name \in ToLoad THEN Absent(call.def.name) ELSE AsIn(cfg, call.def.name)
    <2>1. CASE call.fn = "remove"
        <3>1. Absent(call.def.name)
            BY <1>1, <1>3, <2>1 DEF ReloadCall, Removing
        <3>2. AllNames(cfg) \subseteq ToLoad
            BY <1>1, <1>2, <2>1 DEF LoadInv
        <3>3. call.def.name \notin ToLoad => AsIn(cfg, call.def.name)
            BY <1>2, <3>1, <3>2, ConfigNames DEF AsIn
        <3> QED
            BY <1>3, <3>1, <3>3 DEF ReloadCall
    <2>2. CASE call.fn \in {"add", "update"}
        <3>1. call.def.name \notin ToLoad /\ call.def \in Range(cfg[call.type])
            BY <1>3, <2>2 DEF ReloadCall
        <3>2. Shows(call.type, call.def)
            BY <1>1, <1>3, <2>2 DEF ReloadCall, Adding, Updating
        <3>3. AsIn(cfg, call.def.name)
            BY <1>2, <1>3, <3>1, <3>2, ShowsAsIn
        <3> QED
            BY <1>3, <3>1, <3>3 DEF ReloadCall
    <2> QED
        BY <1>3, <2>1, <2>2
<1>7. ASSUME NEW n \in Names
      PROVE IF n \in ToDrop'
            THEN Coherent(n)' /\ ~(registry'[n].type = "bucket" /\ Kept_(n)')
            ELSE IF n \in ToLoad'
            THEN Absent(n)' \/ (Coherent(n)' /\ registry'[n].type = "bucket" /\ Kept_(n)')
            ELSE AsIn(cfg, n)'
    <2>1. IF n \in ToDrop
          THEN Coherent(n) /\ ~(registry[n].type = "bucket" /\ Kept_(n))
          ELSE IF n \in ToLoad
          THEN Absent(n) \/ (Coherent(n) /\ registry[n].type = "bucket" /\ Kept_(n))
          ELSE AsIn(cfg, n)
        BY <1>2, <1>6 DEF ApplyInv, InCall
    <2> QED
        BY <1>1, <1>4, <2>1, StillLooks
<1>8. ApplyInv'
    BY <1>1, <1>5, <1>7 DEF ApplyInv
<1> QED
    BY <1>1, <1>2, <1>8, ApplyGoes

LEMMA ServicesEndReload ==
    ASSUME TypeInv, ServicesInv, EndReload
    PROVE  ServicesInv'
<1>1. op.kind = "reload" /\ op.st = "apply" /\ call = NoCall /\ op.drop = {} /\ op.load = <<>>
      /\ op' = NoOp /\ UNCHANGED <<file, budget, phase, cfg, runtime, call>>
    BY DEF EndReload, disk
<1>2. ApplyInv /\ cfg \in Config /\ Distinct(cfg) /\ file = cfg
    BY <1>1, InApply
<1>3. ToDrop = {} /\ \A n : n \notin ToLoad
    BY <1>1 DEF ToDrop, ToLoad, Range
<1>4. \A n \in Names : AsIn(cfg, n)
    BY <1>1, <1>2, <1>3 DEF ApplyInv, InCall
<1>5. \A n \in Names : AsIn(cfg, n)'
    BY <1>1, <1>4, StillLooks
<1>6. IdleInv' /\ Distinct(cfg)'
    BY <1>1, <1>2, <1>5 DEF IdleInv
<1> QED
    BY <1>1, <1>6, ServicesIdle

\* A call of a reload goes on.
LEMMA ServicesReloadCall ==
    ASSUME TypeInv, ServicesInv, CallStep, op \in Reloads
    PROVE  ServicesInv'
<1>1. /\ UNCHANGED <<file, budget, phase, cfg, op>> /\ call \in Calls /\ call' \in Calls
      /\ call'.fn = call.fn /\ call'.def = call.def /\ call'.type = call.type
    BY CallStepMoves DEF disk
<1>2. call # NoCall /\ call' # NoCall /\ op.kind = "reload"
    BY <1>1, CallKinds, Kinds
<1>3. ApplyInv /\ LoadInv /\ cfg \in Config /\ Distinct(cfg) /\ op.st = "apply"
    BY <1>2, InApply
<1>4. ReloadCall /\ call.fn \in {"add", "remove", "update"}
    BY <1>1, <1>2, <1>3, CallFields DEF ApplyInv
<1>5. ToDrop' = ToDrop /\ ToLoad' = ToLoad /\ \A n : Kept_(n)' <=> Kept_(n)
    BY <1>1 DEF ToDrop, ToLoad, Kept_
<1>6. LoadInv'
    BY <1>1, <1>2, <1>3 DEF LoadInv, ToLoad
<1> PICK t, d : t = call.type /\ d = call.def
    OBVIOUS
<1>7. call.fn = "remove" => Removing(t, d.name, call.at)'
    BY <1>4, RemovingStep DEF ReloadCall
<1>8. call.fn = "add" => Adding(t, d, call.at)'
    BY <1>4, AddingStep DEF ReloadCall
<1>9. call.fn = "update" => Updating(d, call.at)'
    BY <1>4, UpdatingStep DEF ReloadCall
<1>10. ReloadCall'
    BY <1>1, <1>4, <1>5, <1>7, <1>8, <1>9 DEF ReloadCall
<1>11. ASSUME NEW n \in Names, ~InCall(n)'
       PROVE IF n \in ToDrop'
             THEN Coherent(n)' /\ ~(registry'[n].type = "bucket" /\ Kept_(n)')
             ELSE IF n \in ToLoad'
             THEN Absent(n)' \/ (Coherent(n)' /\ registry'[n].type = "bucket" /\ Kept_(n)')
             ELSE AsIn(cfg, n)'
    <2>1. n # call.def.name /\ ~InCall(n)
        BY <1>1, <1>2, <1>11 DEF InCall
    <2>2. IF n \in ToDrop
          THEN Coherent(n) /\ ~(registry[n].type = "bucket" /\ Kept_(n))
          ELSE IF n \in ToLoad
          THEN Absent(n) \/ (Coherent(n) /\ registry[n].type = "bucket" /\ Kept_(n))
          ELSE AsIn(cfg, n)
        BY <1>3, <2>1 DEF ApplyInv
    <2>3. Same(n)
        BY <2>1, CallStepFrame
    <2>4. /\ Coherent(n)' <=> Coherent(n)
          /\ Absent(n)' <=> Absent(n)
          /\ AsIn(cfg, n)' <=> AsIn(cfg, n)
        BY <1>1, <1>3, <2>3, SameLooks, SameAsIn
    <2>5. Coherent(n) => registry'[n] = registry[n]
        BY <2>3 DEF Same, Coherent
    <2> QED
        BY <1>5, <2>2, <2>4, <2>5
<1>12. ApplyInv'
    BY <1>6, <1>10, <1>11 DEF ApplyInv
<1> QED
    BY <1>1, <1>2, <1>3, <1>12, ApplyGoes

-----------------------------------------------------------------------------
(* The services as the configuration has them, in every state.             *)

LEMMA ServicesStutter ==
    ASSUME TypeInv, ServicesInv, UNCHANGED vars
    PROVE  ServicesInv'
<1>1. UNCHANGED <<file, budget, phase, cfg, registry, buckets, proxies, checks, op, call>>
      /\ UNCHANGED runtime
    BY DEF vars, disk, runtime
<1>2. /\ \A n : /\ Coherent(n)' <=> Coherent(n)
                /\ Absent(n)' <=> Absent(n)
                /\ Kept_(n)' <=> Kept_(n)
                /\ AsIn(cfg, n)' <=> AsIn(cfg, n)
                /\ InCall(n)' <=> InCall(n)
      /\ ToDrop' = ToDrop /\ ToLoad' = ToLoad /\ (Unedited' <=> Unedited)
    BY <1>1, StillLooks DEF InCall, ToDrop, ToLoad, Unedited
<1>3. \A t, d : (RegisteredAs(t, d)' <=> RegisteredAs(t, d)) /\ (Shows(t, d)' <=> Shows(t, d))
    BY <1>1 DEF Shows, RegisteredAs, InStores
<1>4. /\ \A t, d : Adding(t, d, call.at)' <=> Adding(t, d, call.at)
      /\ \A t, n : Removing(t, n, call.at)' <=> Removing(t, n, call.at)
      /\ \A d : Updating(d, call.at)' <=> Updating(d, call.at)
    BY <1>1, <1>2, <1>3 DEF Adding, Removing, Updating, InStores
<1>5. \A t, n : Clashing(t, n, call.at)' <=> Clashing(t, n, call.at)
    BY <1>1 DEF Clashing, InStores, runtime
<1>6. \A t, d : (RequestCall(t, d)' <=> RequestCall(t, d)) /\ (Asked(t, d)' <=> Asked(t, d))
    BY <1>1, <1>2, <1>4, <1>5 DEF RequestCall, Asked
<1> PICK t, d : t = call.type /\ d = call.def
    OBVIOUS
<1> PICK u, f : u = op.call.type /\ f = op.call.def
    OBVIOUS
<1>7. RequestInv' <=> RequestInv
    BY <1>1, <1>2, <1>6 DEF RequestInv
<1>8. ReloadCall' <=> ReloadCall
    BY <1>1, <1>2, <1>4 DEF ReloadCall
<1>9. LoadInv' <=> LoadInv
    BY <1>1, <1>2 DEF LoadInv
<1>10. ApplyInv' <=> ApplyInv
    BY <1>1, <1>2, <1>8, <1>9 DEF ApplyInv
<1>11. (ReloadInv' <=> ReloadInv) /\ (IdleInv' <=> IdleInv)
    BY <1>1, <1>2, <1>10 DEF ReloadInv, IdleInv
<1> QED
    BY <1>1, <1>7, <1>11 DEF ServicesInv

\* The accidents and edits that may still happen only become fewer.
LEMMA BudgetStep ==
    ASSUME TypeInv, BudgetInv, [Next]_vars
    PROVE  BudgetInv' /\ budget'.edit <= budget.edit
           /\ ((\E c \in Edits : EditFile(c)) => ~Unedited')
<1>1. /\ {budget.edit, budget.crash, budget.save, budget.rebind} \subseteq Nat
      /\ budget \in [edit: Nat, crash: Nat, save: Nat, rebind: Nat]
      /\ {MaxSaveFailures, MaxEdits} \subseteq Nat
    BY TypeFacts, ServicesAssumption
<1>2. \/ budget' = budget
      \/ budget' = [budget EXCEPT !.edit = @ - 1]
      \/ budget' = [budget EXCEPT !.crash = @ - 1]
      \/ budget' = [budget EXCEPT !.save = @ - 1]
      \/ budget' = [budget EXCEPT !.rebind = @ - 1]
    <2>1. CASE CallStep
        BY <2>1, CallStepMoves DEF disk
    <2>2. CASE RequestStep
        BY <2>2 DEF RequestStep, SaveNext, SaveFails, Commit, CallFails, Rollback, disk
    <2>3. CASE ReloadStep
        BY <2>3 DEF ReloadStep, RebindFails, Adopt, ListRegistry, DropOne, LoadOne,
                    ReloadReturns, EndReload, disk
    <2>4. CASE Process \/ Crash
        BY <2>4 DEF Process, Boot, StartOne, StartReturns, Started, Respawn, Crash, disk
    <2>5. CASE \/ BeginReload
               \/ \E type \in Types, def \in Def : BeginAdd(type, def)
               \/ \E type \in Types, name \in Names, label \in Labels :
                    BeginRemove(type, [name |-> name, label |-> label, check |-> FALSE])
        BY <2>5 DEF BeginReload, BeginAdd, BeginRemove, disk
    <2>6. CASE \E c \in Edits : EditFile(c)
        BY <2>6 DEF EditFile
    <2>7. CASE UNCHANGED vars
        BY <2>7 DEF vars, disk
    <2> QED
        BY <2>1, <2>2, <2>3, <2>4, <2>5, <2>6, <2>7 DEF Next
<1>3. budget'.edit <= budget.edit /\ budget'.save <= budget.save
    BY <1>1, <1>2
<1>4. budget'.edit \in Int /\ budget'.save \in Int
    BY <1>1, <1>2
<1>5. BudgetInv'
    BY <1>1, <1>3, <1>4 DEF BudgetInv
<1>6. ASSUME NEW c \in Edits, EditFile(c) PROVE ~Unedited'
    <2>1. budget'.edit = budget.edit - 1
        BY <1>1, <1>6 DEF EditFile
    <2> QED
        BY <1>1, <2>1 DEF BudgetInv, Unedited
<1> QED
    BY <1>3, <1>5, <1>6

LEMMA BudgetInit == Init => BudgetInv
BY ServicesAssumption DEF Init, BudgetInv

LEMMA ServicesInit == Init => ServicesInv
BY DEF Init, ServicesInv

LEMMA ServicesStep ==
    ASSUME Ordinary, TypeInv, StartInv, BudgetInv, ServicesInv, [Next]_vars
    PROVE  ServicesInv'
<1>1. CASE CallStep
    <2>1. phase' = phase /\ call \in Calls
        BY <1>1, CallStepMoves
    <2>2. call # NoCall
        BY <2>1, CallKinds
    <2>3. phase = "up" => op \in Requests \cup Reloads
        BY <2>2 DEF TypeInv, PhaseInv, CallInv
    <2>4. CASE phase = "up"
        BY <1>1, <2>3, <2>4, ServicesRequestCall, ServicesReloadCall
    <2> QED
        BY <2>1, <2>4 DEF ServicesInv
<1>2. CASE RequestStep
    BY <1>2, ServicesSaveNext, ServicesSaveFails, ServicesCommit, ServicesCallFails,
       ServicesRollback DEF RequestStep
<1>3. CASE ReloadStep
    BY <1>3, ServicesRebindFails, ServicesAdopt, ServicesListRegistry, ServicesDropOne,
       ServicesLoadOne, ServicesReloadReturns, ServicesEndReload DEF ReloadStep
<1>4. CASE Process \/ Crash
    <2>1. CASE Started
        BY <2>1, ServicesStarted
    <2>2. CASE Boot \/ StartOne \/ StartReturns
        BY <2>2 DEF Boot, StartOne, StartReturns, ServicesInv
    <2>3. CASE Respawn \/ Crash
        BY <2>3 DEF Respawn, Crash, ClearRuntime, ServicesInv
    <2> QED
        BY <1>4, <2>1, <2>2, <2>3 DEF Process
<1>5. CASE BeginReload
    BY <1>5, ServicesBeginReload
<1>6. CASE \/ \E type \in Types, def \in Def : BeginAdd(type, def)
           \/ \E type \in Types, name \in Names, label \in Labels :
                BeginRemove(type, [name |-> name, label |-> label, check |-> FALSE])
    BY <1>6, ServicesBegin
<1>7. CASE \E c \in Edits : EditFile(c)
    BY <1>7, ServicesEdit
<1>8. CASE UNCHANGED vars
    BY <1>8, ServicesStutter
<1> QED
    BY <1>1, <1>2, <1>3, <1>4, <1>5, <1>6, <1>7, <1>8 DEF Next

ServicesAll == TypeInv /\ StartInv /\ BudgetInv /\ ServicesInv

LEMMA ServicesHold ==
    ASSUME Ordinary
    PROVE  Spec => []ServicesAll
<1>1. Init => ServicesAll
    BY TypesInit, StartInit, BudgetInit, ServicesInit DEF ServicesAll
<1>2. ServicesAll /\ [Next]_vars => ServicesAll'
    BY TypesStep, StartStep, BudgetStep, ServicesStep DEF ServicesAll
<1> QED
    BY <1>1, <1>2, PTL DEF Spec

-----------------------------------------------------------------------------
(* What the configuration, the runtime and the file have in common.        *)

LEMMA IdleRealises ==
    ASSUME TypeInv, Distinct(cfg), \A n \in Names : AsIn(cfg, n)
    PROVE  Realises(cfg)
<1>1. cfg \in Config /\ DOMAIN registry \subseteq Names /\ buckets \subseteq Names
      /\ proxies \subseteq Names /\ checks \subseteq Names
    BY TypeFacts
<1>2. \A t \in Types : \A d \in Range(cfg[t]) : d.name \in Names /\ Shows(t, d)
    BY <1>1, ConfigNames DEF AsIn
<1>3. \A n \in Names : n \in AllNames(cfg) \/ Absent(n)
    BY DEF AsIn
<1>4. \A n \in AllNames(cfg) : \E t \in Types : \E d \in Range(cfg[t]) : d.name = n
    BY <1>1, ConfigNames
<1>5. DOMAIN registry = AllNames(cfg)
    <2>1. ASSUME NEW n \in DOMAIN registry PROVE n \in AllNames(cfg)
        BY <1>1, <1>3 DEF Absent
    <2>2. ASSUME NEW n \in AllNames(cfg) PROVE n \in DOMAIN registry
        BY <1>2, <1>4 DEF Shows, RegisteredAs
    <2> QED
        BY <2>1, <2>2
<1>6. \A t \in Types : \A d \in Range(cfg[t]) :
        registry[d.name] = [type |-> t, label |-> d.label]
    BY <1>2 DEF Shows, RegisteredAs
<1>7. ASSUME NEW n
      PROVE  /\ n \in buckets <=> n \in NamesOf(cfg["bucket"])
             /\ n \in proxies <=> n \in NamesOf(cfg["proxy"])
             /\ n \in checks <=> n \in {d.name : d \in {x \in Services(cfg) : x.check}}
    <2>1. CASE n \in AllNames(cfg)
        <3>1. PICK t \in Types : \E d \in Range(cfg[t]) : d.name = n
            BY <1>4, <2>1
        <3> PICK d \in Range(cfg[t]) : d.name = n
            BY <3>1
        <3>2. Shows(t, d)
            BY <1>2, <3>1
        <3>3. \A u \in Types : \A e \in Range(cfg[u]) : e.name = n => u = t /\ e = d
            BY <1>1, <3>1, DistinctNames
        <3>4. /\ "bucket" \in Types /\ "proxy" \in Types
              /\ \A u \in Types : n \in NamesOf(cfg[u]) <=> u = t
            BY <3>1, <3>3 DEF NamesOf, Types
        <3>5. n \in {x.name : x \in {y \in Services(cfg) : y.check}} <=> d.check
            <4>1. \A x : x \in Services(cfg) /\ x.name = n <=> x = d
                BY <3>1, <3>3 DEF Services
            <4> QED
                BY <4>1
        <3> QED
            BY <3>1, <3>2, <3>4, <3>5 DEF Shows, RegisteredAs, InStores
    <2>2. CASE n \notin AllNames(cfg)
        <3>1. n \notin buckets /\ n \notin proxies /\ n \notin checks
            BY <1>1, <1>3, <2>2 DEF Absent
        <3>2. \A u \in Types : \A e \in Range(cfg[u]) : e.name # n
            BY <1>1, <2>2, ConfigNames
        <3>3. \A u \in Types : n \notin NamesOf(cfg[u])
            BY <3>2 DEF NamesOf
        <3>4. n \notin {x.name : x \in {y \in Services(cfg) : y.check}}
            BY <3>2 DEF Services
        <3> QED
            BY <3>1, <3>3, <3>4 DEF Types
    <2> QED
        BY <2>1, <2>2
<1>8. /\ buckets = NamesOf(cfg["bucket"]) /\ proxies = NamesOf(cfg["proxy"])
      /\ checks = {d.name : d \in {x \in Services(cfg) : x.check}}
    BY <1>7
<1> QED
    BY <1>5, <1>6, <1>8 DEF Realises

\* Between two operations the registry, the stores and the health checks are
\* those the running configuration describes: whatever failed, was refused,
\* rolled back, reloaded or restarted before.  It takes a remove to name a
\* service by its own type, and the rollback of a clashing add to be written.
THEOREM RuntimeAlwaysRealisesConfig ==
    ASSUME Ordinary
    PROVE  Spec => []RuntimeRealisesConfig
<1>1. ServicesAll => RuntimeRealisesConfig
    <2> SUFFICES ASSUME ServicesAll, Idle PROVE Realises(cfg)
        BY DEF RuntimeRealisesConfig
    <2>1. TypeInv /\ ServicesInv /\ phase = "up" /\ op.kind = "none"
        BY DEF ServicesAll, Idle
    <2>2. op = NoOp
        BY <2>1, Kinds
    <2> QED
        BY <2>1, <2>2, IdleServices, IdleRealises DEF IdleInv
<1> QED
    BY <1>1, ServicesHold, PTL

LEMMA WrittenInit == Init => WrittenInv
<1> SUFFICES ASSUME Init PROVE WrittenInv
    OBVIOUS
<1>1. op = NoOp /\ phase = "down"
    BY DEF Init
<1> QED
    BY <1>1, KindsOf DEF WrittenInv

\* A request leaves the file at what it found or at what it made of it, and
\* the configuration with it.
LEMMA WrittenRequest ==
    ASSUME MaxSaveFailures = 0, TypeInv, BudgetInv, WrittenInv, Unedited, RequestStep
    PROVE  WrittenInv'
<1>1. op \in Requests /\ op.kind \in {"add", "remove"}
    BY Kinds DEF RequestStep, SaveNext, SaveFails, Commit, CallFails, Rollback
<1>2. /\ op.old = cfg
      /\ op.st = "save" => file = cfg
      /\ op.st # "save" => file = op.next
    BY <1>1 DEF WrittenInv
<1>3. ~SaveFails
    BY TypeFacts DEF BudgetInv, SaveFails
<1>4. CASE SaveNext \/ CallFails
    <2>1. PICK r \in Requests : r = op
        BY <1>1
    <2>2. /\ [r EXCEPT !.st = "call"] \in Requests
          /\ [r EXCEPT !.st = "rollback"] \in Requests
        BY RequestFields
    <2>3. op' \in Requests /\ op'.st # "save" /\ op'.old = op.old /\ op'.next = op.next
        BY <1>4, <2>1, <2>2 DEF SaveNext, CallFails, Requests
    <2>4. op' \notin Reloads
        BY <2>3, KindsOf
    <2>5. cfg' = cfg /\ file' = op.next
        BY <1>2, <1>4 DEF SaveNext, CallFails, disk
    <2> QED
        BY <1>2, <2>3, <2>4, <2>5 DEF WrittenInv
<1>5. CASE Commit \/ Rollback
    <2>1. op' = NoOp /\ file' = cfg'
        BY <1>2, <1>5 DEF Commit, Rollback, disk
    <2>2. op' \notin Requests /\ op' \notin Reloads
        BY <2>1, KindsOf
    <2> QED
        BY <2>1, <2>2 DEF WrittenInv
<1> QED
    BY <1>3, <1>4, <1>5 DEF RequestStep

LEMMA WrittenStep ==
    ASSUME MaxSaveFailures = 0, TypeInv, StartInv, BudgetInv, WrittenInv, [Next]_vars
    PROVE  WrittenInv'
<1> SUFFICES ASSUME Unedited' PROVE WrittenInv'
    BY DEF WrittenInv
<1>1. Unedited /\ ~(\E c \in Edits : EditFile(c))
    <2>1. /\ budget'.edit <= budget.edit /\ budget.edit <= MaxEdits /\ budget'.edit = MaxEdits
          /\ budget.edit \in Nat /\ MaxEdits \in Nat
        BY BudgetStep, TypeFacts, ServicesAssumption DEF Unedited, BudgetInv
    <2>2. budget.edit = MaxEdits
        BY <2>1
    <2> QED
        BY <2>2, BudgetStep DEF Unedited
<1>2. TypeInv' /\ StartInv'
    BY TypesStep, StartStep
<1>3. CASE CallStep
    <2>1. UNCHANGED <<file, phase, cfg, op>>
        BY <1>3, CallStepMoves DEF disk
    <2> QED
        BY <1>1, <2>1 DEF WrittenInv
<1>4. CASE RequestStep
    BY <1>1, <1>4, WrittenRequest
<1>5. CASE ReloadStep
    <2>1. op \in Reloads /\ phase = "up" /\ file' = file
        <3>1. op.kind = "reload" /\ file' = file
            BY <1>5 DEF ReloadStep, RebindFails, Adopt, ListRegistry, DropOne, LoadOne,
                        ReloadReturns, EndReload, disk
        <3> QED
            BY <3>1, Kinds DEF TypeInv, PhaseInv
    <2>2. op \notin Requests
        BY <2>1, KindsOf
    <2>3. file = cfg /\ op.next = cfg
        BY <1>1, <2>1, <2>2 DEF WrittenInv
    <2>4. cfg' = cfg
        BY <1>5, <2>3 DEF ReloadStep, RebindFails, Adopt, ListRegistry, DropOne, LoadOne,
                          ReloadReturns, EndReload
    <2>5. op' = NoOp \/ (op'.kind = "reload" /\ op'.next = op.next)
        <3>1. op.kind = "reload"
            BY <2>1, Kinds
        <3>2. CASE RebindFails \/ EndReload \/ ReloadReturns
            BY <3>1, <3>2 DEF RebindFails, EndReload, ReloadReturns
        <3>3. CASE Adopt \/ DropOne \/ LoadOne
            BY <2>1, <3>1, <3>3 DEF Adopt, DropOne, LoadOne, Reloads
        <3>4. CASE ListRegistry
            BY <2>1, <3>1, <3>4 DEF ListRegistry, Reloads
        <3> QED
            BY <1>5, <3>2, <3>3, <3>4 DEF ReloadStep
    <2>6. op' \notin Requests /\ (op' = NoOp => op' \notin Reloads)
        BY <1>2, <2>5, KindsOf DEF TypeInv
    <2> QED
        BY <2>1, <2>3, <2>4, <2>5, <2>6 DEF WrittenInv
<1>6. CASE Process \/ Crash
    <2>1. phase' = "up" => file' = cfg'
        <3>1. CASE Started
            <4>1. phase = "starting" /\ file' = file /\ cfg' = cfg
                BY <3>1 DEF Started, disk
            <4> QED
                BY <4>1 DEF StartInv
        <3>2. CASE ~Started
            <4>1. phase' # "up"
                BY <1>6, <3>2 DEF Process, Boot, StartOne, StartReturns, Respawn, Crash,
                                  ClearRuntime
            <4> QED
                BY <4>1
        <3> QED
            BY <3>1, <3>2
    <2>2. op' \notin Requests /\ op' \notin Reloads
        <3>1. CASE Boot \/ StartOne \/ StartReturns
            <4>1. op = NoOp \/ op \in Starts
                BY <3>1 DEF Boot, StartOne, StartReturns, TypeInv, PhaseInv
            <4>2. op' = op \/ op'.kind = "start"
                <5>1. CASE StartOne
                    BY <4>1, <5>1 DEF StartOne, TypeInv, PhaseInv, Starts
                <5>2. CASE Boot \/ StartReturns
                    BY <5>2 DEF Boot, StartReturns
                <5> QED
                    BY <3>1, <5>1, <5>2
            <4> QED
                BY <1>2, <4>1, <4>2, KindsOf DEF TypeInv
        <3>2. CASE Started \/ Respawn \/ Crash
            BY <3>2, KindsOf DEF Started, Respawn, Crash, ClearRuntime
        <3> QED
            BY <1>6, <3>1, <3>2 DEF Process
    <2> QED
        BY <2>1, <2>2 DEF WrittenInv
<1>7. CASE BeginReload
    <2>1. /\ op' \in Reloads /\ op'.next = file /\ phase = "up" /\ op = NoOp
          /\ UNCHANGED <<file, phase, cfg>>
        BY <1>7, BeginReloadMakes DEF disk
    <2>2. op' \notin Requests /\ op \notin Requests
        BY <2>1, KindsOf
    <2> QED
        BY <1>1, <2>1, <2>2 DEF WrittenInv
<1>8. CASE \/ \E type \in Types, def \in Def : BeginAdd(type, def)
           \/ \E type \in Types, name \in Names, label \in Labels :
                BeginRemove(type, [name |-> name, label |-> label, check |-> FALSE])
    <2>1. PICK t \in Types, d \in Def : BeginAdd(t, d) \/ BeginRemove(t, d)
        BY <1>8 DEF Def
    <2>2. /\ op' \in Requests /\ op'.st = "save" /\ op'.old = cfg /\ phase = "up" /\ op = NoOp
          /\ UNCHANGED <<file, phase, cfg>>
        BY <2>1, BeginAddMakes, BeginRemoveMakes DEF disk
    <2>3. op' \notin Reloads /\ op \notin Requests
        BY <2>2, KindsOf
    <2> QED
        BY <1>1, <2>2, <2>3 DEF WrittenInv
<1>9. CASE UNCHANGED vars
    <2>1. UNCHANGED <<file, phase, cfg, op>>
        BY <1>9 DEF vars, disk
    <2> QED
        BY <1>1, <2>1 DEF WrittenInv
<1> QED
    BY <1>1, <1>3, <1>4, <1>5, <1>6, <1>7, <1>8, <1>9 DEF Next

\* Between two operations, and until an operator edits it, the file is the
\* running configuration: a restart brings back what was acknowledged and
\* nothing that was refused.  Where every save succeeds that needs nothing of
\* the requests and the edits: a remove may be mistyped, a file may name a
\* service twice.
THEOREM FileAlwaysHoldsConfig ==
    ASSUME Ordinary \/ MaxSaveFailures = 0
    PROVE  Spec => []FileHoldsConfig
<1>1. CASE Ordinary
    <2>1. ServicesAll => FileHoldsConfig
        <3> SUFFICES ASSUME ServicesAll, Idle, Unedited PROVE file = cfg
            BY DEF FileHoldsConfig, Unedited
        <3>1. TypeInv /\ ServicesInv /\ phase = "up" /\ op.kind = "none"
            BY DEF ServicesAll, Idle
        <3>2. op = NoOp
            BY <3>1, Kinds
        <3> QED
            BY <3>1, <3>2, IdleServices DEF IdleInv
    <2> QED
        BY <1>1, <2>1, ServicesHold, PTL
<1>2. CASE MaxSaveFailures = 0
    <2> DEFINE All == TypeInv /\ StartInv /\ BudgetInv /\ WrittenInv
    <2>1. Init => All
        BY TypesInit, StartInit, BudgetInit, WrittenInit
    <2>2. All /\ [Next]_vars => All'
        BY <1>2, TypesStep, StartStep, BudgetStep, WrittenStep
    <2>3. All => FileHoldsConfig
        <3> SUFFICES ASSUME All, Idle, Unedited PROVE file = cfg
            BY DEF FileHoldsConfig, Unedited
        <3>1. op \notin Requests
            BY Kinds DEF Idle
        <3> QED
            BY <3>1 DEF WrittenInv, Idle
    <2> HIDE DEF All
    <2> QED
        BY <2>1, <2>2, <2>3, PTL DEF Spec
<1> QED
    BY <1>1, <1>2

\* A request is rolled back only after its change was taken back entirely:
\* what it found is what it leaves.
LEMMA RefusalStep ==
    ASSUME TypeInv, ServicesInv, [Next]_vars, op.kind \in {"add", "remove"},
           op.st = "rollback", op'.kind = "none", phase' = "up"
    PROVE  op.before = runtime'
<1>1. /\ op \in Requests /\ op.before = runtime /\ phase = "up" /\ call = NoCall
      /\ op.kind # "none" /\ op.kind # "reload"
    <2>1. op \in Requests /\ phase = "up" /\ RequestInv
        BY InRequest
    <2>2. op.before = runtime /\ call = NoCall
        BY <2>1 DEF RequestInv, TypeInv, CallInv
    <2> QED
        BY <2>1, <2>2
<1>2. CASE CallStep
    <2>1. op' = op
        BY <1>2, CallStepMoves
    <2> QED
        BY <1>1, <2>1
<1>3. CASE RequestStep
    <2>1. UNCHANGED runtime
        BY <1>3 DEF RequestStep, SaveNext, SaveFails, Commit, CallFails, Rollback
    <2> QED
        BY <1>1, <2>1
<1>4. CASE ReloadStep
    BY <1>1, <1>4 DEF ReloadStep, RebindFails, Adopt, ListRegistry, DropOne, LoadOne,
                      ReloadReturns, EndReload
<1>5. CASE Process \/ Crash
    BY <1>1, <1>5 DEF Process, Boot, StartOne, StartReturns, Started, Respawn, Crash,
                      ClearRuntime
<1>6. CASE \/ BeginReload
           \/ \E type \in Types, def \in Def : BeginAdd(type, def)
           \/ \E type \in Types, name \in Names, label \in Labels :
                BeginRemove(type, [name |-> name, label |-> label, check |-> FALSE])
           \/ \E c \in Edits : EditFile(c)
    BY <1>1, <1>6 DEF BeginReload, BeginAdd, BeginRemove, EditFile, Idle
<1>7. CASE UNCHANGED vars
    BY <1>1, <1>7 DEF vars
<1> QED
    BY <1>2, <1>3, <1>4, <1>5, <1>6, <1>7 DEF Next

\* A refused and rolled back request has changed nothing.
THEOREM RefusalsChangeNothing ==
    ASSUME Ordinary
    PROVE  Spec => RefusedChangesNothing
<1>1. ServicesAll /\ [Next]_vars =>
        [op.kind \in {"add", "remove"} /\ op.st = "rollback"
            /\ op'.kind = "none" /\ phase' = "up"
            => op.before = runtime']_vars
    BY RefusalStep DEF ServicesAll
<1> QED
    BY <1>1, ServicesHold, PTL DEF Spec, RefusedChangesNothing

\* While a reload goes on only its own calls touch the stores: they remove no
\* bucket that stays, and never undo an add.
LEMMA BucketStep ==
    ASSUME TypeInv, ServicesInv, [Next]_vars, op.kind = "reload", op'.kind = "reload",
           NEW n \in buckets, n \in NamesOf(op.next["bucket"])
    PROVE  n \in buckets'
<1>1. op \in Reloads /\ phase = "up" /\ op.kind # "none"
    BY InReload
<1>2. CASE CallStep
    <2>1. call \in Calls /\ call # NoCall
        BY <1>2, CallStepMoves, CallKinds
    <2>2. ApplyInv /\ cfg = op.next
        BY <2>1, InApply
    <2>3. ReloadCall /\ Kept_(n)
        BY <2>1, <2>2 DEF ApplyInv, Kept_
    <2>4. CASE call.def.name # n
        BY <1>2, <2>4, CallStepFrame DEF Same
    <2>5. CASE call.def.name = n
        <3>1. call.fn = "add" => call.at # "undo"
            BY <2>3 DEF ReloadCall, Adding
        <3>2. call.fn = "remove" => call.type # "bucket"
            BY <2>3, <2>5 DEF ReloadCall
        <3> QED
            BY <1>2, <3>1, <3>2 DEF CallStep, AddToStore, AddToRegistry, UndoAdd, RegisterCheck,
               UnregisterCheck, RemoveFromStore, RemoveFromRegistry, UpdateRegistry, At, SetStore,
               StoreOf
    <2> QED
        BY <2>4, <2>5
<1>3. CASE RequestStep
    BY <1>3 DEF RequestStep, SaveNext, SaveFails, Commit, CallFails, Rollback
<1>4. CASE ReloadStep
    BY <1>4 DEF ReloadStep, RebindFails, Adopt, ListRegistry, DropOne, LoadOne,
                ReloadReturns, EndReload, runtime
<1>5. CASE Process \/ Crash
    BY <1>1, <1>5 DEF Process, Boot, StartOne, StartReturns, Started, Respawn, Crash,
                      ClearRuntime, NoOp
<1>6. CASE \/ BeginReload
           \/ \E type \in Types, def \in Def : BeginAdd(type, def)
           \/ \E type \in Types, name \in Names, label \in Labels :
                BeginRemove(type, [name |-> name, label |-> label, check |-> FALSE])
           \/ \E c \in Edits : EditFile(c)
    BY <1>1, <1>6 DEF BeginReload, BeginAdd, BeginRemove, EditFile, Idle
<1>7. CASE UNCHANGED vars
    BY <1>7 DEF vars, runtime
<1> QED
    BY <1>2, <1>3, <1>4, <1>5, <1>6, <1>7 DEF Next

\* A reload never takes away a bucket that the new configuration still has.
THEOREM BucketsAlwaysSurviveReload ==
    ASSUME Ordinary
    PROVE  Spec => BucketsSurviveReload
<1>1. ServicesAll /\ [Next]_vars =>
        [op.kind = "reload" /\ op'.kind = "reload" =>
            \A n \in buckets : n \in NamesOf(op.next["bucket"]) => n \in buckets']_vars
    BY BucketStep DEF ServicesAll
<1> QED
    BY <1>1, ServicesHold, PTL DEF Spec, BucketsSurviveReload

-----------------------------------------------------------------------------
(* The file the Agent wrote itself.                                        *)

\* A file whose services have different names never keeps it from starting.
LEMMA OwnFileStarts ==
    ASSUME TypeInv, StartInv, Distinct(cfg), StartReturns
    PROVE  phase' = "starting"
<1>1. phase = "starting" /\ Returned /\ phase' = IF call.at = "ok" THEN phase ELSE "dead"
    BY DEF StartReturns
<1>2. StartingInv /\ call # NoCall /\ call.at \in {"ok", "err"} /\ cfg \in Config
    BY <1>1, Kinds, TypeFacts DEF StartInv, Returned
<1>3. [type |-> call.type, def |-> call.def] = Full(cfg)[Done + 1]
    BY <1>2 DEF StartingInv
<1>4. call.def = Full(cfg)[Done + 1].def
    BY <1>3
<1>5. Done \in Nat /\ Len(op.load) \in Nat /\ Len(Full(cfg)) = Done + Len(op.load) + 1
    BY <1>1, <1>2, DoneFacts
<1> DEFINE D == Done
           L == Len(Full(cfg))
           M == Len(op.load)
<1>6. D + 1 \in 1..L /\ \A i \in 1..D : i \in 1..L /\ i # D + 1
    <2>1. D \in Nat /\ M \in Nat /\ L = D + M + 1
        BY <1>5
    <2> HIDE DEF D, L, M
    <2> QED
        BY <2>1
<1>7. ASSUME NEW i \in 1..Done, InCall(NameAt(i)) PROVE FALSE
    <2>1. Full(cfg)[i].def.name = Full(cfg)[Done + 1].def.name
        BY <1>4, <1>7 DEF InCall, NameAt
    <2> QED
        BY <1>2, <1>6, <2>1, FullDistinct
<1>8. Adding(call.type, call.def, call.at)
    BY <1>2, <1>7 DEF StartingInv
<1>9. call.at = "ok"
    BY <1>2, <1>8 DEF Adding
<1> QED
    BY <1>1, <1>9

LEMMA OwnFileInit ==
    ASSUME OwnFile, Init
    PROVE  OwnFileInv
<1>1. op = NoOp /\ phase = "down" /\ file \in FirstConfigs
    BY DEF Init
<1>2. op \notin Requests /\ op \notin Reloads
    BY <1>1, KindsOf
<1> QED
    BY <1>1, <1>2, ServicesAssumption DEF OwnFileInv, OwnFile

LEMMA OwnFileBegin ==
    ASSUME OwnFile, TypeInv, OwnFileInv, Unedited,
           \/ \E type \in Types, def \in Def : BeginAdd(type, def)
           \/ \E type \in Types, name \in Names, label \in Labels :
                BeginRemove(type, [name |-> name, label |-> label, check |-> FALSE])
    PROVE  OwnFileInv'
<1>1. PICK t \in Types, d \in Def : BeginAdd(t, d) \/ BeginRemove(t, d)
    BY DEF Def
<1>2. /\ op' \in Requests /\ op'.old = cfg /\ phase = "up"
      /\ UNCHANGED <<file, budget, phase, cfg>>
    BY <1>1, BeginAddMakes, BeginRemoveMakes DEF disk
<1>3. op' \notin Reloads /\ op'.next \in Config
    BY <1>2, KindsOf, RequestFields
<1>4. Distinct(cfg) /\ cfg \in Config
    BY <1>2, TypeFacts DEF OwnFileInv
<1>5. PICK n \in Config : n = op'.next
    BY <1>3
<1>6. Distinct(n)
    <2>1. CASE BeginAdd(t, d)
        <3>0. d.name \notin AllNames(cfg)
            BY <2>1, BeginAddMakes DEF OwnFile
        <3>1. n = [cfg EXCEPT ![t] = Append(@, d)]
            BY <1>5, <2>1, BeginAddMakes
        <3>2. n[t] = Append(cfg[t], d)
            BY <1>4, <3>1 DEF Config
        <3>3. \A u \in Types : u # t => n[u] = cfg[u]
            BY <1>4, <3>1 DEF Config
        <3> QED
            BY <1>4, <3>0, <3>2, <3>3, Appended
    <2>2. CASE BeginRemove(t, d)
        <3>1. n = [cfg EXCEPT ![t] = Without(@, d.name)]
            BY <1>5, <2>2, BeginRemoveMakes
        <3>2. n[t] = Without(cfg[t], d.name)
            BY <1>4, <3>1 DEF Config
        <3>3. \A u \in Types : u # t => n[u] = cfg[u]
            BY <1>4, <3>1 DEF Config
        <3> QED
            BY <1>4, <3>2, <3>3, Shortened
    <2> QED
        BY <1>1, <2>1, <2>2
<1> QED
    BY <1>2, <1>3, <1>4, <1>5, <1>6 DEF OwnFileInv

\* While no request clashes with a name in use, whatever is written names
\* every service once, and so does what is read back.
LEMMA OwnFileStep ==
    ASSUME OwnFile, TypeInv, StartInv, BudgetInv, OwnFileInv, [Next]_vars
    PROVE  OwnFileInv'
<1> SUFFICES ASSUME Unedited' PROVE OwnFileInv'
    BY DEF OwnFileInv
<1>1. Unedited /\ ~(\E c \in Edits : EditFile(c))
    <2>1. /\ budget'.edit <= budget.edit /\ budget.edit <= MaxEdits /\ budget'.edit = MaxEdits
          /\ budget.edit \in Nat /\ MaxEdits \in Nat
        BY BudgetStep, TypeFacts, ServicesAssumption DEF Unedited, BudgetInv
    <2>2. budget.edit = MaxEdits
        BY <2>1
    <2> QED
        BY <2>2, BudgetStep DEF Unedited
<1>2. /\ phase # "dead" /\ file \in Config /\ Distinct(file)
      /\ phase \in {"starting", "up"} => Distinct(cfg)
      /\ op \in Requests => Distinct(op.next) /\ Distinct(op.old)
      /\ op \in Reloads => Distinct(op.next)
    BY <1>1 DEF OwnFileInv
<1>3. CASE CallStep
    <2>1. UNCHANGED <<file, phase, cfg, op>>
        BY <1>3, CallStepMoves DEF disk
    <2> QED
        BY <1>2, <2>1 DEF OwnFileInv
<1>4. CASE RequestStep
    <2>1. op \in Requests /\ phase = "up" /\ phase' = phase
        <3>1. op.kind \in {"add", "remove"} /\ phase' = phase
            BY <1>4 DEF RequestStep, SaveNext, SaveFails, Commit, CallFails, Rollback
        <3> QED
            BY <3>1, Kinds DEF TypeInv, PhaseInv
    <2>2. op.next \in Config /\ op.old \in Config
        BY <2>1, RequestFields
    <2>3. file' \in {file, op.next, op.old} /\ cfg' \in {cfg, op.next}
        BY <1>4 DEF RequestStep, SaveNext, SaveFails, Commit, CallFails, Rollback, disk
    <2>4. file' \in Config /\ Distinct(file)' /\ Distinct(cfg)'
        <3>1. CASE file' = file
            BY <1>2, <2>1, <2>3, <3>1
        <3>2. CASE file' = op.next
            BY <1>2, <2>1, <2>2, <2>3, <3>2
        <3>3. CASE file' = op.old
            BY <1>2, <2>1, <2>2, <2>3, <3>3
        <3> QED
            BY <2>3, <3>1, <3>2, <3>3
    <2>5. op' = NoOp \/ (op' \in Requests /\ op'.next = op.next /\ op'.old = op.old)
        <3>1. CASE SaveNext
            BY <2>1, <3>1, RequestFields DEF SaveNext
        <3>2. CASE CallFails
            BY <2>1, <3>2, RequestFields DEF CallFails
        <3>3. CASE SaveFails \/ Commit \/ Rollback
            BY <3>3 DEF SaveFails, Commit, Rollback
        <3> QED
            BY <1>4, <3>1, <3>2, <3>3 DEF RequestStep
    <2>6. op' \notin Reloads /\ (op' = NoOp => op' \notin Requests)
        BY <2>5, KindsOf
    <2> QED
        BY <1>2, <2>1, <2>4, <2>5, <2>6 DEF OwnFileInv
<1>5. CASE ReloadStep
    <2>1. op \in Reloads /\ phase = "up" /\ phase' = phase /\ file' = file
        <3>1. op.kind = "reload" /\ phase' = phase /\ file' = file
            BY <1>5 DEF ReloadStep, RebindFails, Adopt, ListRegistry, DropOne, LoadOne,
                        ReloadReturns, EndReload, disk
        <3> QED
            BY <3>1, Kinds DEF TypeInv, PhaseInv
    <2>2. cfg' \in {cfg, op.next}
        BY <1>5 DEF ReloadStep, RebindFails, Adopt, ListRegistry, DropOne, LoadOne,
                    ReloadReturns, EndReload
    <2>3. op' = NoOp \/ (op'.kind = "reload" /\ op'.next = op.next)
        <3>1. op.kind = "reload"
            BY <2>1, Kinds
        <3>2. CASE RebindFails \/ EndReload \/ ReloadReturns
            BY <3>1, <3>2 DEF RebindFails, EndReload, ReloadReturns
        <3>3. CASE Adopt \/ DropOne \/ LoadOne
            BY <2>1, <3>1, <3>3 DEF Adopt, DropOne, LoadOne, Reloads
        <3>4. CASE ListRegistry
            BY <2>1, <3>1, <3>4 DEF ListRegistry, Reloads
        <3> QED
            BY <1>5, <3>2, <3>3, <3>4 DEF ReloadStep
    <2>4. TypeInv'
        BY <1>5, TypesReload
    <2>5. op' \notin Requests /\ (op' = NoOp => op' \notin Reloads)
        BY <2>3, <2>4, KindsOf DEF TypeInv
    <2>6. Distinct(cfg)' /\ Distinct(file)'
        BY <1>2, <2>1, <2>2
    <2> QED
        BY <1>2, <2>1, <2>3, <2>5, <2>6 DEF OwnFileInv
<1>6. CASE Process \/ Crash
    <2>1. file' = file
        BY <1>6 DEF Process, Boot, StartOne, StartReturns, Started, Respawn, Crash, disk
    <2>2. CASE Boot
        <3>1. phase' = "starting" /\ cfg' = file /\ op'.kind = "start"
            BY <1>2, <2>2, ServicesAssumption DEF Boot
        <3>2. TypeInv'
            BY <1>6, TypesProcess
        <3>3. op' \notin Requests /\ op' \notin Reloads
            BY <3>1, <3>2, KindsOf DEF TypeInv
        <3> QED
            BY <1>2, <2>1, <3>1, <3>3 DEF OwnFileInv
    <2>3. CASE StartOne \/ StartReturns \/ Started
        <3>1. phase = "starting" /\ cfg' = cfg
            BY <2>3 DEF StartOne, StartReturns, Started
        <3>2. phase' \in {"starting", "up"}
            BY <1>2, <2>3, <3>1, OwnFileStarts DEF StartOne, Started
        <3>3. op' \notin Requests /\ op' \notin Reloads
            <4>1. TypeInv'
                BY <1>6, TypesProcess
            <4>2. CASE phase' = "starting"
                BY <4>1, <4>2, KindsOf DEF TypeInv, PhaseInv
            <4>3. CASE phase' # "starting"
                <5>1. Started
                    BY <1>2, <2>3, <3>1, <4>3, OwnFileStarts DEF StartOne
                <5>2. op' = NoOp
                    BY <5>1 DEF Started
                <5> QED
                    BY <5>2, KindsOf
            <4> QED
                BY <4>2, <4>3
        <3> QED
            BY <1>2, <2>1, <3>1, <3>2, <3>3 DEF OwnFileInv
    <2>4. CASE Respawn \/ Crash
        <3>1. phase' = "down" /\ op' = NoOp
            BY <2>4 DEF Respawn, Crash, ClearRuntime
        <3>2. op' \notin Requests /\ op' \notin Reloads
            BY <3>1, KindsOf
        <3> QED
            BY <1>2, <2>1, <3>1, <3>2 DEF OwnFileInv
    <2> QED
        BY <1>6, <2>2, <2>3, <2>4 DEF Process
<1>7. CASE BeginReload
    <2>1. /\ op' \in Reloads /\ op'.next = file /\ phase = "up"
          /\ UNCHANGED <<file, phase, cfg>>
        BY <1>7, BeginReloadMakes DEF disk
    <2>2. op' \notin Requests
        BY <2>1, KindsOf
    <2> QED
        BY <1>2, <2>1, <2>2 DEF OwnFileInv
<1>8. CASE \/ \E type \in Types, def \in Def : BeginAdd(type, def)
           \/ \E type \in Types, name \in Names, label \in Labels :
                BeginRemove(type, [name |-> name, label |-> label, check |-> FALSE])
    BY <1>1, <1>8, OwnFileBegin
<1>9. CASE UNCHANGED vars
    <2>1. UNCHANGED <<file, phase, cfg, op>>
        BY <1>9 DEF vars, disk
    <2> QED
        BY <1>2, <2>1 DEF OwnFileInv
<1> QED
    BY <1>1, <1>3, <1>4, <1>5, <1>6, <1>7, <1>8, <1>9 DEF Next

\* What the Agent itself wrote never keeps it from starting, whenever it was
\* killed, as long as no request clashes with a name in use.
THEOREM OwnFileAlwaysStarts ==
    ASSUME OwnFile
    PROVE  Spec => []StartsFromItsOwnFile
<1> DEFINE All == TypeInv /\ StartInv /\ BudgetInv /\ OwnFileInv
<1>1. Init => All
    BY TypesInit, StartInit, BudgetInit, OwnFileInit
<1>2. All /\ [Next]_vars => All'
    BY TypesStep, StartStep, BudgetStep, OwnFileStep
<1>3. All => StartsFromItsOwnFile
    BY DEF OwnFileInv, StartsFromItsOwnFile, Unedited
<1> HIDE DEF All
<1> QED
    BY <1>1, <1>2, <1>3, PTL DEF Spec
=============================================================================
