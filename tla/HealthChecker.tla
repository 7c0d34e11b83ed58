-------------------------- MODULE HealthChecker --------------------------
(***************************************************************************)
(* The Agent's health checks (internal/agent/health.go): one goroutine per *)
(* registered check, which probes its URL at once and then on every tick   *)
(* and writes the result into the registry by name.  The services they     *)
(* belong to are added, updated and removed meanwhile, one operation at a  *)
(* time, by the management handlers of AgentServices.                      *)
(*                                                                         *)
(* A registry entry is reduced to its Health.  The context of a check is   *)
(* the goroutine's cancelled flag; cancels maps a name to the goroutine    *)
(* whose context the stored cancel function ends.                          *)
(***************************************************************************)
EXTENDS Naturals, FiniteSets

CONSTANTS
    Names, CheckURLs,
    NoCheck,        \* a service without a health check
    NoHealth,       \* Health == nil
    Goroutines,     \* bounds the checks that have not returned yet
    MaxOps          \* bound of the management operations

ASSUME HealthAssumption == NoCheck \notin CheckURLs /\ MaxOps \in Nat

VARIABLES
    entries,    \* Health of each registered service
    configured, \* the health check its configuration asks for
    cancels,    \* name -> goroutine
    routine,    \* the goroutines
    op, ops     \* the operation under way, and how many there were

vars == <<entries, configured, cancels, routine, op, ops>>

\* "canceled" is the unhealthy result of a probe whose context ended.
Results == {"healthy", "unhealthy", "canceled"}
Health == [status: Results \cup {"unknown"}, url: CheckURLs]
Routine == [st: {"none", "created", "check", "probing", "writing", "waiting"},
            name: Names, url: CheckURLs, result: Results, cancelled: BOOLEAN]
NoRoutine == [st |-> "none"]
NoOp == [st |-> "none"]

Running(g) == routine[g].st # "none"
Without(f, n) == [x \in DOMAIN f \ {n} |-> f[x]]
With(f, n, v) == [x \in DOMAIN f \cup {n} |-> IF x = n THEN v ELSE f[x]]

UpdateHealthAnyway(name, status, url) ==    \* mutant: brings a removed entry back
    entries' = With(entries, name, [status |-> status, url |-> url])

\* registry.updateHealth: nothing happens when name is not registered.
UpdateHealth(name, status, url) ==
    entries' = IF name \in DOMAIN entries
               THEN [entries EXCEPT ![name] = [status |-> status, url |-> url]]
               ELSE entries

-----------------------------------------------------------------------------
(* Operations of the management handlers.                                  *)

Idle == op.st = "none"

Begin(o) ==
    /\ Idle
    /\ ops < MaxOps
    /\ ops' = ops + 1
    /\ op' = o
    /\ UNCHANGED <<cancels, routine>>

\* add: the entry first, then its check.
BeginAdd(n, url) ==
    /\ n \notin DOMAIN entries
    /\ Begin([st |-> "register", name |-> n, url |-> url])
    /\ entries' = With(entries, n, NoHealth)
    /\ configured' = With(configured, n, url)

\* update: a fresh entry, the old check cancelled, then the new one.
BeginUpdate(n, url) ==
    /\ n \in DOMAIN entries
    /\ Begin([st |-> "unregister", name |-> n, url |-> url])
    /\ entries' = With(entries, n, NoHealth)
    /\ configured' = With(configured, n, url)

\* remove: the check cancelled, then the entry.
BeginRemove(n) ==
    /\ n \in DOMAIN entries
    /\ Begin([st |-> "removing", name |-> n, url |-> NoCheck])
    /\ UNCHANGED <<entries, configured>>

Cancelled(n) ==
    IF n \in DOMAIN cancels
    THEN [routine EXCEPT ![cancels[n]] =
            IF Running(cancels[n]) THEN [@ EXCEPT !.cancelled = TRUE] ELSE @]
    ELSE routine

UnregisterForgets ==    \* mutant: forgets the cancel function uncalled
    /\ op.st \in {"unregister", "removing"}
    /\ cancels' = Without(cancels, op.name)
    /\ op' = [op EXCEPT !.st = IF op.st = "removing" THEN "remove" ELSE "register"]
    /\ UNCHANGED <<entries, configured, routine, ops>>

Unregister ==
    /\ op.st \in {"unregister", "removing"}
    /\ routine' = Cancelled(op.name)
    /\ cancels' = Without(cancels, op.name)
    /\ op' = [op EXCEPT !.st = IF op.st = "removing" THEN "remove" ELSE "register"]
    /\ UNCHANGED <<entries, configured, ops>>

\* Under h.mu: the previous check is cancelled and the new context stored.
Register ==
    /\ op.st = "register"
    /\ IF op.url = NoCheck
       THEN op' = NoOp /\ UNCHANGED <<cancels, routine>>
       ELSE \E g \in Goroutines :
            /\ ~Running(g)
            /\ routine' = [Cancelled(op.name) EXCEPT ![g] =
                    [st |-> "created", name |-> op.name, url |-> op.url,
                     result |-> "unhealthy", cancelled |-> FALSE]]
            /\ cancels' = With(cancels, op.name, g)
            /\ op' = [op EXCEPT !.st = "announce"]
    /\ UNCHANGED <<entries, configured, ops>>

\* The entry becomes "unknown" and the goroutine starts.
Announce ==
    /\ op.st = "announce"
    /\ UpdateHealth(op.name, "unknown", op.url)
    /\ routine' = [routine EXCEPT ![cancels[op.name]].st = "check"]
    /\ op' = NoOp
    /\ UNCHANGED <<configured, cancels, ops>>

RemoveEntry ==
    /\ op.st = "remove"
    /\ entries' = Without(entries, op.name)
    /\ configured' = Without(configured, op.name)
    /\ op' = NoOp
    /\ UNCHANGED <<cancels, routine, ops>>

OpStep == Unregister \/ Register \/ Announce \/ RemoveEntry

-----------------------------------------------------------------------------
(* A check.                                                                *)

Becomes(g, r) ==
    /\ routine' = [routine EXCEPT ![g] = r]
    /\ UNCHANGED <<configured, cancels, op, ops>>

Probe(g) ==
    /\ routine[g].st = "check"
    /\ Becomes(g, [routine[g] EXCEPT !.st = "probing"])
    /\ UNCHANGED entries

\* A probe under a cancelled context fails, unless the response was in.
Answer(g) ==
    /\ routine[g].st = "probing"
    /\ \E res \in Results :
        /\ res = "canceled" => routine[g].cancelled
        /\ Becomes(g, [routine[g] EXCEPT !.st = "writing", !.result = res])
    /\ UNCHANGED entries

\* By name, whether or not this check is still the one of that name.
WriteNothing(g) ==      \* mutant: the result is dropped
    /\ routine[g].st = "writing"
    /\ Becomes(g, [routine[g] EXCEPT !.st = "waiting", !.result = "unhealthy"])
    /\ UNCHANGED entries

Write(g) ==
    /\ routine[g].st = "writing"
    /\ UpdateHealth(routine[g].name, routine[g].result, routine[g].url)
    /\ Becomes(g, [routine[g] EXCEPT !.st = "waiting", !.result = "unhealthy"])

\* The select: a tick may be taken although the context has ended too.
Ticks(g) ==
    /\ routine[g].st = "waiting"
    /\ Becomes(g, [routine[g] EXCEPT !.st = "check"])
    /\ UNCHANGED entries

StopNever(g) == FALSE       \* mutant: ctx.Done not selected

Stop(g) ==
    /\ routine[g].st = "waiting"
    /\ routine[g].cancelled
    /\ Becomes(g, NoRoutine)
    /\ UNCHANGED entries

CheckStep(g) == Probe(g) \/ Answer(g) \/ Write(g) \/ Ticks(g)

Init ==
    /\ entries = [n \in {} |-> NoHealth]
    /\ configured = [n \in {} |-> NoCheck]
    /\ cancels = [n \in {} |-> NoCheck]
    /\ routine = [g \in Goroutines |-> NoRoutine]
    /\ op = NoOp
    /\ ops = 0

Next ==
    \/ \E n \in Names : \/ BeginRemove(n)
                        \/ \E url \in CheckURLs \cup {NoCheck} :
                            BeginAdd(n, url) \/ BeginUpdate(n, url)
    \/ OpStep
    \/ \E g \in Goroutines : CheckStep(g) \/ Stop(g)

Spec == Init /\ [][Next]_vars

\* An operation under way and a check go on: nothing they do blocks for
\* ever, and a select with both channels ready takes each of them in the
\* long run.  Nobody has to start an operation.
Fairness ==
    /\ WF_vars(OpStep)
    /\ \A g \in Goroutines : WF_vars(CheckStep(g)) /\ SF_vars(Stop(g))
FairSpec == Spec /\ Fairness

-----------------------------------------------------------------------------
(* Properties.                                                             *)

\* Every variable holds a value of its kind.
TypeOK ==
    /\ DOMAIN entries \subseteq Names
    /\ \A n \in DOMAIN entries : entries[n] \in Health \cup {NoHealth}
    /\ DOMAIN configured = DOMAIN entries
    /\ \A n \in DOMAIN configured : configured[n] \in CheckURLs \cup {NoCheck}
    /\ DOMAIN cancels \subseteq Names
    /\ \A n \in DOMAIN cancels : cancels[n] \in Goroutines
    /\ routine \in [Goroutines -> Routine \cup {NoRoutine}]
    /\ op.st \in {"none", "unregister", "register", "announce", "removing", "remove"}
    /\ ops \in 0..MaxOps

Live(n) == {g \in Goroutines :
                Running(g) /\ ~routine[g].cancelled /\ routine[g].name = n}

\* Between operations each service with a health check is watched by
\* exactly one check that has not been cancelled, of the URL configured
\* last, and no other service by any.
OneLiveCheck ==
    Idle => \A n \in Names :
        IF n \in DOMAIN configured /\ configured[n] # NoCheck
        THEN \E g \in Goroutines : Live(n) = {g} /\ routine[g].url = configured[n]
        ELSE Live(n) = {}

\* "nil if no healthcheck configured" (protocol/types.go:49), and otherwise
\* the status of the check that is.  No run promises it: a cancelled check
\* may write into the entry that replaced its own (see the README).
HealthIsOfConfiguredCheck ==
    Idle => \A n \in DOMAIN entries :
        entries[n] # NoHealth => entries[n].url = configured[n]

\* Once the configuration rests, what a configured check writes outlasts
\* what cancelled ones still wrote.
ConfiguredCheckPrevails ==
    []<>(\A n \in DOMAIN entries :
            configured[n] # NoCheck => /\ entries[n] # NoHealth
                                       /\ entries[n].url = configured[n]
                                       /\ entries[n].status \in {"healthy", "unhealthy"})

\* A cancelled check ends.
CancelledChecksEnd ==
    \A g \in Goroutines :
        Running(g) /\ routine[g].cancelled ~> ~Running(g)
=============================================================================
