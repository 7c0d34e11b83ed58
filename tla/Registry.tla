---------------------------- MODULE Registry ----------------------------
(***************************************************************************)
(* The Agent's service registry (internal/agent/registry.go), as a value:  *)
(* the entries by name and the two Last-Modified instants the HTTP API     *)
(* derives from them.  Each operator is the registry after one operation   *)
(* that succeeds; the caller tests Has for the error paths of add, remove  *)
(* and update.                                                             *)
(*                                                                         *)
(* Instants are whole seconds.  An element of Targets stands for an        *)
(* entry's type and target; an element of Statuses for the Status,         *)
(* StatusCode and Message of a health status.  LastCheck is left out.      *)
(***************************************************************************)
EXTENDS Integers, FiniteSets

CONSTANTS
    Names,          \* service names
    Targets,        \* targets an entry can have
    Statuses,       \* results of a health check
    CheckURLs,      \* what is checked
    NoHealth        \* Health == nil

HealthStates == [status: Statuses, url: CheckURLs]

ASSUME RegistryAssumption == IsFiniteSet(Names) /\ NoHealth \notin HealthStates

Entry == [target: Targets, health: HealthStates \cup {NoHealth}]

\* A service list, by name.  The code's list is sorted by name, so a
\* function of the name loses nothing.
Services == UNION {[S -> Entry] : S \in SUBSET Names}

HealthMap == UNION {[S -> HealthStates] : S \in SUBSET Names}

NoServices == [n \in {} |-> NoHealth]

RegistryState == [entries: Services, svcModifiedAt: Nat, healthModifiedAt: Nat]

NextModifiedAtClock(prev, now) == now   \* mutant: several changes a second

\* The instant a change made at now is given: never one that was used
\* before, so it runs ahead of the clock when changes come faster than one
\* a second.
NextModifiedAt(prev, now) == IF now > prev THEN now ELSE prev + 1

New(now) ==
    [entries |-> NoServices, svcModifiedAt |-> now, healthModifiedAt |-> now]

Has(reg, name) == name \in DOMAIN reg.entries

TouchServices(reg, now) ==
    [reg EXCEPT !.svcModifiedAt = NextModifiedAt(@, now)]

\* add and update leave the same registry: update replaces the whole entry,
\* its Health included, and neither touches healthModifiedAt.
Put(reg, name, target, now) ==
    TouchServices(
        [reg EXCEPT !.entries =
            [n \in DOMAIN @ \cup {name} |->
                IF n = name THEN [target |-> target, health |-> NoHealth]
                            ELSE @[n]]],
        now)

Remove(reg, name, now) ==
    TouchServices(
        [reg EXCEPT !.entries = [n \in DOMAIN @ \ {name} |-> @[n]]], now)

\* Whether health is news to a client that has old: the URL does not count.
HealthChanged(old, health) == old = NoHealth \/ old.status # health.status

\* Does nothing when name is gone.
UpdateHealth(reg, name, health, now) ==
    IF Has(reg, name)
    THEN [reg EXCEPT !.entries[name].health = health,
                     !.healthModifiedAt =
                        IF HealthChanged(reg.entries[name].health, health)
                        THEN NextModifiedAt(@, now) ELSE @]
    ELSE reg

WithoutHealth(services) ==
    [n \in DOMAIN services |-> [services[n] EXCEPT !.health = NoHealth]]

ListWithoutHealth(reg) == WithoutHealth(reg.entries)

ListHealth(reg) ==
    [n \in {m \in DOMAIN reg.entries : reg.entries[m].health # NoHealth}
        |-> reg.entries[n].health]
=============================================================================
