---------------------------- MODULE BucketStore -----------------------------
(***************************************************************************)
(* What the push buckets of an Agent promise: a store of groups of metric  *)
(* families, one group per set of grouping labels, that every request      *)
(* changes or shows in one step.  A request about a bucket that is removed *)
(* before its turn comes has no effect on any bucket, and least of all on  *)
(* a later one of the same name.                                           *)
(***************************************************************************)
CONSTANTS
    Requests, Names,
    Asks        \* Asks[r]: what r may ask, a method for a bucket and a group

VARIABLES
    store,      \* names of the buckets there are -> grouping labels -> family -> value
    asked,      \* requests that came -> what they ask for
    outcome     \* request -> has it been carried out, and what it was shown

vars == <<store, asked, outcome>>

Open == [at |-> "open", shown |-> {}]
Done == [at |-> "done", shown |-> {}]
Shown(series) == [at |-> "done", shown |-> series]
Dropped == [at |-> "dropped", shown |-> {}]

NoGroups == [l \in {} |-> {}]

Series(groups) ==
    UNION {{[family |-> f, labels |-> l, value |-> groups[l][f]] : f \in DOMAIN groups[l]} :
            l \in DOMAIN groups}

\* The groups after request q.
Put(groups, q) ==
    [l \in DOMAIN groups \cup {q.labels} |->
        IF l = q.labels THEN q.families ELSE groups[l]]

Over(new, old) ==
    [f \in DOMAIN new \cup DOMAIN old |-> IF f \in DOMAIN new THEN new[f] ELSE old[f]]

Add(groups, q) ==
    IF q.labels \in DOMAIN groups
    THEN [groups EXCEPT ![q.labels] = Over(q.families, @)]
    ELSE Put(groups, q)

After(groups, q) ==
    CASE q.method = "PUT" -> Put(groups, q)
      [] q.method = "POST" -> Add(groups, q)
      [] q.method = "DELETE" -> [l \in DOMAIN groups \ {q.labels} |-> groups[l]]
      [] q.method = "clear" -> NoGroups
      [] q.method = "GET" -> groups

Init ==
    /\ store = [n \in {} |-> NoGroups]
    /\ asked = [r \in {} |-> {}]
    /\ outcome = [r \in Requests |-> Open]

Ask(r, q) ==
    /\ r \notin DOMAIN asked
    /\ asked' = [x \in DOMAIN asked \cup {r} |-> IF x = r THEN q ELSE asked[x]]
    /\ UNCHANGED <<store, outcome>>

Waiting(n) == {r \in DOMAIN asked : asked[r].name = n /\ outcome[r] = Open}

CarryOut(r) ==
    /\ r \in DOMAIN asked /\ outcome[r] = Open
    /\ LET q == asked[r] IN
        /\ q.name \in DOMAIN store
        /\ store' = [store EXCEPT ![q.name] = After(@, q)]
        /\ outcome' = [outcome EXCEPT ![r] =
                IF q.method = "GET" THEN Shown(Series(store[q.name])) ELSE Done]
    /\ UNCHANGED asked

Create(n) ==
    /\ n \notin DOMAIN store
    /\ store' = [x \in DOMAIN store \cup {n} |-> IF x = n THEN NoGroups ELSE store[x]]
    /\ UNCHANGED <<asked, outcome>>

Remove(n) ==
    /\ n \in DOMAIN store
    /\ store' = [x \in DOMAIN store \ {n} |-> store[x]]
    /\ \E late \in SUBSET Waiting(n) :
        outcome' = [r \in Requests |-> IF r \in late THEN Dropped ELSE outcome[r]]
    /\ UNCHANGED asked

Next ==
    \/ \E r \in Requests : CarryOut(r) \/ \E q \in Asks[r] : Ask(r, q)
    \/ \E n \in Names : Create(n) \/ Remove(n)

Spec == Init /\ [][Next]_vars
=============================================================================
