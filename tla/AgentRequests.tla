--------------------------- MODULE AgentRequests ----------------------------
(***************************************************************************)
(* The Agent's HTTP requests from their arrival to their answer: who may   *)
(* push, judged by one copy of the settings while a reload changes them    *)
(* (server.go 84-94, 137-219), and the push buckets, which requests find   *)
(* under their name and change under the bucket's own lock while           *)
(* management adds, clears and removes them (bucket.go, server.go 774-889, *)
(* mgmt.go 222-241).  A family is known by its name; its value is the      *)
(* request that pushed it.                                                 *)
(***************************************************************************)
EXTENDS Naturals, Sequences, Functions

CONSTANTS
    Requests,
    Asks,           \* Asks[r]: what request r may ask for
    Names,          \* names of buckets
    Families,       \* names of metric families
    Credential,     \* Credential[r]: the token r carries, or Nothing
    TagsOf,         \* TagsOf[r]: the tags of the node r comes from
    AllSettings,    \* settings the configuration and the policy may give
    Unparsable,     \* a body that is not in the exposition format
    Nothing,
    MaxObjects, MaxChanges      \* bounds: buckets made, changes of the settings

PushMethods == {"PUT", "POST", "DELETE"}
Objects == 1..MaxObjects

IsSettings(s) ==
    /\ s = [token |-> s.token, tags |-> s.tags, anonymous |-> s.anonymous]
    /\ s.anonymous \in BOOLEAN

ASSUME Constants ==
    /\ \A r \in Requests : \A q \in Asks[r] :
        /\ q.method \in PushMethods \cup {"clear", "GET"}
        /\ q.name \in Names
        /\ q.families = Unparsable \/ q.families \subseteq Families
    /\ \A s \in AllSettings : IsSettings(s)
    /\ MaxObjects \in Nat \ {0} /\ MaxChanges \in Nat
    /\ Nothing \notin Objects

VARIABLES
    settings,   \* token, allowedCTags and allow_anonymous, under s.mu
    changes,    \* changes of the settings so far
    bucket,     \* bucketStore: name -> object, or Nothing
    made,       \* objects made so far
    contents,   \* object -> canonical key -> labels and families
    req,        \* the requests
    clients,    \* lastClients: those whose access was recorded
    inForce,    \* history: settings there were since the arrival of an undecided push
    gone        \* history: requests whose bucket was removed under their hands

store == <<bucket, made, contents>>
vars == <<settings, changes, store, req, clients, inForce, gone>>

Blank == [at |-> "none", ask |-> Nothing, copy |-> Nothing, object |-> Nothing,
          code |-> 0, shown |-> {}]

Answer(r, code) == req' = [req EXCEPT ![r] = [@ EXCEPT !.at = "answered", !.code = code]]

-----------------------------------------------------------------------------
(* Grouping keys.  A path is a sequence of pairs of a label and a value.   *)

WellFormed(path) ==
    /\ path # <<>>
    /\ path[1].label = "job" /\ path[1].value # ""
    /\ IsInjective([i \in DOMAIN path |-> path[i].label])

AsSpelled(path) == path             \* mutant: the order of the labels counts

\* canonicalGroupKey sorts the labels and gives the length of each part, so
\* that two paths share a key just when they have the same pairs.
Canonical(path) == Range(path)

Group(r, q) == [labels |-> Range(q.path), families |-> [f \in q.families |-> r]]

NoGroups == [k \in {} |-> Nothing]

\* PUT and POST of a bucket's push.
Replace(groups, k, g) ==
    [i \in DOMAIN groups \cup {k} |-> IF i = k THEN g ELSE groups[i]]

Over(new, old) ==
    [f \in DOMAIN new \cup DOMAIN old |-> IF f \in DOMAIN new THEN new[f] ELSE old[f]]

Merge(groups, k, g) ==
    IF k \in DOMAIN groups
    THEN [groups EXCEPT ![k].families = Over(g.families, @)]
    ELSE Replace(groups, k, g)

\* serveMetrics: the families of all groups, each series with its labels.
Series(groups) ==
    UNION {{[family |-> f, labels |-> groups[k].labels, value |-> groups[k].families[f]] :
                f \in DOMAIN groups[k].families} : k \in DOMAIN groups}

-----------------------------------------------------------------------------
(* authMiddleware.                                                         *)

\* known: did WhoIs find the node?
Admits(s, r, known) ==
    IF s.tags # {} /\ known /\ TagsOf[r] \cap s.tags # {} THEN TRUE
    ELSE IF s.tags # {} /\ s.token = Nothing THEN s.anonymous
    ELSE s.token = Nothing \/ Credential[r] = s.token

\* Scrapes and the management's clear are not authenticated.
Arrive(r, q) ==
    /\ req[r].at = "none"
    /\ req' = [req EXCEPT ![r] = [@ EXCEPT !.ask = q,
            !.at = IF q.method \in PushMethods THEN "arrived" ELSE "admitted"]]
    /\ inForce' = [inForce EXCEPT ![r] =
            IF q.method \in PushMethods THEN {settings} ELSE {}]
    /\ UNCHANGED <<settings, changes, store, clients, gone>>

CopySettings(r) ==
    /\ req[r].at = "arrived"
    /\ req' = [req EXCEPT ![r] = [@ EXCEPT !.at = "judged", !.copy = settings]]
    /\ UNCHANGED <<settings, changes, store, clients, inForce, gone>>

Judged(r, s) ==
    /\ req[r].at = "judged"
    /\ \E known \in BOOLEAN :
        IF Admits(s, r, known)
        THEN /\ req' = [req EXCEPT ![r] = [@ EXCEPT !.at = "admitted", !.copy = Nothing]]
             /\ clients' = clients \cup {r}
        ELSE /\ req' = [req EXCEPT ![r] =
                    [@ EXCEPT !.at = "answered", !.copy = Nothing, !.code = 401]]
             /\ UNCHANGED clients
    /\ inForce' = [inForce EXCEPT ![r] = {}]
    /\ UNCHANGED <<settings, changes, store, gone>>

\* mutant: the tags are read again, after the copy
JudgeTorn(r) == Judged(r, [req[r].copy EXCEPT !.tags = settings.tags])

\* WhoIs may take its time, and fail.
Judge(r) == Judged(r, req[r].copy)

-----------------------------------------------------------------------------
(* The handlers.  Between Lookup and the next step the body is read.       *)

LookupUnchecked(r) ==       \* mutant: the name need not be there
    /\ req[r].at = "admitted"
    /\ req' = [req EXCEPT ![r] =
            [@ EXCEPT !.at = "found", !.object = bucket[req[r].ask.name]]]
    /\ UNCHANGED <<settings, changes, store, clients, inForce, gone>>

Lookup(r) ==
    /\ req[r].at = "admitted"
    /\ LET o == bucket[req[r].ask.name] IN
        IF o = Nothing THEN Answer(r, 404)
        ELSE req' = [req EXCEPT ![r] = [@ EXCEPT !.at = "found", !.object = o]]
    /\ UNCHANGED <<settings, changes, store, clients, inForce, gone>>

Refused(q) ==
    /\ q.method \in PushMethods
    /\ WellFormed(q.path) => q.method # "DELETE" /\ q.families = Unparsable

Refuse(r) ==
    /\ req[r].at = "found" /\ Refused(req[r].ask)
    /\ Answer(r, 400)
    /\ UNCHANGED <<settings, changes, store, clients, inForce, gone>>

\* What request r leaves of the groups of its bucket.
Pushed(r, groups) ==
    LET q == req[r].ask  k == Canonical(q.path) IN
    CASE q.method = "PUT" -> Replace(groups, k, Group(r, q))
      [] q.method = "POST" -> Merge(groups, k, Group(r, q))
      [] q.method = "DELETE" -> Restrict(groups, DOMAIN groups \ {k})
      [] q.method = "clear" -> NoGroups

PushByName(r) ==    \* mutant: the bucket is looked up once more
    /\ req[r].at = "found" /\ req[r].ask.method # "GET" /\ ~Refused(req[r].ask)
    /\ bucket[req[r].ask.name] # Nothing
    /\ contents' = [contents EXCEPT ![bucket[req[r].ask.name]] = Pushed(r, @)]
    /\ Answer(r, IF req[r].ask.method = "clear" THEN 200 ELSE 202)
    /\ UNCHANGED <<settings, changes, bucket, made, clients, inForce, gone>>

\* The object found is changed, whether its name still leads to it or not.
Push(r) ==
    /\ req[r].at = "found" /\ req[r].ask.method # "GET" /\ ~Refused(req[r].ask)
    /\ contents' = [contents EXCEPT ![req[r].object] = Pushed(r, @)]
    /\ Answer(r, IF req[r].ask.method = "clear" THEN 200 ELSE 202)
    /\ UNCHANGED <<settings, changes, bucket, made, clients, inForce, gone>>

Scrape(r) ==
    /\ req[r].at = "found" /\ req[r].ask.method = "GET"
    /\ req' = [req EXCEPT ![r] = [@ EXCEPT !.at = "answered", !.code = 200,
                                          !.shown = Series(contents[req[r].object])]]
    /\ UNCHANGED <<settings, changes, store, clients, inForce, gone>>

-----------------------------------------------------------------------------
(* Management, and the settings.                                           *)

AddBucket(n) ==
    /\ bucket[n] = Nothing
    /\ made < MaxObjects
    /\ made' = made + 1
    /\ bucket' = [bucket EXCEPT ![n] = made + 1]
    /\ UNCHANGED <<settings, changes, contents, req, clients, inForce, gone>>

\* Also when the registry refuses a bucket that was just added.
RemoveBucket(n) ==
    /\ bucket[n] # Nothing
    /\ bucket' = [bucket EXCEPT ![n] = Nothing]
    /\ gone' = gone \cup {r \in Requests : req[r].at = "found" /\ req[r].object = bucket[n]}
    /\ UNCHANGED <<settings, changes, made, contents, req, clients, inForce>>

\* Reload replaces the configuration and the tags together, the watcher of
\* the node attributes the tags alone.
ChangeSettings(s) ==
    /\ changes < MaxChanges
    /\ changes' = changes + 1
    /\ settings' = s
    /\ inForce' = [r \in Requests |->
            IF req[r].at \in {"arrived", "judged"} THEN inForce[r] \cup {s} ELSE inForce[r]]
    /\ UNCHANGED <<store, req, clients, gone>>

Reload == \E s \in AllSettings \ {settings} : ChangeSettings(s)

NodeAttrsRead ==
    \E s \in AllSettings :
        s.tags # settings.tags /\ ChangeSettings([settings EXCEPT !.tags = s.tags])

-----------------------------------------------------------------------------

Init ==
    /\ settings \in AllSettings
    /\ changes = 0
    /\ bucket = [n \in Names |-> Nothing]
    /\ made = 0
    /\ contents = [o \in Objects |-> NoGroups]
    /\ req = [r \in Requests |-> Blank]
    /\ clients = {}
    /\ inForce = [r \in Requests |-> {}]
    /\ gone = {}

Step(r) ==
    \/ CopySettings(r) \/ Judge(r) \/ Lookup(r) \/ Refuse(r) \/ Push(r) \/ Scrape(r)

Next ==
    \/ \E r \in Requests : Step(r) \/ \E q \in Asks[r] : Arrive(r, q)
    \/ \E n \in Names : AddBucket(n) \/ RemoveBucket(n)
    \/ Reload \/ NodeAttrsRead

Spec == Init /\ [][Next]_vars

-----------------------------------------------------------------------------
(* Properties.                                                             *)

\* Every variable holds a value of its kind; above all, a request that goes
\* on has a bucket to go on with.
TypeOK ==
    /\ bucket \in [Names -> Objects \cup {Nothing}]
    /\ made \in 0..MaxObjects
    /\ changes \in 0..MaxChanges
    /\ clients \subseteq Requests /\ gone \subseteq Requests
    /\ \A r \in Requests :
        /\ req[r].at \in {"none", "arrived", "judged", "admitted", "found", "answered"}
        /\ req[r].at = "found" => req[r].object \in 1..made
        /\ req[r].code \in {0, 200, 202, 400, 401, 404}
    /\ \A o \in Objects, k \in UNION {DOMAIN contents[p] : p \in Objects} :
        k \in DOMAIN contents[o] =>
            DOMAIN contents[o][k].families \subseteq Families

\* The rule as docs and comment give it (server.go:121-136).
Entitled(s, r, known) ==
    \/ known /\ TagsOf[r] \cap s.tags # {}
    \/ s.token # Nothing /\ Credential[r] = s.token
    \/ s.token = Nothing /\ (s.tags = {} \/ s.anonymous)

\* A request is admitted or refused by the rule under one setting that was
\* in force at a moment between its arrival and the decision, never by a mix
\* of an older and a newer one; and it is recorded just when it is admitted.
DecidedUnderOneSetting ==
    [][\A r \in Requests : req[r].at = "judged" /\ req'[r].at # "judged" =>
        \E s \in inForce[r], known \in BOOLEAN :
            /\ Entitled(s, r, known) <=> req'[r].at = "admitted"
            /\ Entitled(s, r, known) <=> r \in clients']_vars

\* No scrape shows a family twice with the same grouping labels, however the
\* pushes spelled them: Prometheus would refuse the page.
NoDuplicateSeries ==
    \A r \in Requests : \A x, y \in req[r].shown :
        x.family = y.family /\ x.labels = y.labels => x = y

Meant(r, q) ==
    [method |-> q.method, name |-> q.name, labels |-> Range(q.path),
     families |-> IF q.families = Unparsable THEN NoGroups ELSE Group(r, q).families]

Held(groups) == [k \in DOMAIN groups |-> groups[k].families]

\* What the requests do to the buckets, seen from outside.
Buckets == [n \in {m \in Names : bucket[m] # Nothing} |-> Held(contents[bucket[n]])]

Intents == [r \in {q \in Requests : req[q].at # "none"} |-> Meant(r, req[r].ask)]

Outcomes == [r \in Requests |->
    [at |-> IF r \in gone THEN "dropped"
            ELSE IF req[r].code \in {200, 202} THEN "done" ELSE "open",
     shown |-> IF r \in gone THEN {} ELSE req[r].shown]]

Store == INSTANCE BucketStore WITH
    Asks <- [r \in Requests |-> {Meant(r, q) : q \in Asks[r]}],
    store <- Buckets, asked <- Intents, outcome <- Outcomes

\* Every request changes or shows its bucket in one step between its arrival
\* and its answer, as BucketStore says; one whose bucket was removed in
\* between changes nothing, not even a bucket added since under that name.
ImplementsStore == Store!Spec
=============================================================================
