------------------------ MODULE AgentRequestsProofs ------------------------
(***************************************************************************)
(* Who may push, what the push buckets hold and show, and that they are    *)
(* what BucketStore promises, for any requests, names, labels, families    *)
(* and settings.                                                           *)
(***************************************************************************)
EXTENDS AgentRequests, TLAPS

-----------------------------------------------------------------------------
(* The inductive invariant.                                                *)

States == {"none", "arrived", "judged", "admitted", "found", "answered"}

RecordOf(x) == [at |-> x.at, ask |-> x.ask, copy |-> x.copy,
                object |-> x.object, code |-> x.code, shown |-> x.shown]

\* The variables are functions and records of the right shape.
ShapeInv ==
    /\ req = [r \in Requests |-> RecordOf(req[r])]
    /\ contents = [o \in Objects |-> contents[o]]
    /\ bucket \in [Names -> 1..made \cup {Nothing}]
    /\ made \in 0..MaxObjects
    /\ changes \in 0..MaxChanges
    /\ clients \subseteq Requests /\ gone \subseteq Requests

\* A request in hand asks for something it may ask for, and one that found a
\* bucket found one that was made.
RequestInv(r) ==
    /\ req[r].at \in States
    /\ req[r].at # "none" => req[r].ask \in Asks[r]
    /\ req[r].at = "found" => req[r].object \in 1..made
    /\ req[r].code \in {0, 200, 202, 400, 401, 404}

\* A group is kept under the labels it has.
IsGroups(groups) ==
    \A k \in DOMAIN groups :
        /\ groups[k] = [labels |-> k, families |-> groups[k].families]
        /\ DOMAIN groups[k].families \subseteq Families

IsPage(series) ==
    \A x, y \in series : x.family = y.family /\ x.labels = y.labels => x = y

\* An undecided push has every setting since its arrival in its history, the
\* copy it is judged by among them, and has not been recorded.
JudgingInv ==
    /\ inForce = [r \in Requests |-> inForce[r]]
    /\ IsSettings(settings)
    /\ \A r \in Requests :
        /\ \A s \in inForce[r] : IsSettings(s)
        /\ req[r].at \in {"arrived", "judged"} => settings \in inForce[r]
        /\ req[r].at = "judged" => req[r].copy \in inForce[r]
        /\ req[r].at \in {"none", "arrived", "judged"} => r \notin clients

Inv ==
    /\ ShapeInv
    /\ \A r \in Requests : RequestInv(r) /\ IsPage(req[r].shown)
    /\ \A o \in Objects : IsGroups(contents[o])
    /\ JudgingInv

-----------------------------------------------------------------------------
(* Lemmas.                                                                 *)

\* The code's decision is the documented rule.
LEMMA AdmitsIsEntitled ==
    ASSUME NEW s, IsSettings(s), NEW r, NEW known \in BOOLEAN
    PROVE  Admits(s, r, known) <=> Entitled(s, r, known)
BY DEF Admits, Entitled, IsSettings

\* A page made of groups kept under their labels shows no series twice.
LEMMA SeriesIsPage ==
    ASSUME NEW groups, IsGroups(groups)
    PROVE  IsPage(Series(groups))
<1> SUFFICES ASSUME NEW x \in Series(groups), NEW y \in Series(groups),
                    x.family = y.family, x.labels = y.labels
             PROVE  x = y
    BY DEF IsPage
<1>1. PICK k \in DOMAIN groups : \E f \in DOMAIN groups[k].families :
        x = [family |-> f, labels |-> groups[k].labels, value |-> groups[k].families[f]]
    BY DEF Series
<1>2. PICK l \in DOMAIN groups : \E f \in DOMAIN groups[l].families :
        y = [family |-> f, labels |-> groups[l].labels, value |-> groups[l].families[f]]
    BY DEF Series
<1>3. k = l
    <2>1. groups[k].labels = k /\ groups[l].labels = l
        BY DEF IsGroups
    <2> QED
        BY <1>1, <1>2, <2>1
<1> QED
    BY <1>1, <1>2, <1>3

\* A push leaves every group under its labels.
LEMMA PushedIsGroups ==
    ASSUME Inv, NEW r \in Requests, NEW groups, IsGroups(groups),
           req[r].at = "found", req[r].ask.method # "GET", ~Refused(req[r].ask)
    PROVE  IsGroups(Pushed(r, groups))
<1> DEFINE q == req[r].ask
           k == Canonical(q.path)
<1>1. /\ q.method \in PushMethods \cup {"clear", "GET"}
      /\ q.families = Unparsable \/ q.families \subseteq Families
    BY Constants DEF Inv, RequestInv
<1>2. CASE q.method \in {"PUT", "POST"}
    <2>1. q.families \subseteq Families
        BY <1>1, <1>2 DEF Refused, PushMethods
    <2>2. /\ Group(r, q) = [labels |-> k, families |-> Group(r, q).families]
          /\ DOMAIN Group(r, q).families \subseteq Families
        BY <2>1 DEF Group, Canonical
    <2>3. IsGroups(Replace(groups, k, Group(r, q)))
        BY <2>2 DEF IsGroups, Replace
    <2>4. IsGroups(Merge(groups, k, Group(r, q)))
        <3>1. CASE k \in DOMAIN groups
            <4> DEFINE old == groups[k]
                       both == Over(Group(r, q).families, old.families)
            <4>1. /\ old = [labels |-> k, families |-> old.families]
                  /\ DOMAIN old.families \subseteq Families
                BY <3>1 DEF IsGroups
            <4>2. DOMAIN both \subseteq Families
                BY <4>1, <2>2 DEF Over
            <4>3. [old EXCEPT !.families = both] = [labels |-> k, families |-> both]
                BY <4>1
            <4>4. Merge(groups, k, Group(r, q)) =
                    [groups EXCEPT ![k] = [labels |-> k, families |-> both]]
                <5>1. Merge(groups, k, Group(r, q)) =
                        [groups EXCEPT ![k] = [old EXCEPT !.families = both]]
                    BY <3>1 DEF Merge
                <5> QED
                    BY <4>3, <5>1
            <4> HIDE DEF both
            <4>5. ASSUME NEW i \in DOMAIN groups
                  PROVE  /\ Merge(groups, k, Group(r, q))[i] =
                             [labels |-> i, families |-> Merge(groups, k, Group(r, q))[i].families]
                         /\ DOMAIN Merge(groups, k, Group(r, q))[i].families \subseteq Families
                <5>1. CASE i = k
                    <6>1. Merge(groups, k, Group(r, q))[i] = [labels |-> k, families |-> both]
                        BY <4>4, <5>1
                    <6> QED
                        BY <4>2, <5>1, <6>1
                <5>2. CASE i # k
                    <6>1. Merge(groups, k, Group(r, q))[i] = groups[i]
                        BY <4>4, <5>2
                    <6> QED
                        BY <6>1 DEF IsGroups
                <5> QED
                    BY <5>1, <5>2
            <4>6. DOMAIN Merge(groups, k, Group(r, q)) = DOMAIN groups
                BY <4>4
            <4> QED
                BY <4>5, <4>6 DEF IsGroups
        <3>2. CASE k \notin DOMAIN groups
            BY <3>2, <2>3 DEF Merge
        <3> QED
            BY <3>1, <3>2
    <2>5. Pushed(r, groups) \in {Replace(groups, k, Group(r, q)), Merge(groups, k, Group(r, q))}
        BY <1>2 DEF Pushed
    <2> QED
        BY <2>3, <2>4, <2>5
<1>3. CASE q.method = "DELETE"
    <2>1. Pushed(r, groups) = Restrict(groups, DOMAIN groups \ {k})
        BY <1>3 DEF Pushed
    <2> QED
        BY <2>1 DEF Restrict, IsGroups
<1>4. CASE q.method = "clear"
    <2>1. Pushed(r, groups) = NoGroups
        BY <1>4 DEF Pushed
    <2> QED
        BY <2>1 DEF NoGroups, IsGroups
<1> QED
    BY <1>1, <1>2, <1>3, <1>4 DEF PushMethods

-----------------------------------------------------------------------------
(* The invariant is inductive.                                             *)

LEMMA Initially == Init => Inv
<1> SUFFICES ASSUME Init PROVE Inv
    OBVIOUS
<1>1. \A r \in Requests : req[r] = Blank
    BY DEF Init
<1>2. ShapeInv
    BY Constants DEF Init, ShapeInv, Blank, RecordOf
<1>3. \A r \in Requests : RequestInv(r) /\ IsPage(req[r].shown)
    BY <1>1 DEF Blank, RequestInv, IsPage, States
<1>4. \A o \in Objects : IsGroups(contents[o])
    BY DEF Init, NoGroups, IsGroups
<1>5. JudgingInv
    BY <1>1, Constants DEF Init, JudgingInv, Blank
<1> QED
    BY <1>2, <1>3, <1>4, <1>5 DEF Inv
ReqShape == req = [r \in Requests |-> RecordOf(req[r])]

\* Only request r changes, and keeps what it asks for.
Only(r) ==
    /\ ReqShape'
    /\ \A q \in Requests : q # r => req'[q] = req[q]

LEMMA OneRequest ==
    ASSUME Inv, NEW r \in Requests, NEW x, x = RecordOf(x), req' = [req EXCEPT ![r] = x]
    PROVE  Only(r) /\ req'[r] = x
BY DEF Inv, ShapeInv, Only, ReqShape, RecordOf

LEMMA RecordAt ==
    ASSUME Inv, NEW r \in Requests
    PROVE  req[r] = RecordOf(req[r])
BY DEF Inv, ShapeInv

LEMMA FoundObject ==
    ASSUME Inv, NEW r \in Requests, req[r].at = "found"
    PROVE  req[r].object \in Objects
<1>1. req[r].object \in 1..made /\ made \in Nat /\ made <= MaxObjects
    BY Constants DEF Inv, RequestInv, ShapeInv
<1> QED
    BY <1>1, Constants DEF Objects

\* What each action makes of its request, field by field.
LEMMA ArriveChanges ==
    ASSUME Inv, NEW r \in Requests, NEW q \in Asks[r], Arrive(r, q)
    PROVE  /\ Only(r)
           /\ req'[r].ask = q /\ req'[r].code = req[r].code /\ req'[r].shown = req[r].shown
           /\ req'[r].at = IF q.method \in PushMethods THEN "arrived" ELSE "admitted"
<1>1. PICK z, x, a :
        /\ a = IF q.method \in PushMethods THEN "arrived" ELSE "admitted"
        /\ z = req[r] /\ z = RecordOf(z) /\ x = [z EXCEPT !.ask = q, !.at = a]
        /\ req' = [req EXCEPT ![r] = x]
    BY RecordAt DEF Arrive
<1>2. /\ x = RecordOf(x) /\ x.ask = q /\ x.at = a
      /\ x.code = z.code /\ x.shown = z.shown
    <2>1. z = RecordOf(z) /\ x = [z EXCEPT !.ask = q, !.at = a]
        BY <1>1
    <2> QED
        BY <2>1 DEF RecordOf
<1> QED
    BY <1>1, <1>2, OneRequest

LEMMA ArriveStep ==
    ASSUME Inv, NEW r \in Requests, NEW q \in Asks[r], Arrive(r, q)
    PROVE  Inv'
<1>1. /\ Only(r)
      /\ req'[r].ask = q /\ req'[r].code = req[r].code /\ req'[r].shown = req[r].shown
      /\ req'[r].at = IF q.method \in PushMethods THEN "arrived" ELSE "admitted"
    BY ArriveChanges
<1>2. ShapeInv'
    BY <1>1 DEF Inv, ShapeInv, Only, ReqShape, RecordOf, Arrive, store
<1>3. \A o \in Requests : RequestInv(o)' /\ IsPage(req'[o].shown)
    BY <1>1 DEF Inv, RequestInv, Only, States, Arrive, store
<1>4. \A o \in Objects : IsGroups(contents'[o])
    BY DEF Inv, Arrive, store
<1>5. JudgingInv'
    <2>1. /\ inForce' = [o \in Requests |-> inForce'[o]]
          /\ inForce'[r] \in {{}, {settings}}
          /\ req'[r].at = "arrived" => inForce'[r] = {settings}
          /\ \A o \in Requests : o # r => inForce'[o] = inForce[o]
        <3>1. CASE q.method \in PushMethods
            <4>1. inForce' = [inForce EXCEPT ![r] = {settings}]
                BY <3>1 DEF Arrive
            <4> QED
                BY <4>1 DEF Inv, JudgingInv
        <3>2. CASE q.method \notin PushMethods
            <4>1. inForce' = [inForce EXCEPT ![r] = {}] /\ req'[r].at = "admitted"
                BY <1>1, <3>2 DEF Arrive
            <4> QED
                BY <4>1 DEF Inv, JudgingInv
        <3> QED
            BY <3>1, <3>2
    <2>2. settings' = settings /\ clients' = clients /\ r \notin clients
        BY DEF Inv, JudgingInv, Arrive
    <2> QED
        BY <1>1, <2>1, <2>2 DEF Inv, JudgingInv, Only
<1> QED
    BY <1>2, <1>3, <1>4, <1>5 DEF Inv

LEMMA CopyChanges ==
    ASSUME Inv, NEW r \in Requests, CopySettings(r)
    PROVE  /\ Only(r)
           /\ req'[r].at = "judged" /\ req'[r].copy = settings
           /\ req'[r].ask = req[r].ask /\ req'[r].code = req[r].code /\ req'[r].shown = req[r].shown
<1>1. PICK z, x :
        /\ z = req[r] /\ z = RecordOf(z) /\ x = [z EXCEPT !.at = "judged", !.copy = settings]
        /\ req' = [req EXCEPT ![r] = x]
    BY RecordAt DEF CopySettings
<1>2. /\ x = RecordOf(x) /\ x.at = "judged" /\ x.copy = settings
      /\ x.ask = z.ask /\ x.code = z.code /\ x.shown = z.shown
    <2>1. z = RecordOf(z) /\ x = [z EXCEPT !.at = "judged", !.copy = settings]
        BY <1>1
    <2> QED
        BY <2>1 DEF RecordOf
<1> QED
    BY <1>1, <1>2, OneRequest

LEMMA CopyStep ==
    ASSUME Inv, NEW r \in Requests, CopySettings(r)
    PROVE  Inv'
<1>1. /\ Only(r)
      /\ req'[r].at = "judged" /\ req'[r].copy = settings
      /\ req'[r].ask = req[r].ask /\ req'[r].code = req[r].code /\ req'[r].shown = req[r].shown
    BY CopyChanges
<1>2. ShapeInv'
    BY <1>1 DEF Inv, ShapeInv, Only, ReqShape, RecordOf, CopySettings, store
<1>3. \A o \in Requests : RequestInv(o)' /\ IsPage(req'[o].shown)
    BY <1>1 DEF Inv, RequestInv, Only, States, CopySettings, store
<1>4. \A o \in Objects : IsGroups(contents'[o])
    BY DEF Inv, CopySettings, store
<1>5. JudgingInv'
    BY <1>1 DEF Inv, JudgingInv, Only, CopySettings
<1> QED
    BY <1>2, <1>3, <1>4, <1>5 DEF Inv

\* How Judge decides, and what it leaves.
LEMMA JudgeDecides ==
    ASSUME Inv, NEW r \in Requests, Judge(r)
    PROVE  /\ Only(r)
           /\ req'[r].ask = req[r].ask /\ req'[r].shown = req[r].shown
           /\ req'[r].code = IF req'[r].at = "admitted" THEN req[r].code ELSE 401
           /\ req[r].at = "judged" /\ req'[r].at \in {"admitted", "answered"}
           /\ \E known \in BOOLEAN :
                /\ Admits(req[r].copy, r, known) <=> req'[r].at = "admitted"
                /\ clients' = IF Admits(req[r].copy, r, known) THEN clients \cup {r} ELSE clients
           /\ inForce' = [inForce EXCEPT ![r] = {}]
           /\ UNCHANGED <<settings, changes, store, gone>>
<1>1. PICK known \in BOOLEAN :
        IF Admits(req[r].copy, r, known)
        THEN /\ req' = [req EXCEPT ![r] = [@ EXCEPT !.at = "admitted", !.copy = Nothing]]
             /\ clients' = clients \cup {r}
        ELSE /\ req' = [req EXCEPT ![r] =
                    [@ EXCEPT !.at = "answered", !.copy = Nothing, !.code = 401]]
             /\ UNCHANGED clients
    BY DEF Judge, Judged
<1>2. CASE Admits(req[r].copy, r, known)
    <2>1. /\ Only(r)
          /\ req'[r].ask = req[r].ask /\ req'[r].shown = req[r].shown
          /\ req'[r].code = req[r].code /\ req'[r].at = "admitted"
        BY <1>1, <1>2 DEF Inv, ShapeInv, Only, ReqShape, RecordOf
    <2> QED
        BY <1>1, <1>2, <2>1 DEF Judge, Judged
<1>3. CASE ~Admits(req[r].copy, r, known)
    <2>1. /\ Only(r)
          /\ req'[r].ask = req[r].ask /\ req'[r].shown = req[r].shown
          /\ req'[r].code = 401 /\ req'[r].at = "answered"
        <3>1. PICK z, x :
                /\ z = req[r] /\ z = RecordOf(z) /\ x = [z EXCEPT !.at = "answered", !.copy = Nothing, !.code = 401]
                /\ req' = [req EXCEPT ![r] = x]
            BY <1>1, <1>3, RecordAt
        <3>2. /\ x = RecordOf(x) /\ x.at = "answered" /\ x.code = 401
              /\ x.ask = z.ask /\ x.shown = z.shown
            <4>1. z = RecordOf(z) /\ x = [z EXCEPT !.at = "answered", !.copy = Nothing, !.code = 401]
                BY <3>1
            <4> QED
                BY <4>1 DEF RecordOf
        <3>3. z = req[r] /\ req' = [req EXCEPT ![r] = x]
            BY <3>1
        <3>4. Only(r) /\ req'[r] = x
            <4>1. x = RecordOf(x)
                BY <3>2
            <4> QED
                BY <4>1, <3>3, OneRequest
        <3> QED
            BY <3>2, <3>3, <3>4
    <2> QED
        BY <1>1, <1>3, <2>1 DEF Judge, Judged
<1> QED
    BY <1>2, <1>3

LEMMA JudgeStep ==
    ASSUME Inv, NEW r \in Requests, Judge(r)
    PROVE  Inv'
<1>1. ShapeInv'
    BY JudgeDecides DEF Inv, ShapeInv, Only, ReqShape, store
<1>2. \A o \in Requests : RequestInv(o)' /\ IsPage(req'[o].shown)
    BY JudgeDecides DEF Inv, RequestInv, Only, States, store
<1>3. \A o \in Objects : IsGroups(contents'[o])
    BY JudgeDecides DEF Inv, store
<1>4. JudgingInv'
    BY JudgeDecides DEF Inv, JudgingInv, Only
<1> QED
    BY <1>1, <1>2, <1>3, <1>4 DEF Inv

\* The handlers run after the decision and leave what it rests on.
LEMMA HandledKeepsJudging ==
    ASSUME Inv, NEW r \in Requests, Only(r),
           req[r].at \in {"admitted", "found"}, req'[r].at \in {"found", "answered"},
           UNCHANGED <<settings, clients, inForce>>
    PROVE  JudgingInv'
BY DEF Inv, JudgingInv, Only

LEMMA AnswerChanges ==
    ASSUME Inv, NEW r \in Requests, NEW code, Answer(r, code)
    PROVE  /\ Only(r)
           /\ req'[r].at = "answered" /\ req'[r].code = code
           /\ req'[r].ask = req[r].ask /\ req'[r].shown = req[r].shown
<1>1. PICK z, x :
        /\ z = req[r] /\ z = RecordOf(z) /\ x = [z EXCEPT !.at = "answered", !.code = code]
        /\ req' = [req EXCEPT ![r] = x]
    BY RecordAt DEF Answer
<1>2. /\ x = RecordOf(x) /\ x.at = "answered" /\ x.code = code
      /\ x.ask = z.ask /\ x.shown = z.shown
    <2>1. z = RecordOf(z) /\ x = [z EXCEPT !.at = "answered", !.code = code]
        BY <1>1
    <2> QED
        BY <2>1 DEF RecordOf
<1>3. z = req[r] /\ req' = [req EXCEPT ![r] = x]
    BY <1>1
<1>4. Only(r) /\ req'[r] = x
    <2>1. x = RecordOf(x)
        BY <1>2
    <2> QED
        BY <2>1, <1>3, OneRequest
<1> QED
    BY <1>2, <1>3, <1>4

LEMMA LookupChanges ==
    ASSUME Inv, NEW r \in Requests, Lookup(r)
    PROVE  /\ Only(r)
           /\ req'[r].ask = req[r].ask /\ req'[r].shown = req[r].shown
           /\ \/ /\ bucket[req[r].ask.name] = Nothing
                 /\ req'[r].at = "answered" /\ req'[r].code = 404
              \/ /\ bucket[req[r].ask.name] # Nothing
                 /\ req'[r].at = "found" /\ req'[r].code = req[r].code
                 /\ req'[r].object = bucket[req[r].ask.name]
<1> DEFINE o == bucket[req[r].ask.name]
<1>1. CASE o = Nothing
    <2>1. Answer(r, 404)
        BY <1>1 DEF Lookup
    <2> QED
        BY <1>1, <2>1, AnswerChanges
<1>2. CASE o # Nothing
    <2> HIDE DEF o
    <2>1. PICK z, x :
            /\ z = req[r] /\ z = RecordOf(z) /\ x = [z EXCEPT !.at = "found", !.object = o]
            /\ req' = [req EXCEPT ![r] = x]
        BY <1>2, RecordAt DEF Lookup, o
    <2>2. /\ x = RecordOf(x) /\ x.at = "found" /\ x.object = o
          /\ x.ask = z.ask /\ x.shown = z.shown /\ x.code = z.code
        <3>1. z = RecordOf(z) /\ x = [z EXCEPT !.at = "found", !.object = o]
            BY <2>1
        <3> QED
            BY <3>1 DEF RecordOf
    <2>3. z = req[r] /\ req' = [req EXCEPT ![r] = x]
        BY <2>1
    <2>4. Only(r) /\ req'[r] = x
        <3>1. x = RecordOf(x)
            BY <2>2
        <3> QED
            BY <3>1, <2>3, OneRequest
    <2> QED
        BY <1>2, <2>2, <2>3, <2>4 DEF o
<1> QED
    BY <1>1, <1>2

LEMMA LookupStep ==
    ASSUME Inv, NEW r \in Requests, Lookup(r)
    PROVE  Inv'
<1>1. req[r].at = "admitted" /\ UNCHANGED <<settings, changes, store, clients, inForce, gone>>
    BY DEF Lookup
<1>2. ShapeInv'
    BY <1>1, LookupChanges DEF Inv, ShapeInv, Only, ReqShape, store
<1>3. \A q \in Requests : RequestInv(q)' /\ IsPage(req'[q].shown)
    <2>1. req[r].ask.name \in Names
        BY <1>1, Constants DEF Inv, RequestInv
    <2>2. bucket[req[r].ask.name] \in 1..made \cup {Nothing} /\ made' = made
        BY <1>1, <2>1 DEF Inv, ShapeInv, store
    <2> QED
        BY <1>1, <2>2, LookupChanges DEF Inv, RequestInv, Only, States
<1>4. \A o \in Objects : IsGroups(contents'[o])
    BY <1>1 DEF Inv, store
<1>5. JudgingInv'
    BY <1>1, LookupChanges, HandledKeepsJudging
<1> QED
    BY <1>2, <1>3, <1>4, <1>5 DEF Inv

LEMMA RefuseStep ==
    ASSUME Inv, NEW r \in Requests, Refuse(r)
    PROVE  Inv'
<1>1. /\ req[r].at = "found" /\ UNCHANGED <<settings, changes, store, clients, inForce, gone>>
      /\ Only(r)
      /\ req'[r].at = "answered" /\ req'[r].code = 400
      /\ req'[r].ask = req[r].ask /\ req'[r].shown = req[r].shown
    BY AnswerChanges DEF Refuse
<1>2. ShapeInv'
    BY <1>1 DEF Inv, ShapeInv, Only, ReqShape, store
<1>3. \A q \in Requests : RequestInv(q)' /\ IsPage(req'[q].shown)
    BY <1>1 DEF Inv, RequestInv, Only, States, store
<1>4. \A o \in Objects : IsGroups(contents'[o])
    BY <1>1 DEF Inv, store
<1>5. JudgingInv'
    BY <1>1, HandledKeepsJudging
<1> QED
    BY <1>2, <1>3, <1>4, <1>5 DEF Inv

LEMMA PushChanges ==
    ASSUME Inv, NEW r \in Requests, Push(r)
    PROVE  /\ req[r].at = "found" /\ req[r].object \in Objects
           /\ UNCHANGED <<settings, changes, bucket, made, clients, inForce, gone>>
           /\ Only(r)
           /\ req'[r].at = "answered" /\ req'[r].code \in {200, 202}
           /\ req'[r].ask = req[r].ask /\ req'[r].shown = req[r].shown
           /\ contents' = [o \in Objects |->
                IF o = req[r].object THEN Pushed(r, contents[o]) ELSE contents[o]]
<1>1. PICK code \in {200, 202} : Answer(r, code)
    BY DEF Push
<1>2. /\ req[r].at = "found"
      /\ UNCHANGED <<settings, changes, bucket, made, clients, inForce, gone>>
      /\ Only(r)
      /\ req'[r].at = "answered" /\ req'[r].code \in {200, 202}
      /\ req'[r].ask = req[r].ask /\ req'[r].shown = req[r].shown
    BY <1>1, AnswerChanges DEF Push
<1> DEFINE p == req[r].object
<1>3. p \in Objects
    BY <1>2, FoundObject
<1>4. contents' = [o \in Objects |-> IF o = p THEN Pushed(r, contents[o]) ELSE contents[o]]
    <2>1. contents' = [contents EXCEPT ![p] = Pushed(r, contents[p])]
        BY DEF Push
    <2>2. contents = [o \in Objects |-> contents[o]]
        BY DEF Inv, ShapeInv
    <2> HIDE DEF p
    <2> QED
        BY <1>3, <2>1, <2>2
<1> QED
    BY <1>2, <1>3, <1>4

LEMMA PushStep ==
    ASSUME Inv, NEW r \in Requests, Push(r)
    PROVE  Inv'
<1>1. ShapeInv'
    BY PushChanges DEF Inv, ShapeInv, Only, ReqShape
<1>2. \A q \in Requests : RequestInv(q)' /\ IsPage(req'[q].shown)
    BY PushChanges DEF Inv, RequestInv, Only, States
<1>3. \A o \in Objects : IsGroups(contents'[o])
    <2>1. IsGroups(Pushed(r, contents[req[r].object]))
        BY PushChanges, PushedIsGroups DEF Push, Inv
    <2> QED
        BY PushChanges, <2>1 DEF Inv
<1>4. JudgingInv'
    BY PushChanges, HandledKeepsJudging
<1> QED
    BY <1>1, <1>2, <1>3, <1>4 DEF Inv

LEMMA ScrapeChanges ==
    ASSUME Inv, NEW r \in Requests, Scrape(r)
    PROVE  /\ Only(r)
           /\ req'[r].at = "answered" /\ req'[r].code = 200 /\ req'[r].shown = Series(contents[req[r].object])
           /\ req'[r].ask = req[r].ask
<1> DEFINE page == Series(contents[req[r].object])
<1> HIDE DEF page
<1>1. PICK z, x :
        /\ z = req[r] /\ z = RecordOf(z)
        /\ x = [z EXCEPT !.at = "answered", !.code = 200, !.shown = page]
        /\ req' = [req EXCEPT ![r] = x]
    BY RecordAt DEF Scrape, page
<1>2. /\ x = RecordOf(x) /\ x.at = "answered" /\ x.code = 200
      /\ x.ask = z.ask /\ x.shown = page
    <2>1. z = RecordOf(z) /\ x = [z EXCEPT !.at = "answered", !.code = 200, !.shown = page]
        BY <1>1
    <2> QED
        BY <2>1 DEF RecordOf
<1>3. z = req[r] /\ req' = [req EXCEPT ![r] = x]
    BY <1>1
<1>4. Only(r) /\ req'[r] = x
    <2>1. x = RecordOf(x)
        BY <1>2
    <2> QED
        BY <2>1, <1>3, OneRequest
<1> QED
    BY <1>2, <1>3, <1>4 DEF page

LEMMA ScrapeStep ==
    ASSUME Inv, NEW r \in Requests, Scrape(r)
    PROVE  Inv'
<1> DEFINE page == Series(contents[req[r].object])
<1>1. /\ Only(r)
      /\ req'[r].at = "answered" /\ req'[r].code = 200 /\ req'[r].shown = page
      /\ req'[r].ask = req[r].ask
    BY ScrapeChanges
<1>2. req[r].at = "found" /\ UNCHANGED <<settings, changes, store, clients, inForce, gone>>
    BY DEF Scrape
<1>3. ShapeInv'
    BY <1>1, <1>2 DEF Inv, ShapeInv, Only, ReqShape, store
<1>4. \A q \in Requests : RequestInv(q)' /\ IsPage(req'[q].shown)
    <2>1. req[r].object \in Objects
        BY <1>2, FoundObject
    <2>2. IsPage(page)
        BY <2>1, SeriesIsPage DEF Inv
    <2> QED
        BY <1>1, <1>2, <2>2 DEF Inv, RequestInv, Only, States, store
<1>5. \A o \in Objects : IsGroups(contents'[o])
    BY <1>2 DEF Inv, store
<1>6. JudgingInv'
    BY <1>1, <1>2, HandledKeepsJudging
<1> QED
    BY <1>3, <1>4, <1>5, <1>6 DEF Inv

\* Management changes which buckets there are, and no request.
LEMMA ManagementStep ==
    ASSUME Inv, NEW n \in Names, AddBucket(n) \/ RemoveBucket(n)
    PROVE  Inv'
<1>1. UNCHANGED <<settings, changes, contents, req, clients, inForce>>
    BY DEF AddBucket, RemoveBucket
<1>2. made' \in {made, made + 1} /\ made' \in 0..MaxObjects
    BY Constants DEF Inv, ShapeInv, AddBucket, RemoveBucket
<1>3. ShapeInv'
    <2>1. bucket' \in [Names -> 1..made' \cup {Nothing}]
        <3>1. CASE AddBucket(n)
            BY <3>1 DEF Inv, ShapeInv, AddBucket
        <3>2. CASE RemoveBucket(n)
            BY <3>2 DEF Inv, ShapeInv, RemoveBucket
        <3> QED
            BY <3>1, <3>2
    <2>2. gone' \subseteq Requests
        BY DEF Inv, ShapeInv, AddBucket, RemoveBucket
    <2> QED
        BY <1>1, <1>2, <2>1, <2>2 DEF Inv, ShapeInv
<1>4. \A q \in Requests : RequestInv(q)' /\ IsPage(req'[q].shown)
    BY <1>1, <1>2 DEF Inv, RequestInv, ShapeInv
<1>5. JudgingInv'
    BY <1>1 DEF Inv, JudgingInv
<1> QED
    BY <1>1, <1>3, <1>4, <1>5 DEF Inv

\* A change of the settings joins the history of the undecided pushes.
LEMMA SettingsStep ==
    ASSUME Inv, NEW s, IsSettings(s), ChangeSettings(s)
    PROVE  Inv'
<1>1. UNCHANGED <<store, req, clients, gone>> /\ changes' \in 0..MaxChanges
    BY Constants DEF Inv, ShapeInv, ChangeSettings
<1>2. ShapeInv'
    BY <1>1 DEF Inv, ShapeInv, store
<1>3. \A q \in Requests : RequestInv(q)' /\ IsPage(req'[q].shown)
    BY <1>1 DEF Inv, RequestInv, store
<1>4. JudgingInv'
    BY <1>1 DEF Inv, JudgingInv, ChangeSettings
<1> QED
    BY <1>1, <1>2, <1>3, <1>4 DEF Inv, store

LEMMA ChangedSettings ==
    ASSUME NEW s, IsSettings(s), NEW t
    PROVE  IsSettings([s EXCEPT !.tags = t])
BY DEF IsSettings

-----------------------------------------------------------------------------
(* The theorems.                                                           *)

LEMMA Inductive == Inv /\ [Next]_vars => Inv'
<1> SUFFICES ASSUME Inv, [Next]_vars PROVE Inv'
    OBVIOUS
<1>1. CASE \E r \in Requests : Step(r)
    BY <1>1, CopyStep, JudgeStep, LookupStep, RefuseStep, PushStep, ScrapeStep DEF Step
<1>2. CASE \E r \in Requests : \E q \in Asks[r] : Arrive(r, q)
    BY <1>2, ArriveStep
<1>3. CASE \E n \in Names : AddBucket(n) \/ RemoveBucket(n)
    BY <1>3, ManagementStep
<1>4. CASE Reload
    BY <1>4, SettingsStep, Constants DEF Reload
<1>5. CASE NodeAttrsRead
    <2>1. PICK s \in AllSettings : ChangeSettings([settings EXCEPT !.tags = s.tags])
        BY <1>5 DEF NodeAttrsRead
    <2>2. IsSettings([settings EXCEPT !.tags = s.tags])
        BY ChangedSettings DEF Inv, JudgingInv
    <2> QED
        BY <2>1, <2>2, SettingsStep
<1>6. CASE UNCHANGED vars
    BY <1>6 DEF vars, store, Inv, ShapeInv, RequestInv, JudgingInv
<1> QED
    BY <1>1, <1>2, <1>3, <1>4, <1>5, <1>6 DEF Next

\* Requests, pages and groups are well formed, and an undecided push has its
\* history of settings, in every reachable state.
THEOREM Invariant == Spec => []Inv
BY Initially, Inductive, PTL DEF Spec

\* Every variable keeps its kind, and a request that goes on has a bucket
\* that was made to go on with.
THEOREM TypeCorrect == Spec => []TypeOK
<1>1. Inv => TypeOK
    <2> SUFFICES ASSUME Inv PROVE TypeOK
        OBVIOUS
    <2>1. bucket \in [Names -> Objects \cup {Nothing}]
        <3>1. 1..made \subseteq Objects
            BY Constants DEF Inv, ShapeInv, Objects
        <3> QED
            BY <3>1 DEF Inv, ShapeInv
    <2>2. \A o \in Objects, k \in UNION {DOMAIN contents[p] : p \in Objects} :
            k \in DOMAIN contents[o] => DOMAIN contents[o][k].families \subseteq Families
        BY DEF Inv, IsGroups
    <2> QED
        BY <2>1, <2>2 DEF Inv, ShapeInv, RequestInv, TypeOK, States
<1> QED
    BY <1>1, Invariant, PTL

\* No scrape shows a family twice with the same grouping labels.
THEOREM PagesHaveNoDuplicates == Spec => []NoDuplicateSeries
<1>1. Inv => NoDuplicateSeries
    BY DEF Inv, IsPage, NoDuplicateSeries
<1> QED
    BY <1>1, Invariant, PTL

\* One step decides a push by a setting that was in force since it arrived.
LEMMA DecidingStep ==
    ASSUME Inv, [Next]_vars, NEW r \in Requests,
           req[r].at = "judged", req'[r].at # "judged"
    PROVE  \E s \in inForce[r], known \in BOOLEAN :
            /\ Entitled(s, r, known) <=> req'[r].at = "admitted"
            /\ Entitled(s, r, known) <=> r \in clients'
<1>1. Judge(r)
    <2>1. ASSUME NEW o \in Requests, Step(o) \/ \E q \in Asks[o] : Arrive(o, q), o # r
          PROVE  req'[r] = req[r]
        BY <2>1 DEF Step, CopySettings, Judge, Judged, Lookup, Refuse, Push, Scrape, Arrive,
                    Answer, Inv, ShapeInv
    <2>2. ASSUME Step(r) \/ \E q \in Asks[r] : Arrive(r, q)
          PROVE  Judge(r)
        BY <2>2 DEF Step, CopySettings, Lookup, Refuse, Push, Scrape, Arrive
    <2>3. ASSUME \/ \E n \in Names : AddBucket(n) \/ RemoveBucket(n)
                 \/ Reload \/ NodeAttrsRead \/ UNCHANGED vars
          PROVE  req' = req
        BY <2>3 DEF AddBucket, RemoveBucket, Reload, NodeAttrsRead, ChangeSettings, vars
    <2> QED
        BY <2>1, <2>2, <2>3 DEF Next
<1>2. PICK known \in BOOLEAN :
        /\ Admits(req[r].copy, r, known) <=> req'[r].at = "admitted"
        /\ clients' = IF Admits(req[r].copy, r, known) THEN clients \cup {r} ELSE clients
    BY <1>1, JudgeDecides
<1>3. /\ req[r].copy \in inForce[r] /\ r \notin clients
      /\ Entitled(req[r].copy, r, known) <=> Admits(req[r].copy, r, known)
    BY AdmitsIsEntitled DEF Inv, JudgingInv
<1> QED
    BY <1>2, <1>3

\* A push is decided by the documented rule under one setting that was in
\* force between its arrival and the decision, and recorded just when it is
\* admitted, however often the settings change meanwhile.
THEOREM AlwaysDecidedUnderOneSetting == Spec => DecidedUnderOneSetting
<1>1. Inv /\ [Next]_vars =>
        [\A r \in Requests : req[r].at = "judged" /\ req'[r].at # "judged" =>
            \E s \in inForce[r], known \in BOOLEAN :
                /\ Entitled(s, r, known) <=> req'[r].at = "admitted"
                /\ Entitled(s, r, known) <=> r \in clients']_vars
    BY DecidingStep
<1> QED
    BY <1>1, Invariant, PTL DEF Spec, DecidedUnderOneSetting

-----------------------------------------------------------------------------
(* The Agent's requests implement BucketStore: every request that is       *)
(* carried out changes or shows its bucket in one step, and one whose      *)
(* bucket was removed under its hands touches no bucket at all.            *)

\* What the refinement needs beyond Inv: no two names share an object; a
\* request in hand holds the object its name leads to, or, if that was
\* removed, one no name leads to any more; and only an answer has an effect
\* to show.
HoldsInv ==
    /\ \A n, m \in Names : bucket[n] = bucket[m] /\ bucket[n] # Nothing => n = m
    /\ \A r \in Requests :
        /\ req[r].at # "answered" => req[r].code = 0 /\ req[r].shown = {}
        /\ req[r].at = "found" =>
            IF r \in gone THEN \A n \in Names : bucket[n] # req[r].object
            ELSE bucket[req[r].ask.name] = req[r].object
        /\ r \in gone => req[r].at \in {"found", "answered"}
    /\ \A o \in Objects : o > made => contents[o] = NoGroups

StoreInv == Inv /\ HoldsInv

-----------------------------------------------------------------------------
(* The two invariants together are inductive.                              *)

LEMMA InHand ==
    ASSUME Inv, NEW r \in Requests, req[r].at # "none"
    PROVE  req[r].ask \in Asks[r] /\ req[r].ask.name \in Names
BY Constants DEF Inv, RequestInv

LEMMA ObjectNumbers ==
    ASSUME Inv
    PROVE  /\ made \in Nat /\ Nothing \notin 1..made
           /\ \A n \in Names : bucket[n] \in 1..made \cup {Nothing}
           /\ made < MaxObjects => made + 1 \in Objects
BY Constants DEF Inv, ShapeInv, Objects

LEMMA HoldsInitially == Init => HoldsInv
BY DEF Init, HoldsInv, Blank

\* A step of r that touches no bucket and answers nothing of effect.
LEMMA QuietKeepsHolds ==
    ASSUME StoreInv, NEW r \in Requests, Only(r), UNCHANGED <<store, gone>>,
           req[r].at # "answered", req'[r].at # "none",
           req'[r].at # "found" \/ req'[r].object = bucket[req'[r].ask.name],
           req'[r].at # "answered" => req'[r].code = 0 /\ req'[r].shown = {},
           r \in gone => req'[r].at = "answered"
    PROVE  HoldsInv'
<1>1. ASSUME NEW q \in Requests
      PROVE  /\ req'[q].at # "answered" => req'[q].code = 0 /\ req'[q].shown = {}
             /\ req'[q].at = "found" =>
                 IF q \in gone' THEN \A n \in Names : bucket'[n] # req'[q].object
                 ELSE bucket'[req'[q].ask.name] = req'[q].object
             /\ q \in gone' => req'[q].at \in {"found", "answered"}
    <2>1. CASE q = r
        BY <2>1 DEF store
    <2>2. CASE q # r
        BY <2>2 DEF StoreInv, HoldsInv, Only, store
    <2> QED
        BY <2>1, <2>2
<1> QED
    BY <1>1 DEF StoreInv, HoldsInv, store

LEMMA RequestKeepsHolds ==
    ASSUME StoreInv, NEW r \in Requests,
           \/ CopySettings(r) \/ Judge(r) \/ Lookup(r) \/ Refuse(r) \/ Scrape(r)
           \/ \E q \in Asks[r] : Arrive(r, q)
    PROVE  HoldsInv'
<1>1. (req[r].code = 0 /\ req[r].shown = {}) \/ req[r].at = "answered"
    BY DEF StoreInv, HoldsInv
<1>2. r \in gone => req[r].at \in {"found", "answered"}
    BY DEF StoreInv, HoldsInv
<1>3. CASE \E q \in Asks[r] : Arrive(r, q)
    <2>1. PICK q \in Asks[r] : Arrive(r, q)
        BY <1>3
    <2>2. req[r].at = "none" /\ UNCHANGED <<store, gone>>
        BY <2>1 DEF Arrive
    <2> QED
        BY <1>1, <1>2, <2>1, <2>2, ArriveChanges, QuietKeepsHolds DEF StoreInv
<1>4. CASE CopySettings(r)
    <2>1. req[r].at = "arrived" /\ UNCHANGED <<store, gone>>
        BY <1>4 DEF CopySettings
    <2> QED
        BY <1>1, <1>2, <1>4, <2>1, CopyChanges, QuietKeepsHolds DEF StoreInv
<1>5. CASE Judge(r)
    <2>1. /\ Only(r) /\ UNCHANGED <<store, gone>>
          /\ req[r].at = "judged" /\ req'[r].at \in {"admitted", "answered"}
          /\ req'[r].shown = req[r].shown
        BY <1>5, JudgeDecides DEF StoreInv
    <2>2. req'[r].at = "admitted" => req'[r].code = 0
        BY <1>1, <1>5, JudgeDecides DEF StoreInv
    <2> QED
        BY <1>1, <1>2, <2>1, <2>2, QuietKeepsHolds
<1>6. CASE Lookup(r)
    <2>1. req[r].at = "admitted" /\ UNCHANGED <<store, gone>>
        BY <1>6 DEF Lookup
    <2> QED
        BY <1>1, <1>2, <1>6, <2>1, LookupChanges, QuietKeepsHolds DEF StoreInv
<1>7. CASE Refuse(r)
    <2>1. req[r].at = "found" /\ UNCHANGED <<store, gone>> /\ Answer(r, 400)
        BY <1>7 DEF Refuse
    <2> QED
        BY <2>1, AnswerChanges, QuietKeepsHolds DEF StoreInv
<1>8. CASE Scrape(r)
    <2>1. req[r].at = "found" /\ UNCHANGED <<store, gone>>
        BY <1>8 DEF Scrape
    <2> QED
        BY <1>8, <2>1, ScrapeChanges, QuietKeepsHolds DEF StoreInv
<1> QED
    BY <1>3, <1>4, <1>5, <1>6, <1>7, <1>8

LEMMA PushKeepsHolds ==
    ASSUME StoreInv, NEW r \in Requests, Push(r)
    PROVE  HoldsInv'
<1>1. /\ req[r].at = "found" /\ req[r].object \in Objects
      /\ UNCHANGED <<bucket, made, gone>>
      /\ Only(r) /\ req'[r].at = "answered"
      /\ contents' = [o \in Objects |->
            IF o = req[r].object THEN Pushed(r, contents[o]) ELSE contents[o]]
    BY PushChanges DEF StoreInv
<1>2. \A q \in Requests :
        /\ req'[q].at # "answered" => req'[q].code = 0 /\ req'[q].shown = {}
        /\ req'[q].at = "found" =>
            IF q \in gone' THEN \A n \in Names : bucket'[n] # req'[q].object
            ELSE bucket'[req'[q].ask.name] = req'[q].object
        /\ q \in gone' => req'[q].at \in {"found", "answered"}
    BY <1>1 DEF StoreInv, HoldsInv, Only
<1>3. ASSUME NEW o \in Objects, o > made' PROVE contents'[o] = NoGroups
    <2>1. req[r].object \in 1..made
        BY <1>1 DEF StoreInv, Inv, RequestInv
    <2>2. o # req[r].object
        BY <1>1, <1>3, <2>1, ObjectNumbers DEF StoreInv, Objects
    <2> QED
        BY <1>1, <1>3, <2>2 DEF StoreInv, HoldsInv
<1> QED
    BY <1>1, <1>2, <1>3 DEF StoreInv, HoldsInv

LEMMA AddKeepsHolds ==
    ASSUME StoreInv, NEW n \in Names, AddBucket(n)
    PROVE  HoldsInv'
<1>1. /\ bucket[n] = Nothing /\ made' = made + 1
      /\ bucket' = [m \in Names |-> IF m = n THEN made + 1 ELSE bucket[m]]
      /\ UNCHANGED <<contents, req, gone>>
    BY DEF AddBucket, StoreInv, Inv, ShapeInv
<1>2. \A m \in Names : bucket[m] # made + 1
    BY ObjectNumbers, Constants DEF StoreInv, AddBucket
<1>3. \A x, y \in Names : bucket'[x] = bucket'[y] /\ bucket'[x] # Nothing => x = y
    BY <1>1, <1>2 DEF StoreInv, HoldsInv
<1>4. ASSUME NEW r \in Requests, req[r].at = "found"
      PROVE  IF r \in gone THEN \A m \in Names : bucket'[m] # req[r].object
             ELSE bucket'[req[r].ask.name] = req[r].object
    <2>1. req[r].object \in 1..made /\ req[r].object # Nothing /\ req[r].object # made + 1
        BY <1>4, ObjectNumbers DEF StoreInv, Inv, RequestInv
    <2>2. req[r].ask.name \in Names
        BY <1>4, InHand DEF StoreInv
    <2> QED
        BY <1>1, <1>4, <2>1, <2>2 DEF StoreInv, HoldsInv
<1>5. \A o \in Objects : o > made' => contents'[o] = NoGroups
    BY <1>1, ObjectNumbers DEF StoreInv, HoldsInv, Objects
<1> QED
    BY <1>1, <1>3, <1>4, <1>5 DEF StoreInv, HoldsInv

LEMMA RemoveKeepsHolds ==
    ASSUME StoreInv, NEW n \in Names, RemoveBucket(n)
    PROVE  HoldsInv'
<1>1. /\ bucket[n] # Nothing
      /\ bucket' = [m \in Names |-> IF m = n THEN Nothing ELSE bucket[m]]
      /\ gone' = gone \cup {r \in Requests : req[r].at = "found" /\ req[r].object = bucket[n]}
      /\ UNCHANGED <<made, contents, req>>
    BY DEF RemoveBucket, StoreInv, Inv, ShapeInv
<1>2. \A x, y \in Names : bucket'[x] = bucket'[y] /\ bucket'[x] # Nothing => x = y
    BY <1>1 DEF StoreInv, HoldsInv
<1>3. ASSUME NEW r \in Requests, req[r].at = "found"
      PROVE  IF r \in gone' THEN \A m \in Names : bucket'[m] # req[r].object
             ELSE bucket'[req[r].ask.name] = req[r].object
    <2>1. req[r].object # Nothing
        BY <1>3, ObjectNumbers DEF StoreInv, Inv, RequestInv
    <2>2. req[r].ask.name \in Names
        BY <1>3, InHand DEF StoreInv
    <2> QED
        BY <1>1, <1>3, <2>1, <2>2 DEF StoreInv, HoldsInv
<1> QED
    BY <1>1, <1>2, <1>3 DEF StoreInv, HoldsInv

\* A change of the settings leaves all this alone.
LEMMA SettingsKeepHolds ==
    ASSUME StoreInv, Reload \/ NodeAttrsRead \/ UNCHANGED vars
    PROVE  UNCHANGED <<store, req, gone>> /\ HoldsInv'
BY DEF StoreInv, HoldsInv, Reload, NodeAttrsRead, ChangeSettings, vars, store

\* In every reachable state a request in hand holds the object its name leads
\* to, or one that no name leads to any more (server.go:785-799).
THEOREM StoreInvariant == Spec => []StoreInv
<1>1. Init => StoreInv
    BY Initially, HoldsInitially DEF StoreInv
<1>2. StoreInv /\ [Next]_vars => StoreInv'
    <2> SUFFICES ASSUME StoreInv, [Next]_vars PROVE HoldsInv'
        BY Inductive DEF StoreInv
    <2>1. CASE \E r \in Requests : Step(r) \/ \E q \in Asks[r] : Arrive(r, q)
        BY <2>1, RequestKeepsHolds, PushKeepsHolds DEF Step
    <2>2. CASE \E n \in Names : AddBucket(n) \/ RemoveBucket(n)
        BY <2>2, AddKeepsHolds, RemoveKeepsHolds
    <2>3. CASE Reload \/ NodeAttrsRead \/ UNCHANGED vars
        BY <2>3, SettingsKeepHolds
    <2> QED
        BY <2>1, <2>2, <2>3 DEF Next
<1> QED
    BY <1>1, <1>2, PTL DEF Spec

-----------------------------------------------------------------------------
(* The groups of an object, and those of the abstract bucket.              *)

\* Series(groups) shows what the abstract page shows.
LEMMA SamePage ==
    ASSUME NEW groups, IsGroups(groups)
    PROVE  Series(groups) = Store!Series(Held(groups))
<1>1. \A k \in DOMAIN groups :
        /\ groups[k].labels = k
        /\ Held(groups)[k] = groups[k].families
    BY DEF IsGroups, Held
<1>2. DOMAIN Held(groups) = DOMAIN groups
    BY DEF Held
<1>3. ASSUME NEW x PROVE x \in Series(groups) <=> x \in Store!Series(Held(groups))
    <2>1. x \in Series(groups) <=>
            \E k \in DOMAIN groups : \E f \in DOMAIN groups[k].families :
                x = [family |-> f, labels |-> groups[k].labels, value |-> groups[k].families[f]]
        BY DEF Series
    <2>2. x \in Store!Series(Held(groups)) <=>
            \E k \in DOMAIN Held(groups) : \E f \in DOMAIN Held(groups)[k] :
                x = [family |-> f, labels |-> k, value |-> Held(groups)[k][f]]
        BY DEF Store!Series
    <2> QED
        BY <1>1, <1>2, <2>1, <2>2
<1> QED
    BY <1>3

LEMMA SameOver ==
    ASSUME NEW new, NEW old
    PROVE  Over(new, old) = Store!Over(new, old)
BY DEF Over, Store!Over

\* A push does to the object what it was meant to do to the bucket.
LEMMA SamePush ==
    ASSUME Inv, NEW r \in Requests, NEW groups, IsGroups(groups),
           req[r].at = "found", req[r].ask.method # "GET", ~Refused(req[r].ask)
    PROVE  Held(Pushed(r, groups)) = Store!After(Held(groups), Meant(r, req[r].ask))
<1> DEFINE q == req[r].ask
           k == Canonical(q.path)
           m == Meant(r, q)
<1>1. q.method \in PushMethods \cup {"clear"}
    BY Constants DEF Inv, RequestInv
<1>2. m.method = q.method /\ m.labels = k
    BY DEF Meant, Canonical
<1>3. \A j \in DOMAIN groups : groups[j] = [labels |-> j, families |-> groups[j].families]
    BY DEF IsGroups
<1>4. CASE q.method \in {"PUT", "POST"}
    <2>1. m.families = Group(r, q).families
        BY <1>4 DEF Meant, Refused, PushMethods
    <2>2. Held(Replace(groups, k, Group(r, q))) = Store!Put(Held(groups), m)
        BY <1>2, <2>1 DEF Held, Replace, Store!Put
    <2>3. Held(Merge(groups, k, Group(r, q))) = Store!Add(Held(groups), m)
        <3>1. CASE k \notin DOMAIN groups
            BY <1>2, <2>2, <3>1 DEF Merge, Store!Add, Held
        <3>2. CASE k \in DOMAIN groups
            <4> DEFINE both == Over(Group(r, q).families, groups[k].families)
            <4>1. Store!Add(Held(groups), m) =
                    [j \in DOMAIN groups |-> IF j = k THEN both ELSE groups[j].families]
                BY <1>2, <2>1, <3>2, SameOver DEF Store!Add, Held
            <4>2. Merge(groups, k, Group(r, q)) =
                    [groups EXCEPT ![k] = [groups[k] EXCEPT !.families = both]]
                BY <3>2 DEF Merge
            <4>3. [groups[k] EXCEPT !.families = both] = [labels |-> k, families |-> both]
                BY <1>3, <3>2
            <4>4. ASSUME NEW j \in DOMAIN groups
                  PROVE  Merge(groups, k, Group(r, q))[j].families =
                            IF j = k THEN both ELSE groups[j].families
                <5>1. Merge(groups, k, Group(r, q)) =
                        [groups EXCEPT ![k] = [labels |-> k, families |-> both]]
                    BY <4>2, <4>3
                <5> HIDE DEF both
                <5> QED
                    BY <5>1
            <4>5. DOMAIN Merge(groups, k, Group(r, q)) = DOMAIN groups
                BY <4>2
            <4> HIDE DEF both
            <4> QED
                BY <4>1, <4>4, <4>5 DEF Held
        <3> QED
            BY <3>1, <3>2
    <2>4. CASE q.method = "PUT"
        <3>1. Pushed(r, groups) = Replace(groups, k, Group(r, q))
            BY <2>4 DEF Pushed
        <3>2. Store!After(Held(groups), m) = Store!Put(Held(groups), m)
            BY <1>2, <2>4 DEF Store!After
        <3> QED
            BY <2>2, <3>1, <3>2
    <2>5. CASE q.method = "POST"
        <3>1. Pushed(r, groups) = Merge(groups, k, Group(r, q))
            BY <2>5 DEF Pushed
        <3>2. Store!After(Held(groups), m) = Store!Add(Held(groups), m)
            BY <1>2, <2>5 DEF Store!After
        <3> QED
            BY <2>3, <3>1, <3>2
    <2> QED
        BY <1>4, <2>4, <2>5
<1>5. CASE q.method = "DELETE"
    <2>1. Pushed(r, groups) = [j \in DOMAIN groups \ {k} |-> groups[j]]
        BY <1>5 DEF Pushed, Restrict
    <2>2. Store!After(Held(groups), m) = [j \in DOMAIN groups \ {k} |-> groups[j].families]
        BY <1>2, <1>5 DEF Store!After, Held
    <2> QED
        BY <2>1, <2>2 DEF Held
<1>6. CASE q.method = "clear"
    <2>1. Pushed(r, groups) = NoGroups
        BY <1>6 DEF Pushed
    <2>2. Store!After(Held(groups), m) = Store!NoGroups
        BY <1>2, <1>6 DEF Store!After
    <2> QED
        BY <2>1, <2>2 DEF Held, NoGroups, Store!NoGroups
<1> QED
    BY <1>1, <1>4, <1>5, <1>6 DEF PushMethods

-----------------------------------------------------------------------------
(* Every step is a step of the abstract store, or invisible there.         *)

LEMMA InitImplements == Init => Store!Init
<1> SUFFICES ASSUME Init PROVE Store!Init
    OBVIOUS
<1>1. Buckets = [n \in {} |-> Store!NoGroups]
    BY DEF Init, Buckets
<1>2. Intents = [r \in {} |-> {}]
    BY DEF Init, Intents, Blank
<1>3. Outcomes = [r \in Requests |-> Store!Open]
    BY DEF Init, Outcomes, Blank, Store!Open
<1> QED
    BY <1>1, <1>2, <1>3 DEF Store!Init

\* What a request seen to be open has done: nothing.
LEMMA OpenOutcome ==
    ASSUME StoreInv, NEW r \in Requests, req[r].at # "answered", r \notin gone
    PROVE  Outcomes[r] = Store!Open
<1>1. req[r].code = 0 /\ req[r].shown = {}
    BY DEF StoreInv, HoldsInv
<1>2. Outcomes[r] = [at |-> IF req[r].code \in {200, 202} THEN "done" ELSE "open",
                     shown |-> req[r].shown]
    BY DEF Outcomes
<1> QED
    BY <1>1, <1>2 DEF Store!Open

\* Steps before the one that counts are invisible.
LEMMA QuietImplements ==
    ASSUME StoreInv, NEW r \in Requests, Only(r), UNCHANGED <<store, gone>>,
           req[r].at # "none", req'[r].at # "none", req'[r].ask = req[r].ask,
           r \notin gone => (req'[r].code \notin {200, 202} /\ req[r].code \notin {200, 202}
                             /\ req'[r].shown = req[r].shown)
    PROVE  UNCHANGED <<Buckets, Intents, Outcomes>>
<1>1. Buckets' = Buckets
    BY DEF Buckets, store
<1>2. Intents' = Intents
    <2>1. {q \in Requests : req'[q].at # "none"} = {q \in Requests : req[q].at # "none"}
        BY DEF Only
    <2>2. \A q \in Requests : req'[q].ask = req[q].ask
        BY DEF Only
    <2> QED
        BY <2>1, <2>2 DEF Intents
<1>3. Outcomes' = Outcomes
    <2>1. \A q \in Requests : q \notin gone =>
            /\ (req'[q].code \in {200, 202}) <=> (req[q].code \in {200, 202})
            /\ req'[q].shown = req[q].shown
        BY DEF Only
    <2> QED
        BY <2>1 DEF Outcomes
<1> QED
    BY <1>1, <1>2, <1>3

LEMMA RequestImplements ==
    ASSUME StoreInv, NEW r \in Requests,
           CopySettings(r) \/ Judge(r) \/ Lookup(r) \/ Refuse(r)
    PROVE  UNCHANGED <<Buckets, Intents, Outcomes>>
<1>1. /\ req[r].at \in {"arrived", "judged", "admitted", "found"}
      /\ UNCHANGED <<store, gone>>
    BY DEF CopySettings, Judge, Judged, Lookup, Refuse
<1>2. req[r].code = 0
    BY <1>1 DEF StoreInv, HoldsInv
<1>3. CASE CopySettings(r)
    BY <1>1, <1>2, <1>3, CopyChanges, QuietImplements DEF StoreInv
<1>4. CASE Judge(r)
    BY <1>1, <1>2, <1>4, JudgeDecides, QuietImplements DEF StoreInv
<1>5. CASE Lookup(r)
    BY <1>1, <1>2, <1>5, LookupChanges, QuietImplements DEF StoreInv
<1>6. CASE Refuse(r)
    BY <1>1, <1>2, <1>6, AnswerChanges, QuietImplements DEF StoreInv, Refuse
<1> QED
    BY <1>3, <1>4, <1>5, <1>6

LEMMA ArriveImplements ==
    ASSUME StoreInv, NEW r \in Requests, NEW q \in Asks[r], Arrive(r, q)
    PROVE  Store!Ask(r, Meant(r, q)) /\ Meant(r, q) \in {Meant(r, x) : x \in Asks[r]}
<1>1. req[r].at = "none" /\ UNCHANGED <<store, gone>>
    BY DEF Arrive
<1>2. /\ Only(r) /\ req'[r].ask = q /\ req'[r].at # "none"
      /\ req'[r].code = req[r].code /\ req'[r].shown = req[r].shown
    BY ArriveChanges DEF StoreInv
<1>3. Intents' = [x \in DOMAIN Intents \cup {r} |->
                    IF x = r THEN Meant(r, q) ELSE Intents[x]]
    <2>1. {x \in Requests : req'[x].at # "none"} = {x \in Requests : req[x].at # "none"} \cup {r}
        BY <1>2 DEF Only
    <2>2. \A x \in Requests : x # r => req'[x].ask = req[x].ask
        BY <1>2 DEF Only
    <2> QED
        BY <1>2, <2>1, <2>2 DEF Intents
<1>4. Buckets' = Buckets
    BY <1>1 DEF Buckets, store
<1>5. Outcomes' = Outcomes
    <2>1. \A x \in Requests : req'[x].code = req[x].code /\ req'[x].shown = req[x].shown
        BY <1>2 DEF Only
    <2> QED
        BY <1>1, <2>1 DEF Outcomes
<1>6. r \notin DOMAIN Intents
    BY <1>1 DEF Intents
<1> QED
    BY <1>3, <1>4, <1>5, <1>6 DEF Store!Ask

\* What r finds in hand: the bucket its name leads to, or one that is gone.
LEMMA WhatRequestHolds ==
    ASSUME StoreInv, NEW r \in Requests, req[r].at = "found"
    PROVE  /\ req[r].ask.name \in Names
           /\ r \in DOMAIN Intents /\ Intents[r] = Meant(r, req[r].ask)
           /\ Intents[r].name = req[r].ask.name /\ Intents[r].method = req[r].ask.method
           /\ r \notin gone =>
                /\ bucket[req[r].ask.name] = req[r].object
                /\ req[r].ask.name \in DOMAIN Buckets
                /\ Buckets[req[r].ask.name] = Held(contents[req[r].object])
                /\ Outcomes[r] = Store!Open
<1>1. req[r].ask.name \in Names
    BY InHand DEF StoreInv
<1>2. req[r].object # Nothing
    BY ObjectNumbers DEF StoreInv, Inv, RequestInv
<1>3. r \notin gone => bucket[req[r].ask.name] = req[r].object
    BY DEF StoreInv, HoldsInv
<1>4. r \in DOMAIN Intents /\ Intents[r] = Meant(r, req[r].ask)
    BY DEF Intents
<1>5. Meant(r, req[r].ask).name = req[r].ask.name /\ Meant(r, req[r].ask).method = req[r].ask.method
    BY DEF Meant
<1> QED
    BY <1>1, <1>2, <1>3, <1>4, <1>5, OpenOutcome DEF Buckets

\* An answer with effect, of a request whose bucket is still there.
LEMMA OutcomeOf ==
    ASSUME StoreInv, NEW r \in Requests, req[r].at = "found", r \notin gone,
           Only(r), gone' = gone, req'[r].code \in {200, 202}
    PROVE  Outcomes' = [Outcomes EXCEPT ![r] = [at |-> "done", shown |-> req'[r].shown]]
<1>1. \A x \in Requests : x # r => req'[x].code = req[x].code /\ req'[x].shown = req[x].shown
    BY DEF Only
<1>2. Outcomes'[r] = [at |-> "done", shown |-> req'[r].shown]
    BY DEF Outcomes
<1>3. ASSUME NEW x \in Requests, x # r PROVE Outcomes'[x] = Outcomes[x]
    BY <1>1, <1>3 DEF Outcomes
<1>4. /\ Outcomes = [x \in Requests |-> Outcomes[x]]
      /\ Outcomes' = [x \in Requests |-> Outcomes'[x]]
    BY DEF Outcomes
<1> QED
    BY <1>2, <1>3, <1>4

\* An answer to a request whose bucket is gone shows nothing.
LEMMA GoneOutcome ==
    ASSUME NEW r \in gone, Only(r), gone' = gone
    PROVE  Outcomes' = Outcomes
BY DEF Outcomes, Only

LEMMA SameIntents ==
    ASSUME NEW r \in Requests, Only(r), req[r].at # "none", req'[r].at # "none",
           req'[r].ask = req[r].ask
    PROVE  Intents' = Intents
<1>1. {q \in Requests : req'[q].at # "none"} = {q \in Requests : req[q].at # "none"}
    BY DEF Only
<1>2. \A q \in Requests : req'[q].ask = req[q].ask
    BY DEF Only
<1> QED
    BY <1>1, <1>2 DEF Intents

LEMMA ScrapeImplements ==
    ASSUME StoreInv, NEW r \in Requests, Scrape(r)
    PROVE  Store!CarryOut(r) \/ UNCHANGED <<Buckets, Intents, Outcomes>>
<1>1. /\ req[r].at = "found" /\ req[r].ask.method = "GET"
      /\ UNCHANGED <<store, gone>>
    BY DEF Scrape
<1>2. /\ Only(r) /\ req'[r].at = "answered" /\ req'[r].ask = req[r].ask /\ req'[r].code = 200
      /\ req'[r].shown = Series(contents[req[r].object])
    BY ScrapeChanges DEF StoreInv
<1>3. Buckets' = Buckets /\ Intents' = Intents
    BY <1>1, <1>2, SameIntents DEF Buckets, store
<1>4. CASE r \in gone
    BY <1>1, <1>2, <1>3, <1>4, GoneOutcome
<1>5. CASE r \notin gone
    <2> DEFINE n == req[r].ask.name
    <2>1. /\ Intents[r].name = n /\ Intents[r].method = "GET" /\ r \in DOMAIN Intents
          /\ n \in DOMAIN Buckets /\ Buckets[n] = Held(contents[req[r].object])
          /\ Outcomes[r] = Store!Open
        BY <1>1, <1>5, WhatRequestHolds
    <2>2. Store!After(Buckets[n], Intents[r]) = Buckets[n]
        BY <2>1 DEF Store!After
    <2>3. Buckets' = [Buckets EXCEPT ![n] = Store!After(Buckets[n], Intents[r])]
        BY <1>3, <2>2 DEF Buckets
    <2>4. req'[r].shown = Store!Series(Buckets[n])
        <3>1. req[r].object \in Objects
            BY <1>1, FoundObject DEF StoreInv
        <3> QED
            BY <1>2, <2>1, <3>1, SamePage DEF StoreInv, Inv
    <2>5. Outcomes' = [Outcomes EXCEPT ![r] = Store!Shown(Store!Series(Buckets[n]))]
        BY <1>1, <1>2, <1>5, <2>4, OutcomeOf DEF Store!Shown
    <2> QED
        BY <1>3, <2>1, <2>3, <2>5 DEF Store!CarryOut
<1> QED
    BY <1>4, <1>5

LEMMA PushImplements ==
    ASSUME StoreInv, NEW r \in Requests, Push(r)
    PROVE  Store!CarryOut(r) \/ UNCHANGED <<Buckets, Intents, Outcomes>>
<1> DEFINE p == req[r].object
           n == req[r].ask.name
<1>1. /\ req[r].at = "found" /\ p \in Objects
      /\ UNCHANGED <<bucket, gone>>
      /\ Only(r)
      /\ req'[r].at = "answered" /\ req'[r].code \in {200, 202}
      /\ req'[r].ask = req[r].ask /\ req'[r].shown = req[r].shown
      /\ contents' = [o \in Objects |-> IF o = p THEN Pushed(r, contents[o]) ELSE contents[o]]
    BY PushChanges DEF StoreInv
<1>2. Intents' = Intents
    BY <1>1, SameIntents
<1>3. \A m \in Names : bucket[m] # Nothing => bucket[m] \in Objects
    BY ObjectNumbers, Constants DEF StoreInv, Inv, ShapeInv, Objects
<1>4. CASE r \in gone
    <2>1. \A m \in Names : bucket[m] # p
        BY <1>1, <1>4 DEF StoreInv, HoldsInv
    <2>2. Buckets' = Buckets
        BY <1>1, <1>3, <2>1 DEF Buckets
    <2> QED
        BY <1>1, <1>2, <1>4, <2>2, GoneOutcome
<1>5. CASE r \notin gone
    <2>1. /\ n \in Names /\ bucket[n] = p
          /\ Intents[r] = Meant(r, req[r].ask) /\ r \in DOMAIN Intents
          /\ Intents[r].name = n /\ Intents[r].method = req[r].ask.method
          /\ n \in DOMAIN Buckets /\ Buckets[n] = Held(contents[p])
          /\ Outcomes[r] = Store!Open
        BY <1>1, <1>5, WhatRequestHolds
    <2>2. req[r].ask.method # "GET" /\ ~Refused(req[r].ask)
        BY DEF Push
    <2>3. Held(Pushed(r, contents[p])) = Store!After(Buckets[n], Intents[r])
        BY <1>1, <2>1, <2>2, SamePush DEF StoreInv, Inv
    <2>4. \A m \in Names : bucket[m] # Nothing /\ m # n => bucket[m] # p
        BY <2>1 DEF StoreInv, HoldsInv
    <2>5. Buckets' = [m \in DOMAIN Buckets |->
                        IF m = n THEN Held(Pushed(r, contents[p])) ELSE Buckets[m]]
        BY <1>1, <1>3, <2>1, <2>4 DEF Buckets
    <2>6. Buckets' = [Buckets EXCEPT ![n] = Store!After(Buckets[n], Intents[r])]
        BY <2>1, <2>3, <2>5 DEF Buckets
    <2>7. Outcomes' = [Outcomes EXCEPT ![r] = Store!Done]
        <3>1. req'[r].shown = {}
            BY <1>1 DEF StoreInv, HoldsInv
        <3> QED
            BY <1>1, <1>5, <3>1, OutcomeOf DEF Store!Done
    <2> QED
        BY <1>2, <2>1, <2>2, <2>6, <2>7 DEF Store!CarryOut
<1> QED
    BY <1>4, <1>5

LEMMA AddImplements ==
    ASSUME StoreInv, NEW n \in Names, AddBucket(n)
    PROVE  Store!Create(n)
<1>1. /\ bucket[n] = Nothing /\ made + 1 \in Objects
      /\ bucket' = [m \in Names |-> IF m = n THEN made + 1 ELSE bucket[m]]
      /\ UNCHANGED <<contents, req, gone>>
    BY ObjectNumbers DEF AddBucket, StoreInv, Inv, ShapeInv
<1>2. made + 1 # Nothing /\ Held(contents[made + 1]) = Store!NoGroups
    <2>1. contents[made + 1] = NoGroups
        BY <1>1, ObjectNumbers DEF StoreInv, HoldsInv
    <2> QED
        BY <1>1, <2>1, Constants DEF Held, NoGroups, Store!NoGroups
<1>3. Buckets' = [x \in DOMAIN Buckets \cup {n} |->
                    IF x = n THEN Store!NoGroups ELSE Buckets[x]]
    BY <1>1, <1>2 DEF Buckets
<1>4. n \notin DOMAIN Buckets
    BY <1>1 DEF Buckets
<1>5. Intents' = Intents /\ Outcomes' = Outcomes
    BY <1>1 DEF Intents, Outcomes
<1> QED
    BY <1>3, <1>4, <1>5 DEF Store!Create

LEMMA RemoveImplements ==
    ASSUME StoreInv, NEW n \in Names, RemoveBucket(n)
    PROVE  Store!Remove(n)
<1> DEFINE late == {r \in Requests : req[r].at = "found" /\ req[r].object = bucket[n]}
<1>1. /\ bucket[n] # Nothing
      /\ bucket' = [m \in Names |-> IF m = n THEN Nothing ELSE bucket[m]]
      /\ gone' = gone \cup late
      /\ UNCHANGED <<contents, req>>
    BY DEF RemoveBucket, StoreInv, Inv, ShapeInv
<1>2. Buckets' = [x \in DOMAIN Buckets \ {n} |-> Buckets[x]]
    BY <1>1 DEF Buckets
<1>3. n \in DOMAIN Buckets
    BY <1>1 DEF Buckets
<1>4. late \in SUBSET Store!Waiting(n)
    <2>1. ASSUME NEW r \in late PROVE r \in Store!Waiting(n)
        <3>1. r \notin gone
            BY DEF StoreInv, HoldsInv
        <3>2. /\ req[r].ask.name \in Names /\ bucket[req[r].ask.name] = req[r].object
              /\ r \in DOMAIN Intents /\ Intents[r].name = req[r].ask.name
              /\ Outcomes[r] = Store!Open
            BY <3>1, WhatRequestHolds
        <3>3. req[r].ask.name = n
            BY <1>1, <3>2 DEF StoreInv, HoldsInv
        <3> QED
            BY <3>2, <3>3 DEF Store!Waiting
    <2> QED
        BY <2>1
<1>5. Outcomes' = [r \in Requests |-> IF r \in late THEN Store!Dropped ELSE Outcomes[r]]
    BY <1>1 DEF Outcomes, Store!Dropped
<1>6. Intents' = Intents
    BY <1>1 DEF Intents
<1> HIDE DEF late
<1> QED
    BY <1>2, <1>3, <1>4, <1>5, <1>6 DEF Store!Remove

LEMMA NextImplements == StoreInv /\ [Next]_vars => [Store!Next]_(Store!vars)
<1> SUFFICES ASSUME StoreInv, [Next]_vars
             PROVE  Store!Next \/ UNCHANGED <<Buckets, Intents, Outcomes>>
    BY DEF Store!vars
<1>1. CASE \E r \in Requests : Step(r)
    <2>1. PICK r \in Requests : Step(r)
        BY <1>1
    <2>2. Store!CarryOut(r) \/ UNCHANGED <<Buckets, Intents, Outcomes>>
        BY <2>1, RequestImplements, PushImplements, ScrapeImplements DEF Step
    <2> QED
        BY <2>2 DEF Store!Next
<1>2. CASE \E r \in Requests : \E q \in Asks[r] : Arrive(r, q)
    BY <1>2, ArriveImplements DEF Store!Next
<1>3. CASE \E n \in Names : AddBucket(n) \/ RemoveBucket(n)
    BY <1>3, AddImplements, RemoveImplements DEF Store!Next
<1>4. CASE Reload \/ NodeAttrsRead \/ UNCHANGED vars
    <2>1. UNCHANGED <<bucket, contents, req, gone>>
        BY <1>4, SettingsKeepHolds DEF store
    <2> QED
        BY <2>1 DEF Buckets, Intents, Outcomes
<1> QED
    BY <1>1, <1>2, <1>3, <1>4 DEF Next

\* The buckets are what BucketStore promises, for any requests, names,
\* labels and families, and any order of pushes, removals and additions.
THEOREM RequestsImplementStore == Spec => ImplementsStore
BY InitImplements, NextImplements, StoreInvariant, PTL DEF Spec, ImplementsStore, Store!Spec
=============================================================================
