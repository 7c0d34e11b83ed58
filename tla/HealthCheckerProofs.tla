------------------------ MODULE HealthCheckerProofs ------------------------
(***************************************************************************)
(* The Agent's health checks, for any names, URLs, number of goroutines    *)
(* and of operations.                                                      *)
(***************************************************************************)
EXTENDS HealthChecker, TLAPS

-----------------------------------------------------------------------------
(* The inductive invariant.                                                *)

Ops == [st : {"unregister", "register", "announce", "removing", "remove"},
        name : Names, url : CheckURLs \cup {NoCheck}]

\* An operation that installs a check installs the configured one, and one
\* that is past Unregister, or has just added its entry, finds no check.
OpInv ==
    /\ op \in Ops \cup {NoOp}
    /\ op.st \in {"unregister", "register", "announce"} =>
        op.name \in DOMAIN configured /\ configured[op.name] = op.url
    /\ op.st = "announce" => op.url \in CheckURLs
    /\ op.st \in {"register", "remove"} => op.name \notin DOMAIN cancels

\* The operation under way has yet to bring n's check in line.
Busy(n) == op.st \in {"unregister", "register", "removing", "remove"} /\ op.name = n

\* The stored cancel functions are those of the live checks, one for each
\* name, and apart from the name being worked on they are as configured.
ChecksInv ==
    /\ \A n \in DOMAIN cancels :
        /\ Running(cancels[n])
        /\ ~routine[cancels[n]].cancelled
        /\ routine[cancels[n]].name = n
        /\ ~Busy(n) => routine[cancels[n]].url = configured[n]
    /\ \A n \in Names : \A g \in Live(n) : n \in DOMAIN cancels /\ cancels[n] = g
    /\ \A n \in Names : ~Busy(n) =>
        (n \in DOMAIN cancels <=> n \in DOMAIN configured /\ configured[n] # NoCheck)

Inv == TypeOK /\ OpInv /\ ChecksInv

-----------------------------------------------------------------------------
(* Lemmas.                                                                 *)

LEMMA RunningIsRoutine ==
    ASSUME TypeOK, NEW g \in Goroutines, Running(g)
    PROVE  routine[g] \in Routine
BY DEF TypeOK, Running, NoRoutine

\* What a cancelled context leaves of a goroutine.
LEMMA CancelledRoutine ==
    ASSUME NEW x \in Routine
    PROVE  LET y == [x EXCEPT !.cancelled = TRUE]
           IN  /\ y \in Routine
               /\ y.st = x.st /\ y.name = x.name /\ y.url = x.url
               /\ y.cancelled
BY DEF Routine

\* Unregister cancels the check whose function is stored, and no other.
LEMMA CancelledFacts ==
    ASSUME Inv, NEW n \in Names
    PROVE  /\ Cancelled(n) \in [Goroutines -> Routine \cup {NoRoutine}]
           /\ \A g \in Goroutines :
                /\ Cancelled(n)[g].st = routine[g].st
                /\ n \notin DOMAIN cancels \/ g # cancels[n] =>
                    Cancelled(n)[g] = routine[g]
                /\ n \in DOMAIN cancels /\ g = cancels[n] => Cancelled(n)[g].cancelled
<1>0. routine \in [Goroutines -> Routine \cup {NoRoutine}]
    BY DEF Inv, TypeOK
<1>1. CASE n \notin DOMAIN cancels
    BY <1>0, <1>1 DEF Cancelled
<1>2. CASE n \in DOMAIN cancels
    <2> DEFINE h == cancels[n]
               y == [routine[h] EXCEPT !.cancelled = TRUE]
    <2>1. h \in Goroutines /\ Running(h)
        BY <1>2 DEF Inv, TypeOK, ChecksInv
    <2>2. routine[h] \in Routine
        BY <2>1, RunningIsRoutine DEF Inv
    <2>3. y \in Routine /\ y.st = routine[h].st /\ y.cancelled
        BY <2>2, CancelledRoutine
    <2>4. Cancelled(n) = [routine EXCEPT ![h] = y]
        BY <1>2, <2>1 DEF Cancelled
    <2> HIDE DEF y, h
    <2>5. /\ [routine EXCEPT ![h] = y] \in [Goroutines -> Routine \cup {NoRoutine}]
          /\ \A g \in Goroutines :
                [routine EXCEPT ![h] = y][g] = IF g = h THEN y ELSE routine[g]
        BY <1>0, <2>1, <2>3
    <2> QED
        BY <1>2, <2>3, <2>4, <2>5 DEF h
<1> QED
    BY <1>1, <1>2

-----------------------------------------------------------------------------
(* Operations.                                                             *)

LEMMA Initially == Init => Inv
<1> SUFFICES ASSUME Init PROVE Inv
    OBVIOUS
<1>1. TypeOK
    BY HealthAssumption DEF Init, TypeOK, NoOp, NoRoutine
<1>2. OpInv
    BY DEF Init, OpInv, NoOp
<1>3. ChecksInv
    BY DEF Init, ChecksInv, Live, Running, NoRoutine
<1> QED
    BY <1>1, <1>2, <1>3 DEF Inv

LEMMA BeginStep ==
    ASSUME Inv, NEW n \in Names, NEW url \in CheckURLs \cup {NoCheck},
           BeginRemove(n) \/ BeginAdd(n, url) \/ BeginUpdate(n, url)
    PROVE  Inv'
<1>1. /\ op.st = "none" /\ ops < MaxOps /\ ops' = ops + 1
      /\ UNCHANGED <<cancels, routine>>
    BY DEF BeginRemove, BeginAdd, BeginUpdate, Begin, Idle
<1>2. \E st \in {"unregister", "register", "removing"} :
        \E u \in CheckURLs \cup {NoCheck} : op' = [st |-> st, name |-> n, url |-> u]
    BY DEF BeginRemove, BeginAdd, BeginUpdate, Begin
<1>3. CASE BeginRemove(n)
    <2>1. /\ UNCHANGED <<entries, configured>>
          /\ op' = [st |-> "removing", name |-> n, url |-> NoCheck]
        BY <1>3 DEF BeginRemove, Begin
    <2>2. TypeOK'
        BY <1>1, <2>1, HealthAssumption DEF Inv, TypeOK
    <2>3. OpInv'
        BY <2>1 DEF OpInv, Ops
    <2>4. ChecksInv'
        BY <1>1, <2>1 DEF Inv, ChecksInv, Live, Running, Busy
    <2> QED
        BY <2>2, <2>3, <2>4 DEF Inv
<1>4. ASSUME BeginAdd(n, url) \/ BeginUpdate(n, url) PROVE Inv'
    <2>1. /\ entries' = With(entries, n, NoHealth)
          /\ configured' = With(configured, n, url)
          /\ \/ n \notin DOMAIN entries /\ op' = [st |-> "register", name |-> n, url |-> url]
             \/ op' = [st |-> "unregister", name |-> n, url |-> url]
        BY <1>4 DEF BeginAdd, BeginUpdate, Begin
    <2>2. /\ DOMAIN configured' = DOMAIN configured \cup {n}
          /\ configured'[n] = url
          /\ \A m \in DOMAIN configured \ {n} : configured'[m] = configured[m]
        BY <2>1 DEF With
    <2>3. TypeOK'
        BY <1>1, <2>1, <2>2, HealthAssumption DEF Inv, TypeOK, With
    <2>4. n \notin DOMAIN entries => n \notin DOMAIN cancels
        BY <1>1 DEF Inv, TypeOK, ChecksInv, Busy
    <2>5. OpInv'
        BY <1>1, <2>1, <2>2, <2>4, <1>2 DEF OpInv, Ops
    <2>6. ChecksInv'
        <3>1. op'.st \in {"unregister", "register"} /\ op'.name = n
            BY <2>1
        <3>2. \A m \in Names \ {n} : ~Busy(m) /\ ~Busy(m)'
            BY <1>1, <3>1 DEF Busy
        <3>3. Busy(n)'
            BY <3>1 DEF Busy
        <3> QED
            BY <1>1, <2>2, <3>2, <3>3 DEF Inv, TypeOK, ChecksInv, Live, Running
    <2> QED
        BY <2>3, <2>5, <2>6 DEF Inv
<1> QED
    BY <1>3, <1>4

LEMMA UnregisterStep ==
    ASSUME Inv, Unregister
    PROVE  Inv'
<1> DEFINE n == op.name
<1>1. /\ op.st \in {"unregister", "removing"}
      /\ routine' = Cancelled(n)
      /\ cancels' = Without(cancels, n)
      /\ op' = [op EXCEPT !.st = IF op.st = "removing" THEN "remove" ELSE "register"]
      /\ UNCHANGED <<entries, configured, ops>>
    BY DEF Unregister
<1>2. op \in Ops /\ n \in Names
    BY <1>1 DEF Inv, OpInv, Ops, NoOp
<1>3. /\ op' \in Ops /\ op'.name = n /\ op'.url = op.url
      /\ op'.st \in {"remove", "register"}
      /\ op'.st = "register" => op.st = "unregister"
    BY <1>1, <1>2 DEF Ops
<1>4. /\ DOMAIN cancels' = DOMAIN cancels \ {n}
      /\ \A m \in DOMAIN cancels' : cancels'[m] = cancels[m]
    BY <1>1 DEF Without
<1>5. /\ routine' \in [Goroutines -> Routine \cup {NoRoutine}]
      /\ \A g \in Goroutines :
            /\ routine'[g].st = routine[g].st
            /\ n \notin DOMAIN cancels \/ g # cancels[n] => routine'[g] = routine[g]
            /\ n \in DOMAIN cancels /\ g = cancels[n] => routine'[g].cancelled
    BY <1>1, <1>2, CancelledFacts
<1> HIDE DEF n
<1>6. TypeOK'
    BY <1>1, <1>3, <1>4, <1>5 DEF Inv, TypeOK
<1>7. OpInv'
    <2>1. op.st = "unregister" => n \in DOMAIN configured /\ configured[n] = op.url
        BY DEF Inv, OpInv, n
    <2> QED
        BY <1>1, <1>3, <1>4, <2>1 DEF OpInv
<1>8. ChecksInv'
    <2>1. \A m \in Names : Busy(m) <=> m = n
        BY <1>1 DEF Busy, n
    <2>2. \A m \in Names : Busy(m)' <=> m = n
        BY <1>3 DEF Busy
    <2>3. \A m \in DOMAIN cancels' :
            /\ m \in DOMAIN cancels /\ m # n /\ m \in Names
            /\ cancels[m] \in Goroutines
            /\ routine'[cancels'[m]] = routine[cancels[m]]
        <3> TAKE m \in DOMAIN cancels'
        <3>1. m \in DOMAIN cancels /\ m # n /\ m \in Names /\ cancels[m] \in Goroutines
            BY <1>4 DEF Inv, TypeOK
        <3>2. n \in DOMAIN cancels => cancels[n] # cancels[m]
            BY <3>1 DEF Inv, ChecksInv
        <3> QED
            BY <1>4, <1>5, <3>1, <3>2
    <2>4. \A m \in Names : \A g \in Live(m)' : g \in Live(m) /\ m # n
        <3> TAKE m \in Names
        <3> TAKE g \in Live(m)'
        <3>1. g \in Goroutines /\ ~routine'[g].cancelled /\ routine'[g].st # "none"
                /\ routine'[g].name = m
            BY DEF Live, Running
        <3>2. routine'[g] = routine[g]
            BY <1>5, <3>1
        <3>3. g \in Live(m)
            BY <3>1, <3>2 DEF Live, Running
        <3>4. m # n
            BY <1>5, <3>1, <3>3 DEF Inv, ChecksInv
        <3> QED
            BY <3>3, <3>4
    <2> QED
        BY <1>1, <1>2, <1>4, <2>1, <2>2, <2>3, <2>4 DEF Inv, ChecksInv, Running, n
<1> QED
    BY <1>6, <1>7, <1>8 DEF Inv

LEMMA RegisterStep ==
    ASSUME Inv, Register
    PROVE  Inv'
<1> DEFINE n == op.name
<1>1. op.st = "register" /\ UNCHANGED <<entries, configured, ops>>
    BY DEF Register
<1>2. op \in Ops /\ n \in Names /\ op.url \in CheckURLs \cup {NoCheck}
    BY <1>1 DEF Inv, OpInv, Ops, NoOp
<1>3. n \notin DOMAIN cancels /\ n \in DOMAIN configured /\ configured[n] = op.url
    BY <1>1 DEF Inv, OpInv
<1>4. CASE op.url = NoCheck
    <2>1. op' = NoOp /\ UNCHANGED <<cancels, routine>>
        BY <1>4 DEF Register
    <2>2. TypeOK'
        BY <1>1, <2>1 DEF Inv, TypeOK, NoOp
    <2>3. OpInv'
        BY <2>1 DEF OpInv, NoOp
    <2>4. ChecksInv'
        BY <1>1, <1>3, <1>4, <2>1 DEF Inv, ChecksInv, Busy, Live, Running, NoOp
    <2> QED
        BY <2>2, <2>3, <2>4 DEF Inv
<1>5. CASE op.url # NoCheck
    <2> DEFINE fresh == [st |-> "created", name |-> n, url |-> op.url,
                         result |-> "unhealthy", cancelled |-> FALSE]
    <2>1. PICK g \in Goroutines :
            /\ ~Running(g)
            /\ routine' = [Cancelled(n) EXCEPT ![g] = fresh]
            /\ cancels' = With(cancels, n, g)
            /\ op' = [op EXCEPT !.st = "announce"]
        BY <1>5 DEF Register
    <2>2. /\ fresh \in Routine /\ fresh.st = "created" /\ fresh.name = n
          /\ fresh.url = op.url /\ ~fresh.cancelled
        BY <1>2, <1>5 DEF Routine, Results
    <2> HIDE DEF fresh
    <2>3. Cancelled(n) = routine
        BY <1>3 DEF Cancelled
    <2>4. /\ routine' \in [Goroutines -> Routine \cup {NoRoutine}]
          /\ routine'[g] = fresh
          /\ \A h \in Goroutines \ {g} : routine'[h] = routine[h]
        BY <2>1, <2>2, <2>3 DEF Inv, TypeOK
    <2>5. op' \in Ops /\ op'.st = "announce" /\ op'.name = n /\ op'.url = op.url
        BY <1>2, <2>1 DEF Ops
    <2>6. /\ DOMAIN cancels' = DOMAIN cancels \cup {n}
          /\ cancels'[n] = g
          /\ \A m \in DOMAIN cancels : cancels'[m] = cancels[m] /\ cancels[m] # g
        BY <1>3, <2>1 DEF Inv, ChecksInv, With
    <2> HIDE DEF n
    <2>7. TypeOK'
        <3>1. \A m \in DOMAIN cancels' : cancels'[m] \in Goroutines
            BY <2>6 DEF Inv, TypeOK
        <3> QED
            BY <1>1, <1>2, <2>4, <2>5, <2>6, <3>1 DEF Inv, TypeOK
    <2>8. OpInv'
        BY <1>1, <1>2, <1>3, <1>5, <2>5 DEF OpInv
    <2>9. ChecksInv'
        <3>1. \A m \in Names : ~Busy(m)' /\ (Busy(m) <=> m = n)
            BY <1>1, <2>5 DEF Busy, n
        <3>2. \A m \in DOMAIN cancels :
                m \in Names /\ m # n /\ routine'[cancels'[m]] = routine[cancels[m]]
            BY <1>3, <2>4, <2>6 DEF Inv, TypeOK
        <3>3. \A m \in Names : \A h \in Live(m)' :
                IF h = g THEN m = n ELSE h \in Live(m)
            BY <2>2, <2>4 DEF Live, Running
        <3> QED
            BY <1>1, <1>2, <1>3, <1>5, <2>2, <2>4, <2>6, <3>1, <3>2, <3>3
            DEF Inv, ChecksInv, Running
    <2> QED
        BY <2>7, <2>8, <2>9 DEF Inv
<1> QED
    BY <1>4, <1>5

\* A result is written into an entry or nowhere; it removes none.
LEMMA HealthType ==
    ASSUME TypeOK, NEW name, NEW status \in Results \cup {"unknown"},
           NEW url \in CheckURLs, UpdateHealth(name, status, url)
    PROVE  /\ DOMAIN entries' = DOMAIN entries
           /\ \A n \in DOMAIN entries' : entries'[n] \in Health \cup {NoHealth}
<1>1. [status |-> status, url |-> url] \in Health
    BY DEF Health
<1> QED
    BY <1>1 DEF TypeOK, UpdateHealth

\* A goroutine moves on: nothing else about it changes, except what it
\* found, nor anything about the others.
LEMMA GoesOn ==
    ASSUME Inv, NEW g \in Goroutines, Running(g),
           NEW x \in Routine, x.st # "none",
           x.name = routine[g].name, x.url = routine[g].url,
           x.cancelled = routine[g].cancelled,
           routine' = [routine EXCEPT ![g] = x],
           UNCHANGED <<configured, cancels, ops>>,
           DOMAIN entries' = DOMAIN entries,
           \A n \in DOMAIN entries' : entries'[n] \in Health \cup {NoHealth},
           OpInv', op'.st \in {op.st, "none"},
           \A n \in Names : Busy(n)' <=> Busy(n)
    PROVE  Inv'
<1>1. /\ routine' \in [Goroutines -> Routine \cup {NoRoutine}]
      /\ routine'[g] = x
      /\ \A h \in Goroutines \ {g} : routine'[h] = routine[h]
    BY DEF Inv, TypeOK
<1>2. TypeOK'
    BY <1>1 DEF Inv, TypeOK
<1>3. /\ \A h \in Goroutines : Running(h)' <=> Running(h)
      /\ \A n \in Names : Live(n)' = Live(n)
    BY <1>1 DEF Live, Running
<1>4. \A n \in DOMAIN cancels :
        /\ n \in Names /\ cancels[n] \in Goroutines
        /\ routine'[cancels[n]].cancelled = routine[cancels[n]].cancelled
        /\ routine'[cancels[n]].name = routine[cancels[n]].name
        /\ routine'[cancels[n]].url = routine[cancels[n]].url
    BY <1>1 DEF Inv, TypeOK
<1>5. ChecksInv'
    BY <1>3, <1>4 DEF Inv, ChecksInv
<1> QED
    BY <1>2, <1>5 DEF Inv

LEMMA AnnounceStep ==
    ASSUME Inv, Announce
    PROVE  Inv'
<1> DEFINE n == op.name
           g == cancels[n]
           x == [routine[g] EXCEPT !.st = "check"]
<1>1. /\ op.st = "announce" /\ op' = NoOp
      /\ UpdateHealth(n, "unknown", op.url)
      /\ routine' = [routine EXCEPT ![g].st = "check"]
      /\ UNCHANGED <<configured, cancels, ops>>
    BY DEF Announce
<1>2. /\ n \in Names /\ op.url \in CheckURLs
      /\ n \in DOMAIN configured /\ configured[n] = op.url
    BY <1>1 DEF Inv, OpInv, Ops, NoOp
<1>3. \A m \in Names : ~Busy(m) /\ ~Busy(m)'
    BY <1>1 DEF Busy, NoOp
<1>4. n \in DOMAIN cancels
    BY <1>2, <1>3, HealthAssumption DEF Inv, ChecksInv
<1>5. g \in Goroutines /\ Running(g)
    BY <1>4 DEF Inv, TypeOK, ChecksInv
<1>6. routine[g] \in Routine
    BY <1>5, RunningIsRoutine DEF Inv
<1>7. /\ x \in Routine /\ x.st = "check"
      /\ x.name = routine[g].name /\ x.url = routine[g].url
      /\ x.cancelled = routine[g].cancelled
    <2>1. ASSUME NEW y \in Routine
          PROVE  LET z == [y EXCEPT !.st = "check"]
                 IN  /\ z \in Routine /\ z.st = "check" /\ z.name = y.name
                     /\ z.url = y.url /\ z.cancelled = y.cancelled
        BY DEF Routine
    <2> QED
        BY <1>6, <2>1
<1>8. routine' = [routine EXCEPT ![g] = x]
    BY <1>1
<1>9. /\ DOMAIN entries' = DOMAIN entries
      /\ \A m \in DOMAIN entries' : entries'[m] \in Health \cup {NoHealth}
    BY <1>1, <1>2, HealthType DEF Inv
<1>10. OpInv' /\ op'.st = "none"
    BY <1>1 DEF OpInv, NoOp
<1> HIDE DEF x, g, n
<1> QED
    BY <1>1, <1>3, <1>5, <1>7, <1>8, <1>9, <1>10, GoesOn

LEMMA RemoveEntryStep ==
    ASSUME Inv, RemoveEntry
    PROVE  Inv'
<1> DEFINE n == op.name
<1>1. /\ op.st = "remove" /\ op' = NoOp
      /\ entries' = Without(entries, n)
      /\ configured' = Without(configured, n)
      /\ UNCHANGED <<cancels, routine, ops>>
    BY DEF RemoveEntry
<1>2. n \in Names /\ n \notin DOMAIN cancels
    BY <1>1 DEF Inv, OpInv, Ops, NoOp
<1>3. /\ DOMAIN configured' = DOMAIN configured \ {n}
      /\ \A m \in DOMAIN configured' : configured'[m] = configured[m]
    BY <1>1 DEF Without
<1>4. TypeOK'
    BY <1>1, <1>3 DEF Inv, TypeOK, Without, NoOp
<1>5. OpInv'
    BY <1>1 DEF OpInv, NoOp
<1>6. \A m \in Names : ~Busy(m)' /\ (Busy(m) <=> m = n)
    BY <1>1 DEF Busy, NoOp
<1>7. \A m \in Names : Live(m)' = Live(m)
    BY <1>1 DEF Live, Running
<1> HIDE DEF n
<1>8. ChecksInv'
    <2>1. \A m \in DOMAIN cancels : m \in Names /\ m # n
        BY <1>2 DEF Inv, TypeOK
    <2>2. \A m \in DOMAIN cancels' :
            /\ routine'[cancels'[m]].st # "none" /\ ~routine'[cancels'[m]].cancelled
            /\ routine'[cancels'[m]].name = m
        BY <1>1 DEF Inv, ChecksInv, Running
    <2>3. \A m \in DOMAIN cancels' : routine'[cancels'[m]].url = configured'[m]
        <3> TAKE m \in DOMAIN cancels'
        <3>1. m \in DOMAIN cancels /\ m \in Names /\ m # n
            BY <1>1, <2>1
        <3>2. m \in DOMAIN configured /\ routine[cancels[m]].url = configured[m]
            BY <1>6, <3>1 DEF Inv, ChecksInv
        <3> QED
            BY <1>1, <1>3, <3>1, <3>2
    <2>4. \A m \in Names : \A h \in Live(m)' : m \in DOMAIN cancels' /\ cancels'[m] = h
        BY <1>1, <1>7 DEF Inv, ChecksInv
    <2>5. \A m \in Names : m \in DOMAIN cancels' <=>
                             m \in DOMAIN configured' /\ configured'[m] # NoCheck
        <3> TAKE m \in Names
        <3>1. CASE m = n
            BY <1>1, <1>2, <1>3, <3>1
        <3>2. CASE m # n
            BY <1>1, <1>3, <1>6, <3>2 DEF Inv, ChecksInv
        <3> QED
            BY <3>1, <3>2
    <2> QED
        BY <1>6, <2>2, <2>3, <2>4, <2>5 DEF ChecksInv, Running
<1> QED
    BY <1>4, <1>5, <1>8 DEF Inv

-----------------------------------------------------------------------------
(* Checks.                                                                 *)

LEMMA MovesTo ==
    ASSUME NEW y \in Routine, NEW st \in {"check", "probing", "writing", "waiting"},
           NEW res \in Results
    PROVE  LET w == [y EXCEPT !.st = st, !.result = res]
           IN  /\ w \in Routine /\ w.st = st /\ w.name = y.name
               /\ w.url = y.url /\ w.cancelled = y.cancelled
BY DEF Routine

\* With the result left as it is.
LEMMA MovesOn ==
    ASSUME NEW y \in Routine, NEW st \in {"check", "probing", "writing", "waiting"}
    PROVE  LET z == [y EXCEPT !.st = st]
           IN  /\ z \in Routine /\ z.st = st /\ z.name = y.name
               /\ z.url = y.url /\ z.cancelled = y.cancelled
BY DEF Routine

LEMMA CheckKeeps ==
    ASSUME Inv, NEW g \in Goroutines, CheckStep(g)
    PROVE  Inv'
<1>1. Running(g) /\ UNCHANGED <<configured, cancels, op, ops>>
    BY DEF CheckStep, Probe, Answer, Write, Ticks, Becomes, Running
<1>2. routine[g] \in Routine
    BY <1>1, RunningIsRoutine DEF Inv
<1>3. \E x \in Routine :
        /\ x.st # "none" /\ x.name = routine[g].name /\ x.url = routine[g].url
        /\ x.cancelled = routine[g].cancelled
        /\ routine' = [routine EXCEPT ![g] = x]
    <2>1. CASE Probe(g)
        BY <1>2, <2>1, MovesOn DEF Probe, Becomes
    <2>2. CASE Answer(g)
        <3>1. PICK res \in Results :
                routine' = [routine EXCEPT ![g] =
                    [routine[g] EXCEPT !.st = "writing", !.result = res]]
            BY <2>2 DEF Answer, Becomes
        <3> DEFINE w == [routine[g] EXCEPT !.st = "writing", !.result = res]
        <3>2. /\ w \in Routine /\ w.st = "writing" /\ w.name = routine[g].name
              /\ w.url = routine[g].url /\ w.cancelled = routine[g].cancelled
            BY <1>2, MovesTo
        <3>3. routine' = [routine EXCEPT ![g] = w]
            BY <3>1
        <3> HIDE DEF w
        <3> QED
            BY <3>2, <3>3
    <2>3. CASE Write(g)
        BY <1>2, <2>3, MovesTo DEF Write, Becomes, Results
    <2>4. CASE Ticks(g)
        BY <1>2, <2>4, MovesOn DEF Ticks, Becomes
    <2> QED
        BY <2>1, <2>2, <2>3, <2>4 DEF CheckStep
<1>4. /\ DOMAIN entries' = DOMAIN entries
      /\ \A n \in DOMAIN entries' : entries'[n] \in Health \cup {NoHealth}
    <2>1. CASE Write(g)
        <3>1. routine[g].result \in Results /\ routine[g].url \in CheckURLs
            BY <1>2 DEF Routine
        <3> QED
            BY <2>1, <3>1, HealthType DEF Inv, Write
    <2>2. CASE ~Write(g)
        BY <2>2 DEF CheckStep, Probe, Answer, Ticks, Inv, TypeOK
    <2> QED
        BY <2>1, <2>2
<1>5. OpInv' /\ op'.st = op.st /\ \A n \in Names : Busy(n)' <=> Busy(n)
    BY <1>1 DEF Inv, OpInv, Busy
<1> QED
    BY <1>1, <1>3, <1>4, <1>5, GoesOn

\* Only a cancelled check ends, and that is no name's any more.
LEMMA StopKeeps ==
    ASSUME Inv, NEW g \in Goroutines, Stop(g)
    PROVE  Inv'
<1>1. /\ Running(g) /\ routine[g].cancelled
      /\ routine' = [routine EXCEPT ![g] = NoRoutine]
      /\ UNCHANGED <<entries, configured, cancels, op, ops>>
    BY DEF Stop, Becomes, Running
<1>2. /\ routine' \in [Goroutines -> Routine \cup {NoRoutine}]
      /\ routine'[g] = NoRoutine
      /\ \A h \in Goroutines \ {g} : routine'[h] = routine[h]
    BY <1>1 DEF Inv, TypeOK
<1>3. TypeOK' /\ OpInv'
    BY <1>1, <1>2 DEF Inv, TypeOK, OpInv
<1>4. \A m \in DOMAIN cancels : cancels[m] \in Goroutines \ {g}
    BY <1>1 DEF Inv, TypeOK, ChecksInv
<1>5. \A m \in Names : \A h \in Live(m)' : h \in Live(m)
    BY <1>2 DEF Live, Running, NoRoutine
<1>6. ChecksInv'
    BY <1>1, <1>2, <1>4, <1>5 DEF Inv, ChecksInv, Running, Busy
<1> QED
    BY <1>3, <1>6 DEF Inv

-----------------------------------------------------------------------------
(* Theorems.                                                               *)

LEMMA Inductive == Inv /\ [Next]_vars => Inv'
<1> SUFFICES ASSUME Inv, [Next]_vars PROVE Inv'
    OBVIOUS
<1>1. ASSUME NEW n \in Names,
             BeginRemove(n) \/ \E url \in CheckURLs \cup {NoCheck} :
                                    BeginAdd(n, url) \/ BeginUpdate(n, url)
      PROVE  Inv'
    BY <1>1, BeginStep
<1>2. CASE OpStep
    BY <1>2, UnregisterStep, RegisterStep, AnnounceStep, RemoveEntryStep DEF OpStep
<1>3. ASSUME NEW g \in Goroutines, CheckStep(g) \/ Stop(g) PROVE Inv'
    BY <1>3, CheckKeeps, StopKeeps
<1>4. CASE UNCHANGED vars
    BY <1>4 DEF vars, Inv, TypeOK, OpInv, ChecksInv, Busy, Live, Running
<1> QED
    BY <1>1, <1>2, <1>3, <1>4 DEF Next

\* In every reachable state the stored cancel functions are those of the
\* live checks, and an operation under way knows which it has to replace.
THEOREM Invariant == Spec => []Inv
BY Initially, Inductive, PTL DEF Spec

\* Every variable holds a value of its kind, however many checks, cancelled
\* ones among them, are probing and writing.
THEOREM TypeCorrect == Spec => []TypeOK
<1>1. Inv => TypeOK
    BY DEF Inv
<1> QED
    BY <1>1, Invariant, PTL

\* Between operations a configured check is run by exactly one goroutine, and
\* no other service is checked (health.go:60-104), for any number of names,
\* operations and cancelled checks that have not returned yet.
THEOREM AlwaysOneLiveCheck == Spec => []OneLiveCheck
<1>1. Inv => OneLiveCheck
    <2> SUFFICES ASSUME Inv, Idle, NEW n \in Names
                 PROVE  IF n \in DOMAIN configured /\ configured[n] # NoCheck
                        THEN \E g \in Goroutines :
                                Live(n) = {g} /\ routine[g].url = configured[n]
                        ELSE Live(n) = {}
        BY DEF OneLiveCheck
    <2>1. ~Busy(n)
        BY DEF Idle, Busy
    <2>2. CASE n \in DOMAIN configured /\ configured[n] # NoCheck
        <3>1. n \in DOMAIN cancels
            BY <2>1, <2>2 DEF Inv, ChecksInv
        <3>2. cancels[n] \in Goroutines /\ cancels[n] \in Live(n)
            BY <3>1 DEF Inv, TypeOK, ChecksInv, Live
        <3>3. Live(n) = {cancels[n]} /\ routine[cancels[n]].url = configured[n]
            BY <2>1, <3>1, <3>2 DEF Inv, ChecksInv
        <3> QED
            BY <2>2, <3>2, <3>3
    <2>3. CASE ~(n \in DOMAIN configured /\ configured[n] # NoCheck)
        <3>1. n \notin DOMAIN cancels
            BY <2>1, <2>3 DEF Inv, ChecksInv
        <3> QED
            BY <2>3, <3>1 DEF Inv, ChecksInv
    <2> QED
        BY <2>2, <2>3
<1> QED
    BY <1>1, Invariant, PTL
=============================================================================
